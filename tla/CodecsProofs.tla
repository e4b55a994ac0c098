---------------------------- MODULE CodecsProofs ----------------------------
(***************************************************************************)
(* Proofs about the codecs.  First the parts: for every value, every unit  *)
(* and every text, what a builder writes into a field or an ending, and    *)
(* the parser of the same kind reads.  Then whole frames: fields that      *)
(* share bytes, payloads of other units, lists of texts.  Where the fields *)
(* of a layout sit is constant; the proofs use LayoutsAssumption, which    *)
(* TLC evaluates for every layout.                                         *)
(***************************************************************************)
EXTENDS Codecs, SequenceTheorems, WellFoundedInduction, TLAPS

-----------------------------------------------------------------------------
(***************************************************************************)
(* Division.                                                               *)
(***************************************************************************)
LEMMA Division ==
  ASSUME NEW a \in Int, NEW s \in Nat \ {0}
  PROVE  a \div s \in Int /\ s * (a \div s) <= a /\ a < s * (a \div s) + s
OBVIOUS

LEMMA Remainder ==
  ASSUME NEW a \in Int, NEW s \in Nat \ {0}, a % s = 0
  PROVE  a = s * (a \div s)
OBVIOUS

LEMMA Half ==
  ASSUME NEW s \in Nat \ {0}
  PROVE  s \div 2 \in Nat /\ 2 * (s \div 2) <= s /\ s <= 2 * (s \div 2) + 1
OBVIOUS

LEMMA SmallIsItself ==
  ASSUME NEW n \in Nat \ {0}, NEW v \in 0..(n - 1)
  PROVE  v % n = v
OBVIOUS

LEMMA NegativeWraps ==
  ASSUME NEW n \in Nat \ {0}, NEW v \in (-n)..(-1)
  PROVE  v % n = v + n
OBVIOUS

\* Multiples of s keep the order of the factors, at least s apart.
LEMMA Multiples ==
  ASSUME NEW s \in Nat \ {0}, NEW a \in Int, NEW b \in Int, a < b
  PROVE  s * a + s <= s * b
<1>1. b - a \in Nat \ {0} /\ s * (b - a) >= s
  OBVIOUS
<1>2. s * (b - a) = s * b - s * a
  OBVIOUS
<1> QED
  BY <1>1, <1>2

LEMMA MultiplesInOrder ==
  ASSUME NEW s \in Nat \ {0}, NEW a \in Int, NEW b \in Int, a <= b
  PROVE  s * a <= s * b
<1>1. CASE a = b
  BY <1>1
<1>2. CASE a < b
  BY <1>2, Multiples
<1> QED
  BY <1>1, <1>2

LEMMA DistanceIsNatural ==
  ASSUME NEW a \in Int, NEW b \in Int
  PROVE  Distance(a, b) \in Nat
BY DEF Distance

-----------------------------------------------------------------------------
(***************************************************************************)
(* Numbers.                                                                *)
(***************************************************************************)

\* A number that the builder takes and the field has room for is the number
\* that is read.
THEOREM NumbersArrive ==
  ASSUME NEW name, NEW at, NEW lo, NEW size \in Nat \ {0}, NEW takes \in SUBSET Int,
         NEW v \in takes, Kept(Number(name, at, lo, size, takes), v)
  PROVE  LET f == Number(name, at, lo, size, takes)
         IN  ToBits(f, v) \in f.known /\ FromBits(f, ToBits(f, v)) = v
<1> DEFINE f == Number(name, at, lo, size, takes)
<1>1. f.kind = "number" /\ f.size = size /\ f.known = 0..(size - 1)
  BY DEF Number
<1> HIDE DEF f
<1>2. v \in 0..(size - 1)
  BY <1>1 DEF Kept, f
<1>3. ToBits(f, v) = v
  BY <1>1, <1>2, SmallIsItself DEF ToBits
<1>4. FromBits(f, v) = v
  BY <1>1 DEF FromBits
<1> QED
  BY <1>1, <1>2, <1>3, <1>4 DEF f

Clamp(n, least, most) == IF n < least THEN least ELSE IF n > most THEN most ELSE n

Nearest(v, step) == (v + step \div 2) \div step

\* The sign that was folded into the byte is unfolded.
LEMMA UnitsComeBack ==
  ASSUME NEW size, NEW least, NEW most, Roomy(size, least, most), NEW q \in least..most
  PROVE  LET b == q % size
         IN  b \in 0..(size - 1) /\ q = (IF least < 0 /\ b > most THEN b - size ELSE b)
<1>1. CASE q >= 0
  <2>1. q % size = q
    BY <1>1, SmallIsItself DEF Roomy
  <2> QED
    BY <1>1, <2>1 DEF Roomy
<1>2. CASE q < 0
  <2>1. q % size = q + size
    BY <1>2, NegativeWraps DEF Roomy
  <2> QED
    BY <1>2, <2>1 DEF Roomy
<1> QED
  BY <1>1, <1>2 DEF Roomy

IsRounded(f) == f.kind = "rounded" /\ f.step \in Nat \ {0} /\ Roomy(f.size, f.least, f.most)

LEMMA RoundedReads ==
  ASSUME NEW f, IsRounded(f), NEW v \in Int
  PROVE  /\ ToBits(f, v) \in 0..(f.size - 1)
         /\ FromBits(f, ToBits(f, v)) = f.step * Clamp(Nearest(v, f.step), f.least, f.most)
<1> DEFINE q == Clamp(Nearest(v, f.step), f.least, f.most)
<1>1. q \in f.least..f.most
  BY Half, Division DEF Clamp, Nearest, Roomy, IsRounded
<1>2. ToBits(f, v) = q % f.size
  BY DEF ToBits, Clamp, Nearest, IsRounded
<1> HIDE DEF q
<1>3. \A b : FromBits(f, b) = f.step * (IF f.least < 0 /\ b > f.most THEN b - f.size ELSE b)
  BY DEF FromBits, IsRounded
<1>4. FromBits(f, q % f.size) = f.step * q
  BY <1>1, <1>3, UnitsComeBack DEF IsRounded
<1>5. q % f.size \in 0..(f.size - 1)
  BY <1>1, UnitsComeBack DEF IsRounded
<1> QED
  BY <1>2, <1>4, <1>5 DEF q

\* No multiple of the step between the ends is nearer.
LEMMA ClampIsNearest ==
  ASSUME NEW step \in Nat \ {0}, NEW least \in Int, NEW most \in Int, least <= most,
         NEW v \in Int, NEW k \in least..most
  PROVE  Distance(step * Clamp(Nearest(v, step), least, most), v) <= Distance(step * k, v)
<1> DEFINE u == Nearest(v, step)
           h == step \div 2
<1>1. /\ h \in Nat /\ 2 * h <= step /\ step <= 2 * h + 1
      /\ u \in Int /\ step * u <= v + h /\ v + h < step * u + step
  BY Half, Division DEF Nearest
<1> HIDE DEF u, h
<1>2. /\ step * u \in Int /\ step * k \in Int /\ step * least \in Int /\ step * most \in Int
      /\ k \in Int
  BY <1>1
<1>3. CASE u < least
  <2>1. Clamp(u, least, most) = least
    BY <1>3 DEF Clamp
  <2>2. step * u + step <= step * least /\ step * least <= step * k
    BY <1>1, <1>3, Multiples, MultiplesInOrder
  <2> HIDE DEF Clamp
  <2> QED
    BY <1>1, <1>2, <2>1, <2>2 DEF Distance, u
<1>4. CASE u > most
  <2>1. Clamp(u, least, most) = most
    BY <1>1, <1>4 DEF Clamp
  <2>2. step * most + step <= step * u /\ step * k <= step * most
    BY <1>1, <1>4, Multiples, MultiplesInOrder
  <2> QED
    BY <1>1, <1>2, <2>1, <2>2 DEF Distance, u
<1>5. CASE u \in least..most
  <2>1. Clamp(u, least, most) = u
    BY <1>5 DEF Clamp
  <2>2. k < u => step * k + step <= step * u
    BY <1>1, <1>2, Multiples
  <2>3. u < k => step * u + step <= step * k
    BY <1>1, <1>2, Multiples
  <2>4. CASE k < u
    BY <1>1, <1>2, <2>1, <2>2, <2>4 DEF Distance, u
  <2>5. CASE u < k
    BY <1>1, <1>2, <2>1, <2>3, <2>5 DEF Distance, u
  <2>6. CASE u = k
    BY <1>1, <1>2, <2>1, <2>6 DEF Distance, u
  <2> QED
    BY <1>1, <1>2, <2>4, <2>5, <2>6
<1> QED
  BY <1>1, <1>3, <1>4, <1>5

\* What RoundedToNearest says of the neighbours holds of every value that the
\* field can express: none is nearer to the argument than the value read, and
\* an argument that can be expressed is read as it was given.
\* (ike/temperature.ts:20-28, ike/speed-rpm.ts:41-42.)
THEOREM RoundedAreNearest ==
  ASSUME NEW f, IsRounded(f), NEW v \in Int, NEW w \in Int, Kept(f, w)
  PROVE  LET got == FromBits(f, ToBits(f, v))
         IN  Distance(got, v) <= Distance(w, v) /\ (w = v => got = v)
<1> DEFINE got == FromBits(f, ToBits(f, v))
           q   == Clamp(Nearest(v, f.step), f.least, f.most)
           k   == w \div f.step
<1>0. f.step \in Nat \ {0} /\ f.least \in Int /\ f.most \in Int /\ f.least <= f.most
  BY DEF IsRounded, Roomy
<1>1. got = f.step * q
  BY RoundedReads
<1>2. w % f.step = 0 /\ k \in f.least..f.most
  BY DEF Kept, IsRounded
<1>3. w = f.step * k
  BY <1>0, <1>2, Remainder
<1>4. q \in Int
  BY <1>0, Half, Division DEF Clamp, Nearest
<1> HIDE DEF got, q, k
<1>5. Distance(got, v) <= Distance(w, v)
  BY <1>0, <1>1, <1>2, <1>3, ClampIsNearest DEF q
<1>6. got \in Int
  BY <1>0, <1>1, <1>4
<1>7. w = v => got = v
  BY <1>5, <1>6 DEF Distance
<1> QED
  BY <1>5, <1>7 DEF got

-----------------------------------------------------------------------------
(***************************************************************************)
(* Codes.                                                                  *)
(***************************************************************************)
\* A name out of a table without duplicates is the name that is read, also
\* where the bits outside of the table mean something else.
THEOREM NamesArrive ==
  ASSUME NEW name, NEW at, NEW lo, NEW size \in Nat \ {0}, NEW table, NEW other,
         Range(table) \subseteq 0..(size - 1),
         \A v, w \in DOMAIN table : table[v] = table[w] => v = w,
         NEW v \in DOMAIN table
  PROVE  LET f == Named(name, at, lo, size, table)
             g == OrElse(f, other)
         IN  /\ ToBits(f, v) \in f.known /\ FromBits(f, ToBits(f, v)) = v
             /\ ToBits(g, v) \in g.known /\ FromBits(g, ToBits(g, v)) = v
<1> DEFINE f == Named(name, at, lo, size, table)
           g == OrElse(f, other)
           back == [b \in Range(table) |-> CHOOSE x \in DOMAIN table : table[x] = b]
<1>1. /\ f.kind = "coded" /\ f.to = table /\ f.from = back /\ f.known = Range(table)
      /\ f.size = size
  BY DEF Named, Coded
<1>2. /\ g.kind = "coded" /\ g.to = table /\ g.known = 0..(size - 1)
      /\ g.from = [b \in 0..(size - 1) |-> IF b \in Range(table) THEN back[b] ELSE other]
  BY DEF Named, Coded, OrElse
<1> HIDE DEF f, g
<1>3. table[v] \in Range(table)
  BY DEF Range
<1>4. back[table[v]] = v
  BY <1>3
<1> HIDE DEF back
<1>5. ToBits(f, v) = table[v] /\ ToBits(g, v) = table[v]
  BY <1>1, <1>2 DEF ToBits
<1>6. FromBits(f, table[v]) = v
  BY <1>1, <1>4 DEF FromBits
<1>7. FromBits(g, table[v]) = v
  BY <1>2, <1>3, <1>4 DEF FromBits
<1> QED
  BY <1>1, <1>2, <1>3, <1>5, <1>6, <1>7 DEF f, g

\* Two digits, each in a half of the byte.
LEMMA Halves ==
  ASSUME NEW v \in 0..99
  PROVE  BCD(v) \in 0..255 /\ 10 * (BCD(v) \div 16) + (BCD(v) % 16) = v
BY DEF BCD

LEMMA HalvesFit ==
  ASSUME NEW v \in 0..99
  PROVE  BCD(v) \in Octets
BY DEF BCD, Octets

\* A number of two digits that the builder takes is the number that is read.
\* (nav/gps-time.ts, ike/numeric.ts: binary coded decimals.)
THEOREM DecimalsArrive ==
  ASSUME NEW name, NEW at, NEW valid \in SUBSET (0..99), NEW v \in valid
  PROVE  LET f == Decimal(name, at, valid)
         IN  /\ ToBits(f, v) \in f.known \cap Octets
             /\ FromBits(f, ToBits(f, v)) = v
<1> DEFINE f == Decimal(name, at, valid)
<1>1. /\ f.kind = "coded" /\ f.known = {BCD(x) : x \in valid}
      /\ f.to = [x \in valid |-> BCD(x)]
      /\ f.from = [b \in {BCD(x) : x \in valid} |-> 10 * (b \div 16) + (b % 16)]
  BY DEF Decimal, Coded
<1> HIDE DEF f
<1>2. ToBits(f, v) = BCD(v)
  BY <1>1 DEF ToBits
<1>3. FromBits(f, BCD(v)) = 10 * (BCD(v) \div 16) + (BCD(v) % 16)
  BY <1>1 DEF FromBits
<1>4. v \in 0..99
  OBVIOUS
<1>5. BCD(v) \in f.known
  BY <1>1
<1>6. ToBits(f, v) \in f.known \cap Octets
  <2>1. BCD(v) \in Octets
    BY <1>4, HalvesFit, Zenon
  <2> QED
    BY <1>2, <1>5, <2>1, Zenon
<1>7. FromBits(f, ToBits(f, v)) = v
  BY <1>2, <1>3, <1>4, Halves
<1> QED
  BY <1>6, <1>7 DEF f

-----------------------------------------------------------------------------
(***************************************************************************)
(* Texts.                                                                  *)
(***************************************************************************)
\* Sequences that agree as far as both go.
Alike(s, t) == \A i \in DOMAIN s \cap DOMAIN t : s[i] = t[i]

LEMMA AlikeIsPrefix ==
  ASSUME NEW s \in Seq(Int), NEW t \in Seq(Int), Alike(s, t), Len(s) <= Len(t)
  PROVE  IsPrefix(s, t)
<1>1. /\ SubSeq(s, 1, Len(s)) \in Seq(Int) /\ Len(SubSeq(s, 1, Len(s))) = Len(s)
      /\ SubSeq(t, 1, Len(s)) \in Seq(Int) /\ Len(SubSeq(t, 1, Len(s))) = Len(s)
  OBVIOUS
<1>2. \A i \in 1..Len(s) : SubSeq(s, 1, Len(s))[i] = SubSeq(t, 1, Len(s))[i]
  BY DEF Alike
<1> QED
  BY <1>1, <1>2, SMTT(30) DEF IsPrefix

\* A set of positions has a first and a last.
LEMMA LastPosition ==
  ASSUME NEW n \in Nat, NEW I \in SUBSET (1..n), I # {}
  PROVE  Max(I) \in I /\ \A i \in I : i <= Max(I)
<1> DEFINE R == {p \in Nat \X Nat : p[1] < p[2]}
           J == {j \in 0..n : n - j \in I}
<1>1. IsWellFoundedOn(R, Nat)
  BY NatLessThanWellFounded DEF OpToRel
<1>2. J \subseteq Nat /\ J # {}
  <2>1. PICK i \in I : TRUE
    OBVIOUS
  <2>2. n - i \in 0..n /\ n - (n - i) = i
    BY <2>1
  <2>3. n - i \in J
    BY <2>2
  <2>4. J \subseteq Nat
    OBVIOUS
  <2> QED
    BY <2>3, <2>4
<1>3. PICK j \in J : \A k \in J : ~ (<<k, j>> \in R)
  <2> HIDE DEF R, J
  <2> QED
    BY <1>1, <1>2, WFMin
<1>4. ASSUME NEW k \in J PROVE j <= k
  <2>1. j \in Nat /\ k \in Nat
    BY <1>2
  <2>2. k < j => <<k, j>> \in R
    BY <2>1
  <2> HIDE DEF R, J
  <2> QED
    BY <1>3, <2>1, <2>2
<1>5. n - j \in I /\ j \in 0..n
  BY <1>3
<1>6. ASSUME NEW i \in I PROVE i <= n - j
  <2>1. n - i \in 0..n /\ n - (n - i) = i
    OBVIOUS
  <2>2. n - i \in J
    BY <2>1
  <2>3. j <= n - i
    BY <1>4, <2>2
  <2> QED
    BY <1>5, <2>3
<1>7. \E x \in I : \A y \in I : x >= y
  <2>1. \A y \in I : n - j >= y
    BY <1>5, <1>6
  <2> QED
    BY <1>5, <2>1
<1> QED
  BY <1>7 DEF Max

LEMMA FirstPosition ==
  ASSUME NEW n \in Nat, NEW I \in SUBSET (1..n), I # {}
  PROVE  Min(I) \in I /\ \A i \in I : Min(I) <= i
<1> DEFINE J == {j \in 1..(n + 1) : (n + 1) - j \in I}
           m == (n + 1) - Max(J)
<1>1. \A i \in I : (n + 1) - i \in J
  <2> TAKE i \in I
  <2>1. (n + 1) - i \in 1..(n + 1) /\ (n + 1) - ((n + 1) - i) = i
    OBVIOUS
  <2> QED
    BY <2>1
<1>2. J \in SUBSET (1..(n + 1)) /\ J # {}
  BY <1>1
<1>3. Max(J) \in J /\ \A j \in J : j <= Max(J)
  <2>1. n + 1 \in Nat
    OBVIOUS
  <2> HIDE DEF J
  <2> QED
    BY <1>2, <2>1, LastPosition
<1>4. m \in I
  BY <1>3
<1>5. \A i \in I : m <= i
  <2> TAKE i \in I
  <2> HIDE DEF J
  <2>1. (n + 1) - i <= Max(J)
    BY <1>1, <1>3
  <2>2. Max(J) \in 1..(n + 1)
    BY <1>2, <1>3
  <2>3. i \in 1..n
    OBVIOUS
  <2> QED
    BY <2>1, <2>2, <2>3
<1> HIDE DEF m
<1> QED
  BY <1>4, <1>5 DEF Min

\* The first n characters, then the padding.
Holds(written, n, t, text) ==
  /\ n \in 0..Len(text) /\ n <= t.longest
  /\ n = Len(text) \/ (n < Len(text) /\ n = t.longest /\ t.cut)
  /\ written \in Seq(Octets)
  /\ Len(written) = IF t.room > n THEN t.room ELSE n
  /\ \A i \in 1..n : written[i] = text[i] % 256
  /\ \A i \in (n + 1)..Len(written) : written[i] = t.pad

LEMMA SameBounds ==
  ASSUME NEW a \in Nat, NEW b \in Nat, 1..a = 1..b
  PROVE  a = b
<1>1. a \in 1..b \/ a = 0
  OBVIOUS
<1>2. b \in 1..a \/ b = 0
  OBVIOUS
<1> QED
  BY <1>1, <1>2

LEMMA LowBytes ==
  ASSUME NEW short \in Seq(Nat)
  PROVE  LET chars == [i \in DOMAIN short |-> short[i] % 256]
         IN  /\ chars \in Seq(Octets) /\ Len(chars) = Len(short)
             /\ \A i \in 1..Len(short) : chars[i] = short[i] % 256
<1> DEFINE chars == [i \in DOMAIN short |-> short[i] % 256]
<1>1. DOMAIN short = 1..Len(short) /\ Len(short) \in Nat
  OBVIOUS
<1>2. ASSUME NEW i \in 1..Len(short) PROVE short[i] % 256 \in Octets
  <2>1. short[i] \in Nat
    OBVIOUS
  <2>2. \A x \in Nat : x % 256 \in Octets
    BY DEF Octets
  <2> QED
    BY <2>1, <2>2
<1>3. chars \in [1..Len(short) -> Octets]
  BY <1>1, <1>2
<1>4. chars \in Seq(Octets)
  BY <1>1, <1>3, SeqDef
<1>5. DOMAIN chars = 1..Len(short)
  BY <1>3
<1>6. Len(chars) \in Nat /\ DOMAIN chars = 1..Len(chars)
  BY <1>4, LenProperties
<1>7. Len(chars) = Len(short)
  BY <1>1, <1>5, <1>6, SameBounds
<1> QED
  BY <1>1, <1>4, <1>7

Padding(n, room, pad) == [i \in 1..(room - n) |-> pad]

LEMMA Paddings ==
  ASSUME NEW n \in Nat, NEW room \in Nat, NEW pad \in Octets
  PROVE  /\ Padding(n, room, pad) \in Seq(Octets)
         /\ Len(Padding(n, room, pad)) = IF room > n THEN room - n ELSE 0
         /\ \A i \in 1..Len(Padding(n, room, pad)) : Padding(n, room, pad)[i] = pad
<1> DEFINE padding == Padding(n, room, pad)
           k == IF room > n THEN room - n ELSE 0
<1>1. k \in Nat /\ 1..(room - n) = 1..k
  OBVIOUS
<1> HIDE DEF k
<1>2. padding \in [1..k -> Octets]
  BY <1>1 DEF Padding
<1>3. padding \in Seq(Octets) /\ DOMAIN padding = 1..k
  BY <1>1, <1>2, SeqDef
<1>4. Len(padding) \in Nat /\ DOMAIN padding = 1..Len(padding)
  BY <1>3, LenProperties
<1>5. Len(padding) = k
  BY <1>1, <1>3, <1>4, SameBounds
<1>6. \A i \in 1..k : padding[i] = pad
  BY <1>1 DEF Padding
<1> QED
  BY <1>3, <1>5, <1>6 DEF k

LEMMA CutText ==
  ASSUME NEW t, Endings(t), NEW text \in Seq(Nat)
  PROVE  /\ Cut(t, text) \in Seq(Nat) /\ Len(Cut(t, text)) \in 0..Len(text)
         /\ \/ Len(Cut(t, text)) = Len(text)
            \/ Len(Cut(t, text)) < Len(text) /\ Len(Cut(t, text)) = t.longest /\ t.cut
         /\ \A i \in 1..Len(Cut(t, text)) : Cut(t, text)[i] = text[i]
<1>0. t.longest \in Nat
  BY DEF Endings
<1>1. CASE t.cut /\ Len(text) > t.longest
  <2>1. Cut(t, text) = SubSeq(text, 1, t.longest)
    BY <1>1 DEF Cut
  <2> QED
    BY <1>0, <1>1, <2>1
<1>2. CASE ~ (t.cut /\ Len(text) > t.longest)
  <2>1. Cut(t, text) = text
    BY <1>2 DEF Cut
  <2> QED
    BY <2>1
<1> QED
  BY <1>1, <1>2

LEMMA WriterHolds ==
  ASSUME NEW t, Endings(t), NEW text \in Seq(Nat), NEW written \in WriteText(t, text)
  PROVE  \E n \in Nat : Holds(written, n, t, text)
<1> DEFINE short == Cut(t, text)
           n == Len(short)
           chars == [i \in DOMAIN short |-> short[i] % 256]
           padding == Padding(n, t.room, t.pad)
<1>0. t.longest \in Nat /\ t.room \in Nat /\ t.pad \in Octets
  BY DEF Endings
<1>1. written = chars \o padding /\ ~ n > t.longest
  BY DEF WriteText, Padding
<1>2. /\ short \in Seq(Nat) /\ n \in 0..Len(text)
      /\ n = Len(text) \/ (n < Len(text) /\ n = t.longest /\ t.cut)
      /\ \A i \in 1..n : short[i] = text[i]
  BY CutText
<1> HIDE DEF short
<1>3. chars \in Seq(Octets) /\ Len(chars) = n /\ \A i \in 1..n : chars[i] = short[i] % 256
  BY <1>2, LowBytes
<1>4. n \in Nat /\ Len(text) \in Nat
  BY <1>2
<1> HIDE DEF n
<1>5. /\ padding \in Seq(Octets)
      /\ Len(padding) = IF t.room > n THEN t.room - n ELSE 0
      /\ \A i \in 1..Len(padding) : padding[i] = t.pad
  BY <1>0, <1>4, Paddings
<1> HIDE DEF chars, padding
<1>6. /\ written \in Seq(Octets) /\ Len(written) = n + Len(padding)
      /\ \A i \in 1..(n + Len(padding)) :
            written[i] = IF i <= n THEN chars[i] ELSE padding[i - n]
  <2>1. /\ chars \o padding \in Seq(Octets)
        /\ Len(chars \o padding) = Len(chars) + Len(padding)
        /\ \A i \in 1..(Len(chars) + Len(padding)) :
             (chars \o padding)[i] = IF i <= Len(chars) THEN chars[i] ELSE padding[i - Len(chars)]
    <3>1. chars \in Seq(Octets) /\ padding \in Seq(Octets)
      BY <1>3, <1>5
    <3> QED
      BY <3>1, ConcatProperties, Zenon
  <2> QED
    BY <1>1, <1>3, <2>1
<1>7. Len(written) = IF t.room > n THEN t.room ELSE n
  <2>1. CASE t.room > n
    BY <1>0, <1>4, <1>5, <1>6, <2>1
  <2>2. CASE ~ t.room > n
    BY <1>0, <1>4, <1>5, <1>6, <2>2
  <2> QED
    BY <2>1, <2>2
<1>8. ASSUME NEW i \in 1..n PROVE written[i] = text[i] % 256
  <2>1. i \in 1..(n + Len(padding)) /\ i <= n
    BY <1>0, <1>4, <1>5
  <2> QED
    BY <1>2, <1>3, <1>6, <2>1
<1>9. ASSUME NEW i \in (n + 1)..Len(written) PROVE written[i] = t.pad
  <2>1. i \in 1..(n + Len(padding)) /\ ~ (i <= n) /\ i - n \in 1..Len(padding)
    BY <1>0, <1>4, <1>5, <1>6, SMTT(30)
  <2> QED
    BY <1>5, <1>6, <2>1
<1>10. n <= t.longest
  BY <1>0, <1>1, <1>4
<1> QED
  BY <1>2, <1>4, <1>6, <1>7, <1>8, <1>9, <1>10 DEF Holds

LEMMA TailIsBack ==
  ASSUME NEW D, NEW head \in Seq(D), NEW tail \in Seq(D)
  PROVE  SubSeq(head \o tail, Len(head) + 1, Len(head \o tail)) = tail
<1> DEFINE p == head \o tail
           s == SubSeq(p, Len(head) + 1, Len(p))
<1>1. p \in Seq(D) /\ Len(p) = Len(head) + Len(tail)
  OBVIOUS
<1>2. \A i \in 1..Len(tail) : p[Len(head) + i] = tail[i]
  OBVIOUS
<1> HIDE DEF p
<1>3. s \in Seq(D) /\ Len(s) = Len(tail)
  BY <1>1
<1>4. \A i \in 1..Len(tail) : s[i] = p[Len(head) + i]
  BY <1>1
<1> HIDE DEF s
<1>5. s = tail
  BY <1>2, <1>3, <1>4
<1> QED
  BY <1>5 DEF p, s

\* How many bytes are taken for the text.
Taken(t, bytes) ==
  CASE t.taken = "all"     -> Len(bytes)
    [] t.taken = "trimmed" -> SelectLastInSeq(bytes, LAMBDA b : b # 32)
    [] t.taken = "terminated"  -> IF Contains(bytes, 0)
                              THEN SelectInSeq(bytes, LAMBDA b : b = 0) - 1 ELSE Len(bytes)

LEMMA ReaderTakes ==
  ASSUME NEW t, Endings(t), NEW head \in Seq(Octets), Len(head) = t.at,
         NEW bytes \in Seq(Octets)
  PROVE  ReadText(t, head \o bytes) = SubSeq(bytes, 1, Taken(t, bytes))
<1>1. SubSeq(head \o bytes, t.at + 1, Len(head \o bytes)) = bytes
  BY TailIsBack
<1>2. SubSeq(bytes, 1, Len(bytes)) = bytes
  OBVIOUS
<1>3. CASE t.taken = "all"
  BY <1>1, <1>2, <1>3 DEF ReadText, Taken
<1>4. CASE t.taken = "trimmed"
  BY <1>1, <1>4 DEF ReadText, Taken
<1>5. CASE t.taken = "terminated"
  BY <1>1, <1>2, <1>5 DEF ReadText, Taken
<1> QED
  BY <1>3, <1>4, <1>5 DEF Endings

Sent(text) == [i \in DOMAIN text |-> text[i] % 256]

Plain(text) == \A i \in DOMAIN text : text[i] % 256 \in 33..127

LEMMA PrintableIsVisible ==
  ASSUME NEW c \in 33..127
  PROVE  c # 32 /\ c # 0
OBVIOUS

LEMMA BytesAreNumbers ==
  ASSUME NEW s \in Seq(Octets)
  PROVE  s \in Seq(Int)
<1>1. Octets \subseteq Int
  BY DEF Octets
<1> QED
  BY <1>1, SeqMonotonic, Zenon

\* No more is taken than the text, but for padding that is taken with "all",
\* and no less of printable characters that fit.
TakenIsFair(t, text, bytes) ==
  /\ Taken(t, bytes) \in 0..Len(bytes)
  /\ Taken(t, bytes) > Len(text) => t.taken = "all" /\ t.room = Taken(t, bytes)
  /\ Plain(text) /\ Len(text) <= t.longest => Taken(t, bytes) >= Len(text)

LEMMA AllIsFair ==
  ASSUME NEW t, Endings(t), NEW text \in Seq(Nat), NEW n \in Nat, NEW bytes,
         Holds(bytes, n, t, text), t.taken = "all"
  PROVE  TakenIsFair(t, text, bytes)
<1>1. Taken(t, bytes) = Len(bytes)
  BY DEF Taken
<1>2. Len(text) <= t.longest => n = Len(text)
  BY DEF Holds, Endings
<1> QED
  BY <1>1, <1>2 DEF TakenIsFair, Holds, Endings

LEMMA TrimmedIsFair ==
  ASSUME NEW t, Endings(t), NEW text \in Seq(Nat), NEW n \in Nat, NEW bytes,
         Holds(bytes, n, t, text), t.taken = "trimmed"
  PROVE  TakenIsFair(t, text, bytes)
<1> DEFINE I == {i \in 1..Len(bytes) : bytes[i] # 32}
           k == Taken(t, bytes)
<1>1. k = IF I # {} THEN Max(I) ELSE 0
  BY DEF Taken, SelectLastInSeq
<1>2. /\ Len(bytes) \in Nat /\ Len(text) \in Nat /\ n <= Len(text) /\ n <= Len(bytes)
      /\ Len(text) <= t.longest => n = Len(text)
  BY DEF Holds, Endings
<1>3. I \in SUBSET (1..Len(bytes)) /\ \A i \in 1..Len(bytes) : bytes[i] # 32 => i \in I
  OBVIOUS
<1>4. \A i \in I : bytes[i] # 32
  OBVIOUS
<1> HIDE DEF I, k
<1>5. I # {} => Max(I) \in I /\ \A i \in I : i <= Max(I)
  BY <1>2, <1>3, LastPosition
<1>6. ASSUME NEW i \in I PROVE i <= n
  <2>1. i \in 1..Len(bytes)
    BY <1>3
  <2>2. CASE i > n
    <3>1. i \in (n + 1)..Len(bytes) /\ Len(bytes) # n
      BY <1>2, <2>1, <2>2
    <3>2. bytes[i] = t.pad /\ t.room > 0
      BY <1>2, <3>1 DEF Holds, Endings
    <3> QED
      BY <1>4, <3>2 DEF Endings
  <2> QED
    BY <1>2, <2>1, <2>2
<1>7. ASSUME Plain(text), Len(text) = n, n > 0 PROVE n \in I
  <2>1. n \in 1..n /\ n \in DOMAIN text /\ n \in 1..Len(bytes)
    BY <1>2, <1>7
  <2>2. bytes[n] = text[n] % 256
    BY <2>1 DEF Holds
  <2>3. text[n] % 256 \in 33..127
    BY <1>7, <2>1 DEF Plain
  <2>4. bytes[n] # 32
    BY <2>2, <2>3, PrintableIsVisible, Zenon
  <2> QED
    BY <1>3, <2>1, <2>4
<1>8. k \in 0..Len(bytes) /\ k <= Len(text)
  <2>1. CASE I = {}
    BY <1>1, <1>2, <2>1
  <2>2. CASE I # {}
    <3>1. k \in I
      BY <1>1, <1>5, <2>2
    <3>2. k \in 1..Len(bytes) /\ k <= n
      BY <1>3, <1>6, <3>1
    <3> QED
      BY <1>2, <3>2
  <2> QED
    BY <2>1, <2>2
<1>9. ASSUME Plain(text), Len(text) <= t.longest PROVE k >= Len(text)
  <2>1. Len(text) = n
    BY <1>2, <1>9
  <2>2. CASE n = 0
    BY <1>8, <2>1, <2>2
  <2>3. CASE n > 0
    <3>1. n \in I
      BY <1>7, <1>9, <2>1, <2>3
    <3>2. k = Max(I) /\ n <= Max(I)
      BY <1>1, <1>5, <3>1
    <3> QED
      BY <2>1, <3>2
  <2> QED
    BY <1>2, <2>1, <2>2, <2>3
<1>10. ~ (k > Len(text))
  BY <1>2, <1>8
<1> QED
  BY <1>8, <1>9, <1>10 DEF TakenIsFair, k

LEMMA CutAtNulIsFair ==
  ASSUME NEW t, Endings(t), NEW text \in Seq(Nat), NEW n \in Nat, NEW bytes,
         Holds(bytes, n, t, text), t.taken = "terminated"
  PROVE  TakenIsFair(t, text, bytes)
<1> DEFINE I == {i \in 1..Len(bytes) : bytes[i] = 0}
           k == Taken(t, bytes)
<1>0. Contains(bytes, 0) <=> I # {}
  BY DEF Contains
<1>1. k = IF I # {} THEN Min(I) - 1 ELSE Len(bytes)
  BY <1>0 DEF Taken, SelectInSeq
<1>2. /\ Len(bytes) \in Nat /\ Len(text) \in Nat /\ n <= Len(text) /\ n <= Len(bytes)
      /\ Len(text) <= t.longest => n = Len(text)
  BY DEF Holds, Endings
<1>3. I \in SUBSET (1..Len(bytes)) /\ \A i \in 1..Len(bytes) : bytes[i] = 0 => i \in I
  OBVIOUS
<1>4. \A i \in I : bytes[i] = 0
  OBVIOUS
<1> HIDE DEF I, k
<1>5. I # {} => Min(I) \in I /\ \A i \in I : Min(I) <= i
  BY <1>2, <1>3, FirstPosition
<1>6. ASSUME n < Len(bytes) PROVE n + 1 \in I
  <2>1. n + 1 \in (n + 1)..Len(bytes) /\ n + 1 \in 1..Len(bytes) /\ Len(bytes) # n
    BY <1>2, <1>6
  <2>2. bytes[n + 1] = t.pad /\ t.room > 0
    BY <1>2, <2>1 DEF Holds, Endings
  <2>3. t.pad = 0
    BY <2>2 DEF Endings
  <2> QED
    BY <1>3, <2>1, <2>2, <2>3
<1>7. ASSUME Plain(text), NEW i \in I PROVE i > n
  <2>1. i \in 1..Len(bytes) /\ bytes[i] = 0
    BY <1>3, <1>4
  <2>2. CASE i <= n
    <3>1. i \in 1..n /\ i \in DOMAIN text
      BY <1>2, <2>1, <2>2
    <3>2. bytes[i] = text[i] % 256
      BY <3>1 DEF Holds
    <3>3. text[i] % 256 \in 33..127
      BY <1>7, <3>1 DEF Plain
    <3>4. bytes[i] # 0
      BY <3>2, <3>3, PrintableIsVisible, Zenon
    <3> QED
      BY <2>1, <3>4
  <2> QED
    BY <1>2, <2>1, <2>2
<1>8. CASE I = {}
  <2>1. k = Len(bytes) /\ Len(bytes) = n
    BY <1>1, <1>2, <1>6, <1>8
  <2> QED
    BY <1>2, <2>1 DEF TakenIsFair, k
<1>9. CASE I # {}
  <2>1. k + 1 \in I /\ k \in Int /\ \A i \in I : k + 1 <= i
    <3>1. Min(I) \in 1..Len(bytes)
      BY <1>3, <1>5, <1>9
    <3>2. k + 1 = Min(I) /\ k \in Int
      BY <1>1, <1>9, <3>1
    <3> QED
      BY <1>5, <1>9, <3>2
  <2>2. k + 1 \in 1..Len(bytes)
    BY <1>3, <2>1
  <2>3. k <= n
    <3>1. CASE n < Len(bytes)
      BY <1>6, <2>1, <3>1
    <3>2. CASE ~ (n < Len(bytes))
      BY <1>2, <2>1, <2>2, <3>2
    <3> QED
      BY <3>1, <3>2
  <2>4. Plain(text) => k >= n
    BY <1>7, <2>1
  <2> QED
    BY <1>2, <2>1, <2>2, <2>3, <2>4 DEF TakenIsFair, k
<1> QED
  BY <1>8, <1>9

\* OnlyEndsAreLost for every text and every ending: what is read is the text or
\* its beginning, or begins with it; printable characters that fit arrive; and
\* only padding that is not told from the text is added to it.
\* (ike/ccm-text.ts:80-81, ike/obc-text.ts:48-49, tel/direct-dial.ts:33-35.)
THEOREM TextsLoseOnlyTheirEnd ==
  ASSUME NEW t, Endings(t), NEW text \in Seq(Nat), NEW written \in WriteText(t, text),
         NEW head \in Seq(Octets), Len(head) = t.at
  PROVE  LET got == ReadText(t, head \o written)
         IN  /\ IsPrefix(got, Sent(text)) \/ IsPrefix(Sent(text), got)
             /\ Plain(text) /\ Len(text) <= t.longest => IsPrefix(Sent(text), got)
             /\ Len(got) > Len(text) => t.taken = "all" /\ t.room = Len(got)
<1> DEFINE got == ReadText(t, head \o written)
           sent == Sent(text)
           k == Taken(t, written)
<1>1. PICK n \in Nat : Holds(written, n, t, text)
  BY WriterHolds
<1>2. written \in Seq(Octets) /\ Len(written) \in Nat /\ Len(text) \in Nat
  BY <1>1 DEF Holds
<1>3. got = SubSeq(written, 1, k)
  BY <1>2, ReaderTakes
<1>4. TakenIsFair(t, text, written)
  BY <1>1, AllIsFair, TrimmedIsFair, CutAtNulIsFair DEF Endings
<1>5. k \in 0..Len(written)
  BY <1>4 DEF TakenIsFair
<1>6. /\ sent \in Seq(Octets) /\ Len(sent) = Len(text)
      /\ \A i \in 1..Len(text) : sent[i] = text[i] % 256
  BY LowBytes DEF Sent
<1> HIDE DEF got, sent, k
<1>7. got \in Seq(Octets) /\ Len(got) = k /\ \A i \in 1..k : got[i] = written[i]
  BY <1>2, <1>3, <1>5
<1>8. Alike(got, sent)
  <2> SUFFICES ASSUME NEW i \in DOMAIN got \cap DOMAIN sent PROVE got[i] = sent[i]
    BY DEF Alike
  <2>1. i \in 1..k /\ i \in 1..Len(text)
    BY <1>5, <1>6, <1>7
  <2>2. i <= n
    <3>1. CASE n = Len(text)
      BY <2>1, <3>1
    <3>2. CASE n < Len(text) /\ n = t.longest /\ t.cut
      <4>1. Len(written) = n
        BY <1>1, <3>2 DEF Holds, Endings
      <4> QED
        BY <1>5, <2>1, <4>1
    <3> QED
      BY <1>1, <3>1, <3>2 DEF Holds
  <2> QED
    BY <1>1, <1>6, <1>7, <2>1, <2>2, SMTT(30) DEF Holds
<1>9. Alike(sent, got)
  BY <1>8 DEF Alike
<1>10. got \in Seq(Int) /\ sent \in Seq(Int)
  BY <1>6, <1>7, BytesAreNumbers
<1>11. Len(got) <= Len(sent) => IsPrefix(got, sent)
  BY <1>8, <1>10, AlikeIsPrefix
<1>12. Len(sent) <= Len(got) => IsPrefix(sent, got)
  BY <1>9, <1>10, AlikeIsPrefix
<1>13. IsPrefix(got, sent) \/ IsPrefix(sent, got)
  BY <1>2, <1>5, <1>6, <1>7, <1>11, <1>12
<1>14. Plain(text) /\ Len(text) <= t.longest => IsPrefix(sent, got)
  BY <1>4, <1>6, <1>7, <1>12 DEF TakenIsFair, k
<1>15. Len(got) > Len(text) => t.taken = "all" /\ t.room = Len(got)
  BY <1>4, <1>7 DEF TakenIsFair, k
<1> QED
  BY <1>13, <1>14, <1>15 DEF got, sent

-----------------------------------------------------------------------------
(***************************************************************************)
(* What is computed step by step along a sequence: sums, joined sequences  *)
(* and the loop of a parser.                                               *)
(***************************************************************************)
LEMMA Induction ==
  ASSUME NEW N \in Nat, NEW good, 0 \in good,
         \A n \in 0..N : n \in good /\ n < N => n + 1 \in good
  PROVE  \A n \in 0..N : n \in good
<1> DEFINE I == {i \in 1..N : i \notin good}
<1>1. CASE I = {}
  <2> TAKE n \in 0..N
  <2>1. n = 0 \/ n \in 1..N
    OBVIOUS
  <2> QED
    BY <1>1, <2>1
<1>2. CASE I # {}
  <2>1. I \in SUBSET (1..N)
    OBVIOUS
  <2>2. Min(I) \in I /\ \A i \in I : Min(I) <= i
    <3> HIDE DEF I
    <3> QED
      BY <1>2, <2>1, FirstPosition
  <2>3. Min(I) \in 1..N /\ Min(I) \notin good
    BY <2>2
  <2> DEFINE m == Min(I) - 1
  <2>4. m \in 0..N /\ m < N /\ m + 1 = Min(I)
    BY <2>3
  <2>5. m \notin good
    BY <2>3, <2>4
  <2>6. m # 0
    BY <2>5
  <2>7. m \in I
    BY <2>4, <2>5, <2>6
  <2> HIDE DEF I
  <2> QED
    BY <2>2, <2>4, <2>7
<1> QED
  BY <1>1, <1>2

\* The values f takes along s: e first, then what g makes of the last value and
\* the next element.
Runs(f, X, e, g, s) ==
  /\ f \in [0..Len(s) -> X]
  /\ f[0] = e
  /\ \A n \in 1..Len(s) : f[n] = g[<<f[n - 1], s[n]>>]

LEMMA RunExists ==
  ASSUME NEW X, NEW D, NEW e \in X, NEW g \in [X \X D -> X], NEW s \in Seq(D)
  PROVE  \E f : Runs(f, X, e, g, s)
<1> DEFINE upTo(n) ==
             \E f \in [0..n -> X] : f[0] = e /\ \A k \in 1..n : f[k] = g[<<f[k - 1], s[k]>>]
           good == {n \in Nat : upTo(n)}
<1>1. 0 \in good
  <2> DEFINE f == [k \in 0..0 |-> e]
  <2>1. f \in [0..0 -> X] /\ f[0] = e /\ \A k \in 1..0 : f[k] = g[<<f[k - 1], s[k]>>]
    OBVIOUS
  <2> QED
    BY <2>1
<1>2. ASSUME NEW n \in 0..Len(s), n \in good, n < Len(s) PROVE n + 1 \in good
  <2>1. PICK f \in [0..n -> X] : f[0] = e /\ \A k \in 1..n : f[k] = g[<<f[k - 1], s[k]>>]
    BY <1>2
  <2> DEFINE h == [k \in 0..(n + 1) |-> IF k = n + 1 THEN g[<<f[n], s[n + 1]>>] ELSE f[k]]
  <2>2. s[n + 1] \in D /\ f[n] \in X
    BY <1>2
  <2>3. h \in [0..(n + 1) -> X]
    <3>1. g[<<f[n], s[n + 1]>>] \in X
      BY <2>2
    <3>2. \A k \in 0..(n + 1) : k # n + 1 => f[k] \in X
      BY <2>1
    <3> QED
      BY <3>1, <3>2
  <2>4. h[0] = e
    BY <2>1
  <2>a. h[n + 1] = g[<<f[n], s[n + 1]>>] /\ \A k \in 0..n : h[k] = f[k]
    OBVIOUS
  <2> HIDE DEF h
  <2>5. \A k \in 1..(n + 1) : h[k] = g[<<h[k - 1], s[k]>>]
    <3> TAKE k \in 1..(n + 1)
    <3>1. CASE k = n + 1
      <4>1. k - 1 = n /\ n \in 0..n
        BY <3>1
      <4> QED
        BY <2>a, <3>1, <4>1
    <3>2. CASE k # n + 1
      <4>1. k \in 1..n /\ k - 1 \in 0..n /\ k \in 0..n
        BY <3>2
      <4> QED
        BY <2>1, <2>a, <4>1
    <3> QED
      BY <3>1, <3>2
  <2>6. upTo(n + 1) /\ n + 1 \in Nat
    BY <2>3, <2>4, <2>5
  <2> QED
    BY <2>6
<1> HIDE DEF good
<1>3. Len(s) \in good
  <2>1. Len(s) \in Nat /\ Len(s) \in 0..Len(s)
    OBVIOUS
  <2>2. \A n \in 0..Len(s) : n \in good
    BY <1>1, <1>2, <2>1, Induction
  <2> QED
    BY <2>1, <2>2
<1> QED
  BY <1>3 DEF good, Runs

\* h starts where f does, and goes on as f does wherever it has come so far.
Follows(h, f, e, g, s, N) ==
  h[0] = e /\ \A n \in 1..N : h[n - 1] = f[n - 1] => h[n] = g[<<h[n - 1], s[n]>>]

LEMMA RunIsOne ==
  ASSUME NEW X, NEW e, NEW g, NEW D, NEW s \in Seq(D), NEW f, NEW h,
         NEW N \in 0..Len(s), Runs(f, X, e, g, s), Follows(h, f, e, g, s, N)
  PROVE  \A n \in 0..N : h[n] = f[n]
<1> DEFINE good == {n \in 0..N : h[n] = f[n]}
<1>1. 0 \in good
  BY DEF Runs, Follows
<1>2. ASSUME NEW n \in 0..N, n \in good, n < N PROVE n + 1 \in good
  <2>1. n + 1 \in 1..N /\ (n + 1) - 1 = n /\ n + 1 \in 1..Len(s)
    BY <1>2
  <2>2. f[n + 1] = g[<<f[n], s[n + 1]>>] /\ h[n + 1] = g[<<h[n], s[n + 1]>>]
    BY <1>2, <2>1 DEF Runs, Follows
  <2>3. h[n + 1] = f[n + 1] /\ n + 1 \in 0..N
    BY <1>2, <2>1, <2>2
  <2> QED
    BY <2>3
<1> HIDE DEF good
<1>3. \A n \in 0..N : n \in good
  <2>1. N \in Nat
    OBVIOUS
  <2> QED
    BY <1>1, <1>2, <2>1, Induction
<1> QED
  BY <1>3 DEF good

-----------------------------------------------------------------------------
(***************************************************************************)
(* Sums.                                                                   *)
(***************************************************************************)
Plus == [p \in Nat \X Nat |-> p[1] + p[2]]

SumsOf(x) == CHOOSE sum : sum = [n \in 0..Len(x) |-> IF n = 0 THEN 0 ELSE sum[n - 1] + x[n]]

LEMMA TotalIsLast ==
  ASSUME NEW x
  PROVE  Total(x) = SumsOf(x)[Len(x)]
BY DEF Total, SumsOf

LEMMA SumsStep ==
  ASSUME NEW x \in Seq(Nat)
  PROVE  /\ SumsOf(x) \in [0..Len(x) -> Nat] /\ SumsOf(x)[0] = 0
         /\ \A n \in 1..Len(x) : SumsOf(x)[n] = SumsOf(x)[n - 1] + x[n]
<1>1. Plus \in [Nat \X Nat -> Nat]
  BY DEF Plus
<1>2. PICK f : Runs(f, Nat, 0, Plus, x)
  BY <1>1, RunExists
<1>3. f \in [0..Len(x) -> Nat] /\ f[0] = 0 /\ \A n \in 1..Len(x) : f[n] = f[n - 1] + x[n]
  <2> SUFFICES ASSUME NEW n \in 1..Len(x) PROVE f[n] = f[n - 1] + x[n]
    BY <1>2 DEF Runs
  <2>1. n - 1 \in 0..Len(x) /\ x[n] \in Nat /\ f \in [0..Len(x) -> Nat]
    BY <1>2 DEF Runs
  <2> QED
    BY <1>2, <2>1 DEF Runs, Plus
<1>4. f = [n \in 0..Len(x) |-> IF n = 0 THEN 0 ELSE f[n - 1] + x[n]]
  <2>1. \A n \in 0..Len(x) : f[n] = IF n = 0 THEN 0 ELSE f[n - 1] + x[n]
    BY <1>3
  <2> QED
    BY <1>3, <2>1
<1>5. SumsOf(x) = [n \in 0..Len(x) |-> IF n = 0 THEN 0 ELSE SumsOf(x)[n - 1] + x[n]]
  BY <1>4 DEF SumsOf
<1> DEFINE h == SumsOf(x)
<1> HIDE DEF h
<1>6. DOMAIN h = 0..Len(x) /\ h = [n \in DOMAIN h |-> h[n]]
  BY <1>5 DEF h
<1>7. h[0] = 0 /\ \A n \in 1..Len(x) : h[n] = h[n - 1] + x[n]
  BY <1>5 DEF h
<1>8. \A n \in 0..Len(x) : h[n] = f[n]
  <2>1. \A n \in 1..Len(x) : h[n - 1] = f[n - 1] => h[n] = Plus[<<h[n - 1], x[n]>>]
    <3> TAKE n \in 1..Len(x)
    <3>1. f[n - 1] \in Nat /\ x[n] \in Nat
      BY <1>3
    <3> QED
      BY <1>7, <3>1 DEF Plus
  <2>2. Follows(h, f, 0, Plus, x, Len(x))
    BY <1>7, <2>1 DEF Follows
  <2> QED
    BY <1>2, <2>2, RunIsOne
<1>9. h \in [0..Len(x) -> Nat]
  BY <1>3, <1>6, <1>8
<1> QED
  BY <1>7, <1>9 DEF h

LEMMA TotalIsNatural ==
  ASSUME NEW x \in Seq(Nat)
  PROVE  Total(x) \in Nat
BY SumsStep, TotalIsLast

Closed(M) == M \subseteq Nat /\ 0 \in M /\ \A b, c \in M : b + c \in M

LEMMA OneMore ==
  ASSUME NEW a \in Nat, NEW b \in Nat, NEW c \in Nat, NEW y \in Nat, NEW z \in Nat,
         NEW w \in Nat, a <= w
  PROVE  /\ (a + c + b) + y = (a + y) + c + b /\ (a + c + b) + y = a + c + (b + y)
         /\ (a + 0 + b) + y = a + y + b
         /\ a + y \in Nat /\ a <= w + z /\ (y <= z => a + y <= w + z)
OBVIOUS

\* What is added to the number at place t is small, or one of M.
LEMMA SumSplits ==
  ASSUME NEW x \in Seq(Nat), NEW m \in Seq(Nat), Len(m) = Len(x), NEW t \in 1..Len(x),
         NEW M, Closed(M),
         \A k \in 1..Len(x) : k # t => x[k] <= m[k] \/ x[k] \in M
  PROVE  \E a \in Nat, b \in M : Total(x) = a + x[t] + b /\ a <= Total(m)
<1> DEFINE sx == SumsOf(x)
           sm == SumsOf(m)
           mid(n) == IF n >= t THEN x[t] ELSE 0
           Sum(n, a, b) == sx[n] = a + mid(n) + b /\ a <= sm[n]
           good == {n \in 0..Len(x) : \E a \in Nat, b \in M : Sum(n, a, b)}
<1>1. /\ sx \in [0..Len(x) -> Nat] /\ sx[0] = 0 /\ sm \in [0..Len(x) -> Nat] /\ sm[0] = 0
      /\ \A n \in 1..Len(x) : sx[n] = sx[n - 1] + x[n] /\ sm[n] = sm[n - 1] + m[n]
  BY SumsStep
<1>c. \A k \in 1..Len(x) : x[k] \in Nat /\ m[k] \in Nat
  OBVIOUS
<1>d. mid(0) = 0 /\ mid(t - 1) = 0 /\ mid(t) = x[t] /\ mid(Len(x)) = x[t]
  OBVIOUS
<1>e. \A n \in 0..Len(x) : mid(n) \in Nat /\ (n + 1 # t => mid(n + 1) = mid(n))
  BY <1>c
<1> HIDE DEF sx, sm, mid
<1>f. \A n \in 0..Len(x), a \in Nat, b \in M : Sum(n, a, b) => n \in good
  OBVIOUS
<1>g. \A n \in good : \E a \in Nat, b \in M : Sum(n, a, b)
  OBVIOUS
<1> HIDE DEF good
<1>2. 0 \in good
  <2>1. Sum(0, 0, 0) /\ 0 \in 0..Len(x)
    BY <1>1, <1>d
  <2> QED
    BY <1>f, <2>1 DEF Closed
<1>3. ASSUME NEW n \in 0..Len(x), n \in good, n < Len(x) PROVE n + 1 \in good
  <2>1. PICK a \in Nat, b \in M : Sum(n, a, b)
    BY <1>3, <1>g
  <2>2. n + 1 \in 1..Len(x) /\ n + 1 \in 0..Len(x) /\ (n + 1) - 1 = n
    BY <1>3
  <2>3. sx[n + 1] = sx[n] + x[n + 1] /\ sm[n + 1] = sm[n] + m[n + 1]
    BY <1>1, <2>2
  <2>4. x[n + 1] \in Nat /\ m[n + 1] \in Nat /\ sm[n] \in Nat /\ mid(n) \in Nat /\ b \in Nat
    BY <1>1, <1>c, <1>e, <2>2 DEF Closed
  <2> DEFINE y == x[n + 1]
             z == m[n + 1]
             w == sm[n]
             c == mid(n)
  <2>8. /\ y \in Nat /\ z \in Nat /\ w \in Nat /\ c \in Nat /\ b \in Nat
        /\ sx[n] = a + c + b /\ a <= w /\ sx[n + 1] = sx[n] + y /\ sm[n + 1] = w + z
    BY <2>1, <2>3, <2>4
  <2>9. /\ (a + c + b) + y = (a + y) + c + b /\ (a + c + b) + y = a + c + (b + y)
        /\ (a + 0 + b) + y = a + y + b
        /\ a + y \in Nat /\ a <= w + z /\ (y <= z => a + y <= w + z)
    <3> HIDE DEF y, z, w, c
    <3> QED
      BY <2>8, OneMore
  <2>5. CASE n + 1 = t
    <3>1. n = t - 1
      BY <2>5
    <3>2. mid(n) = 0 /\ mid(n + 1) = x[n + 1]
      BY <1>d, <2>5, <3>1
    <3>3. Sum(n + 1, a, b)
      BY <2>8, <2>9, <3>2, Zenon
    <3> QED
      BY <1>f, <2>2, <3>3
  <2>6. CASE n + 1 # t /\ x[n + 1] <= m[n + 1]
    <3>1. mid(n + 1) = mid(n)
      BY <1>e, <2>6
    <3>2. Sum(n + 1, a + x[n + 1], b)
      BY <2>6, <2>8, <2>9, <3>1, Zenon
    <3>3. a + x[n + 1] \in Nat
      BY <2>9
    <3> QED
      BY <1>f, <2>2, <3>2, <3>3
  <2>7. CASE n + 1 # t /\ x[n + 1] \in M
    <3>1. mid(n + 1) = mid(n)
      BY <1>e, <2>7
    <3>2. Sum(n + 1, a, b + x[n + 1])
      BY <2>8, <2>9, <3>1, Zenon
    <3>3. b + x[n + 1] \in M
      BY <2>1, <2>7 DEF Closed
    <3> QED
      BY <1>f, <2>2, <3>2, <3>3
  <2> QED
    BY <2>2, <2>5, <2>6, <2>7
<1>4. Len(x) \in Nat /\ Len(x) \in 0..Len(x)
  OBVIOUS
<1>5. Len(x) \in good
  <2>1. \A n \in 0..Len(x) : n \in good
    BY <1>2, <1>3, <1>4, Induction
  <2> QED
    BY <1>4, <2>1
<1>6. PICK a \in Nat, b \in M : Sum(Len(x), a, b)
  BY <1>5, <1>g
<1>7. Total(x) = sx[Len(x)] /\ Total(m) = sm[Len(x)]
  BY TotalIsLast DEF sx, sm
<1> QED
  BY <1>6, <1>7, <1>d

LEMMA ShortTotals ==
  ASSUME NEW x \in Seq(Nat)
  PROVE  /\ Len(x) = 1 => Total(x) = x[1]
         /\ Len(x) = 2 => Total(x) = x[1] + x[2]
         /\ Len(x) = 3 => Total(x) = x[1] + x[2] + x[3]
<1> DEFINE s == SumsOf(x)
<1>1. /\ s[0] = 0 /\ Total(x) = s[Len(x)]
      /\ \A n \in 1..Len(x) : s[n] = s[n - 1] + x[n] /\ x[n] \in Nat
  BY SumsStep, TotalIsLast
<1> HIDE DEF s
<1>2. Len(x) >= 1 => s[1] = s[0] + x[1] /\ x[1] \in Nat
  BY <1>1
<1>3. Len(x) >= 2 => s[2] = s[1] + x[2] /\ x[2] \in Nat
  BY <1>1
<1>4. Len(x) >= 3 => s[3] = s[2] + x[3] /\ x[3] \in Nat
  BY <1>1
<1>5. CASE Len(x) = 1
  BY <1>1, <1>2, <1>5
<1>6. CASE Len(x) = 2
  BY <1>1, <1>2, <1>3, <1>6
<1>7. CASE Len(x) = 3
  BY <1>1, <1>2, <1>3, <1>4, <1>7
<1> QED
  BY <1>5, <1>6, <1>7

-----------------------------------------------------------------------------
(***************************************************************************)
(* The bits of a field.                                                    *)
(***************************************************************************)
LEMMA Multiple ==
  ASSUME NEW c \in Nat \ {0}, NEW r \in Int, NEW a \in 0..(c - 1)
  PROVE  (a + c * r) \div c = r /\ (a + c * r) % c = a
OBVIOUS

LEMMA PowersDivide ==
  ASSUME NEW lo \in Powers, NEW size \in Powers \ {1}, lo * size <= 256
  PROVE  /\ lo \in Nat \ {0} /\ size \in Nat \ {0, 1} /\ lo < 256
         /\ \E e \in Nat : (lo * size) * e = 256
<1> DEFINE e == 256 \div (lo * size)
<1>1. lo = 1 \/ lo = 2 \/ lo = 4 \/ lo = 8 \/ lo = 16 \/ lo = 32 \/ lo = 64 \/ lo = 128
  BY DEF Powers
<1>2. /\ size = 2 \/ size = 4 \/ size = 8 \/ size = 16 \/ size = 32 \/ size = 64 \/ size = 128
         \/ size = 256
  BY DEF Powers
<1>3. e \in Nat /\ (lo * size) * e = 256
  BY <1>1, <1>2
<1>4. lo \in Nat \ {0} /\ size \in Nat \ {0, 1} /\ lo < 256
  BY <1>1, <1>2
<1> HIDE DEF e
<1> QED
  BY <1>3, <1>4

LEMMA Regroup ==
  ASSUME NEW lo \in Int, NEW size \in Int, NEW a \in Int, NEW b \in Int, NEW u \in Int,
         NEW e \in Int, NEW q \in Int, (lo * size) * e = 256
  PROVE  (a + lo * b + (lo * size) * u) - 256 * q = a + lo * (b + size * (u - e * q))
<1>1. 256 * q = lo * (size * (e * q))
  OBVIOUS
<1>2. lo * (b + size * (u - e * q)) = lo * b + lo * (size * u) - lo * (size * (e * q))
  OBVIOUS
<1>3. (lo * size) * u = lo * (size * u)
  OBVIOUS
<1> QED
  BY <1>1, <1>2, <1>3

Slot(lo, size) == lo \in Powers /\ size \in Powers \ {1} /\ lo * size <= 256

LEMMA Extract ==
  ASSUME NEW lo, NEW size, Slot(lo, size), NEW a \in Nat, a < lo, NEW b \in 0..(size - 1),
         NEW u \in Nat, NEW x, x = a + lo * b + (lo * size) * u
  PROVE  ((x % 256) \div lo) % size = b
<1> DEFINE q == x \div 256
<1>1. /\ lo \in Nat \ {0} /\ size \in Nat \ {0, 1}
  BY PowersDivide DEF Slot
<1>2. PICK e \in Nat : (lo * size) * e = 256
  BY PowersDivide DEF Slot
<1>3. x \in Int
  BY <1>1
<1>5. q \in Int /\ x % 256 = x - 256 * q
  BY <1>3
<1> HIDE DEF q
<1> DEFINE r == u - e * q
           y == b + size * r
<1>6. r \in Int /\ y \in Int
  BY <1>1, <1>5
<1>7. x - 256 * q = a + lo * y
  BY <1>1, <1>2, <1>5, Regroup
<1> HIDE DEF y
<1>a. a \in 0..(lo - 1)
  BY <1>1
<1>8. (a + lo * y) \div lo = y
  BY <1>1, <1>6, <1>a, Multiple, Zenon
<1>9. y % size = b
  <2> HIDE DEF r
  <2> QED
    BY <1>1, <1>6, Multiple DEF y
<1>10. ((x % 256) \div lo) % size = b
  <2>1. x % 256 = a + lo * y
    BY <1>5, <1>7, Zenon
  <2>2. (x % 256) \div lo = y
    BY <1>8, <2>1, Zenon
  <2> QED
    BY <1>9, <2>2, Zenon
<1> QED
  BY <1>10, Zenon

LEMMA Widths ==
  ASSUME NEW f, Sits(f)
  PROVE  /\ LowBit(f) \in Powers /\ Room(f) \in Powers \ {1} /\ LowBit(f) * Room(f) <= 256
         /\ LowBit(f) \in Nat \ {0} /\ Room(f) \in Nat \ {0, 1}
<1>1. LowBit(f) \in Powers /\ Room(f) \in Powers \ {1} /\ LowBit(f) * Room(f) <= 256
  <2>1. CASE Len(f.at) = 1
    BY <2>1 DEF Sits, LowBit, Room
  <2>2. CASE Len(f.at) # 1
    BY <2>2 DEF LowBit, Room, Powers
  <2> QED
    BY <2>1, <2>2
<1> QED
  BY <1>1 DEF Powers

\* The part of a field's bits that is in its byte number k.
Chunk(f, bits, k) ==
  IF Len(f.at) = 1 THEN bits ELSE (bits \div Weight(Len(f.at) - k)) % 256

LEMMA Weights == Weight(0) = 1 /\ Weight(1) = 256 /\ Weight(2) = 65536
BY DEF Weight

LEMMA LowBitsFit ==
  ASSUME NEW lo \in Nat \ {0}, NEW size \in Nat \ {0}, lo * size <= 256,
         NEW bits \in 0..(size - 1)
  PROVE  bits * lo = lo * bits /\ lo * bits \in 0..255
<1>1. lo * bits <= lo * (size - 1)
  BY MultiplesInOrder
<1>2. lo * (size - 1) = lo * size - lo
  OBVIOUS
<1>3. bits * lo = lo * bits /\ lo * bits \in Nat
  OBVIOUS
<1> QED
  BY <1>1, <1>2, <1>3

LEMMA DivByOne == \A n \in Int : n \div 1 = n /\ n * 1 = n
OBVIOUS

LEMMA InOctets == \A n \in Int : n % 256 \in 0..255
OBVIOUS

LEMMA ShareIs ==
  ASSUME NEW f, Sits(f), NEW bits \in 0..(f.size - 1), NEW k \in DOMAIN f.at
  PROVE  /\ Share(f, bits, f.at[k]) = LowBit(f) * Chunk(f, bits, k)
         /\ Chunk(f, bits, k) \in 0..(Room(f) - 1)
<1> DEFINE n == Len(f.at)
           i == f.at[k]
<1>1. n \in 1..3 /\ DOMAIN f.at = 1..n /\ i \in Range(f.at)
  BY DEF Sits, Range
<1>2. (CHOOSE t \in DOMAIN f.at : f.at[t] = i) = k
  BY DEF Sits
<1>3. Share(f, bits, i) = ((bits * f.lo) \div Weight(n - k)) % 256
  BY <1>1, <1>2, Zenon DEF Share
<1> HIDE DEF n, i
<1>4. CASE n = 1
  <2>1. k = 1 /\ n - k = 0
    BY <1>1, <1>4
  <2>2. Weight(n - k) = 1
    BY <2>1, Weights
  <2>3. /\ f.lo \in Nat \ {0} /\ f.size \in Nat \ {0} /\ f.lo * f.size <= 256
        /\ LowBit(f) = f.lo /\ Room(f) = f.size
    <3>1. LowBit(f) = f.lo /\ Room(f) = f.size
      BY <1>4 DEF LowBit, Room, n
    <3> QED
      BY <3>1, Widths
  <2>4. bits * f.lo = f.lo * bits /\ f.lo * bits \in 0..255
    BY <2>3, LowBitsFit
  <2>5. (bits * f.lo) \div Weight(n - k) = f.lo * bits
    BY <2>2, <2>4, DivByOne
  <2>6. Share(f, bits, i) = f.lo * bits
    BY <1>3, <2>4, <2>5, SmallIsItself, SMTT(30)
  <2>7. Chunk(f, bits, k) = bits
    BY <1>4 DEF Chunk, n
  <2> QED
    BY <2>3, <2>6, <2>7 DEF i
<1>5. CASE n # 1
  <2>1. f.lo = 1 /\ LowBit(f) = 1 /\ Room(f) = 256
    BY <1>5, Zenon DEF LowBit, Room, Sits, n
  <2>2. Chunk(f, bits, k) = (bits \div Weight(n - k)) % 256
    BY <1>5 DEF Chunk, n
  <2>3. n - k \in 0..2
    BY <1>1
  <2>4. Weight(n - k) \in Nat \ {0}
    BY <2>3, Weights
  <2>5. bits \in Int /\ bits * f.lo = bits
    BY <2>1
  <2>6. bits \div Weight(n - k) \in Int
    BY <2>4, <2>5, Division
  <2>7. Chunk(f, bits, k) \in 0..255
    BY <2>2, <2>6, InOctets
  <2>8. Share(f, bits, i) = Chunk(f, bits, k)
    BY <1>3, <2>2, <2>5
  <2> QED
    BY <2>1, <2>7, <2>8 DEF i
<1> QED
  BY <1>4, <1>5

LEMMA ShareElsewhere ==
  ASSUME NEW f, NEW bits, NEW i, i \notin Range(f.at)
  PROVE  Share(f, bits, i) = 0
BY DEF Share

\* The arguments have bits, and the fields are apart.
Fit(fields, args) ==
  /\ Len(fields) \in Nat /\ DOMAIN fields = 1..Len(fields) /\ Apart(fields)
  /\ \A k \in DOMAIN fields :
       Sits(fields[k]) /\ ToBits(fields[k], args[k]) \in 0..(fields[k].size - 1)

LEMMA MadeSequence ==
  ASSUME NEW n \in Nat, NEW X, NEW x \in [1..n -> X]
  PROVE  x \in Seq(X) /\ Len(x) = n
<1>1. x \in Seq(X) /\ DOMAIN x = 1..n
  BY SeqDef
<1>2. Len(x) \in Nat /\ DOMAIN x = 1..Len(x)
  BY <1>1, LenProperties
<1> QED
  BY <1>1, <1>2, SameBounds

LEMMA MultiplesClosed ==
  ASSUME NEW d \in Nat
  PROVE  Closed({d * q : q \in Nat})
<1> DEFINE M == {d * q : q \in Nat}
<1>1. d * 0 = 0 /\ \A q \in Nat : d * q \in Nat
  OBVIOUS
<1>2. ASSUME NEW q \in Nat, NEW r \in Nat PROVE d * q + d * r \in M
  <2>1. d * q + d * r = d * (q + r) /\ q + r \in Nat
    OBVIOUS
  <2> QED
    BY <2>1
<1>3. M \subseteq Nat /\ 0 \in M
  BY <1>1
<1>4. \A b, c \in M : b + c \in M
  BY <1>2
<1> QED
  BY <1>3, <1>4 DEF Closed

LEMMA NaturalQuotient ==
  ASSUME NEW a \in Nat, NEW d \in Nat \ {0}
  PROVE  a \div d \in Nat
OBVIOUS

\* A field among others in a byte can be taken out of it.
LEMMA ChunkComesBack ==
  ASSUME NEW fields, NEW args, Fit(fields, args),
         NEW k \in DOMAIN fields, NEW t \in DOMAIN fields[k].at
  PROVE  LET f == fields[k]
         IN  /\ ByteOf(fields, args, f.at[t]) \in Octets
             /\ (ByteOf(fields, args, f.at[t]) \div LowBit(f)) % Room(f)
                  = Chunk(f, ToBits(f, args[k]), t)
<1> DEFINE f == fields[k]
           i == f.at[t]
           bits(j) == ToBits(fields[j], args[j])
           x == [j \in DOMAIN fields |-> Share(fields[j], bits(j), i)]
           m == [j \in DOMAIN fields |->
                   IF j # k /\ Under(fields[j], f, i)
                   THEN LowBit(fields[j]) * (Room(fields[j]) - 1) ELSE 0]
           lo == LowBit(f)
           d == lo * Room(f)
           M == {d * q : q \in Nat}
<1>1. /\ lo \in Powers /\ Room(f) \in Powers \ {1} /\ d <= 256
      /\ lo \in Nat \ {0} /\ Room(f) \in Nat \ {0, 1}
  BY Widths DEF Fit
<1>2. d \in Nat \ {0}
  BY <1>1
<1>3. \A j \in DOMAIN fields : Sits(fields[j]) /\ bits(j) \in 0..(fields[j].size - 1)
  BY DEF Fit
<1>4. \A j \in DOMAIN fields :
        LowBit(fields[j]) \in Nat \ {0} /\ Room(fields[j]) \in Nat \ {0, 1}
  BY <1>3, Widths
<1>5. i \in Range(f.at)
  BY DEF Range
<1>6. /\ \A j \in DOMAIN fields \ {k} :
           i \in Range(fields[j].at) => Under(fields[j], f, i) \/ Over(fields[j], f, i)
      /\ Total(m) < lo
  BY <1>5 DEF Fit, Apart
<1> HIDE DEF i, bits
<1>7. ASSUME NEW j \in DOMAIN fields
      PROVE  /\ x[j] \in Nat
             /\ i \notin Range(fields[j].at) => x[j] = 0
             /\ i \in Range(fields[j].at) =>
                  \E c \in 0..(Room(fields[j]) - 1) : x[j] = LowBit(fields[j]) * c
  <2>1. CASE i \notin Range(fields[j].at)
    BY <2>1, ShareElsewhere
  <2>2. CASE i \in Range(fields[j].at)
    <3>1. PICK s \in DOMAIN fields[j].at : fields[j].at[s] = i
      BY <2>2 DEF Range
    <3> DEFINE c == Chunk(fields[j], bits(j), s)
    <3>2. Share(fields[j], bits(j), i) = LowBit(fields[j]) * c /\ c \in 0..(Room(fields[j]) - 1)
      BY <1>3, <3>1, ShareIs
    <3>3. x[j] = LowBit(fields[j]) * c
      BY <3>2
    <3> HIDE DEF c, x
    <3>4. LowBit(fields[j]) * c \in Nat
      BY <1>4, <3>2
    <3> QED
      BY <2>2, <3>2, <3>3, <3>4
  <2> QED
    BY <2>1, <2>2
<1>8. x[k] = lo * Chunk(f, bits(k), t) /\ Chunk(f, bits(k), t) \in 0..(Room(f) - 1)
  BY <1>3, ShareIs DEF i
<1>9. DOMAIN x = DOMAIN fields /\ ByteOf(fields, args, i) = Total(x) % 256
  BY DEF ByteOf, bits
<1> HIDE DEF x
<1>10. ASSUME NEW j \in DOMAIN fields PROVE m[j] \in Nat
  <2>1. LowBit(fields[j]) * (Room(fields[j]) - 1) \in Nat
    BY <1>4
  <2> QED
    BY <2>1
<1>11. ASSUME NEW j \in DOMAIN fields, j # k PROVE x[j] <= m[j] \/ x[j] \in M
  <2>1. CASE i \notin Range(fields[j].at)
    BY <1>7, <1>10, <2>1
  <2>2. CASE i \in Range(fields[j].at) /\ Under(fields[j], f, i)
    <3>1. PICK c \in 0..(Room(fields[j]) - 1) : x[j] = LowBit(fields[j]) * c
      BY <1>7, <2>2
    <3>2. m[j] = LowBit(fields[j]) * (Room(fields[j]) - 1)
      BY <1>11, <2>2
    <3>3. LowBit(fields[j]) * c <= LowBit(fields[j]) * (Room(fields[j]) - 1)
      BY <1>4, MultiplesInOrder
    <3> QED
      BY <3>1, <3>2, <3>3
  <2>3. CASE i \in Range(fields[j].at) /\ Over(fields[j], f, i)
    <3>1. PICK c \in 0..(Room(fields[j]) - 1) : x[j] = LowBit(fields[j]) * c
      BY <1>7, <2>3
    <3>2. LowBit(fields[j]) % d = 0
      BY <2>3 DEF Over
    <3> DEFINE e == LowBit(fields[j]) \div d
    <3>3. LowBit(fields[j]) = d * e /\ e \in Nat
      BY <1>2, <1>4, <3>2, Remainder, NaturalQuotient
    <3> HIDE DEF e, d
    <3>4. (d * e) * c = d * (e * c) /\ e * c \in Nat
      BY <1>2, <1>4, <3>3
    <3> QED
      BY <3>1, <3>3, <3>4
  <2> QED
    BY <1>6, <1>11, <2>1, <2>2, <2>3
<1>12. /\ x \in Seq(Nat) /\ m \in Seq(Nat) /\ Len(x) = Len(fields) /\ Len(m) = Len(fields)
       /\ k \in 1..Len(fields) /\ DOMAIN fields = 1..Len(fields) /\ Len(fields) \in Nat
  <2>1. DOMAIN fields = 1..Len(fields) /\ Len(fields) \in Nat
    BY DEF Fit
  <2>2. x \in [1..Len(fields) -> Nat]
    <3>1. x = [j \in DOMAIN x |-> x[j]]
      BY DEF x
    <3> QED
      BY <1>7, <1>9, <2>1, <3>1
  <2>3. m \in [1..Len(fields) -> Nat]
    <3>1. m = [j \in DOMAIN m |-> m[j]] /\ DOMAIN m = DOMAIN fields
      OBVIOUS
    <3> HIDE DEF m
    <3> QED
      BY <1>10, <2>1, <3>1
  <2> HIDE DEF m
  <2> QED
    BY <2>1, <2>2, <2>3, MadeSequence
<1> HIDE DEF m
<1>13. PICK a \in Nat, b \in M : Total(x) = a + x[k] + b /\ a <= Total(m)
  <2>1. Closed(M)
    BY <1>2, MultiplesClosed
  <2> HIDE DEF M
  <2>2. \A j \in 1..Len(x) : j # k => x[j] <= m[j] \/ x[j] \in M
    BY <1>11, <1>12
  <2> QED
    BY <1>12, <2>1, <2>2, SumSplits, SMTT(30)
<1>14. PICK u \in Nat : b = d * u
  OBVIOUS
<1> HIDE DEF M
<1> DEFINE c == Chunk(f, bits(k), t)
<1>15. c \in 0..(Room(f) - 1) /\ x[k] = lo * c
  BY <1>8
<1>16. Total(x) = a + lo * c + (lo * Room(f)) * u
  BY <1>13, <1>14, <1>15
<1>17. a < lo
  <2>1. Total(m) \in Nat
    BY <1>12, TotalIsNatural
  <2> QED
    BY <1>1, <1>6, <1>13, <2>1
<1>18. ((Total(x) % 256) \div lo) % Room(f) = c
  <2> DEFINE r == Room(f)
  <2>1. Slot(lo, r) /\ c \in 0..(r - 1)
    BY <1>1, <1>15 DEF Slot
  <2>2. Total(x) = a + lo * c + (lo * r) * u
    BY <1>16
  <2> HIDE DEF c, lo, r
  <2>4. ((Total(x) % 256) \div lo) % r = c
    BY <1>17, <2>1, <2>2, Extract
  <2> QED
    BY <2>4 DEF r
<1>19. Total(x) % 256 \in Octets
  <2>1. Total(x) \in Nat
    BY <1>12, TotalIsNatural
  <2> QED
    BY <2>1, InOctets DEF Octets
<1> QED
  BY <1>9, <1>18, <1>19 DEF i, bits

LEMMA QuotientAndRest ==
  ASSUME NEW b \in Nat
  PROVE  /\ b \div 256 \in Nat /\ b % 256 \in 0..255
         /\ b = 256 * (b \div 256) + (b % 256)
<1> DEFINE q == b \div 256
<1>1. q \in Int /\ 256 * q <= b /\ b < 256 * q + 256 /\ b % 256 = b - 256 * q
  OBVIOUS
<1> HIDE DEF q
<1> DEFINE r == b % 256
<1>2. r \in Int /\ r = b - 256 * q
  BY <1>1
<1> HIDE DEF r
<1>3. q \in Nat /\ r \in 0..255 /\ b = 256 * q + r
  BY <1>1, <1>2
<1> QED
  BY <1>3 DEF q, r

LEMMA TwoBytes ==
  ASSUME NEW b \in Nat, b < 65536
  PROVE  256 * ((b \div 256) % 256) + (b % 256) = b
<1> DEFINE q == b \div 256
           r == b % 256
<1>1. q \in Nat /\ r \in 0..255 /\ b = 256 * q + r
  BY QuotientAndRest
<1> HIDE DEF q, r
<1>2. q \in 0..255
  BY <1>1
<1>3. q % 256 = q
  BY <1>2
<1>4. 256 * (q % 256) + r = b
  BY <1>1, <1>3
<1> QED
  BY <1>4 DEF q, r

LEMMA ThreeBytes ==
  ASSUME NEW b \in Nat, b < 16777216
  PROVE  65536 * ((b \div 65536) % 256) + 256 * ((b \div 256) % 256) + (b % 256) = b
<1> DEFINE q == b \div 256
           r == b % 256
           h == q \div 256
           m == q % 256
           g == b \div 65536
<1>1. q \in Nat /\ r \in 0..255 /\ b = 256 * q + r
  BY QuotientAndRest
<1>2. h \in Nat /\ m \in 0..255 /\ q = 256 * h + m
  BY <1>1, QuotientAndRest
<1>3. g \in Int /\ 65536 * g <= b /\ b < 65536 * g + 65536
  BY Division
<1> HIDE DEF q, r, h, m, g
<1>4. b = 65536 * h + (256 * m + r) /\ 256 * m + r < 65536
  BY <1>1, <1>2
<1>5. g = h /\ h \in 0..255
  BY <1>1, <1>2, <1>3, <1>4
<1>6. g % 256 = h
  BY <1>5
<1>7. 65536 * (g % 256) + 256 * m + r = b
  BY <1>1, <1>2, <1>4, <1>6
<1> QED
  BY <1>7 DEF q, r, m, g

LEMMA HasRoom ==
  ASSUME NEW f, Sits(f)
  PROVE  f.size \in Nat \ {0, 1} /\ f.lo \in Nat \ {0}
<1>1. CASE Len(f.at) = 1
  BY <1>1 DEF Sits, Powers
<1>2. CASE Len(f.at) = 2
  <2>1. f.size = 256 * Weight(1) /\ f.lo = 1
    BY <1>2 DEF Sits
  <2> QED
    BY <2>1, Weights
<1>3. CASE Len(f.at) = 3
  <2>1. f.size = 256 * Weight(2) /\ f.lo = 1
    BY <1>3 DEF Sits
  <2> QED
    BY <2>1, Weights
<1> QED
  BY <1>1, <1>2, <1>3 DEF Sits

\* A payload has the bytes of the builder where the field sits.
Carries(p, f, fields, args) ==
  /\ p \in Seq(Octets)
  /\ \A t \in DOMAIN f.at : p[f.at[t] + 1] = ByteOf(fields, args, f.at[t])

\* The parser finds the bits that the builder wrote, whatever the other fields.
LEMMA BitsArrive ==
  ASSUME NEW fields, NEW args, Fit(fields, args), NEW k \in DOMAIN fields,
         NEW p, Carries(p, fields[k], fields, args)
  PROVE  BitsOf(fields[k], p) = ToBits(fields[k], args[k])
<1> DEFINE f == fields[k]
           b == ToBits(f, args[k])
           n == Len(f.at)
           byte(t) == p[f.at[t] + 1]
           x == [t \in DOMAIN f.at |-> Weight(n - t) * byte(t)]
<1>1. Sits(f) /\ b \in 0..(f.size - 1)
  BY DEF Fit
<1>a. b \in Nat /\ b < f.size
  <2>1. f.size \in Nat \ {0}
    BY <1>1, HasRoom
  <2> HIDE DEF f, b
  <2> QED
    BY <1>1, <2>1
<1>2. n \in 1..3 /\ DOMAIN f.at = 1..n
  BY <1>1 DEF Sits
<1>3. \A t \in 1..n : byte(t) \in Octets /\ (byte(t) \div LowBit(f)) % Room(f) = Chunk(f, b, t)
  <2> TAKE t \in 1..n
  <2>1. byte(t) = ByteOf(fields, args, f.at[t])
    BY <1>2 DEF Carries
  <2> QED
    BY <1>2, <2>1, ChunkComesBack
<1>4. BitsOf(f, p) = (Total(x) \div f.lo) % f.size
  BY DEF BitsOf
<1>5. LowBit(f) = (IF n = 1 THEN f.lo ELSE 1) /\ Room(f) = (IF n = 1 THEN f.size ELSE 256)
  BY DEF LowBit, Room
<1>6. Chunk(f, b, 1) = (IF n = 1 THEN b ELSE (b \div Weight(n - 1)) % 256)
      /\ Chunk(f, b, 2) = (IF n = 1 THEN b ELSE (b \div Weight(n - 2)) % 256)
      /\ Chunk(f, b, 3) = (IF n = 1 THEN b ELSE (b \div Weight(n - 3)) % 256)
  BY DEF Chunk
<1> HIDE DEF f, b, n, byte
<1>7. ASSUME NEW t \in 1..n PROVE byte(t) \in Nat /\ byte(t) \in 0..255
  BY <1>3 DEF Octets
<1>8. x \in Seq(Nat) /\ Len(x) = n
  <2>1. \A t \in 1..n : Weight(n - t) * byte(t) \in Nat
    BY <1>2, <1>7, Weights, SMTT(30)
  <2>2. x \in [1..n -> Nat]
    BY <1>2, <2>1
  <2> QED
    BY <1>2, <2>2, MadeSequence
<1>9. \A t \in 1..n : x[t] = Weight(n - t) * byte(t)
  BY <1>2
<1> HIDE DEF x
<1>10. CASE n = 1
  <2>1. x[1] = Weight(0) * byte(1) /\ byte(1) \in Nat
    BY <1>7, <1>9, <1>10
  <2>2. Total(x) = byte(1)
    BY <1>8, <1>10, <2>1, ShortTotals, Weights
  <2>3. (byte(1) \div f.lo) % f.size = b
    BY <1>3, <1>5, <1>6, <1>10
  <2> QED
    BY <1>4, <2>2, <2>3 DEF f, b
<1>11. CASE n = 2
  <2>1. x[1] = 256 * byte(1) /\ x[2] = byte(2) /\ byte(1) \in Nat /\ byte(2) \in Nat
    BY <1>7, <1>9, <1>11, Weights
  <2>2. Total(x) = 256 * byte(1) + byte(2)
    BY <1>8, <1>11, <2>1, ShortTotals
  <2>3. f.lo = 1 /\ f.size = 65536
    BY <1>1, <1>11, Weights DEF Sits, n
  <2>4. b \in Nat /\ b < 65536
    BY <1>a, <2>3
  <2>5. byte(1) = (b \div 256) % 256 /\ byte(2) = b % 256
    BY <1>3, <1>5, <1>6, <1>7, <1>11, <2>4, Weights
  <2>6. Total(x) = b
    BY <2>2, <2>4, <2>5, TwoBytes
  <2> QED
    BY <1>4, <2>3, <2>4, <2>6 DEF f, b
<1>12. CASE n = 3
  <2>1. /\ x[1] = 65536 * byte(1) /\ x[2] = 256 * byte(2) /\ x[3] = byte(3)
        /\ byte(1) \in Nat /\ byte(2) \in Nat /\ byte(3) \in Nat
    BY <1>7, <1>9, <1>12, Weights
  <2>2. Total(x) = 65536 * byte(1) + 256 * byte(2) + byte(3)
    BY <1>8, <1>12, <2>1, ShortTotals
  <2>3. f.lo = 1 /\ f.size = 16777216
    BY <1>1, <1>12, Weights DEF Sits, n
  <2>4. b \in Nat /\ b < 16777216
    BY <1>a, <2>3
  <2>5. byte(1) = (b \div 65536) % 256 /\ byte(2) = (b \div 256) % 256 /\ byte(3) = b % 256
    BY <1>3, <1>5, <1>6, <1>7, <1>12, <2>4, Weights
  <2>6. Total(x) = b
    BY <2>2, <2>4, <2>5, ThreeBytes
  <2> QED
    BY <1>4, <2>3, <2>4, <2>6 DEF f, b
<1> QED
  BY <1>2, <1>10, <1>11, <1>12

-----------------------------------------------------------------------------
(***************************************************************************)
(* Arguments.                                                              *)
(***************************************************************************)
\* An argument of a kind that the field's code is made for.
Suits(f, v) == Takes(f, v) /\ (f.kind = "coded" \/ v \in Int)

LEMMA BitsHaveRoom ==
  ASSUME NEW f, Sits(f), Codes(f), NEW v, Suits(f, v)
  PROVE  ToBits(f, v) \in 0..(f.size - 1) /\ ToBits(f, v) \in f.known
<1>1. CASE f.kind = "coded"
  BY <1>1 DEF Codes, ToBits, Suits, Takes
<1>2. CASE f.kind = "number"
  <2>1. v \in Int /\ f.known = 0..(f.size - 1) /\ ToBits(f, v) = v % f.size
    BY <1>2 DEF Codes, ToBits, Suits
  <2>2. f.size \in Nat \ {0}
    BY HasRoom
  <2>3. v % f.size \in 0..(f.size - 1)
    BY <2>1, <2>2
  <2> QED
    BY <2>1, <2>3
<1>3. CASE f.kind = "rounded"
  <2>1. IsRounded(f) /\ v \in Int /\ f.known = 0..(f.size - 1)
    BY <1>3 DEF Codes, Suits, IsRounded
  <2> QED
    BY <2>1, RoundedReads
<1> QED
  BY <1>1, <1>2, <1>3 DEF Codes

LEMMA KeptIsRead ==
  ASSUME NEW f, Sits(f), Codes(f), NEW v, Suits(f, v), Kept(f, v)
  PROVE  FromBits(f, ToBits(f, v)) = v
<1>1. CASE f.kind = "coded"
  BY <1>1 DEF Codes, ToBits, FromBits, Kept
<1>2. CASE f.kind = "number"
  <2>1. v \in 0..(f.size - 1) /\ f.size \in Nat \ {0}
    BY <1>2, HasRoom DEF Kept
  <2>2. v % f.size = v
    BY <2>1, SmallIsItself
  <2> QED
    BY <1>2, <2>2 DEF ToBits, FromBits
<1>3. CASE f.kind = "rounded"
  <2>1. IsRounded(f) /\ v \in Int
    BY <1>3 DEF Codes, Suits, IsRounded
  <2> QED
    BY <2>1, RoundedAreNearest
<1> QED
  BY <1>1, <1>2, <1>3 DEF Codes

-----------------------------------------------------------------------------
(***************************************************************************)
(* A payload and its reading.                                              *)
(***************************************************************************)
Suit(w, args) == \A k \in DOMAIN w.fields : Suits(w.fields[k], args[k])

\* The bytes before the text.
FieldBytes(l, w, args) ==
  <<l.cmd>> \o [i \in 1..(w.length - 1) |-> ByteOf(w.fields, args, i)]

LEMMA WayFits ==
  ASSUME NEW l, NEW w, WaySound(l, w), NEW args, Suit(w, args)
  PROVE  Fit(w.fields, args)
<1>1. ASSUME NEW k \in DOMAIN w.fields
      PROVE  Sits(w.fields[k]) /\ ToBits(w.fields[k], args[k]) \in 0..(w.fields[k].size - 1)
  <2>1. Sits(w.fields[k]) /\ Codes(w.fields[k])
    BY DEF WaySound
  <2>2. Suits(w.fields[k], args[k])
    BY DEF Suit
  <2> QED
    BY <2>1, <2>2, BitsHaveRoom
<1> QED
  BY <1>1 DEF WaySound, Fit

LEMMA BytesAreOctets ==
  ASSUME NEW fields, NEW args, Fit(fields, args), NEW i
  PROVE  ByteOf(fields, args, i) \in Octets
<1> DEFINE bits(j) == ToBits(fields[j], args[j])
           x == [j \in DOMAIN fields |-> Share(fields[j], bits(j), i)]
<1>1. DOMAIN fields = 1..Len(fields) /\ Len(fields) \in Nat
  BY DEF Fit
<1>2. ASSUME NEW j \in DOMAIN fields PROVE Share(fields[j], bits(j), i) \in Nat
  <2>1. Sits(fields[j]) /\ bits(j) \in 0..(fields[j].size - 1)
    BY DEF Fit
  <2>2. CASE i \notin Range(fields[j].at)
    BY <2>2, ShareElsewhere
  <2>3. CASE i \in Range(fields[j].at)
    <3>1. PICK t \in DOMAIN fields[j].at : fields[j].at[t] = i
      BY <2>3 DEF Range
    <3> DEFINE c == Chunk(fields[j], bits(j), t)
    <3>2. Share(fields[j], bits(j), i) = LowBit(fields[j]) * c /\ c \in 0..(Room(fields[j]) - 1)
      BY <2>1, <3>1, ShareIs
    <3>3. LowBit(fields[j]) \in Nat /\ Room(fields[j]) \in Nat
      BY <2>1, Widths
    <3> HIDE DEF c, bits
    <3>4. LowBit(fields[j]) * c \in Nat
      BY <3>2, <3>3
    <3> QED
      BY <3>2, <3>4
  <2> QED
    BY <2>2, <2>3
<1>3. x \in Seq(Nat)
  <2>1. x \in [1..Len(fields) -> Nat]
    BY <1>1, <1>2
  <2> QED
    BY <1>1, <2>1, MadeSequence
<1> HIDE DEF x
<1>4. Total(x) % 256 \in Octets
  <2>1. Total(x) \in Nat
    BY <1>3, TotalIsNatural
  <2> QED
    BY <2>1, InOctets DEF Octets
<1> QED
  BY <1>4 DEF ByteOf, x

LEMMA HeadIs ==
  ASSUME NEW l, l.cmd \in Octets, NEW w, WaySound(l, w), NEW args, Suit(w, args)
  PROVE  /\ FieldBytes(l, w, args) \in Seq(Octets) /\ Len(FieldBytes(l, w, args)) = w.length
         /\ FieldBytes(l, w, args)[1] = l.cmd
         /\ \A i \in 1..(w.length - 1) :
               FieldBytes(l, w, args)[i + 1] = ByteOf(w.fields, args, i)
<1> DEFINE n == w.length - 1
           b == [i \in 1..n |-> ByteOf(w.fields, args, i)]
           c == <<l.cmd>>
<1>1. w.length \in Nat \ {0} /\ n \in Nat /\ Fit(w.fields, args)
  <2>1. w.length \in Nat \ {0}
    BY DEF WaySound
  <2> QED
    BY <2>1, WayFits
<1>2. b \in Seq(Octets) /\ Len(b) = n
  <2>1. b \in [1..n -> Octets]
    BY <1>1, BytesAreOctets
  <2> HIDE DEF b, n
  <2> QED
    BY <1>1, <2>1, MadeSequence
<1>3. \A i \in 1..n : b[i] = ByteOf(w.fields, args, i)
  OBVIOUS
<1>4. c \in Seq(Octets) /\ Len(c) = 1 /\ c[1] = l.cmd
  OBVIOUS
<1>5. FieldBytes(l, w, args) = c \o b
  BY Zenon DEF FieldBytes
<1>6. w.length = 1 + n
  BY <1>1
<1> HIDE DEF b, c, n
<1>7. /\ c \o b \in Seq(Octets) /\ Len(c \o b) = 1 + n
      /\ \A i \in 1..(1 + n) : (c \o b)[i] = IF i <= 1 THEN c[i] ELSE b[i - 1]
  <2>1. /\ c \o b \in Seq(Octets) /\ Len(c \o b) = Len(c) + Len(b)
        /\ \A i \in 1..(Len(c) + Len(b)) :
             (c \o b)[i] = IF i <= Len(c) THEN c[i] ELSE b[i - Len(c)]
    BY <1>2, <1>4, ConcatProperties, Zenon
  <2> QED
    BY <1>2, <1>4, <2>1
<1>8. (c \o b)[1] = l.cmd
  BY <1>1, <1>4, <1>7
<1>9. ASSUME NEW i \in 1..n PROVE (c \o b)[i + 1] = ByteOf(w.fields, args, i)
  <2>1. i + 1 \in 1..(1 + n) /\ ~ (i + 1 <= 1) /\ (i + 1) - 1 = i
    BY <1>1
  <2> QED
    BY <1>3, <1>7, <2>1
<1> QED
  BY <1>5, <1>6, <1>7, <1>8, <1>9 DEF n

\* The payload is the bytes of the fields, then those of the text.
IsBuilt(p, l, w, args, bytes) ==
  /\ p = FieldBytes(l, w, args) \o bytes
  /\ bytes \in Seq(Octets) /\ p \in Seq(Octets)
  /\ Len(p) = w.length + Len(bytes) /\ p[1] = l.cmd
  /\ \A i \in 1..(w.length - 1) : p[i + 1] = ByteOf(w.fields, args, i)

\* Arguments are numbers where the code of the field is one.
Numbers(w, args) == \A k \in DOMAIN w.fields : w.fields[k].kind = "coded" \/ args[k] \in Int

LEMMA BuilderBuilds ==
  ASSUME NEW l, l.cmd \in Octets, Endings(l.tail), NEW w, WaySound(l, w),
         NEW args, Numbers(w, args), NEW text \in Seq(Nat), NEW p \in Build(l, w, args, text)
  PROVE  /\ Suit(w, args)
         /\ \E bytes \in WriteText(l.tail, text) : IsBuilt(p, l, w, args, bytes)
<1>1. Suit(w, args)
  BY DEF Build, Suit, Suits, Numbers
<1>2. PICK bytes \in WriteText(l.tail, text) : p = FieldBytes(l, w, args) \o bytes
  BY DEF Build, FieldBytes
<1>3. bytes \in Seq(Octets)
  BY WriterHolds DEF Holds
<1> DEFINE h == FieldBytes(l, w, args)
<1>4. /\ h \in Seq(Octets) /\ Len(h) = w.length /\ h[1] = l.cmd
      /\ \A i \in 1..(w.length - 1) : h[i + 1] = ByteOf(w.fields, args, i)
  BY <1>1, HeadIs
<1>5. p = h \o bytes
  BY <1>2
<1> HIDE DEF h
<1>6. w.length \in Nat \ {0}
  BY DEF WaySound
<1>7. /\ p \in Seq(Octets) /\ Len(p) = w.length + Len(bytes)
      /\ \A i \in 1..(w.length + Len(bytes)) :
            p[i] = IF i <= w.length THEN h[i] ELSE bytes[i - w.length]
  BY <1>3, <1>4, <1>5, ConcatProperties
<1>8. Len(bytes) \in Nat
  BY <1>3
<1>9. p[1] = l.cmd
  BY <1>4, <1>6, <1>7, <1>8
<1>10. ASSUME NEW i \in 1..(w.length - 1) PROVE p[i + 1] = ByteOf(w.fields, args, i)
  <2>1. i + 1 \in 1..(w.length + Len(bytes)) /\ i + 1 <= w.length
    BY <1>6, <1>8
  <2> QED
    BY <1>4, <1>7, <2>1
<1> QED
  BY <1>1, <1>3, <1>5, <1>7, <1>9, <1>10 DEF IsBuilt, h

LEMMA ReaderReads ==
  ASSUME NEW l, NEW p, NEW r \in Read(l, p)
  PROVE  /\ p[1] = l.cmd /\ Len(p) \in l.lengths /\ Read(l, p) = {r}
         /\ r.text = ReadText(l.tail, p) /\ DOMAIN r.fields = DOMAIN l.reads
         /\ \A j \in DOMAIN l.reads :
              r.fields[j] = IF Present(l.reads[j], p)
                            THEN {FromBits(l.reads[j], BitsOf(l.reads[j], p))} ELSE {}
<1> DEFINE fields == [j \in DOMAIN l.reads |->
                        IF Present(l.reads[j], p)
                        THEN {FromBits(l.reads[j], BitsOf(l.reads[j], p))} ELSE {}]
           it == [fields |-> fields, text |-> ReadText(l.tail, p)]
<1>1. p[1] = l.cmd /\ Len(p) \in l.lengths
  BY DEF Read
<1>2. Read(l, p) = {it}
  <2>1. Read(l, p) = {it} \/ Read(l, p) = {}
    BY Zenon DEF Read
  <2> QED
    BY <2>1
<1>3. it.fields = fields /\ it.text = ReadText(l.tail, p)
  BY Zenon
<1>4. DOMAIN fields = DOMAIN l.reads
  OBVIOUS
<1> HIDE DEF it
<1>5. r = it
  BY <1>2
<1> QED
  BY <1>1, <1>2, <1>3, <1>4, <1>5

LEMMA IsTaken ==
  ASSUME NEW l, NEW p, p[1] = l.cmd, Len(p) \in l.lengths,
         \A j \in DOMAIN l.reads :
           Present(l.reads[j], p) => BitsOf(l.reads[j], p) \in l.reads[j].known
  PROVE  Read(l, p) # {}
BY DEF Read

LEMMA FieldIsThere ==
  ASSUME NEW l, NEW w, WaySound(l, w), NEW args, Suit(w, args), NEW bytes,
         NEW p, IsBuilt(p, l, w, args, bytes), NEW k \in DOMAIN w.fields
  PROVE  Present(w.fields[k], p) /\ BitsOf(w.fields[k], p) = ToBits(w.fields[k], args[k])
<1> DEFINE f == w.fields[k]
<1>1. Range(f.at) \subseteq 1..(w.length - 1) /\ w.length \in Nat \ {0}
  BY DEF WaySound
<1>2. Len(p) = w.length + Len(bytes) /\ Len(bytes) \in Nat
  BY DEF IsBuilt
<1>3. Fit(w.fields, args)
  BY WayFits
<1> HIDE DEF f
<1>4. Present(f, p)
  BY <1>1, <1>2 DEF Present
<1>5. Carries(p, f, w.fields, args)
  <2>1. p \in Seq(Octets)
    BY DEF IsBuilt
  <2>2. ASSUME NEW t \in DOMAIN f.at PROVE p[f.at[t] + 1] = ByteOf(w.fields, args, f.at[t])
    <3>1. f.at[t] \in 1..(w.length - 1)
      BY <1>1 DEF Range
    <3> QED
      BY <3>1 DEF IsBuilt
  <2> QED
    BY <2>1, <2>2 DEF Carries
<1> QED
  BY <1>3, <1>4, <1>5, BitsArrive DEF f

LEMMA LayoutIsSound ==
  ASSUME NEW c \in Names
  PROVE  /\ TailSound(Layouts[c]) /\ ReadsSound(Layouts[c])
         /\ Endings(Layouts[c].tail) /\ Layouts[c].cmd \in Octets
         /\ \A w \in DOMAIN Layouts[c].ways : WaySound(Layouts[c], Layouts[c].ways[w])
BY LayoutsAssumption DEF LayoutSound, TailSound, ReadsSound

\* A builder was called, the parser took the payload and both know a field.
Asked(c, v, args, text, p, r, k, j) ==
  LET l == Layouts[c]
      w == l.ways[v]
  IN  /\ c \in Names /\ v \in DOMAIN l.ways /\ Numbers(w, args) /\ text \in Seq(Nat)
      /\ p \in Build(l, w, args, text) /\ r \in Read(l, p)
      /\ k \in DOMAIN w.fields /\ j \in DOMAIN l.reads /\ l.reads[j].name = w.fields[k].name

Arrived(c, v, args, r, k, j) ==
  LET f == Layouts[c].reads[j]
  IN  /\ f = Layouts[c].ways[v].fields[k]
      /\ r.fields[j] = {FromBits(f, ToBits(f, args[k]))}
      /\ Kept(f, args[k]) => r.fields[j] = {args[k]}

LEMMA AskedArrives ==
  ASSUME NEW c, NEW v, NEW args, NEW text, NEW p, NEW r, NEW k, NEW j,
         Asked(c, v, args, text, p, r, k, j)
  PROVE  Arrived(c, v, args, r, k, j)
<1> DEFINE l == Layouts[c]
           w == l.ways[v]
           f == w.fields[k]
<1>0. c \in Names /\ v \in DOMAIN l.ways
  BY DEF Asked
<1>1. /\ Endings(l.tail) /\ l.cmd \in Octets /\ WaySound(l, w)
  BY <1>0, LayoutIsSound
<1>2. /\ Numbers(w, args) /\ text \in Seq(Nat) /\ p \in Build(l, w, args, text)
      /\ r \in Read(l, p)
      /\ k \in DOMAIN w.fields /\ j \in DOMAIN l.reads /\ l.reads[j].name = f.name
  BY DEF Asked
<1> HIDE DEF l, w
<1>3. Suit(w, args) /\ \E bytes \in WriteText(l.tail, text) : IsBuilt(p, l, w, args, bytes)
  BY <1>1, <1>2, BuilderBuilds
<1>4. Present(f, p) /\ BitsOf(f, p) = ToBits(f, args[k])
  <2>1. PICK bytes \in WriteText(l.tail, text) : IsBuilt(p, l, w, args, bytes)
    BY <1>3
  <2> QED
    BY <1>1, <1>2, <1>3, <2>1, FieldIsThere
<1>5. l.reads[j] = f
  BY <1>1, <1>2 DEF WaySound
<1>6. r.fields[j] = {FromBits(f, ToBits(f, args[k]))}
  <2>1. r.fields[j] = IF Present(l.reads[j], p)
                      THEN {FromBits(l.reads[j], BitsOf(l.reads[j], p))} ELSE {}
    BY <1>2, ReaderReads, Zenon
  <2> QED
    BY <1>4, <1>5, <2>1, Zenon
<1>7. Kept(f, args[k]) => FromBits(f, ToBits(f, args[k])) = args[k]
  <2>1. Sits(f) /\ Codes(f)
    BY <1>1, <1>2 DEF WaySound
  <2>2. Suits(f, args[k])
    BY <1>2, <1>3 DEF Suit
  <2> QED
    BY <2>1, <2>2, KeptIsRead
<1> QED
  BY <1>5, <1>6, <1>7 DEF l, w, Arrived

\* For every codec, every way to call its builder, any arguments and any text:
\* whatever the other fields of the frame hold, the parser of the same name
\* makes of a field's bits what the builder made of the argument, and an
\* argument that the frame can express is the value that is read
\* (packages/ikbus-commands/src: buildX() followed by parseX()).
THEOREM EveryArgumentArrives ==
  ASSUME NEW c \in Names, NEW v \in DOMAIN Layouts[c].ways, NEW args,
         Numbers(Layouts[c].ways[v], args), NEW text \in Seq(Nat),
         NEW p \in Build(Layouts[c], Layouts[c].ways[v], args, text),
         NEW r \in Read(Layouts[c], p),
         NEW k \in DOMAIN Layouts[c].ways[v].fields, NEW j \in DOMAIN Layouts[c].reads,
         Layouts[c].reads[j].name = Layouts[c].ways[v].fields[k].name
  PROVE  LET f == Layouts[c].reads[j]
         IN  /\ f = Layouts[c].ways[v].fields[k]
             /\ r.fields[j] = {FromBits(f, ToBits(f, args[k]))}
             /\ Kept(f, args[k]) => r.fields[j] = {args[k]}
<1>1. Asked(c, v, args, text, p, r, k, j)
  BY DEF Asked
<1>2. Arrived(c, v, args, r, k, j)
  BY <1>1, AskedArrives
<1> QED
  BY <1>2 DEF Arrived

-----------------------------------------------------------------------------
(***************************************************************************)
(* The state.                                                              *)
(***************************************************************************)
LEMMA CharactersAreNumbers ==
  ASSUME NEW c \in Characters
  PROVE  c \in Nat
BY CharactersAssumption

LEMMA ArgumentsAre ==
  ASSUME NEW l, NEW w, WaySound(l, w), NEW args \in ArgumentsOf(w.fields)
  PROVE  DOMAIN args = DOMAIN w.fields /\ Numbers(w, args)
<1> DEFINE fs == w.fields
           plain == [k \in DOMAIN fs |-> First(fs[k])]
<1>1. \A k \in DOMAIN fs : First(fs[k]) \in fs[k].tries
  BY DEF WaySound, First
<1>2. \/ args = plain
      \/ \E j, k \in DOMAIN fs : \E x \in fs[j].tries, y \in fs[k].tries :
           args = [plain EXCEPT ![j] = x, ![k] = y]
  BY DEF ArgumentsOf
<1>3. DOMAIN args = DOMAIN fs /\ \A k \in DOMAIN fs : args[k] \in fs[k].tries
  <2>1. CASE args = plain
    BY <1>1, <2>1
  <2>2. CASE \E j, k \in DOMAIN fs : \E x \in fs[j].tries, y \in fs[k].tries :
               args = [plain EXCEPT ![j] = x, ![k] = y]
    <3>1. PICK j \in DOMAIN fs, k \in DOMAIN fs : \E x \in fs[j].tries, y \in fs[k].tries :
            args = [plain EXCEPT ![j] = x, ![k] = y]
      BY <2>2
    <3>2. PICK x \in fs[j].tries, y \in fs[k].tries : args = [plain EXCEPT ![j] = x, ![k] = y]
      BY <3>1
    <3>3. DOMAIN args = DOMAIN fs
      BY <3>2
    <3>4. ASSUME NEW i \in DOMAIN fs PROVE args[i] \in fs[i].tries
      <4>1. args[i] = IF i = k THEN y ELSE IF i = j THEN x ELSE First(fs[i])
        BY <3>2
      <4> QED
        BY <1>1, <4>1
    <3> QED
      BY <3>3, <3>4
  <2> QED
    BY <1>2, <2>1, <2>2
<1>4. \A k \in DOMAIN fs : fs[k].kind = "coded" \/ fs[k].tries \subseteq Int
  BY DEF WaySound, Codes
<1> QED
  BY <1>3, <1>4 DEF Numbers

LEMMA TextsAre ==
  ASSUME NEW l, TailSound(l), NEW text \in TextsOf(l.tail), LongestPayload \in Nat
  PROVE  text \in Seq(Nat) /\ Len(text) <= LongestPayload - l.tail.at
<1> DEFINE t == l.tail
<1>0. /\ t.at \in Nat /\ t.longest \in Nat
      /\ t = NoEnding \/ (t.longest > 0 /\ t.at + 30 <= LongestPayload)
  <2>1. Endings(t) /\ (t = NoEnding \/ (t.longest > 0 /\ t.at + 30 <= LongestPayload))
    BY DEF TailSound
  <2>2. t.at \in Nat /\ t.longest \in Nat
    BY <2>1, Zenon DEF Endings
  <2> QED
    BY <2>1, <2>2, Zenon
<1>1. CASE t.longest = 0
  <2>1. text = <<>> /\ t = NoEnding
    BY <1>0, <1>1 DEF TextsOf
  <2>2. t.at = LongestPayload
    BY <2>1 DEF NoEnding, Ending
  <2> QED
    BY <2>1, <2>2
<1>2. CASE t.longest # 0
  <2>1. \/ \E n \in 0..2 : text \in [1..n -> Characters]
        \/ \E n \in 3..30 : text = [i \in 1..n |-> 65]
    BY <1>2 DEF TextsOf
  <2>2. \E n \in 0..30 : text \in [1..n -> Nat]
    <3>1. CASE \E n \in 0..2 : text \in [1..n -> Characters]
      <4>1. PICK n \in 0..2 : text \in [1..n -> Characters]
        BY <3>1
      <4>2. Characters \subseteq Nat
        BY CharactersAreNumbers
      <4>3. text \in [1..n -> Nat]
        BY <4>1, <4>2
      <4>4. n \in 0..30
        OBVIOUS
      <4> QED
        BY <4>3, <4>4
    <3>2. CASE \E n \in 3..30 : text = [i \in 1..n |-> 65]
      <4>1. PICK n \in 3..30 : text = [i \in 1..n |-> 65]
        BY <3>2
      <4>2. text \in [1..n -> Nat] /\ n \in 0..30
        BY <4>1
      <4> QED
        BY <4>2
    <3> QED
      BY <2>1, <3>1, <3>2
  <2>3. PICK n \in 0..30 : text \in [1..n -> Nat]
    BY <2>2
  <2>4. text \in Seq(Nat) /\ Len(text) = n
    BY <2>3, MadeSequence
  <2>5. t.at + 30 <= LongestPayload
    BY <1>0, <1>2 DEF NoEnding, Ending
  <2> QED
    BY <1>0, <2>4, <2>5, SMTT(30)
<1> QED
  BY <1>1, <1>2

LEMMA PayloadsAre ==
  ASSUME NEW l, l.cmd \in Octets, NEW p \in PayloadsOf(l)
  PROVE  p \in Seq(Octets)
<1> DEFINE longest == CHOOSE n \in l.lengths : \A m \in l.lengths : n <= m
<1>1. PICK n \in 0..longest, k \in 1..longest, b \in Foreign, c \in {0, 18} :
        p = <<l.cmd>> \o [i \in 1..n |-> IF i = k THEN b ELSE c]
  BY DEF PayloadsOf
<1> DEFINE rest == [i \in 1..n |-> IF i = k THEN b ELSE c]
<1>2. b \in Octets /\ c \in Octets /\ n \in Nat
  BY ForeignAssumption DEF Octets
<1>3. rest \in [1..n -> Octets]
  BY <1>2
<1>4. rest \in Seq(Octets) /\ <<l.cmd>> \in Seq(Octets)
  BY <1>2, <1>3, MadeSequence
<1> HIDE DEF rest
<1>5. p = <<l.cmd>> \o rest
  BY <1>1 DEF rest
<1> QED
  BY <1>4, <1>5, ConcatProperties

LEMMA TakenIsThere ==
  ASSUME NEW t, Endings(t), NEW bytes \in Seq(Octets)
  PROVE  Taken(t, bytes) \in 0..Len(bytes)
<1> DEFINE I == {i \in 1..Len(bytes) : bytes[i] # 32}
           J == {i \in 1..Len(bytes) : bytes[i] = 0}
<1>1. Len(bytes) \in Nat
  OBVIOUS
<1>2. CASE t.taken = "all"
  BY <1>1, <1>2 DEF Taken
<1>3. CASE t.taken = "trimmed"
  <2>1. Taken(t, bytes) = IF I # {} THEN Max(I) ELSE 0
    BY <1>3 DEF Taken, SelectLastInSeq
  <2>2. I \in SUBSET (1..Len(bytes))
    OBVIOUS
  <2> HIDE DEF I
  <2>3. I # {} => Max(I) \in I
    BY <1>1, <2>2, LastPosition
  <2>4. I # {} => Max(I) \in 1..Len(bytes)
    BY <2>2, <2>3
  <2> HIDE DEF J
  <2> QED
    BY <1>1, <2>1, <2>4
<1>4. CASE t.taken = "terminated"
  <2>0. Contains(bytes, 0) <=> J # {}
    BY DEF Contains
  <2>1. Taken(t, bytes) = IF J # {} THEN Min(J) - 1 ELSE Len(bytes)
    BY <1>4, <2>0 DEF Taken, SelectInSeq
  <2>2. J \in SUBSET (1..Len(bytes))
    OBVIOUS
  <2> HIDE DEF J
  <2>3. J # {} => Min(J) \in J
    BY <1>1, <2>2, FirstPosition
  <2>4. J # {} => Min(J) \in 1..Len(bytes)
    BY <2>2, <2>3
  <2> HIDE DEF I
  <2> QED
    BY <1>1, <2>1, <2>4
<1> QED
  BY <1>2, <1>3, <1>4 DEF Endings

LEMMA TextIsRead ==
  ASSUME NEW t, Endings(t), NEW p \in Seq(Octets), NEW r, r = ReadText(t, p)
  PROVE  r \in Seq(Octets) /\ Len(r) <= IF Len(p) > t.at THEN Len(p) - t.at ELSE 0
<1> DEFINE bytes == SubSeq(p, t.at + 1, Len(p))
<1>0. t.at \in Nat
  BY DEF Endings
<1>1. /\ bytes \in Seq(Octets)
      /\ Len(bytes) = IF Len(p) > t.at THEN Len(p) - t.at ELSE 0
  BY <1>0
<1> HIDE DEF bytes
<1>2. r = SubSeq(bytes, 1, Taken(t, bytes))
  <2>1. SubSeq(bytes, 1, Len(bytes)) = bytes
    BY <1>1
  <2>2. CASE t.taken = "all"
    BY <2>1, <2>2 DEF ReadText, Taken, bytes
  <2>3. CASE t.taken = "trimmed"
    BY <2>3 DEF ReadText, Taken, bytes
  <2>4. CASE t.taken = "terminated"
    BY <2>1, <2>4 DEF ReadText, Taken, bytes
  <2> QED
    BY <2>2, <2>3, <2>4 DEF Endings
<1>3. Taken(t, bytes) \in 0..Len(bytes)
  BY <1>1, TakenIsThere
<1>4. r \in Seq(Octets) /\ Len(r) = Taken(t, bytes)
  BY <1>1, <1>2, <1>3
<1> QED
  BY <1>1, <1>3, <1>4

\* What the reader finds in a field of any payload.
LEMMA BitsAreRead ==
  ASSUME NEW f, Sits(f), NEW p \in Seq(Octets), Present(f, p)
  PROVE  BitsOf(f, p) \in 0..(f.size - 1)
<1> DEFINE x == [k \in DOMAIN f.at |-> Weight(Len(f.at) - k) * p[f.at[k] + 1]]
<1>1. f.at \in Seq(Nat) /\ Len(f.at) \in 1..3 /\ DOMAIN f.at = 1..Len(f.at)
  BY DEF Sits
<1>2. ASSUME NEW k \in DOMAIN f.at PROVE x[k] \in Nat
  <2>1. f.at[k] \in Nat
    BY <1>1
  <2>0. f.at[k] < Len(p)
    BY <1>1 DEF Present, Range
  <2>2. f.at[k] + 1 \in 1..Len(p)
    BY <2>0, <2>1
  <2>a. Octets \subseteq Nat
    BY DEF Octets
  <2>b. p[f.at[k] + 1] \in Octets
    BY <2>2, ElementOfSeq
  <2>3. p[f.at[k] + 1] \in Nat
    BY <2>a, <2>b
  <2>c. k \in 1..Len(f.at)
    BY <1>1
  <2> HIDE DEF x
  <2>4. Len(f.at) - k \in 0..2
    <3>1. \A n \in 1..3 : \A i \in 1..n : n - i \in 0..2
      OBVIOUS
    <3> QED
      BY <1>1, <2>c, <3>1, Zenon
  <2>5. Weight(Len(f.at) - k) \in Nat
    <3>1. \A n \in 0..2 : Weight(n) \in Nat
      <4> TAKE n \in 0..2
      <4>1. n = 0 \/ n = 1 \/ n = 2
        OBVIOUS
      <4> QED
        BY <4>1, Weights
    <3> QED
      BY <2>4, <3>1, Zenon
  <2> DEFINE a == Weight(Len(f.at) - k)
             b == p[f.at[k] + 1]
  <2>6. x[k] = a * b
    BY DEF x
  <2> HIDE DEF a, b
  <2>7. a \in Nat /\ b \in Nat
    BY <2>3, <2>5 DEF a, b
  <2> QED
    BY <2>6, <2>7
<1>3. x \in Seq(Nat)
  <2>1. DOMAIN x = 1..Len(f.at) /\ x = [k \in DOMAIN x |-> x[k]]
    BY <1>1
  <2>2. Len(f.at) \in Nat
    BY <1>1
  <2> HIDE DEF x
  <2>3. x \in [1..Len(f.at) -> Nat]
    BY <1>1, <1>2, <2>1
  <2> QED
    BY <2>2, <2>3, MadeSequence
<1>4. BitsOf(f, p) = (Total(x) \div f.lo) % f.size
  BY DEF BitsOf
<1> HIDE DEF x
<1>5. Total(x) \in Nat /\ f.lo \in Nat \ {0} /\ f.size \in Nat \ {0}
  BY <1>3, TotalIsNatural, HasRoom
<1>6. Total(x) \div f.lo \in Nat
  BY <1>5, NaturalQuotient
<1>7. \A n \in Nat, m \in Nat \ {0} : n % m \in 0..(m - 1)
  OBVIOUS
<1> QED
  BY <1>4, <1>5, <1>6, <1>7

LEMMA ReadIsNumber ==
  ASSUME NEW f, Sits(f), Codes(f), NEW p \in Seq(Octets), Present(f, p)
  PROVE  f.kind = "coded" \/ FromBits(f, BitsOf(f, p)) \in Int
<1>1. BitsOf(f, p) \in 0..(f.size - 1) /\ f.size \in Nat
  BY BitsAreRead, HasRoom
<1> DEFINE b == BitsOf(f, p)
<1>2. CASE f.kind = "number"
  BY <1>1, <1>2 DEF FromBits
<1>3. CASE f.kind = "rounded"
  <2>1. f.step \in Int /\ f.size \in Int /\ f.least \in Int /\ f.most \in Int
    BY <1>3 DEF Codes, Roomy
  <2>2. FromBits(f, b) = f.step * (IF f.least < 0 /\ b > f.most THEN b - f.size ELSE b)
    BY <1>3 DEF FromBits
  <2>3. b \in Int
    BY <1>1
  <2> HIDE DEF b
  <2>4. (IF f.least < 0 /\ b > f.most THEN b - f.size ELSE b) \in Int
    BY <2>1, <2>3
  <2>5. \A x, y \in Int : x * y \in Int
    OBVIOUS
  <2>6. FromBits(f, b) \in Int
    BY <2>1, <2>2, <2>4, <2>5, Zenon
  <2> QED
    BY <2>6 DEF b
<1> QED
  BY <1>2, <1>3 DEF Codes

\* What a builder was given, and what it made of it.
Made(c, v, args, text, made) ==
  LET l == Layouts[c]
      w == l.ways[v]
  IN  /\ c \in Names /\ v \in DOMAIN l.ways
      /\ DOMAIN args = DOMAIN w.fields /\ Numbers(w, args)
      /\ text \in Seq(Nat) /\ Len(text) <= LongestPayload - l.tail.at
      /\ made = Build(l, w, args, text)

\* A payload and what was read of it.
Received(c, sent, read) ==
  c \in Names /\ \E p \in Seq(Octets) : sent = {p} /\ read = Read(Layouts[c], p)

\* What the builder was given is what had been read.
Reread(c, v, args, text, read) ==
  LET l == Layouts[c]
      fields == l.ways[v].fields
  IN  \E p \in Seq(Octets) : \E first \in Read(l, p) :
        /\ read = {first} /\ text = first.text
        /\ \A k \in DOMAIN fields : \E j \in DOMAIN l.reads :
             l.reads[j].name = fields[k].name /\ first.fields[j] = {args[k]}

Entries == [name : Seq(Nat), selected : BOOLEAN]

CodecsInv ==
  /\ stage \in {"idle", "built", "sent", "again", "menu", "stations"}
  /\ stage \in {"built", "again"} => Made(codec, way, given.args, given.text, payload)
  /\ stage = "sent" => Received(codec, payload, before)
  /\ stage = "again" => Reread(codec, way, given.args, given.text, before)
  /\ stage = "menu" => /\ given.args \in Seq(Seq(Nat)) /\ given.args # <<>>
                       /\ payload = BuildMenu(given.args)
  /\ stage = "stations" => given.args \in Seq(Entries) /\ payload = BuildStations(given.args)

LEMMA ComposeKeeps ==
  ASSUME Compose
  PROVE  CodecsInv'
<1>1. PICK c \in Names : \E v \in DOMAIN Layouts[c].ways :
         \E args \in ArgumentsOf(Layouts[c].ways[v].fields), text \in TextsOf(Layouts[c].tail) :
           /\ codec' = c /\ way' = v /\ given' = [args |-> args, text |-> text]
           /\ payload' = Build(Layouts[c], Layouts[c].ways[v], args, text)
  BY Zenon DEF Compose
<1>2. PICK v \in DOMAIN Layouts[c].ways :
         \E args \in ArgumentsOf(Layouts[c].ways[v].fields), text \in TextsOf(Layouts[c].tail) :
           /\ codec' = c /\ way' = v /\ given' = [args |-> args, text |-> text]
           /\ payload' = Build(Layouts[c], Layouts[c].ways[v], args, text)
  BY <1>1, Zenon
<1> DEFINE l == Layouts[c]
           w == l.ways[v]
<1>3. PICK args \in ArgumentsOf(w.fields), text \in TextsOf(l.tail) :
        /\ codec' = c /\ way' = v /\ given' = [args |-> args, text |-> text]
        /\ payload' = Build(l, w, args, text)
  BY <1>2, Zenon
<1>4. given'.args = args /\ given'.text = text
  BY <1>3, Zenon
<1>5. WaySound(l, w) /\ TailSound(l)
  BY LayoutIsSound, Zenon
<1>6. DOMAIN args = DOMAIN w.fields /\ Numbers(w, args)
  <2> HIDE DEF l, w
  <2> QED
    BY <1>5, ArgumentsAre
<1>7. text \in Seq(Nat) /\ Len(text) <= LongestPayload - l.tail.at
  <2>1. LongestPayload \in Nat
    BY LongestAssumption
  <2> HIDE DEF l, w
  <2> QED
    BY <1>5, <2>1, TextsAre
<1>8. Made(codec', way', given'.args, given'.text, payload')
  BY <1>3, <1>4, <1>6, <1>7, Zenon DEF Made
<1>9. stage' = "built"
  BY Zenon DEF Compose
<1> QED
  BY <1>8, <1>9 DEF CodecsInv

LEMMA ReceiveKeeps ==
  ASSUME Receive
  PROVE  CodecsInv'
<1>0. PICK c \in Names : \E p \in PayloadsOf(Layouts[c]) :
        codec' = c /\ payload' = {p} /\ before' = Read(Layouts[c], p)
  BY Zenon DEF Receive
<1>1. PICK p \in PayloadsOf(Layouts[c]) :
        codec' = c /\ payload' = {p} /\ before' = Read(Layouts[c], p)
  BY <1>0, Zenon
<1>2. p \in Seq(Octets)
  <2>1. Layouts[c].cmd \in Octets
    BY LayoutIsSound, Zenon
  <2> QED
    BY <2>1, PayloadsAre
<1>3. Received(codec', payload', before')
  BY <1>1, <1>2, Zenon DEF Received
<1>4. stage' = "sent"
  BY Zenon DEF Receive
<1> QED
  BY <1>3, <1>4 DEF CodecsInv

LEMMA NamesAreUnique ==
  ASSUME NEW c \in Names, NEW w \in DOMAIN Layouts[c].ways,
         NEW i \in DOMAIN Layouts[c].reads, NEW j \in DOMAIN Layouts[c].reads,
         Layouts[c].reads[i].name = Layouts[c].reads[j].name
  PROVE  i = j
BY LayoutsAssumption DEF LayoutSound

LEMMA TextFits ==
  ASSUME NEW c \in Names, NEW p \in Seq(Octets), NEW r \in Read(Layouts[c], p)
  PROVE  r.text \in Seq(Nat) /\ Len(r.text) <= LongestPayload - Layouts[c].tail.at
<1> DEFINE l == Layouts[c]
<1>1. Endings(l.tail) /\ TailSound(l) /\ ReadsSound(l)
  BY LayoutIsSound, Zenon
<1>2. r \in Read(l, p)
  OBVIOUS
<1> HIDE DEF l
<1>3. r.text = ReadText(l.tail, p) /\ Len(p) \in l.lengths
  BY <1>2, ReaderReads
<1>4. Len(p) <= LongestPayload
  <2>1. l.lengths \subseteq 1..LongestPayload
    BY <1>1, Zenon DEF ReadsSound
  <2> QED
    BY <1>3, <2>1, LongestAssumption
<1>5. l.tail.at \in Nat /\ l.tail.at <= LongestPayload
  <2>1. l.tail.at \in Nat
    BY <1>1, Zenon DEF Endings
  <2>2. CASE l.tail = NoEnding
    <3>1. l.tail.at = LongestPayload
      BY <2>2 DEF NoEnding, Ending
    <3> QED
      BY <2>1, <3>1
  <2>3. CASE l.tail.at + 30 <= LongestPayload
    BY <2>1, <2>3, LongestAssumption
  <2> QED
    BY <1>1, <2>2, <2>3, Zenon DEF TailSound
<1>6. /\ r.text \in Seq(Octets)
      /\ Len(r.text) <= IF Len(p) > l.tail.at THEN Len(p) - l.tail.at ELSE 0
  BY <1>1, <1>3, TextIsRead
<1>7. r.text \in Seq(Nat)
  <2>1. Octets \subseteq Nat
    BY DEF Octets
  <2> QED
    BY <1>6, <2>1, SeqMonotonic, Zenon
<1>8. Len(r.text) <= LongestPayload - l.tail.at
  <2>1. Len(p) \in Nat /\ Len(r.text) \in Nat
    BY <1>7
  <2> QED
    BY <1>4, <1>5, <1>6, <2>1, LongestAssumption
<1> QED
  BY <1>7, <1>8 DEF l

LEMMA BuildAgainKeeps ==
  ASSUME CodecsInv, BuildAgain
  PROVE  CodecsInv'
<1>1. stage = "sent" /\ Received(codec, payload, before)
  BY DEF BuildAgain, CodecsInv
<1> DEFINE l == Layouts[codec]
<1>2. PICK p \in Seq(Octets) : codec \in Names /\ before = Read(l, p)
  BY <1>1, Zenon DEF Received
<1>3. PICK read \in before, v \in DOMAIN l.ways :
        LET fields == l.ways[v].fields
            value(k) == UNION {read.fields[j] : j \in {i \in DOMAIN l.reads :
                                                         l.reads[i].name = fields[k].name}}
        IN  /\ \A k \in DOMAIN fields : \E j \in DOMAIN l.reads :
                 l.reads[j].name = fields[k].name /\ read.fields[j] # {}
            /\ way' = v
            /\ given' = [args |-> [k \in DOMAIN fields |-> CHOOSE x \in value(k) : TRUE],
                         text |-> read.text]
            /\ payload' = Build(l, l.ways[v], given'.args, read.text)
  BY DEF BuildAgain
<1> DEFINE w == l.ways[v]
           fields == w.fields
           value(k) == UNION {read.fields[j] : j \in {i \in DOMAIN l.reads :
                                                        l.reads[i].name = fields[k].name}}
           args == [k \in DOMAIN fields |-> CHOOSE x \in value(k) : TRUE]
<1>4. /\ way' = v /\ given' = [args |-> args, text |-> read.text]
      /\ payload' = Build(l, w, given'.args, read.text)
      /\ \A k \in DOMAIN fields : \E j \in DOMAIN l.reads :
           l.reads[j].name = fields[k].name /\ read.fields[j] # {}
  BY <1>3
<1>5. given'.args = args /\ given'.text = read.text
  BY <1>4, Zenon
<1>6. codec' = codec /\ before' = before /\ stage' = "again"
  BY Zenon DEF BuildAgain
<1>7. read \in Read(l, p)
  BY <1>2, <1>3
<1>8. WaySound(l, w) /\ ReadsSound(l)
  BY <1>2, LayoutIsSound, Zenon
<1>9. before = {read}
  <2> HIDE DEF l
  <2> QED
    BY <1>2, <1>7, ReaderReads
<1>10. ASSUME NEW k \in DOMAIN fields
       PROVE  /\ \E j \in DOMAIN l.reads :
                   l.reads[j].name = fields[k].name /\ read.fields[j] = {args[k]}
              /\ fields[k].kind = "coded" \/ args[k] \in Int
  <2>1. PICK j \in DOMAIN l.reads : l.reads[j].name = fields[k].name /\ read.fields[j] # {}
    BY <1>4
  <2>2. \A i \in DOMAIN l.reads : l.reads[i].name = fields[k].name => i = j
    BY <1>2, <2>1, NamesAreUnique
  <2>3. value(k) = read.fields[j]
    <3> HIDE DEF l, w, fields
    <3> QED
      BY <2>1, <2>2
  <2> DEFINE f == l.reads[j]
             b == FromBits(f, BitsOf(f, p))
  <2>4. read.fields[j] = IF Present(f, p) THEN {b} ELSE {}
    <3> HIDE DEF l
    <3> QED
      BY <1>7, <2>1, ReaderReads
  <2>5. Present(f, p) /\ read.fields[j] = {b}
    BY <2>1, <2>4
  <2>6. args[k] = CHOOSE x \in value(k) : TRUE
    OBVIOUS
  <2>7. args[k] = b
    <3> HIDE DEF args, value, b, fields
    <3> QED
      BY <2>3, <2>5, <2>6
  <2>8. f = fields[k] /\ Sits(f) /\ Codes(f)
    <3> HIDE DEF l, w
    <3> QED
      BY <1>8, <2>1 DEF WaySound
  <2>9. f.kind = "coded" \/ b \in Int
    <3> HIDE DEF f
    <3> QED
      BY <2>5, <2>8, ReadIsNumber
  <2> HIDE DEF b, f, args, fields, l
  <2> QED
    BY <2>1, <2>5, <2>7, <2>8, <2>9
<1>11. Numbers(w, args) /\ DOMAIN args = DOMAIN w.fields
  BY <1>10 DEF Numbers
<1>12. read.text \in Seq(Nat) /\ Len(read.text) <= LongestPayload - l.tail.at
  BY <1>2, <1>7, TextFits
<1>13. Made(codec', way', given'.args, given'.text, payload')
  <2>1. payload' = Build(l, w, args, read.text)
    BY <1>4, <1>5, Zenon
  <2> HIDE DEF args
  <2> QED
    BY <1>2, <1>3, <1>4, <1>5, <1>6, <1>11, <1>12, <2>1, Zenon DEF Made
<1>14. Reread(codec', way', given'.args, given'.text, before')
  <2>1. \A k \in DOMAIN fields : \E j \in DOMAIN l.reads :
          l.reads[j].name = fields[k].name /\ read.fields[j] = {args[k]}
    BY <1>10
  <2> HIDE DEF args
  <2>2. Reread(codec, v, args, read.text, {read})
    BY <1>7, <2>1 DEF Reread
  <2>3. Reread(codec', way', given'.args, given'.text, before')
        <=> Reread(codec, v, args, read.text, {read})
    BY <1>4, <1>5, <1>6, <1>9, Zenon
  <2> QED
    BY <2>2, <2>3
<1> QED
  BY <1>6, <1>13, <1>14 DEF CodecsInv

LEMMA ShortTextsAre == ShortTexts \subseteq Seq(Nat)
<1> DEFINE some == {[1..n -> Characters] : n \in 0..2}
           eight == [i \in 1..8 |-> 66]
           nine == [i \in 1..9 |-> 66]
<1>1. ShortTexts = (UNION some) \cup {eight, nine}
  BY Zenon DEF ShortTexts
<1>2. ASSUME NEW text \in UNION some PROVE text \in Seq(Nat)
  <2>1. PICK n \in 0..2 : text \in [1..n -> Characters]
    OBVIOUS
  <2>2. Characters \subseteq Nat
    BY CharactersAreNumbers
  <2>3. text \in [1..n -> Nat]
    BY <2>1, <2>2
  <2>4. n \in Nat
    OBVIOUS
  <2> QED
    BY <2>3, <2>4, MadeSequence
<1>3. eight \in Seq(Nat)
  <2>1. eight \in [1..8 -> Nat] /\ 8 \in Nat
    OBVIOUS
  <2> HIDE DEF eight
  <2> QED
    BY <2>1, MadeSequence
<1>4. nine \in Seq(Nat)
  <2>1. nine \in [1..9 -> Nat] /\ 9 \in Nat
    OBVIOUS
  <2> HIDE DEF nine
  <2> QED
    BY <2>1, MadeSequence
<1> HIDE DEF some, eight, nine
<1>5. ASSUME NEW text \in ShortTexts PROVE text \in Seq(Nat)
  <2>1. text \in UNION some \/ text = eight \/ text = nine
    BY <1>1
  <2> QED
    BY <1>2, <1>3, <1>4, <2>1
<1> QED
  BY <1>5

LEMMA ComposeMenuKeeps ==
  ASSUME ComposeMenu
  PROVE  CodecsInv'
<1>0. PICK n \in 1..2 : \E texts \in [1..n -> ShortTexts] :
        given' = [args |-> texts, text |-> <<>>] /\ payload' = BuildMenu(texts)
  BY Zenon DEF ComposeMenu
<1>1. PICK texts \in [1..n -> ShortTexts] :
        given' = [args |-> texts, text |-> <<>>] /\ payload' = BuildMenu(texts)
  BY <1>0, Zenon
<1>2. given'.args = texts
  BY <1>1, Zenon
<1>3. texts \in Seq(Seq(Nat)) /\ Len(texts) = n
  <2>1. texts \in [1..n -> Seq(Nat)] /\ n \in Nat
    BY ShortTextsAre
  <2> QED
    BY <2>1, MadeSequence
<1>4. texts # <<>>
  BY <1>3
<1>5. stage' = "menu"
  BY Zenon DEF ComposeMenu
<1>6. /\ given'.args \in Seq(Seq(Nat)) /\ given'.args # <<>>
      /\ payload' = BuildMenu(given'.args)
  BY <1>1, <1>2, <1>3, <1>4, Zenon
<1> QED
  BY <1>5, <1>6 DEF CodecsInv

LEMMA ComposeStationsKeeps ==
  ASSUME ComposeStations
  PROVE  CodecsInv'
<1>1. PICK first \in ShortTexts, second \in ShortTexts, n \in {0, 1, 2, 3, 4}, k \in 1..3 :
        LET entry(i) == [name |-> IF i = 1 THEN first ELSE second, selected |-> i = k]
        IN  /\ given' = [args |-> [i \in 1..n |-> entry(i)], text |-> <<>>]
            /\ payload' = BuildStations(given'.args)
  BY Zenon DEF ComposeStations
<1> DEFINE entry(i) == [name |-> IF i = 1 THEN first ELSE second, selected |-> i = k]
           args == [i \in 1..n |-> entry(i)]
<1>2. given' = [args |-> args, text |-> <<>>] /\ payload' = BuildStations(given'.args)
  BY <1>1, Zenon
<1>3. given'.args = args
  BY <1>2, Zenon
<1>4. args \in Seq(Entries)
  <2>1. \A i \in 1..n : entry(i) \in Entries
    BY ShortTextsAre DEF Entries
  <2>2. args \in [1..n -> Entries]
    BY <2>1
  <2>3. n \in Nat
    OBVIOUS
  <2> HIDE DEF args
  <2> QED
    BY <2>2, <2>3, MadeSequence
<1>5. stage' = "stations"
  BY Zenon DEF ComposeStations
<1> HIDE DEF args
<1> QED
  BY <1>2, <1>3, <1>4, <1>5 DEF CodecsInv

\* What the codecs have built and read is what their builders and parsers make
\* of arguments that are numbers where the code of the field is one.
LEMMA CodecsInvHolds == CodecsSpec => []CodecsInv
<1>1. CodecsInit => CodecsInv
  BY DEF CodecsInit, CodecsInv
<1>2. CodecsInv /\ [CodecsNext]_codecs => CodecsInv'
  <2> SUFFICES ASSUME CodecsInv, [CodecsNext]_codecs PROVE CodecsInv'
    OBVIOUS
  <2>1. CASE Compose
    BY <2>1, ComposeKeeps
  <2>2. CASE Receive
    BY <2>2, ReceiveKeeps
  <2>3. CASE BuildAgain
    BY <2>3, BuildAgainKeeps
  <2>4. CASE ComposeMenu
    BY <2>4, ComposeMenuKeeps
  <2>5. CASE ComposeStations
    BY <2>5, ComposeStationsKeeps
  <2>6. CASE UNCHANGED codecs
    BY <2>6 DEF codecs, CodecsInv
  <2> QED
    BY <2>1, <2>2, <2>3, <2>4, <2>5, <2>6 DEF CodecsNext
<1> QED
  BY <1>1, <1>2, PTL DEF CodecsSpec

-----------------------------------------------------------------------------
(***************************************************************************)
(* The properties of the codecs.                                           *)
(***************************************************************************)
LEMMA PlaceIs ==
  ASSUME NEW k, IsRead(k)
  PROVE  Place(k) \in DOMAIN L.reads /\ L.reads[Place(k)].name = L.ways[way].fields[k].name
BY DEF IsRead, Place

\* A field that was read has the value that was made of its argument.
LEMMA BuiltArrives ==
  ASSUME Made(codec, way, given.args, given.text, payload), NEW p \in payload,
         NEW r \in Read(L, p), NEW k \in DOMAIN given.args, IsRead(k)
  PROVE  LET f == L.ways[way].fields[k]
         IN  /\ L.reads[Place(k)] = f
             /\ r.fields[Place(k)] = {FromBits(f, ToBits(f, given.args[k]))}
             /\ Kept(f, given.args[k]) => r.fields[Place(k)] = {given.args[k]}
<1> DEFINE args == given.args
           text == given.text
           j == Place(k)
<1>1. /\ codec \in Names /\ way \in DOMAIN L.ways /\ DOMAIN args = DOMAIN L.ways[way].fields
      /\ Numbers(L.ways[way], args) /\ text \in Seq(Nat)
      /\ p \in Build(L, L.ways[way], args, text)
  BY DEF Made, L
<1>2. j \in DOMAIN L.reads /\ L.reads[j].name = L.ways[way].fields[k].name
  BY PlaceIs
<1>3. k \in DOMAIN L.ways[way].fields
  BY <1>1
<1> HIDE DEF args, text, j
<1>4. Asked(codec, way, args, text, p, r, k, j)
  BY <1>1, <1>2, <1>3 DEF L, Asked
<1>5. Arrived(codec, way, args, r, k, j)
  BY <1>4, AskedArrives
<1>6. L.reads[j] = L.ways[way].fields[k]
  BY <1>5 DEF Arrived, L
<1>7. LET f == L.reads[j]
      IN  /\ r.fields[j] = {FromBits(f, ToBits(f, args[k]))}
          /\ Kept(f, args[k]) => r.fields[j] = {args[k]}
  BY <1>5, Zenon DEF Arrived, L
<1> QED
  BY <1>6, <1>7, Zenon DEF args, j

\* WhatFitsArrives and RoundedToNearest for every codec (and, as CodecsInv admits
\* them, every number as an argument, and every text): what the caller of a builder meant is what the reader of the
\* frame gets, or as near as the frame can say it
\* (packages/ikbus-commands/src: buildX() followed by parseX()).
THEOREM FieldsAlwaysArrive == CodecsSpec => []FieldsArrive
<1>1. CodecsInv => WhatFitsArrives
  <2> SUFFICES ASSUME CodecsInv, stage = "built", NEW p \in payload, NEW r \in Read(L, p),
                      NEW k \in DOMAIN given.args, IsRead(k),
                      Kept(L.ways[way].fields[k], given.args[k])
               PROVE  r.fields[Place(k)] = {given.args[k]}
    BY DEF WhatFitsArrives
  <2>1. Made(codec, way, given.args, given.text, payload)
    BY DEF CodecsInv
  <2> QED
    BY <2>1, BuiltArrives, Zenon
<1>2. CodecsInv => RoundedToNearest
  <2> SUFFICES ASSUME CodecsInv, stage = "built", NEW p \in payload, NEW r \in Read(L, p),
                      NEW k \in DOMAIN given.args, L.ways[way].fields[k].kind = "rounded",
                      NEW v \in r.fields[Place(k)],
                      NEW near, Kept(L.ways[way].fields[k], near),
                      near \in {v - L.ways[way].fields[k].step, v + L.ways[way].fields[k].step}
               PROVE  Distance(v, given.args[k]) <= Distance(near, given.args[k])
    BY DEF RoundedToNearest
  <2> DEFINE f == L.ways[way].fields[k]
             a == given.args[k]
  <2>1. Made(codec, way, given.args, given.text, payload)
    BY DEF CodecsInv
  <2>2. /\ codec \in Names /\ way \in DOMAIN L.ways /\ k \in DOMAIN L.ways[way].fields
        /\ Numbers(L.ways[way], given.args)
    BY <2>1 DEF Made, L
  <2>3. WaySound(L, L.ways[way])
    BY <2>2, LayoutIsSound, Zenon DEF L
  <2>4. IsRead(k) /\ Sits(f) /\ Codes(f)
    BY <2>2, <2>3 DEF WaySound, IsRead
  <2>5. a \in Int
    BY <2>2 DEF Numbers
  <2>6. v = FromBits(f, ToBits(f, a))
    <3>1. r.fields[Place(k)] = {FromBits(f, ToBits(f, a))}
      BY <2>1, <2>4, BuiltArrives, Zenon
    <3> HIDE DEF f, a
    <3> QED
      BY <3>1
  <2>7. IsRounded(f)
    BY <2>4 DEF Codes, IsRounded
  <2>8. f.kind = "rounded" /\ Kept(f, near) /\ near \in {v - f.step, v + f.step}
    OBVIOUS
  <2> HIDE DEF f, a
  <2>9. near \in Int
    <3>1. f.step \in Int
      BY <2>7 DEF IsRounded
    <3>2. v \in Int
      <4>1. v = f.step * Clamp(Nearest(a, f.step), f.least, f.most)
        BY <2>5, <2>6, <2>7, RoundedReads
      <4>2. Clamp(Nearest(a, f.step), f.least, f.most) \in Int
        <5>1. f.step \in Nat \ {0} /\ f.least \in Int /\ f.most \in Int
          BY <2>7 DEF IsRounded, Roomy
        <5> QED
          BY <2>5, <5>1, Half, Division DEF Clamp, Nearest
      <4>3. \A x, y \in Int : x * y \in Int
        OBVIOUS
      <4> QED
        BY <3>1, <4>1, <4>2, <4>3, Zenon
    <3> QED
      BY <2>8, <3>1, <3>2
  <2>10. Distance(v, a) <= Distance(near, a)
    BY <2>5, <2>6, <2>7, <2>8, <2>9, RoundedAreNearest
  <2> QED
    BY <2>10 DEF a
<1> QED
  BY <1>1, <1>2, CodecsInvHolds, PTL DEF FieldsArrive

\* The text of a frame is what its end leaves of the text that was given.
LEMMA TextArrives ==
  ASSUME Made(codec, way, given.args, given.text, payload), NEW p \in payload,
         NEW r \in Read(L, p), L.tail.longest > 0
  PROVE  /\ IsPrefix(r.text, Sent(given.text)) \/ IsPrefix(Sent(given.text), r.text)
         /\ Plain(given.text) /\ Len(given.text) <= L.tail.longest =>
              IsPrefix(Sent(given.text), r.text)
         /\ Len(r.text) > Len(given.text) =>
              L.tail.taken = "all" /\ L.tail.room = Len(r.text)
<1> DEFINE args == given.args
           text == given.text
           w == L.ways[way]
<1>1. /\ codec \in Names /\ way \in DOMAIN L.ways /\ Numbers(w, args) /\ text \in Seq(Nat)
      /\ p \in Build(L, w, args, text)
  BY DEF Made, L
<1>2. WaySound(L, w) /\ Endings(L.tail) /\ L.cmd \in Octets
  BY <1>1, LayoutIsSound, Zenon DEF L
<1> HIDE DEF args, text, w
<1>3. Suit(w, args) /\ \E bytes \in WriteText(L.tail, text) : IsBuilt(p, L, w, args, bytes)
  BY <1>1, <1>2, BuilderBuilds
<1>4. PICK bytes \in WriteText(L.tail, text) : IsBuilt(p, L, w, args, bytes)
  BY <1>3
<1> DEFINE head == FieldBytes(L, w, args)
<1>5. head \in Seq(Octets) /\ Len(head) = L.tail.at
  <2>1. head \in Seq(Octets) /\ Len(head) = w.length
    BY <1>2, <1>3, HeadIs
  <2>2. w.length = L.tail.at
    BY <1>2, Zenon DEF WaySound
  <2> QED
    BY <2>1, <2>2
<1>6. p = head \o bytes
  BY <1>4 DEF IsBuilt
<1> HIDE DEF head
<1>7. r.text = ReadText(L.tail, head \o bytes)
  <2>1. r.text = ReadText(L.tail, p)
    BY ReaderReads
  <2> QED
    BY <1>6, <2>1, Zenon
<1> DEFINE got == ReadText(L.tail, head \o bytes)
<1>8. /\ IsPrefix(got, Sent(text)) \/ IsPrefix(Sent(text), got)
      /\ Plain(text) /\ Len(text) <= L.tail.longest => IsPrefix(Sent(text), got)
      /\ Len(got) > Len(text) => L.tail.taken = "all" /\ L.tail.room = Len(got)
  BY <1>1, <1>2, <1>5, TextsLoseOnlyTheirEnd
<1> QED
  BY <1>7, <1>8, Zenon DEF text

LEMMA OnlyEndsGo == CodecsInv => OnlyEndsAreLost
<1> SUFFICES ASSUME CodecsInv, stage = "built", L.tail.longest > 0,
                    NEW p \in payload, NEW r \in Read(L, p)
             PROVE  LET text == [i \in DOMAIN given.text |-> given.text[i] % 256]
                        plain == \A i \in DOMAIN text : text[i] \in 33..127
                    IN  /\ IsPrefix(r.text, text) \/ IsPrefix(text, r.text)
                        /\ plain /\ Len(text) <= L.tail.longest => IsPrefix(text, r.text)
                        /\ Len(r.text) > Len(text) =>
                             L.tail.taken = "all" /\ L.tail.room = Len(r.text)
  BY DEF OnlyEndsAreLost
<1>1. Made(codec, way, given.args, given.text, payload)
  BY DEF CodecsInv
<1> DEFINE text == Sent(given.text)
<1>2. given.text \in Seq(Nat)
  BY <1>1 DEF Made
<1>3. Len(text) = Len(given.text)
  BY <1>2, LowBytes DEF Sent
<1>4. (\A i \in DOMAIN text : text[i] \in 33..127) => Plain(given.text)
  BY DEF Plain, Sent
<1>5. text = [i \in DOMAIN given.text |-> given.text[i] % 256]
  BY DEF Sent
<1> HIDE DEF text
<1>6. /\ IsPrefix(r.text, text) \/ IsPrefix(text, r.text)
      /\ Plain(given.text) /\ Len(given.text) <= L.tail.longest => IsPrefix(text, r.text)
      /\ Len(r.text) > Len(given.text) => L.tail.taken = "all" /\ L.tail.room = Len(r.text)
  BY <1>1, TextArrives, Zenon DEF text
<1> QED
  BY <1>3, <1>4, <1>5, <1>6, ZenonT(30)

LEMMA NothingIsPrefix ==
  ASSUME NEW s \in Seq(Int), NEW e \in Seq(Int), Len(e) = 0
  PROVE  IsPrefix(e, s)
<1>1. Alike(e, s) /\ Len(e) <= Len(s)
  BY DEF Alike
<1> QED
  BY <1>1, AlikeIsPrefix

LEMMA PrefixOfSameLength ==
  ASSUME NEW s \in Seq(Int), NEW t \in Seq(Int), IsPrefix(s, t), Len(t) <= Len(s)
  PROVE  IsPrefix(t, s)
<1>1. Len(s) <= Len(t) /\ SubSeq(s, 1, Len(s)) = SubSeq(t, 1, Len(s))
  BY DEF IsPrefix
<1>2. Len(s) = Len(t)
  BY <1>1
<1>3. SubSeq(t, 1, Len(t)) = SubSeq(s, 1, Len(t))
  BY <1>1, <1>2
<1> QED
  BY <1>3 DEF IsPrefix

\* What was read of the bytes of a text is written as it was read.
LEMMA BytesStay ==
  ASSUME NEW text \in Seq(Octets)
  PROVE  Sent(text) = text
<1>1. text \in Seq(Nat)
  <2>1. Octets \subseteq Nat
    BY DEF Octets
  <2> QED
    BY <2>1, SeqMonotonic, Zenon
<1>2. /\ Sent(text) \in Seq(Octets) /\ Len(Sent(text)) = Len(text)
      /\ \A i \in 1..Len(text) : Sent(text)[i] = text[i] % 256
  BY <1>1, LowBytes DEF Sent
<1>3. \A i \in 1..Len(text) : Sent(text)[i] = text[i]
  <2> TAKE i \in 1..Len(text)
  <2>1. text[i] \in Octets
    BY ElementOfSeq
  <2>2. \A b \in Octets : b % 256 = b
    BY DEF Octets
  <2>3. text[i] % 256 = text[i]
    BY <2>1, <2>2, Zenon
  <2> QED
    BY <1>2, <2>3, Zenon
<1> DEFINE s == Sent(text)
<1> HIDE DEF s
<1>4. s = text
  BY <1>2, <1>3 DEF s
<1> QED
  BY <1>4 DEF s

\* Of a text without an end of its own nothing is read.
LEMMA NoTextIsRead ==
  ASSUME NEW c \in Names, Layouts[c].tail = NoEnding, NEW p \in Seq(Octets),
         NEW r \in Read(Layouts[c], p)
  PROVE  Len(r.text) = 0
<1>1. Len(r.text) <= LongestPayload - Layouts[c].tail.at /\ r.text \in Seq(Nat)
  BY TextFits
<1>2. Layouts[c].tail.at = LongestPayload
  BY DEF NoEnding, Ending
<1> QED
  BY <1>1, <1>2, LongestAssumption

\* The arguments were read of a payload, and come back.
LEMMA FieldsComeBack ==
  ASSUME Made(codec, way, given.args, given.text, payload),
         Reread(codec, way, given.args, given.text, before)
  PROVE  \A p \in payload : \A r \in Read(L, p), first \in before :
           \A k \in DOMAIN L.ways[way].fields : \A v \in first.fields[Place(k)] :
             Kept(L.reads[Place(k)], v) => r.fields[Place(k)] = {v}
<1> SUFFICES ASSUME NEW p \in payload, NEW r \in Read(L, p), NEW first \in before,
                    NEW k \in DOMAIN L.ways[way].fields, NEW v \in first.fields[Place(k)],
                    Kept(L.reads[Place(k)], v)
             PROVE  r.fields[Place(k)] = {v}
  OBVIOUS
<1> DEFINE f == L.ways[way].fields[k]
           a == given.args[k]
<1>1. /\ codec \in Names /\ way \in DOMAIN L.ways
      /\ DOMAIN given.args = DOMAIN L.ways[way].fields
  BY DEF Made, L
<1>2. PICK j \in DOMAIN L.reads : L.reads[j].name = f.name /\ first.fields[j] = {a}
  BY DEF Reread, L
<1>3. IsRead(k)
  BY <1>2 DEF IsRead
<1>4. Place(k) = j
  <2>1. Place(k) \in DOMAIN L.reads /\ L.reads[Place(k)].name = f.name
    BY <1>3, PlaceIs
  <2> QED
    BY <1>1, <1>2, <2>1, NamesAreUnique DEF L
<1>5. v = a
  <2>1. first.fields[Place(k)] = {a}
    BY <1>2, <1>4
  <2> HIDE DEF a
  <2> QED
    BY <2>1
<1>6. k \in DOMAIN given.args
  BY <1>1
<1>7. L.reads[Place(k)] = f /\ (Kept(f, a) => r.fields[Place(k)] = {a})
  BY <1>3, <1>6, BuiltArrives, Zenon
<1> HIDE DEF f, a
<1> QED
  BY <1>5, <1>7

LEMMA TextComesBack ==
  ASSUME Made(codec, way, given.args, given.text, payload),
         Reread(codec, way, given.args, given.text, before),
         NEW p \in payload, p \in Seq(Octets), NEW r \in Read(L, p), NEW first \in before
  PROVE  IsPrefix(r.text, first.text)
<1> DEFINE text == first.text
           t == L.tail
<1>1. PICK q \in Seq(Octets) : \E x \in Read(L, q) : before = {x} /\ given.text = x.text
  BY DEF Reread, L
<1>2. first \in Read(L, q) /\ given.text = text
  BY <1>1
<1>3. codec \in Names /\ Endings(t) /\ TailSound(L)
  <2>1. codec \in Names
    BY DEF Made
  <2> QED
    BY <2>1, LayoutIsSound, Zenon DEF L
<1>4. /\ text = ReadText(t, q) /\ text \in Seq(Octets) /\ Len(q) \in L.lengths
      /\ r.text \in Seq(Octets)
  BY <1>2, <1>3, ReaderReads, TextIsRead
<1>5. text \in Seq(Int) /\ r.text \in Seq(Int)
  BY <1>4, BytesAreNumbers
<1>6. Sent(text) = text
  BY <1>4, BytesStay
<1> HIDE DEF text
<1>7. CASE t = NoEnding
  <2>1. Len(r.text) = 0
    BY <1>3, <1>7, NoTextIsRead DEF L
  <2> QED
    BY <1>5, <2>1, NothingIsPrefix DEF text
<1>8. CASE t.longest > 0
  <2>1. /\ IsPrefix(r.text, text) \/ IsPrefix(text, r.text)
        /\ Len(r.text) > Len(text) => t.taken = "all" /\ t.room = Len(r.text)
    BY <1>2, <1>6, <1>8, TextArrives
  <2>2. ~ (Len(r.text) > Len(text))
    <3> SUFFICES ASSUME Len(r.text) > Len(text) PROVE FALSE
      OBVIOUS
    <3>1. t.taken = "all" /\ t.room = Len(r.text)
      BY <2>1
    <3>2. t.room > 0 /\ t.at \in Nat
      <4>1. t.at \in Nat
        BY <1>3, Zenon DEF Endings
      <4>2. Len(text) \in Nat /\ Len(r.text) \in Nat
        BY <1>5
      <4> QED
        BY <3>1, <4>1, <4>2
    <3>3. t.at + t.room <= Len(q)
      BY <1>3, <1>4, <3>1, <3>2, Zenon DEF TailSound
    <3>4. text = SubSeq(q, t.at + 1, Len(q))
      BY <1>4, <3>1 DEF ReadText
    <3>5. Len(text) = Len(q) - t.at
      BY <3>1, <3>2, <3>3, <3>4, SMTT(30)
    <3> QED
      BY <1>5, <3>1, <3>2, <3>3, <3>5
  <2> QED
    BY <1>5, <2>1, <2>2, PrefixOfSameLength DEF text
<1> QED
  BY <1>3, <1>7, <1>8, Zenon DEF TailSound

LEMMA BuiltOfBytes ==
  ASSUME Made(codec, way, given.args, given.text, payload), NEW p \in payload
  PROVE  p \in Seq(Octets)
<1> DEFINE args == given.args
           text == given.text
           w == L.ways[way]
<1>1. /\ codec \in Names /\ way \in DOMAIN L.ways /\ Numbers(w, args) /\ text \in Seq(Nat)
      /\ p \in Build(L, w, args, text)
  BY DEF Made, L
<1>2. WaySound(L, w) /\ Endings(L.tail) /\ L.cmd \in Octets
  BY <1>1, LayoutIsSound, Zenon DEF L
<1> HIDE DEF args, text, w
<1> QED
  BY <1>1, <1>2, BuilderBuilds DEF IsBuilt

\* A frame that was read and built anew is read with the same fields and with
\* its text or the beginning of it, for any payload of bytes that the parser
\* took (packages/ikbus-commands/src: parseX(), buildX(), parseX()).
THEOREM WhatWasReadIsSaidAgain == CodecsSpec => []SaysTheSameAgain
<1>1. CodecsInv => SaysTheSameAgain
  <2> SUFFICES ASSUME CodecsInv, stage = "again", NEW p \in payload, NEW r \in Read(L, p),
                      NEW first \in before
               PROVE  /\ \A k \in DOMAIN L.ways[way].fields :
                           LET j == Place(k)
                           IN  \A v \in first.fields[j] :
                                 Kept(L.reads[j], v) => r.fields[j] = {v}
                      /\ IsPrefix(r.text, first.text)
    BY DEF SaysTheSameAgain
  <2>1. /\ Made(codec, way, given.args, given.text, payload)
        /\ Reread(codec, way, given.args, given.text, before)
    BY DEF CodecsInv
  <2>2. p \in Seq(Octets)
    BY <2>1, BuiltOfBytes
  <2>3. \A k \in DOMAIN L.ways[way].fields : \A v \in first.fields[Place(k)] :
          Kept(L.reads[Place(k)], v) => r.fields[Place(k)] = {v}
    BY <2>1, FieldsComeBack
  <2>4. IsPrefix(r.text, first.text)
    BY <2>1, <2>2, TextComesBack
  <2> QED
    BY <2>3, <2>4
<1> QED
  BY <1>1, CodecsInvHolds, PTL

LEMMA NothingIsUndefined == CodecsInv => NothingUndefined
<1> SUFFICES ASSUME CodecsInv, stage \in {"built", "sent", "again"}, NEW p \in payload,
                    NEW r \in Read(L, p), NEW j \in DOMAIN r.fields, r.fields[j] = {}
             PROVE  L.reads[j].name \in L.optional
  BY DEF NothingUndefined
<1>1. codec \in Names
  BY DEF CodecsInv, Made, Received
<1>2. ReadsSound(L)
  BY <1>1, LayoutIsSound, Zenon DEF L
<1>3. /\ Len(p) \in L.lengths /\ DOMAIN r.fields = DOMAIN L.reads
      /\ \A i \in DOMAIN L.reads :
           r.fields[i] = IF Present(L.reads[i], p)
                         THEN {FromBits(L.reads[i], BitsOf(L.reads[i], p))} ELSE {}
  BY ReaderReads
<1>4. j \in DOMAIN L.reads
  BY <1>3
<1>5. ~ Present(L.reads[j], p)
  BY <1>3, <1>4
<1>6. L.reads[j].name \in L.optional \/ \A i \in Range(L.reads[j].at) : i < Len(p)
  BY <1>2, <1>3, <1>4, Zenon DEF ReadsSound
<1> QED
  BY <1>5, <1>6, Zenon DEF Present

\* The parser takes the length of what was written, but for the texts that
\* three builders take empty.
\* The bytes of a text make its frame one of the lengths that are written.
LEMMA LengthIsWritten ==
  ASSUME NEW l, NEW w, w.length \in Nat, TailSound(l), NEW text \in Seq(Nat),
         Len(text) <= LongestPayload - l.tail.at, NEW bytes \in WriteText(l.tail, text)
  PROVE  /\ w.length + Len(bytes) \in Written(l, w)
         /\ w.length + Len(bytes) = w.length => text = <<>>
<1> DEFINE t == l.tail
<1>1. Endings(t) /\ (t = NoEnding \/ t.longest > 0) /\ (t.cut => t.least = 0)
  BY Zenon DEF TailSound
<1>2. PICK n \in Nat : Holds(bytes, n, t, text)
  BY <1>1, WriterHolds
<1>3. t.at \in Nat /\ t.longest \in Nat /\ t.room \in Nat /\ t.least \in Nat
  BY <1>1, Zenon DEF Endings
<1>4. ~ (Len(text) < t.least)
  BY Zenon DEF WriteText
<1>5. /\ n \in 0..Len(text) /\ n <= t.longest
      /\ n = Len(text) \/ (n < Len(text) /\ n = t.longest /\ t.cut)
      /\ Len(bytes) = IF t.room > n THEN t.room ELSE n
  BY <1>2, Zenon DEF Holds
<1>6. w.length + Len(bytes) \in Written(l, w)
  <2>1. n \in 0..(LongestPayload - t.at)
    BY <1>3, <1>5, LongestAssumption
  <2>2. t.least <= n
    <3>1. CASE n = Len(text)
      BY <1>3, <1>4, <3>1
    <3>2. CASE t.cut
      BY <1>1, <3>2
    <3> QED
      BY <1>5, <3>1, <3>2
  <2>3. n \in {m \in 0..(LongestPayload - t.at) : t.least <= m /\ m <= t.longest}
    BY <1>5, <2>1, <2>2
  <2>4. w.length + Len(bytes) = w.length + (IF t.room > n THEN t.room ELSE n)
    BY <1>5
  <2> QED
    BY <2>3, <2>4, Zenon DEF Written
<1>7. ASSUME w.length + Len(bytes) = w.length PROVE text = <<>>
  <2>1. Len(text) \in Nat
    OBVIOUS
  <2>2. n = 0
    BY <1>3, <1>5, <1>7, <2>1
  <2>3. CASE n = Len(text)
    BY <2>2, <2>3
  <2>4. CASE n < Len(text) /\ n = t.longest /\ t.cut
    <3>1. t = NoEnding
      BY <1>1, <1>3, <2>2, <2>4
    <3>2. ~ t.cut
      BY <3>1 DEF NoEnding, Ending
    <3> QED
      BY <2>4, <3>2
  <2> QED
    BY <1>5, <2>3, <2>4
<1> QED
  BY <1>6, <1>7

LEMMA LengthIsTaken ==
  ASSUME NEW c \in Names, NEW l, l = Layouts[c], NEW w, WayAccepted(c, l, w),
         WaySound(l, w), TailSound(l), NEW text \in Seq(Nat),
         Len(text) <= LongestPayload - l.tail.at, NEW bytes \in WriteText(l.tail, text)
  PROVE  \/ w.length + Len(bytes) \in l.lengths
         \/ text = <<>> /\ c \in RefusedWhenEmpty
<1>1. w.length \in Nat
  BY Zenon DEF WaySound
<1>2. /\ w.length + Len(bytes) \in Written(l, w)
      /\ w.length + Len(bytes) = w.length => text = <<>>
  BY <1>1, LengthIsWritten
<1> QED
  BY <1>2, Zenon DEF WayAccepted

\* The parser knows the bits of every field that was written.
LEMMA BitsAreKnown ==
  ASSUME NEW c \in Names, NEW l, l = Layouts[c], NEW w, WayAccepted(c, l, w),
         WaySound(l, w), ReadsSound(l), NEW args, Suit(w, args), NEW bytes,
         NEW p, IsBuilt(p, l, w, args, bytes), NEW j \in DOMAIN l.reads,
         Present(l.reads[j], p)
  PROVE  BitsOf(l.reads[j], p) \in l.reads[j].known
<1> DEFINE f == l.reads[j]
<1>1. CASE f.known = 0..(f.size - 1)
  <2>1. Sits(f) /\ p \in Seq(Octets)
    BY Zenon DEF ReadsSound, IsBuilt
  <2>2. BitsOf(f, p) \in 0..(f.size - 1)
    BY <2>1, BitsAreRead
  <2> QED
    BY <1>1, <2>2
<1>2. CASE \E k \in DOMAIN w.fields : w.fields[k].name = f.name
  <2>1. PICK k \in DOMAIN w.fields : w.fields[k].name = f.name
    BY <1>2
  <2>2. f = w.fields[k] /\ Sits(f) /\ Codes(f)
    BY <2>1 DEF WaySound
  <2>3. BitsOf(w.fields[k], p) = ToBits(w.fields[k], args[k])
    BY FieldIsThere
  <2>4. Suits(f, args[k])
    BY <2>2 DEF Suit
  <2>5. ToBits(f, args[k]) \in f.known
    BY <2>2, <2>4, BitsHaveRoom
  <2> QED
    BY <2>2, <2>3, <2>5
<1> QED
  BY <1>1, <1>2 DEF WayAccepted

LEMMA BuiltIsTaken == CodecsInv => BuiltIsAccepted
<1> SUFFICES ASSUME CodecsInv, stage \in {"built", "again"}, L.lengths # {}, NEW p \in payload
             PROVE  Read(L, p) # {} \/ (given.text = <<>> /\ codec \in RefusedWhenEmpty)
  BY DEF BuiltIsAccepted
<1> DEFINE c == codec
           l == L
           w == L.ways[way]
           args == given.args
           text == given.text
<1>1. Made(codec, way, args, text, payload)
  BY DEF CodecsInv
<1>2. /\ c \in Names /\ way \in DOMAIN l.ways /\ Numbers(w, args) /\ text \in Seq(Nat)
      /\ Len(text) <= LongestPayload - l.tail.at /\ p \in Build(l, w, args, text)
  BY <1>1 DEF Made, L
<1>3. /\ WaySound(l, w) /\ Endings(l.tail) /\ TailSound(l) /\ ReadsSound(l)
      /\ l.cmd \in Octets
  BY <1>2, LayoutIsSound, Zenon DEF L
<1>4. WayAccepted(c, l, w)
  BY <1>2, LayoutsAssumption DEF LayoutSound, L
<1>5. l = Layouts[c]
  BY DEF L
<1> HIDE DEF c, l, w, args, text
<1>6. Suit(w, args) /\ \E bytes \in WriteText(l.tail, text) : IsBuilt(p, l, w, args, bytes)
  BY <1>2, <1>3, BuilderBuilds
<1>7. PICK bytes \in WriteText(l.tail, text) : IsBuilt(p, l, w, args, bytes)
  BY <1>6
<1>8. Len(p) = w.length + Len(bytes) /\ p[1] = l.cmd
  BY <1>7 DEF IsBuilt
<1>9. Len(p) \in l.lengths \/ (text = <<>> /\ c \in RefusedWhenEmpty)
  BY <1>2, <1>3, <1>4, <1>5, <1>8, LengthIsTaken
<1>10. \A j \in DOMAIN l.reads :
         Present(l.reads[j], p) => BitsOf(l.reads[j], p) \in l.reads[j].known
  BY <1>2, <1>3, <1>4, <1>5, <1>6, <1>7, BitsAreKnown
<1>11. Len(p) \in l.lengths => Read(l, p) # {}
  BY <1>8, <1>10, IsTaken
<1> QED
  BY <1>9, <1>11 DEF c, l, text

\* BuiltIsAccepted and NothingUndefined for every codec: the lengths and the
\* bits that a parser asserts are those that its fields need and its builder
\* writes (packages/ikbus-commands/src, internal.ts:16-31).
THEOREM LengthsAlwaysAgree == CodecsSpec => []LengthsAgree
<1>1. CodecsInv => LengthsAgree
  BY NothingIsUndefined, BuiltIsTaken DEF LengthsAgree
<1> QED
  BY <1>1, CodecsInvHolds, PTL

-----------------------------------------------------------------------------
(***************************************************************************)
(* Lists of texts.                                                         *)
(***************************************************************************)
JoinsOf(parts) ==
  CHOOSE upTo : upTo = [n \in 0..Len(parts) |-> IF n = 0 THEN <<>> ELSE upTo[n - 1] \o parts[n]]

LEMMA JoinedIsLast ==
  ASSUME NEW parts
  PROVE  Joined(parts) = JoinsOf(parts)[Len(parts)]
BY DEF Joined, JoinsOf

LEMMA JoinsStep ==
  ASSUME NEW D, NEW parts \in Seq(Seq(D))
  PROVE  /\ JoinsOf(parts) \in [0..Len(parts) -> Seq(D)] /\ JoinsOf(parts)[0] = <<>>
         /\ \A n \in 1..Len(parts) : JoinsOf(parts)[n] = JoinsOf(parts)[n - 1] \o parts[n]
<1> DEFINE X == Seq(D)
           g == [q \in X \X X |-> q[1] \o q[2]]
           e == <<>>
<1>0. \A q, r \in X : q \o r \in X /\ g[<<q, r>>] = q \o r
  <2> TAKE q \in X, r \in X
  <2>1. q \o r \in X
    BY ConcatProperties
  <2>2. <<q, r>> \in X \X X /\ <<q, r>>[1] = q /\ <<q, r>>[2] = r
    OBVIOUS
  <2> QED
    BY <2>1, <2>2
<1>1. g \in [X \X X -> X]
  <2>1. \A q \in X \X X : q[1] \in X /\ q[2] \in X
    OBVIOUS
  <2>2. \A q \in X \X X : q[1] \o q[2] \in X
    BY <1>0, <2>1
  <2> HIDE DEF X
  <2> QED
    BY <2>2
<1>a. e \in X /\ parts \in Seq(X)
  OBVIOUS
<1> HIDE DEF g, X, e
<1>2. PICK f : Runs(f, X, e, g, parts)
  BY <1>1, <1>a, RunExists
<1>b. f \in [0..Len(parts) -> X] /\ f[0] = e
  BY <1>2 DEF Runs
<1>c. Len(parts) \in Nat /\ \A n \in 1..Len(parts) : n - 1 \in 0..Len(parts) /\ parts[n] \in X
  BY <1>a
<1>3. f \in [0..Len(parts) -> X] /\ f[0] = e /\ \A n \in 1..Len(parts) : f[n] = f[n - 1] \o parts[n]
  <2> SUFFICES ASSUME NEW n \in 1..Len(parts) PROVE f[n] = f[n - 1] \o parts[n]
    BY <1>b
  <2>1. n - 1 \in 0..Len(parts) /\ parts[n] \in X
    BY <1>c
  <2>2. f[n - 1] \in X
    BY <1>b, <2>1
  <2>3. f[n] = g[<<f[n - 1], parts[n]>>]
    BY <1>2 DEF Runs
  <2> QED
    BY <1>0, <2>1, <2>2, <2>3
<1>4. f = [n \in 0..Len(parts) |-> IF n = 0 THEN e ELSE f[n - 1] \o parts[n]]
  <2>1. \A n \in 0..Len(parts) : f[n] = IF n = 0 THEN e ELSE f[n - 1] \o parts[n]
    <3> TAKE n \in 0..Len(parts)
    <3>1. n = 0 \/ (n # 0 /\ n \in 1..Len(parts))
      BY <1>c
    <3> QED
      BY <1>3, <3>1, Zenon
  <2> QED
    BY <1>3, <2>1
<1>5. JoinsOf(parts) =
        [n \in 0..Len(parts) |-> IF n = 0 THEN e ELSE JoinsOf(parts)[n - 1] \o parts[n]]
  BY <1>4 DEF JoinsOf, e
<1> DEFINE h == JoinsOf(parts)
<1> HIDE DEF h
<1>6. DOMAIN h = 0..Len(parts) /\ h = [n \in DOMAIN h |-> h[n]]
  BY <1>5 DEF h
<1>7. h[0] = e /\ \A n \in 1..Len(parts) : h[n] = h[n - 1] \o parts[n]
  BY <1>5, <1>c DEF h
<1>8. \A n \in 0..Len(parts) : h[n] = f[n]
  <2>1. \A n \in 1..Len(parts) : h[n - 1] = f[n - 1] => h[n] = g[<<h[n - 1], parts[n]>>]
    <3> TAKE n \in 1..Len(parts)
    <3>1. f[n - 1] \in X /\ parts[n] \in X
      BY <1>b, <1>c
    <3> QED
      BY <1>0, <1>7, <3>1
  <2>2. Len(parts) \in 0..Len(parts)
    BY <1>c
  <2>3. Follows(h, f, e, g, parts, Len(parts))
    BY <1>7, <2>1 DEF Follows
  <2> QED
    BY <1>2, <1>a, <2>2, <2>3, RunIsOne
<1>9. h \in [0..Len(parts) -> X]
  BY <1>3, <1>6, <1>8
<1> QED
  BY <1>7, <1>9 DEF h, X, e

Texts(D) == [text : Seq(D), by : D]

Loops(D) == [ended : Seq(Texts(D)), rest : Seq(D)]

Begun == [ended |-> <<>>, rest |-> <<>>]

LEMMA LoopIs ==
  ASSUME NEW D, NEW done \in Loops(D)
  PROVE  done = [ended |-> done.ended, rest |-> done.rest]
BY DEF Loops

LEMMA LoopParts ==
  ASSUME NEW done, NEW ended, NEW rest, done = [ended |-> ended, rest |-> rest]
  PROVE  done.ended = ended /\ done.rest = rest
OBVIOUS

LEMMA TextParts ==
  ASSUME NEW it, NEW text, NEW by, it = [text |-> text, by |-> by]
  PROVE  it.text = text /\ it.by = by
OBVIOUS

LEMMA StepIsLoop ==
  ASSUME NEW D, NEW done \in Loops(D), NEW b \in D, NEW cuts
  PROVE  Step(done, b, cuts) \in Loops(D)
<1>1. done.ended \in Seq(Texts(D)) /\ done.rest \in Seq(D)
  BY DEF Loops
<1>2. CASE b \in cuts
  <2>1. [text |-> done.rest, by |-> b] \in Texts(D)
    BY <1>1 DEF Texts
  <2>2. Append(done.ended, [text |-> done.rest, by |-> b]) \in Seq(Texts(D))
    BY <1>1, <2>1, AppendProperties
  <2>3. <<>> \in Seq(D)
    OBVIOUS
  <2> QED
    BY <1>2, <2>2, <2>3 DEF Step, Loops
<1>3. CASE b \notin cuts
  <2>1. Append(done.rest, b) \in Seq(D)
    BY <1>1, AppendProperties
  <2> QED
    BY <1>1, <1>3, <2>1 DEF Step, Loops
<1> QED
  BY <1>2, <1>3

SplitsOf(bytes, cuts) ==
  CHOOSE upTo : upTo = [n \in 0..Len(bytes) |->
                          IF n = 0 THEN Begun ELSE Step(upTo[n - 1], bytes[n], cuts)]

LEMMA SplitIsLast ==
  ASSUME NEW bytes, NEW cuts
  PROVE  Split(bytes, cuts) = SplitsOf(bytes, cuts)[Len(bytes)]
BY DEF Split, SplitsOf, Begun

LEMMA SplitsStep ==
  ASSUME NEW D, NEW bytes \in Seq(D), NEW cuts
  PROVE  /\ SplitsOf(bytes, cuts) \in [0..Len(bytes) -> Loops(D)]
         /\ SplitsOf(bytes, cuts)[0] = Begun
         /\ \A n \in 1..Len(bytes) :
              SplitsOf(bytes, cuts)[n] = Step(SplitsOf(bytes, cuts)[n - 1], bytes[n], cuts)
<1> DEFINE X == Loops(D)
           g == [q \in X \X D |-> Step(q[1], q[2], cuts)]
           h == SplitsOf(bytes, cuts)
<1>0. \A q \in X, b \in D : Step(q, b, cuts) \in X /\ g[<<q, b>>] = Step(q, b, cuts)
  <2> TAKE q \in X, b \in D
  <2>1. Step(q, b, cuts) \in X
    BY StepIsLoop
  <2> HIDE DEF X
  <2>2. <<q, b>> \in X \X D /\ <<q, b>>[1] = q /\ <<q, b>>[2] = b
    OBVIOUS
  <2>3. g[<<q, b>>] = Step(q, b, cuts)
    BY <2>2
  <2> QED
    BY <2>1, <2>3
<1>1. g \in [X \X D -> X]
  <2>1. \A q \in X \X D : q[1] \in X /\ q[2] \in D
    OBVIOUS
  <2>2. \A q \in X \X D : Step(q[1], q[2], cuts) \in X
    BY <1>0, <2>1
  <2> HIDE DEF X
  <2> QED
    BY <2>2
<1>2. Begun \in X
  BY DEF Begun, Loops
<1> HIDE DEF g, X, h
<1>3. PICK f : Runs(f, X, Begun, g, bytes)
  BY <1>1, <1>2, RunExists
<1>4. f \in [0..Len(bytes) -> X] /\ f[0] = Begun
  BY <1>3 DEF Runs
<1>5. Len(bytes) \in Nat /\ \A n \in 1..Len(bytes) : n - 1 \in 0..Len(bytes) /\ bytes[n] \in D
  OBVIOUS
<1>6. \A n \in 1..Len(bytes) : f[n] = Step(f[n - 1], bytes[n], cuts)
  <2> TAKE n \in 1..Len(bytes)
  <2>1. n - 1 \in 0..Len(bytes) /\ bytes[n] \in D
    BY <1>5
  <2>2. f[n - 1] \in X
    BY <1>4, <2>1
  <2>3. f[n] = g[<<f[n - 1], bytes[n]>>]
    BY <1>3 DEF Runs
  <2> QED
    BY <1>0, <2>1, <2>2, <2>3
<1>7. f = [n \in 0..Len(bytes) |-> IF n = 0 THEN Begun ELSE Step(f[n - 1], bytes[n], cuts)]
  <2>1. \A n \in 0..Len(bytes) : f[n] = IF n = 0 THEN Begun ELSE Step(f[n - 1], bytes[n], cuts)
    <3> TAKE n \in 0..Len(bytes)
    <3>1. n = 0 \/ (n # 0 /\ n \in 1..Len(bytes))
      BY <1>5
    <3> QED
      BY <1>4, <1>6, <3>1, Zenon
  <2> QED
    BY <1>4, <2>1
<1>8. h = [n \in 0..Len(bytes) |-> IF n = 0 THEN Begun ELSE Step(h[n - 1], bytes[n], cuts)]
  BY <1>7 DEF SplitsOf, h
<1>9. DOMAIN h = 0..Len(bytes) /\ h = [n \in DOMAIN h |-> h[n]]
  BY <1>8
<1>10. h[0] = Begun /\ \A n \in 1..Len(bytes) : h[n] = Step(h[n - 1], bytes[n], cuts)
  BY <1>5, <1>8
<1>11. \A n \in 0..Len(bytes) : h[n] = f[n]
  <2>1. \A n \in 1..Len(bytes) : h[n - 1] = f[n - 1] => h[n] = g[<<h[n - 1], bytes[n]>>]
    <3> TAKE n \in 1..Len(bytes)
    <3>1. f[n - 1] \in X /\ bytes[n] \in D
      BY <1>4, <1>5
    <3> QED
      BY <1>0, <1>10, <3>1
  <2>2. Len(bytes) \in 0..Len(bytes)
    BY <1>5
  <2>3. Follows(h, f, Begun, g, bytes, Len(bytes))
    BY <1>10, <2>1 DEF Follows
  <2> QED
    BY <1>3, <2>2, <2>3, RunIsOne
<1>12. h \in [0..Len(bytes) -> X]
  BY <1>4, <1>9, <1>11
<1> QED
  BY <1>10, <1>12 DEF h, X

LEMMA GrowsByOne ==
  ASSUME NEW D, NEW x \in Seq(D), NEW i \in 0..Len(x), i < Len(x)
  PROVE  Append(SubSeq(x, 1, i), x[i + 1]) = SubSeq(x, 1, i + 1)
<1> DEFINE s == SubSeq(x, 1, i)
           t == SubSeq(x, 1, i + 1)
<1>1. s \in Seq(D) /\ Len(s) = i /\ \A k \in 1..i : s[k] = x[k]
  OBVIOUS
<1>2. t \in Seq(D) /\ Len(t) = i + 1 /\ \A k \in 1..(i + 1) : t[k] = x[k]
  OBVIOUS
<1>3. x[i + 1] \in D
  OBVIOUS
<1> HIDE DEF s, t
<1>4. /\ Append(s, x[i + 1]) \in Seq(D) /\ Len(Append(s, x[i + 1])) = i + 1
      /\ \A k \in 1..i : Append(s, x[i + 1])[k] = s[k]
      /\ Append(s, x[i + 1])[i + 1] = x[i + 1]
  BY <1>1, <1>3
<1> DEFINE u == Append(s, x[i + 1])
<1> HIDE DEF u
<1>5. u \in Seq(D) /\ Len(u) = i + 1 /\ \A k \in 1..(i + 1) : u[k] = x[k]
  BY <1>1, <1>4 DEF u
<1>6. u = t
  BY <1>2, <1>5
<1> QED
  BY <1>6 DEF s, t, u

\* A text without an end in it is in the bytes from a on.
IsTextAt(bytes, cuts, a, x) ==
  a + Len(x) <= Len(bytes) /\ \A i \in 1..Len(x) : bytes[a + i] = x[i] /\ x[i] \notin cuts

HasRun(bytes, cuts, a, x) ==
  SplitsOf(bytes, cuts)[a + Len(x)] = [ended |-> SplitsOf(bytes, cuts)[a].ended, rest |-> x]

\* The loop reads such a text.
LEMMA TextIsRun ==
  ASSUME NEW bytes \in Seq(Nat), NEW cuts, NEW a \in Nat, NEW x \in Seq(Nat),
         IsTextAt(bytes, cuts, a, x), SplitsOf(bytes, cuts)[a].rest = <<>>
  PROVE  HasRun(bytes, cuts, a, x)
<1> DEFINE at == SplitsOf(bytes, cuts)
           then(i) == [ended |-> at[a].ended, rest |-> SubSeq(x, 1, i)]
           good == {i \in 0..Len(x) : at[a + i] = then(i)}
<1>1. /\ at \in [0..Len(bytes) -> Loops(Nat)]
      /\ \A n \in 1..Len(bytes) : at[n] = Step(at[n - 1], bytes[n], cuts)
  BY SplitsStep, Zenon
<1>2. Len(x) \in Nat /\ Len(bytes) \in Nat
  OBVIOUS
<1> HIDE DEF at
<1>3. 0 \in good
  <2>0. a \in 0..Len(bytes)
    <3>1. a + Len(x) <= Len(bytes)
      BY DEF IsTextAt
    <3>2. \A m, n, q \in Nat : m + n <= q => m \in 0..q
      OBVIOUS
    <3> QED
      BY <1>2, <3>1, <3>2, Zenon
  <2>1. at[a] \in Loops(Nat)
    BY <1>1, <2>0, Zenon
  <2>2. at[a] = [ended |-> at[a].ended, rest |-> at[a].rest]
    BY <2>1, LoopIs
  <2>3. at[a].rest = <<>> /\ SubSeq(x, 1, 0) = <<>>
    BY DEF at
  <2>4. a + 0 = a /\ 0 \in 0..Len(x)
    BY <1>2
  <2>5. at[a + 0] = then(0)
    BY <2>2, <2>3, <2>4, Zenon
  <2> HIDE DEF then
  <2> QED
    BY <2>4, <2>5
<1>4. ASSUME NEW i \in 0..Len(x), i \in good, i < Len(x) PROVE i + 1 \in good
  <2>1. at[a + i] = then(i)
    BY <1>4
  <2>2. i + 1 \in 1..Len(x) /\ i + 1 \in 0..Len(x) /\ a + (i + 1) \in 1..Len(bytes)
        /\ (a + (i + 1)) - 1 = a + i
    BY <1>2, <1>4 DEF IsTextAt
  <2>3. bytes[a + (i + 1)] = x[i + 1] /\ x[i + 1] \notin cuts
    BY <2>2 DEF IsTextAt
  <2>4. at[a + (i + 1)] = Step(at[a + i], x[i + 1], cuts)
    BY <1>1, <2>2, <2>3
  <2>5. Append(SubSeq(x, 1, i), x[i + 1]) = SubSeq(x, 1, i + 1)
    BY <1>4, GrowsByOne
  <2>6. then(i).ended = at[a].ended /\ then(i).rest = SubSeq(x, 1, i)
    BY Zenon
  <2>7. Step(then(i), x[i + 1], cuts) =
          [ended |-> then(i).ended, rest |-> Append(then(i).rest, x[i + 1])]
    BY <2>3, Zenon DEF Step
  <2>8. at[a + (i + 1)] = then(i + 1)
    BY <2>1, <2>4, <2>5, <2>6, <2>7, Zenon
  <2> HIDE DEF then
  <2> QED
    BY <2>2, <2>8
<1> HIDE DEF good
<1>5. Len(x) \in good
  <2>1. \A i \in 0..Len(x) : i \in good
    BY <1>2, <1>3, <1>4, Induction
  <2> QED
    BY <1>2, <2>1
<1>6. at[a + Len(x)] = then(Len(x))
  BY <1>5 DEF good
<1>7. SubSeq(x, 1, Len(x)) = x
  OBVIOUS
<1> QED
  BY <1>6, <1>7, Zenon DEF at, HasRun

\* The loop reads the end of a text.
LEMMA EndIsRun ==
  ASSUME NEW bytes \in Seq(Nat), NEW cuts, NEW a \in Nat, a < Len(bytes),
         bytes[a + 1] \in cuts
  PROVE  SplitsOf(bytes, cuts)[a + 1] =
           [ended |-> Append(SplitsOf(bytes, cuts)[a].ended,
                             [text |-> SplitsOf(bytes, cuts)[a].rest, by |-> bytes[a + 1]]),
            rest |-> <<>>]
<1> DEFINE at == SplitsOf(bytes, cuts)
<1>1. \A n \in 1..Len(bytes) : at[n] = Step(at[n - 1], bytes[n], cuts)
  BY SplitsStep, Zenon
<1> HIDE DEF at
<1>2. a + 1 \in 1..Len(bytes) /\ (a + 1) - 1 = a
  OBVIOUS
<1>3. at[a + 1] = Step(at[a], bytes[a + 1], cuts)
  BY <1>1, <1>2
<1> QED
  BY <1>3, Zenon DEF Step, at

Begins(s, t) == Len(s) <= Len(t) /\ \A i \in 1..Len(s) : t[i] = s[i]

LEMMA BeginsJoined ==
  ASSUME NEW D, NEW r \in Seq(D), NEW s \in Seq(D), NEW x \in Seq(D), Begins(r, s)
  PROVE  Begins(r, s \o x) /\ Begins(s, s \o x)
<1> DEFINE t == s \o x
<1>1. /\ Len(t) = Len(s) + Len(x)
      /\ \A i \in 1..(Len(s) + Len(x)) : t[i] = IF i <= Len(s) THEN s[i] ELSE x[i - Len(s)]
  BY ConcatProperties
<1>2. Len(r) \in Nat /\ Len(s) \in Nat /\ Len(x) \in Nat
  OBVIOUS
<1> HIDE DEF t
<1>3. \A i \in 1..Len(s) : t[i] = s[i]
  BY <1>1, <1>2
<1>4. Begins(s, t)
  BY <1>1, <1>2, <1>3 DEF Begins
<1>5. Begins(r, t)
  BY <1>1, <1>2, <1>3 DEF Begins
<1> QED
  BY <1>4, <1>5 DEF t

LEMMA JoinsBegin ==
  ASSUME NEW D, NEW parts \in Seq(Seq(D))
  PROVE  \A n \in 0..Len(parts) : \A m \in 0..n : Begins(JoinsOf(parts)[m], JoinsOf(parts)[n])
<1> DEFINE h == JoinsOf(parts)
           good == {n \in 0..Len(parts) : \A m \in 0..n : Begins(h[m], h[n])}
<1>1. /\ h \in [0..Len(parts) -> Seq(D)]
      /\ \A n \in 1..Len(parts) : h[n] = h[n - 1] \o parts[n]
  BY JoinsStep
<1>2. Len(parts) \in Nat /\ \A n \in 1..Len(parts) : parts[n] \in Seq(D)
  OBVIOUS
<1> HIDE DEF h
<1>3. \A n \in 0..Len(parts) : Begins(h[n], h[n])
  <2> TAKE n \in 0..Len(parts)
  <2>1. Len(h[n]) \in Nat
    BY <1>1
  <2> QED
    BY <2>1 DEF Begins
<1>4. 0 \in good
  <2>1. \A m \in 0..0 : m = 0
    OBVIOUS
  <2>2. 0 \in 0..Len(parts)
    BY <1>2
  <2> QED
    BY <1>3, <2>1, <2>2
<1>5. ASSUME NEW n \in 0..Len(parts), n \in good, n < Len(parts) PROVE n + 1 \in good
  <2>1. n + 1 \in 1..Len(parts) /\ n + 1 \in 0..Len(parts) /\ (n + 1) - 1 = n
    BY <1>2, <1>5
  <2>2. h[n + 1] = h[n] \o parts[n + 1]
    BY <1>1, <2>1
  <2>3. h[n] \in Seq(D) /\ parts[n + 1] \in Seq(D)
    BY <1>1, <1>2, <2>1
  <2>4. ASSUME NEW m \in 0..(n + 1) PROVE Begins(h[m], h[n + 1])
    <3>1. CASE m = n + 1
      BY <1>3, <2>1, <3>1
    <3>2. CASE m \in 0..n
      <4>1. Begins(h[m], h[n])
        BY <1>5, <3>2
      <4>2. h[m] \in Seq(D)
        <5>1. m \in 0..Len(parts)
          BY <1>2, <3>2
        <5> QED
          BY <1>1, <5>1
      <4> QED
        BY <2>2, <2>3, <4>1, <4>2, BeginsJoined
    <3> QED
      BY <3>1, <3>2
  <2> QED
    BY <2>1, <2>4
<1> HIDE DEF good
<1>6. \A n \in 0..Len(parts) : n \in good
  BY <1>2, <1>4, <1>5, Induction
<1> QED
  BY <1>6 DEF good, h

\* Where part m ends.
EndOf(parts, m) == Len(JoinsOf(parts)[m])

LEMMA PartsAreThere ==
  ASSUME NEW D, NEW parts \in Seq(Seq(D))
  PROVE  /\ Joined(parts) \in Seq(D) /\ EndOf(parts, 0) = 0
         /\ Len(Joined(parts)) = EndOf(parts, Len(parts))
         /\ \A m \in 0..Len(parts) : EndOf(parts, m) \in Nat
         /\ \A m \in 1..Len(parts) :
              /\ EndOf(parts, m) = EndOf(parts, m - 1) + Len(parts[m])
              /\ EndOf(parts, m) <= Len(Joined(parts))
              /\ \A i \in 1..Len(parts[m]) :
                   Joined(parts)[EndOf(parts, m - 1) + i] = parts[m][i]
<1> DEFINE h == JoinsOf(parts)
           N == Len(parts)
<1>1. /\ h \in [0..N -> Seq(D)] /\ h[0] = <<>>
      /\ \A n \in 1..N : h[n] = h[n - 1] \o parts[n]
  BY JoinsStep
<1>2. N \in Nat /\ \A n \in 1..N : parts[n] \in Seq(D)
  OBVIOUS
<1>3. Joined(parts) = h[N]
  BY JoinedIsLast
<1>4. \A m \in 0..N : Begins(h[m], h[N])
  <2>1. \A n \in 0..N : \A m \in 0..n : Begins(h[m], h[n])
    BY JoinsBegin, Zenon
  <2>2. N \in 0..N
    BY <1>2
  <2> QED
    BY <2>1, <2>2, Zenon
<1>a. \A m : EndOf(parts, m) = Len(h[m])
  BY DEF EndOf
<1> HIDE DEF h, N
<1>5. \A m \in 0..N : Len(h[m]) \in Nat
  BY <1>1
<1>6. ASSUME NEW m \in 1..N
      PROVE  /\ Len(h[m]) = Len(h[m - 1]) + Len(parts[m])
             /\ Len(h[m]) <= Len(h[N])
             /\ \A i \in 1..Len(parts[m]) : h[N][Len(h[m - 1]) + i] = parts[m][i]
  <2>1. m - 1 \in 0..N /\ m \in 0..N
    BY <1>2
  <2>2. h[m - 1] \in Seq(D) /\ h[m] \in Seq(D) /\ parts[m] \in Seq(D) /\ h[m] = h[m - 1] \o parts[m]
    BY <1>1, <1>2, <2>1
  <2> DEFINE s == h[m - 1]
             x == parts[m]
  <2> HIDE DEF s, x
  <2>3. /\ Len(s \o x) = Len(s) + Len(x)
        /\ \A i \in 1..(Len(s) + Len(x)) : (s \o x)[i] = IF i <= Len(s) THEN s[i] ELSE x[i - Len(s)]
    BY <2>2, ConcatProperties DEF s, x
  <2>4. Len(s) \in Nat /\ Len(x) \in Nat
    BY <2>2 DEF s, x
  <2>5. Len(h[m]) <= Len(h[N]) /\ \A i \in 1..Len(h[m]) : h[N][i] = h[m][i]
    BY <1>4, <2>1 DEF Begins
  <2>6. ASSUME NEW i \in 1..Len(x) PROVE h[N][Len(s) + i] = x[i]
    <3>1. /\ Len(s) + i \in 1..(Len(s) + Len(x)) /\ ~ (Len(s) + i <= Len(s))
          /\ (Len(s) + i) - Len(s) = i
      BY <2>4
    <3>2. (s \o x)[Len(s) + i] = x[i]
      BY <2>3, <3>1
    <3>3. h[m] = s \o x /\ Len(s) + i \in 1..Len(h[m])
      BY <2>2, <2>3, <3>1 DEF s, x
    <3> QED
      BY <2>5, <3>2, <3>3
  <2> QED
    BY <2>2, <2>3, <2>5, <2>6 DEF s, x
<1>7. h[N] \in Seq(D) /\ Len(h[0]) = 0
  BY <1>1, <1>2
<1>8. /\ Joined(parts) \in Seq(D) /\ EndOf(parts, 0) = 0
      /\ Len(Joined(parts)) = EndOf(parts, N)
      /\ \A m \in 0..N : EndOf(parts, m) \in Nat
  BY <1>3, <1>5, <1>7, <1>a, Zenon
<1>9. \A m \in 1..N :
        /\ EndOf(parts, m) = EndOf(parts, m - 1) + Len(parts[m])
        /\ EndOf(parts, m) <= Len(Joined(parts))
        /\ \A i \in 1..Len(parts[m]) :
             Joined(parts)[EndOf(parts, m - 1) + i] = parts[m][i]
  <2> TAKE m \in 1..N
  <2>1. EndOf(parts, m) = Len(h[m]) /\ EndOf(parts, m - 1) = Len(h[m - 1])
    BY <1>a, Zenon
  <2> QED
    BY <1>3, <1>6, <2>1
<1> QED
  BY <1>8, <1>9, Zenon DEF N

Mark(entry) == IF entry.selected THEN 16 ELSE 0

Marked(entry) == entry.name \o <<Mark(entry)>>

LEMMA MarkedIs ==
  ASSUME NEW entry \in Entries
  PROVE  /\ entry.name \in Seq(Nat) /\ Mark(entry) \in 0..31 /\ Mark(entry) \in Nat
         /\ (Mark(entry) \div 16) % 2 = 1 <=> entry.selected = TRUE
         /\ entry = [name |-> entry.name, selected |-> entry.selected]
         /\ entry.selected \in BOOLEAN
         /\ Marked(entry) \in Seq(Nat) /\ Len(Marked(entry)) = Len(entry.name) + 1
         /\ \A i \in 1..Len(entry.name) : Marked(entry)[i] = entry.name[i]
         /\ Marked(entry)[Len(entry.name) + 1] = Mark(entry)
<1> DEFINE x == entry.name
           b == Mark(entry)
           e == <<b>>
<1>1. x \in Seq(Nat) /\ entry.selected \in BOOLEAN
      /\ entry = [name |-> entry.name, selected |-> entry.selected]
  BY DEF Entries
<1>2. b \in 0..31 /\ b \in Nat /\ ((b \div 16) % 2 = 1 <=> entry.selected = TRUE)
  <2>1. (0 \div 16) % 2 = 0 /\ (16 \div 16) % 2 = 1
    OBVIOUS
  <2>2. CASE entry.selected = TRUE
    BY <2>1, <2>2 DEF Mark
  <2>3. CASE entry.selected = FALSE
    BY <2>1, <2>3 DEF Mark
  <2> QED
    BY <1>1, <2>2, <2>3
<1>3. e \in Seq(Nat) /\ Len(e) = 1 /\ e[1] = b
  BY <1>2
<1>4. Marked(entry) = x \o e
  BY DEF Marked
<1>5. Len(x) \in Nat
  BY <1>1
<1> HIDE DEF x, e, b
<1>6. /\ x \o e \in Seq(Nat) /\ Len(x \o e) = Len(x) + 1
      /\ \A i \in 1..(Len(x) + 1) : (x \o e)[i] = IF i <= Len(x) THEN x[i] ELSE e[i - Len(x)]
  <2>1. /\ x \o e \in Seq(Nat) /\ Len(x \o e) = Len(x) + Len(e)
        /\ \A i \in 1..(Len(x) + Len(e)) :
             (x \o e)[i] = IF i <= Len(x) THEN x[i] ELSE e[i - Len(x)]
    BY <1>1, <1>3, ConcatProperties, Zenon
  <2> QED
    BY <1>3, <2>1
<1>7. \A i \in 1..Len(x) : (x \o e)[i] = x[i]
  BY <1>5, <1>6
<1>8. (x \o e)[Len(x) + 1] = b
  <2>1. Len(x) + 1 \in 1..(Len(x) + 1) /\ ~ (Len(x) + 1 <= Len(x)) /\ (Len(x) + 1) - Len(x) = 1
    BY <1>5
  <2> QED
    BY <1>3, <1>6, <2>1
<1> QED
  BY <1>1, <1>2, <1>4, <1>6, <1>7, <1>8, Zenon DEF x, b

\* The names and the marks of stations are read as they were written.
LEMMA StationsArrive ==
  ASSUME NEW entries \in Seq(Entries), \A k \in DOMAIN entries : Printable(entries[k].name)
  PROVE  /\ Joined([k \in DOMAIN entries |-> Marked(entries[k])]) \in Seq(Nat)
         /\ Stations(Joined([k \in DOMAIN entries |-> Marked(entries[k])])) = entries
<1> DEFINE N == Len(entries)
           parts == [k \in DOMAIN entries |-> Marked(entries[k])]
           data == Joined(parts)
           cuts == 0..31
           at == SplitsOf(data, cuts)
           all == [k \in DOMAIN entries |-> [text |-> entries[k].name, by |-> Mark(entries[k])]]
           good == {m \in 0..N : at[EndOf(parts, m)] = [ended |-> SubSeq(all, 1, m), rest |-> <<>>]}
<1>1. N \in Nat /\ DOMAIN entries = 1..N /\ \A k \in 1..N : entries[k] \in Entries
  OBVIOUS
<1>2. parts \in Seq(Seq(Nat)) /\ Len(parts) = N /\ \A k \in 1..N : parts[k] = Marked(entries[k])
  <2>1. parts \in [1..N -> Seq(Nat)]
    BY <1>1, MarkedIs
  <2>2. \A k \in 1..N : parts[k] = Marked(entries[k])
    BY <1>1
  <2> HIDE DEF parts, N
  <2> QED
    BY <1>1, <2>1, <2>2, MadeSequence
<1>3. /\ all \in Seq(Texts(Nat)) /\ Len(all) = N
      /\ \A k \in 1..N : all[k] = [text |-> entries[k].name, by |-> Mark(entries[k])]
  <2>1. \A k \in 1..N : [text |-> entries[k].name, by |-> Mark(entries[k])] \in Texts(Nat)
    BY <1>1, MarkedIs DEF Texts
  <2>2. all \in [1..N -> Texts(Nat)]
    BY <1>1, <2>1
  <2>3. \A k \in 1..N : all[k] = [text |-> entries[k].name, by |-> Mark(entries[k])]
    BY <1>1
  <2> HIDE DEF all, N
  <2> QED
    BY <1>1, <2>2, <2>3, MadeSequence
<1> HIDE DEF N, parts, all
<1>4. /\ data \in Seq(Nat) /\ EndOf(parts, 0) = 0 /\ Len(data) = EndOf(parts, N)
      /\ \A m \in 0..N : EndOf(parts, m) \in Nat
      /\ \A m \in 1..N :
           /\ EndOf(parts, m) = EndOf(parts, m - 1) + Len(parts[m])
           /\ EndOf(parts, m) <= Len(data)
           /\ \A i \in 1..Len(parts[m]) : data[EndOf(parts, m - 1) + i] = parts[m][i]
  BY <1>2, PartsAreThere, ZenonT(30)
<1> HIDE DEF data
<1>5. 0 \in good
  <2>1. at[0] = Begun
    BY <1>4, SplitsStep
  <2>2. SubSeq(all, 1, 0) = <<>>
    BY <1>3
  <2>3. at[EndOf(parts, 0)] = [ended |-> SubSeq(all, 1, 0), rest |-> <<>>]
    BY <1>4, <2>1, <2>2, Zenon DEF Begun
  <2>4. 0 \in 0..N
    BY <1>1
  <2> HIDE DEF at
  <2> QED
    BY <2>3, <2>4
<1>6. ASSUME NEW m \in 0..N, m \in good, m < N PROVE m + 1 \in good
  <2> DEFINE a == EndOf(parts, m)
             entry == entries[m + 1]
             x == entry.name
             c == a + Len(x)
  <2>1. m + 1 \in 1..N /\ (m + 1) - 1 = m /\ m + 1 \in 0..N
    BY <1>1, <1>6
  <2>2. /\ x \in Seq(Nat) /\ Mark(entry) \in cuts
        /\ Len(Marked(entry)) = Len(x) + 1
        /\ \A i \in 1..Len(x) : Marked(entry)[i] = x[i]
        /\ Marked(entry)[Len(x) + 1] = Mark(entry)
    BY <1>1, <2>1, MarkedIs
  <2>3. /\ EndOf(parts, m + 1) = a + (Len(x) + 1) /\ EndOf(parts, m + 1) <= Len(data)
        /\ \A i \in 1..(Len(x) + 1) : data[a + i] = Marked(entry)[i]
    <3>1. parts[m + 1] = Marked(entry)
      BY <1>2, <2>1
    <3>2. /\ EndOf(parts, m + 1) = EndOf(parts, (m + 1) - 1) + Len(parts[m + 1])
          /\ EndOf(parts, m + 1) <= Len(data)
          /\ \A i \in 1..Len(parts[m + 1]) :
               data[EndOf(parts, (m + 1) - 1) + i] = parts[m + 1][i]
      BY <1>4, <2>1, Zenon
    <3> HIDE DEF x, entry
    <3> QED
      BY <2>1, <2>2, <3>1, <3>2, Zenon
  <2>4. a \in Nat /\ Len(x) \in Nat /\ Len(data) \in Nat
    BY <1>4, <2>2
  <2>5. at[a] = [ended |-> SubSeq(all, 1, m), rest |-> <<>>]
    BY <1>6
  <2>6. \A i \in 1..Len(x) : x[i] >= 32 /\ x[i] \in Nat
    <3>1. Printable(x)
      BY <1>1, <2>1
    <3> HIDE DEF x
    <3> QED
      BY <2>2, <3>1 DEF Printable
  <2> HIDE DEF at, a, x, entry
  <2>7. \A i \in 1..Len(x) : data[a + i] = x[i] /\ x[i] \notin cuts
    <3> TAKE i \in 1..Len(x)
    <3>1. i \in 1..(Len(x) + 1)
      BY <2>4
    <3>2. data[a + i] = x[i]
      BY <2>2, <2>3, <3>1
    <3>3. x[i] \notin cuts
      <4>1. \A b \in Nat : b >= 32 => b \notin cuts
        OBVIOUS
      <4> QED
        BY <2>6, <4>1, Zenon
    <3> QED
      BY <3>2, <3>3
  <2>8. at[c] = [ended |-> SubSeq(all, 1, m), rest |-> x]
    <3>1. a + Len(x) <= Len(data)
      BY <2>3, <2>4
    <3>2. at[a].rest = <<>> /\ at[a].ended = SubSeq(all, 1, m)
      BY <2>5, LoopParts
    <3> HIDE DEF cuts, c
    <3>3. IsTextAt(data, cuts, a, x)
      BY <2>7, <3>1 DEF IsTextAt
    <3>4. at[a + Len(x)] = [ended |-> at[a].ended, rest |-> x]
      <4>1. data \in Seq(Nat) /\ a \in Nat /\ x \in Seq(Nat)
        BY <1>4, <2>2, <2>4
      <4>2. SplitsOf(data, cuts)[a].rest = <<>>
        BY <3>2 DEF at
      <4>3. HasRun(data, cuts, a, x)
        BY <3>3, <4>1, <4>2, TextIsRun
      <4> QED
        BY <4>3, Zenon DEF at, HasRun
    <3> QED
      BY <3>2, <3>4, Zenon DEF c
  <2>9. data[c + 1] = Mark(entry) /\ c < Len(data) /\ c \in Nat /\ c + 1 = EndOf(parts, m + 1)
    <3>1. Len(x) + 1 \in 1..(Len(x) + 1) /\ a + (Len(x) + 1) = c + 1
      BY <2>4
    <3> QED
      BY <2>2, <2>3, <2>4, <3>1
  <2> HIDE DEF c, cuts
  <2>10. at[c + 1] = [ended |-> Append(at[c].ended, [text |-> at[c].rest, by |-> Mark(entry)]),
                      rest |-> <<>>]
    <3>1. data[c + 1] \in cuts
      BY <2>2, <2>9
    <3>0. data \in Seq(Nat) /\ c \in Nat /\ c < Len(data)
      BY <1>4, <2>9
    <3>2. at[c + 1] = [ended |-> Append(at[c].ended, [text |-> at[c].rest, by |-> data[c + 1]]),
                       rest |-> <<>>]
      BY <3>0, <3>1, EndIsRun DEF at
    <3> QED
      BY <2>9, <3>2, Zenon
  <2>11. at[c].ended = SubSeq(all, 1, m) /\ at[c].rest = x
    BY <2>8, LoopParts
  <2>12. Append(SubSeq(all, 1, m), [text |-> x, by |-> Mark(entry)]) = SubSeq(all, 1, m + 1)
    <3>1. all[m + 1] = [text |-> x, by |-> Mark(entry)]
      BY <1>3, <2>1 DEF x, entry
    <3>2. m \in 0..Len(all) /\ m < Len(all)
      BY <1>3, <1>6
    <3>3. Append(SubSeq(all, 1, m), all[m + 1]) = SubSeq(all, 1, m + 1)
      BY <1>3, <3>2, GrowsByOne
    <3> QED
      BY <3>1, <3>3, Zenon
  <2>13. at[EndOf(parts, m + 1)] = [ended |-> SubSeq(all, 1, m + 1), rest |-> <<>>]
    BY <2>9, <2>10, <2>11, <2>12, Zenon
  <2> QED
    BY <2>1, <2>13
<1> HIDE DEF good
<1>7. N \in good
  <2>1. \A m \in 0..N : m \in good
    BY <1>1, <1>5, <1>6, Induction
  <2>2. N \in 0..N
    BY <1>1
  <2> QED
    BY <2>1, <2>2
<1>8. Split(data, cuts) = [ended |-> all, rest |-> <<>>]
  <2>1. Split(data, cuts) = at[EndOf(parts, N)]
    BY <1>4, SplitIsLast, Zenon
  <2>2. at[EndOf(parts, N)] = [ended |-> SubSeq(all, 1, N), rest |-> <<>>]
    BY <1>7 DEF good
  <2>3. SubSeq(all, 1, N) = all
    BY <1>3
  <2> QED
    BY <2>1, <2>2, <2>3, Zenon
<1> DEFINE read == [k \in DOMAIN all |-> [name |-> all[k].text,
                                          selected |-> (all[k].by \div 16) % 2 = 1]]
<1>9. Stations(data) = read \o <<>>
  <2>1. Split(data, 0..31).ended = all /\ Split(data, 0..31).rest = <<>>
    BY <1>8, LoopParts
  <2> QED
    BY <2>1, Zenon DEF Stations
<1>10. \A k \in 1..N : read[k] = entries[k]
  <2> TAKE k \in 1..N
  <2>1. k \in DOMAIN all
    BY <1>3
  <2>2. all[k].text = entries[k].name /\ all[k].by = Mark(entries[k])
    BY <1>3, TextParts
  <2>3. /\ (Mark(entries[k]) \div 16) % 2 = 1 <=> entries[k].selected = TRUE
        /\ entries[k] = [name |-> entries[k].name, selected |-> entries[k].selected]
        /\ entries[k].selected \in BOOLEAN
    BY <1>1, MarkedIs
  <2>4. ((all[k].by \div 16) % 2 = 1) = entries[k].selected
    BY <2>2, <2>3
  <2>5. read[k] = [name |-> all[k].text, selected |-> (all[k].by \div 16) % 2 = 1]
    BY <2>1, Zenon
  <2> QED
    BY <2>2, <2>3, <2>4, <2>5, Zenon
<1>11. read = entries
  <2>1. DOMAIN read = 1..N
    BY <1>3
  <2>2. read = [k \in 1..N |-> read[k]] /\ entries = [k \in 1..N |-> entries[k]]
    BY <1>1, <2>1
  <2> HIDE DEF read
  <2> QED
    BY <1>10, <2>2
<1>12. read \o <<>> = entries
  <2> HIDE DEF read
  <2> QED
    BY <1>11
<1> QED
  BY <1>4, <1>9, <1>12 DEF data, parts

\* What stands before the first NUL.
LEMMA BeforeNul ==
  ASSUME NEW s \in Seq(Nat \ {0}), NEW data, data = s \o << 0 >>
  PROVE  ReadText([NoEnding EXCEPT !.at = 0, !.taken = "terminated"], data) = s
<1> DEFINE t == [NoEnding EXCEPT !.at = 0, !.taken = "terminated"]
           e == <<0>>
           I == {i \in 1..Len(data) : data[i] = 0}
<1>1. t.at = 0 /\ t.taken = "terminated"
  BY Zenon DEF NoEnding, Ending
<1> HIDE DEF t
<1>2. s \in Seq(Nat) /\ Len(s) \in Nat /\ \A i \in 1..Len(s) : s[i] # 0
  <2>1. Nat \ {0} \subseteq Nat
    OBVIOUS
  <2>2. s \in Seq(Nat)
    BY <2>1, SeqMonotonic, Zenon
  <2>3. \A i \in 1..Len(s) : s[i] \in Nat \ {0}
    OBVIOUS
  <2> QED
    BY <2>2, <2>3
<1>3. e \in Seq(Nat) /\ Len(e) = 1 /\ e[1] = 0
  OBVIOUS
<1> HIDE DEF e
<1>4. /\ data \in Seq(Nat) /\ Len(data) = Len(s) + 1
      /\ \A i \in 1..(Len(s) + 1) : data[i] = IF i <= Len(s) THEN s[i] ELSE e[i - Len(s)]
  <2>0. data = s \o e
    BY DEF e
  <2>1. /\ s \o e \in Seq(Nat) /\ Len(s \o e) = Len(s) + Len(e)
        /\ \A i \in 1..(Len(s) + Len(e)) :
             (s \o e)[i] = IF i <= Len(s) THEN s[i] ELSE e[i - Len(s)]
    BY <1>2, <1>3, ConcatProperties, Zenon
  <2> QED
    BY <1>3, <2>0, <2>1
<1>5. \A i \in 1..Len(s) : data[i] = s[i]
  BY <1>2, <1>4
<1>6. data[Len(s) + 1] = 0
  <2>1. Len(s) + 1 \in 1..(Len(s) + 1) /\ ~ (Len(s) + 1 <= Len(s)) /\ (Len(s) + 1) - Len(s) = 1
    BY <1>2
  <2> QED
    BY <1>3, <1>4, <2>1
<1>7. I = {Len(s) + 1}
  <2>1. Len(s) + 1 \in I
    BY <1>2, <1>4, <1>6
  <2>2. ASSUME NEW i \in I PROVE i = Len(s) + 1
    <3>1. i \in 1..(Len(s) + 1) /\ data[i] = 0
      BY <1>4
    <3>2. i \notin 1..Len(s)
      BY <1>2, <1>5, <3>1
    <3> QED
      BY <1>2, <3>1, <3>2
  <2> HIDE DEF I
  <2> QED
    BY <2>1, <2>2
<1>8. Contains(data, 0)
  BY <1>2, <1>4, <1>6 DEF Contains
<1>9. SelectInSeq(data, LAMBDA b : b = 0) = Len(s) + 1
  <2>1. SelectInSeq(data, LAMBDA b : b = 0) = IF I # {} THEN Min(I) ELSE 0
    BY DEF SelectInSeq
  <2>2. Min({Len(s) + 1}) = Len(s) + 1
    <3>1. Len(s) + 1 \in Int
      BY <1>2
    <3>2. \A n \in Int : Min({n}) = n
      <4> TAKE n \in Int
      <4>1. \A x \in {n} : x = n
        OBVIOUS
      <4>2. n <= n
        OBVIOUS
      <4> QED
        BY <4>1, <4>2 DEF Min
    <3> QED
      BY <3>1, <3>2
  <2> HIDE DEF I
  <2> QED
    BY <1>7, <2>1, <2>2
<1>10. SubSeq(data, t.at + 1, Len(data)) = data
  BY <1>1, <1>4
<1>11. ReadText(t, data) = SubSeq(data, 1, Len(s))
  <2>1. ReadText(t, data) = SubSeq(data, 1, SelectInSeq(data, LAMBDA b : b = 0) - 1)
    BY <1>1, <1>8, <1>10, Zenon DEF ReadText
  <2>2. (Len(s) + 1) - 1 = Len(s)
    BY <1>2
  <2> QED
    BY <1>9, <2>1, <2>2, Zenon
<1>12. SubSeq(data, 1, Len(s)) = s
  <2> DEFINE q == SubSeq(data, 1, Len(s))
  <2>1. q \in Seq(Nat) /\ Len(q) = Len(s) /\ \A i \in 1..Len(s) : q[i] = data[i]
    BY <1>2, <1>4
  <2> HIDE DEF q
  <2>2. q = s
    BY <1>2, <1>5, <2>1, SMTT(30)
  <2> QED
    BY <2>2 DEF q
<1> QED
  BY <1>11, <1>12 DEF t

\* A text of the menu, after the separator if it is not the first.
Led(i, text) == (IF i > 1 THEN <<6>> ELSE <<>>) \o text

LEMMA LedIs ==
  ASSUME NEW text \in Seq(Nat), Printable(text)
  PROVE  /\ Led(1, text) = text
         /\ \A i \in Nat : Led(i, text) \in Seq(Nat \ {0})
         /\ \A i \in Nat : i > 1 =>
              /\ Len(Led(i, text)) = Len(text) + 1 /\ Led(i, text)[1] = 6
              /\ \A k \in 1..Len(text) : Led(i, text)[k + 1] = text[k]
<1> DEFINE D == Nat \ {0}
           e == <<6>>
<1>1. text \in Seq(D)
  <2>1. \A i \in 1..Len(text) : text[i] \in D
    BY DEF Printable
  <2>2. text \in [1..Len(text) -> D] /\ Len(text) \in Nat
    <3>1. text = [i \in 1..Len(text) |-> text[i]] /\ Len(text) \in Nat
      OBVIOUS
    <3> HIDE DEF D
    <3> QED
      BY <2>1, <3>1
  <2> HIDE DEF D
  <2> QED
    BY <2>2, MadeSequence
<1>2. e \in Seq(D) /\ Len(e) = 1 /\ e[1] = 6
  OBVIOUS
<1>3. <<>> \o text = text
  OBVIOUS
<1> HIDE DEF e, D
<1>4. /\ e \o text \in Seq(D) /\ Len(e \o text) = Len(e) + Len(text)
      /\ \A i \in 1..(Len(e) + Len(text)) :
           (e \o text)[i] = IF i <= Len(e) THEN e[i] ELSE text[i - Len(e)]
  BY <1>1, <1>2, ConcatProperties, Zenon
<1>5. Len(text) \in Nat
  OBVIOUS
<1>6. Len(e \o text) = Len(text) + 1
  BY <1>2, <1>4, <1>5
<1>7. (e \o text)[1] = 6
  BY <1>2, <1>4, <1>5
<1>8. \A k \in 1..Len(text) : (e \o text)[k + 1] = text[k]
  <2> TAKE k \in 1..Len(text)
  <2>1. k + 1 \in 1..(Len(e) + Len(text)) /\ ~ (k + 1 <= Len(e)) /\ (k + 1) - Len(e) = k
    BY <1>2, <1>5
  <2> QED
    BY <1>4, <2>1
<1>9. Led(1, text) = text
  BY <1>3 DEF Led
<1>10. \A i \in Nat : i > 1 => Led(i, text) = e \o text
  BY DEF Led, e
<1>11. \A i \in Nat : Led(i, text) = text \/ Led(i, text) = e \o text
  BY <1>3 DEF Led, e
<1>12. \A i \in Nat : Led(i, text) \in Seq(D)
  BY <1>1, <1>4, <1>11
<1>13. \A i \in Nat : i > 1 =>
         /\ Len(Led(i, text)) = Len(text) + 1 /\ Led(i, text)[1] = 6
         /\ \A k \in 1..Len(text) : Led(i, text)[k + 1] = text[k]
  BY <1>6, <1>7, <1>8, <1>10
<1> QED
  BY <1>9, <1>12, <1>13 DEF D

\* The texts of a menu are cut where they were joined.
LEMMA MenuArrives ==
  ASSUME NEW texts \in Seq(Seq(Nat)), texts # <<>>,
         \A i \in DOMAIN texts : Printable(texts[i])
  PROVE  JoinFields(texts) \in Seq(Nat) /\ Segments(JoinFields(texts)) = texts
<1> DEFINE N == Len(texts)
           K == N - 1
           parts == [i \in DOMAIN texts |-> Led(i, texts[i])]
           data == Joined(parts)
           cuts == {6}
           at == SplitsOf(data, cuts)
           all == [i \in DOMAIN texts |-> [text |-> texts[i], by |-> 6]]
           then(m) == [ended |-> SubSeq(all, 1, m), rest |-> texts[m + 1]]
           good == {m \in 0..K : at[EndOf(parts, m + 1)] = then(m)}
<1>1. /\ N \in Nat \ {0} /\ K \in Nat /\ DOMAIN texts = 1..N
      /\ \A i \in 1..N : texts[i] \in Seq(Nat) /\ Printable(texts[i])
  OBVIOUS
<1>2. /\ parts \in Seq(Seq(Nat \ {0})) /\ Len(parts) = N
      /\ \A i \in 1..N : parts[i] = Led(i, texts[i])
  <2>1. \A i \in 1..N : i \in Nat
    BY <1>1
  <2>2. \A i \in 1..N : parts[i] = Led(i, texts[i])
    BY <1>1
  <2>3. \A i \in 1..N : Led(i, texts[i]) \in Seq(Nat \ {0})
    BY <1>1, <2>1, LedIs
  <2>4. parts \in [1..N -> Seq(Nat \ {0})]
    BY <1>1, <2>3
  <2> HIDE DEF parts, N
  <2> QED
    BY <1>1, <2>2, <2>4, MadeSequence
<1>3. /\ all \in Seq(Texts(Nat)) /\ Len(all) = N
      /\ \A i \in 1..N : all[i] = [text |-> texts[i], by |-> 6]
  <2>1. \A i \in 1..N : [text |-> texts[i], by |-> 6] \in Texts(Nat)
    BY <1>1 DEF Texts
  <2>2. all \in [1..N -> Texts(Nat)]
    BY <1>1, <2>1
  <2>3. \A i \in 1..N : all[i] = [text |-> texts[i], by |-> 6]
    BY <1>1
  <2> HIDE DEF all, N
  <2> QED
    BY <1>1, <2>2, <2>3, MadeSequence
<1>4. JoinFields(texts) = data \o <<0>>
  BY Zenon DEF JoinFields, Led
<1>a. K + 1 = N
  BY <1>1
<1> HIDE DEF N, K, parts, all
<1>5. /\ data \in Seq(Nat \ {0}) /\ EndOf(parts, 0) = 0 /\ Len(data) = EndOf(parts, N)
      /\ \A m \in 0..N : EndOf(parts, m) \in Nat
      /\ \A m \in 1..N :
           /\ EndOf(parts, m) = EndOf(parts, m - 1) + Len(parts[m])
           /\ EndOf(parts, m) <= Len(data)
           /\ \A i \in 1..Len(parts[m]) : data[EndOf(parts, m - 1) + i] = parts[m][i]
  BY <1>2, PartsAreThere
<1> HIDE DEF data
<1>6. data \in Seq(Nat) /\ Len(data) \in Nat
  <2>1. Nat \ {0} \subseteq Nat
    OBVIOUS
  <2>2. data \in Seq(Nat)
    BY <1>5, <2>1, SeqMonotonic, Zenon
  <2> QED
    BY <2>2
\* A text is read, from a place where no text has begun.
<1>7. ASSUME NEW a \in Nat, NEW i \in 1..N, a + Len(texts[i]) <= Len(data),
             \A k \in 1..Len(texts[i]) : data[a + k] = texts[i][k], at[a].rest = <<>>
      PROVE  at[a + Len(texts[i])] = [ended |-> at[a].ended, rest |-> texts[i]]
  <2> DEFINE x == texts[i]
  <2>1. x \in Seq(Nat) /\ \A k \in 1..Len(x) : x[k] \notin cuts
    <3>1. x \in Seq(Nat) /\ Printable(x)
      BY <1>1
    <3> HIDE DEF x
    <3>2. \A k \in 1..Len(x) : x[k] \in Nat /\ x[k] >= 32
      BY <3>1 DEF Printable
    <3> QED
      BY <3>1, <3>2
  <2> HIDE DEF x
  <2>2. IsTextAt(data, cuts, a, x)
    BY <1>7, <2>1, Zenon DEF IsTextAt, x
  <2> HIDE DEF cuts
  <2>3. SplitsOf(data, cuts)[a].rest = <<>>
    BY <1>7 DEF at
  <2>4. HasRun(data, cuts, a, x)
    BY <1>6, <2>1, <2>2, <2>3, TextIsRun
  <2> QED
    BY <2>4, Zenon DEF HasRun, at, x
<1>8. 0 \in good
  <2> DEFINE x == texts[1]
  <2>1. 1 \in 1..N /\ 0 \in 0..K
    BY <1>1
  <2>2. parts[1] = x /\ x \in Seq(Nat)
    BY <1>1, <1>2, <2>1, LedIs
  <2>3. /\ EndOf(parts, 1) = EndOf(parts, 1 - 1) + Len(parts[1]) /\ EndOf(parts, 1) <= Len(data)
        /\ \A k \in 1..Len(parts[1]) : data[EndOf(parts, 1 - 1) + k] = parts[1][k]
    BY <1>5, <2>1, Zenon
  <2>4. 1 - 1 = 0 /\ 0 + 1 = 1
    OBVIOUS
  <2>5. /\ EndOf(parts, 1) = 0 + Len(x) /\ 0 + Len(x) <= Len(data)
        /\ \A k \in 1..Len(x) : data[0 + k] = x[k]
    BY <1>5, <2>2, <2>3, <2>4, Zenon
  <2>6. at[0] = Begun
    BY <1>6, SplitsStep
  <2>7. at[0].ended = <<>> /\ at[0].rest = <<>>
    BY <2>6, LoopParts DEF Begun
  <2> HIDE DEF at
  <2>8. at[0 + Len(x)] = [ended |-> at[0].ended, rest |-> x]
    BY <1>7, <2>1, <2>5, <2>7
  <2>9. SubSeq(all, 1, 0) = <<>>
    BY <1>3
  <2>10. at[EndOf(parts, 0 + 1)] = then(0)
    BY <2>4, <2>5, <2>7, <2>8, <2>9, Zenon
  <2> HIDE DEF then
  <2> QED
    BY <2>1, <2>10
<1>9. ASSUME NEW m \in 0..K, m \in good, m < K PROVE m + 1 \in good
  <2> DEFINE a == EndOf(parts, m + 1)
             i == m + 2
             x == texts[i]
  <2>1. /\ i \in 1..N /\ i - 1 = m + 1 /\ m + 1 \in 1..N /\ m + 1 \in 0..K /\ i \in Nat /\ i > 1
        /\ (m + 1) + 1 = i /\ m \in 0..N /\ m < N /\ m + 1 \in 0..N
    BY <1>1, <1>a, <1>9
  <2>2. at[a] = then(m)
    BY <1>9
  <2> HIDE DEF i
  <2>3. /\ x \in Seq(Nat) /\ parts[i] = Led(i, x)
        /\ Len(Led(i, x)) = Len(x) + 1 /\ Led(i, x)[1] = 6
        /\ \A k \in 1..Len(x) : Led(i, x)[k + 1] = x[k]
    <3>1. x \in Seq(Nat) /\ Printable(x) /\ parts[i] = Led(i, x)
      BY <1>1, <1>2, <2>1
    <3> HIDE DEF x
    <3> QED
      BY <2>1, <3>1, LedIs
  <2>4. /\ EndOf(parts, i) = EndOf(parts, i - 1) + Len(parts[i]) /\ EndOf(parts, i) <= Len(data)
        /\ \A k \in 1..Len(parts[i]) : data[EndOf(parts, i - 1) + k] = parts[i][k]
    BY <1>5, <2>1, Zenon
  <2> HIDE DEF at, x
  <2>5. /\ EndOf(parts, i) = a + (Len(x) + 1) /\ a + (Len(x) + 1) <= Len(data)
        /\ \A k \in 1..(Len(x) + 1) : data[a + k] = Led(i, x)[k]
    BY <2>1, <2>3, <2>4, Zenon
  <2>6. a \in Nat /\ Len(x) \in Nat
    BY <1>5, <2>1, <2>3
  <2> HIDE DEF a
  <2>7. data[a + 1] = 6 /\ \A k \in 1..Len(x) : data[(a + 1) + k] = x[k]
    <3>1. 1 \in 1..(Len(x) + 1)
      BY <2>6
    <3>2. \A k \in 1..Len(x) : k + 1 \in 1..(Len(x) + 1) /\ a + (k + 1) = (a + 1) + k
      BY <2>6
    <3> QED
      BY <2>3, <2>5, <3>1, <3>2
  <2>8. a + 1 \in Nat /\ a < Len(data) /\ (a + 1) + Len(x) <= Len(data)
        /\ (a + 1) + Len(x) = EndOf(parts, i)
    BY <1>6, <2>5, <2>6
  <2>9. at[a].ended = SubSeq(all, 1, m) /\ at[a].rest = texts[m + 1]
    BY <2>2, LoopParts
  <2>10. at[a + 1] = [ended |-> Append(at[a].ended, [text |-> at[a].rest, by |-> 6]), rest |-> <<>>]
    <3>1. data[a + 1] \in cuts
      BY <2>7
    <3> HIDE DEF cuts
    <3>2. at[a + 1] = [ended |-> Append(at[a].ended, [text |-> at[a].rest, by |-> data[a + 1]]),
                       rest |-> <<>>]
      BY <1>6, <2>6, <2>8, <3>1, EndIsRun DEF at
    <3> QED
      BY <2>7, <3>2, Zenon
  <2>11. Append(SubSeq(all, 1, m), [text |-> texts[m + 1], by |-> 6]) = SubSeq(all, 1, m + 1)
    <3>1. all[m + 1] = [text |-> texts[m + 1], by |-> 6]
      BY <1>3, <2>1
    <3>2. m \in 0..Len(all) /\ m < Len(all)
      BY <1>3, <2>1
    <3>3. Append(SubSeq(all, 1, m), all[m + 1]) = SubSeq(all, 1, m + 1)
      BY <1>3, <3>2, GrowsByOne
    <3> QED
      BY <3>1, <3>3, Zenon
  <2>12. at[a + 1].ended = SubSeq(all, 1, m + 1) /\ at[a + 1].rest = <<>>
    <3>1. at[a + 1] = [ended |-> SubSeq(all, 1, m + 1), rest |-> <<>>]
      BY <2>9, <2>10, <2>11, Zenon
    <3> QED
      BY <3>1, LoopParts
  <2>13. at[(a + 1) + Len(x)] = [ended |-> at[a + 1].ended, rest |-> x]
    BY <1>7, <2>1, <2>7, <2>8, <2>12 DEF x
  <2>14. at[EndOf(parts, (m + 1) + 1)] = then(m + 1)
    BY <2>1, <2>8, <2>12, <2>13, Zenon DEF x
  <2> HIDE DEF then
  <2> QED
    BY <2>1, <2>14
<1> HIDE DEF good
<1>10. K \in good
  <2>1. \A m \in 0..K : m \in good
    BY <1>1, <1>8, <1>9, Induction
  <2>2. K \in 0..K
    BY <1>1
  <2> QED
    BY <2>1, <2>2
<1>11. /\ Split(data, cuts).ended = SubSeq(all, 1, K) /\ Split(data, cuts).rest = texts[N]
  <2>1. Split(data, cuts) = at[EndOf(parts, N)]
    BY <1>5, SplitIsLast, Zenon
  <2>2. at[EndOf(parts, K + 1)] = [ended |-> SubSeq(all, 1, K), rest |-> texts[K + 1]]
    BY <1>10 DEF good
  <2>3. Split(data, cuts) = [ended |-> SubSeq(all, 1, K), rest |-> texts[N]]
    BY <1>a, <2>1, <2>2, Zenon
  <2> QED
    BY <2>3, LoopParts
<1> DEFINE ended == SubSeq(all, 1, K)
           read == [k \in DOMAIN ended |-> ended[k].text]
<1>12. DOMAIN ended = 1..K /\ \A k \in 1..K : ended[k].text = texts[k]
  <2>1. K \in 0..Len(all)
    BY <1>1, <1>3, <1>a
  <2>2. DOMAIN ended = 1..K /\ \A k \in 1..K : ended[k] = all[k]
    BY <1>3, <2>1
  <2>3. \A k \in 1..K : k \in 1..N
    BY <1>1, <1>a
  <2>4. ASSUME NEW k \in 1..K PROVE ended[k].text = texts[k]
    <3>1. k \in 1..N /\ ended[k] = all[k]
      BY <2>2, <2>3, <2>4, Zenon
    <3>2. all[k] = [text |-> texts[k], by |-> 6]
      BY <1>3, <3>1
    <3>3. ended[k] = [text |-> texts[k], by |-> 6]
      BY <3>1, <3>2, Zenon
    <3> HIDE DEF ended
    <3> QED
      BY <3>3, TextParts
  <2> QED
    BY <2>2, <2>4
<1>13. read = SubSeq(texts, 1, K)
  <2>1. DOMAIN read = 1..K /\ \A k \in 1..K : read[k] = texts[k]
    BY <1>12
  <2>2. read = [k \in 1..K |-> texts[k]]
    BY <2>1
  <2>3. SubSeq(texts, 1, K) = [k \in 1..K |-> texts[k]]
    BY <1>1, <1>a DEF N
  <2> QED
    BY <2>2, <2>3
<1>14. Append(read, texts[N]) = texts
  <2>1. Append(SubSeq(texts, 1, K), texts[K + 1]) = SubSeq(texts, 1, K + 1)
    <3>1. K \in 0..Len(texts) /\ K < Len(texts)
      BY <1>1, <1>a DEF N
    <3> QED
      BY <3>1, GrowsByOne
  <2>2. SubSeq(texts, 1, N) = texts
    BY DEF N
  <2> QED
    BY <1>13, <1>a, <2>1, <2>2, Zenon
<1>15. Segments(JoinFields(texts)) = Append(read, texts[N])
  <2>1. ReadText([NoEnding EXCEPT !.at = 0, !.taken = "terminated"], JoinFields(texts)) = data
    BY <1>4, <1>5, BeforeNul
  <2> QED
    BY <1>11, <2>1, Zenon DEF Segments
<1>16. JoinFields(texts) \in Seq(Nat)
  <2>1. <<0>> \in Seq(Nat)
    OBVIOUS
  <2> QED
    BY <1>4, <1>6, <2>1, ConcatProperties
<1> QED
  BY <1>14, <1>15, <1>16

\* The body of a payload is what comes after its four bytes of address and kind.
LEMMA BodyIsBack ==
  ASSUME NEW head \in Seq(Nat), Len(head) = 4, NEW body \in Seq(Nat)
  PROVE  SubSeq(head \o body, 5, Len(head \o body)) = body
<1>1. SubSeq(head \o body, Len(head) + 1, Len(head \o body)) = body
  BY TailIsBack
<1>2. Len(head) + 1 = 5
  OBVIOUS
<1> QED
  BY <1>1, <1>2, Zenon

LEMMA ListsArrive == CodecsInv => ListsSurvive
<1> SUFFICES ASSUME CodecsInv, NEW p \in payload
             PROVE  /\ (stage = "menu" /\ \A i \in DOMAIN given.args : Printable(given.args[i])) =>
                         Segments(SubSeq(p, 5, Len(p))) = given.args
                    /\ (stage = "stations" /\ \A i \in DOMAIN given.args :
                                                  Printable(given.args[i].name)) =>
                         Stations(SubSeq(p, 5, Len(p))) = given.args
  BY Zenon DEF ListsSurvive
<1>1. ASSUME stage = "menu", \A i \in DOMAIN given.args : Printable(given.args[i])
      PROVE  Segments(SubSeq(p, 5, Len(p))) = given.args
  <2> DEFINE texts == given.args
  <2>1. texts \in Seq(Seq(Nat)) /\ texts # <<>> /\ payload = BuildMenu(texts)
    BY <1>1, Zenon DEF CodecsInv
  <2>2. \A i \in DOMAIN texts : Printable(texts[i])
    BY <1>1, Zenon
  <2> HIDE DEF texts
  <2>3. p = <<33, 240, 1, 0>> \o JoinFields(texts)
    <3>1. p \in BuildMenu(texts)
      BY <2>1, Zenon
    <3> QED
      BY <3>1, Zenon DEF BuildMenu
  <2>4. JoinFields(texts) \in Seq(Nat) /\ Segments(JoinFields(texts)) = texts
    BY <2>1, <2>2, MenuArrives, Zenon
  <2>5. <<33, 240, 1, 0>> \in Seq(Nat) /\ Len(<<33, 240, 1, 0>>) = 4
    OBVIOUS
  <2>6. SubSeq(p, 5, Len(p)) = JoinFields(texts)
    BY <2>3, <2>4, <2>5, BodyIsBack, Zenon
  <2> QED
    BY <2>4, <2>6, Zenon DEF texts
<1>2. ASSUME stage = "stations", \A i \in DOMAIN given.args : Printable(given.args[i].name)
      PROVE  Stations(SubSeq(p, 5, Len(p))) = given.args
  <2> DEFINE entries == given.args
             body == Joined([k \in DOMAIN entries |-> Marked(entries[k])])
  <2>1. entries \in Seq(Entries) /\ payload = BuildStations(entries)
    BY <1>2, Zenon DEF CodecsInv
  <2>2. \A k \in DOMAIN entries : Printable(entries[k].name)
    BY <1>2, Zenon
  <2> HIDE DEF entries
  <2>3. p = <<212, 3, Len(entries) % 256, 0>> \o body
    <3>1. p \in BuildStations(entries)
      BY <2>1, Zenon
    <3> QED
      BY <3>1, Zenon DEF BuildStations, Marked, Mark
  <2>4. body \in Seq(Nat) /\ Stations(body) = entries
    BY <2>1, <2>2, StationsArrive, Zenon DEF body
  <2> DEFINE head == <<212, 3, Len(entries) % 256, 0>>
  <2>5. head \in Seq(Nat) /\ Len(head) = 4
    <3>1. Len(entries) % 256 \in Nat
      BY <2>1
    <3> QED
      BY <3>1
  <2> HIDE DEF body, head
  <2>6. SubSeq(p, 5, Len(p)) = body
    BY <2>3, <2>4, <2>5, BodyIsBack, ZenonT(30) DEF head
  <2> QED
    BY <2>4, <2>6, Zenon DEF entries
<1> QED
  BY <1>1, <1>2, Zenon

\* Texts and lists of texts arrive with their boundaries. Of a text only its
\* ends can be lost, to the width of its room or to what the parser trims
\* (ccm-text.ts:80-81, obc-text.ts:48-49, direct-dial.ts:33-35), and the texts of
\* a menu and the names of a station list come back as they were sent, one for
\* one (menu-text.ts:105-106, ng-station-list.ts:107).
THEOREM TextsAlwaysSurvive == CodecsSpec => []TextsSurvive
<1>1. CodecsInv => TextsSurvive
  BY OnlyEndsGo, ListsArrive DEF TextsSurvive
<1> QED
  BY <1>1, CodecsInvHolds, PTL

-----------------------------------------------------------------------------
(***************************************************************************)
(* Types.                                                                  *)
(***************************************************************************)
Fitting == {p \in Seq(Octets) : Len(p) \in 1..LongestPayload}

LEMMA BuiltFits ==
  ASSUME NEW c, NEW v, NEW args, NEW text, NEW made, Made(c, v, args, text, made)
  PROVE  made \subseteq Fitting
<1> SUFFICES ASSUME NEW p \in made PROVE p \in Fitting
  OBVIOUS
<1> DEFINE l == Layouts[c]
           w == l.ways[v]
<1>1. /\ c \in Names /\ v \in DOMAIN l.ways /\ Numbers(w, args) /\ text \in Seq(Nat)
      /\ Len(text) <= LongestPayload - l.tail.at /\ p \in Build(l, w, args, text)
  BY Zenon DEF Made
<1>2. WaySound(l, w) /\ Endings(l.tail) /\ TailSound(l) /\ l.cmd \in Octets
  BY <1>1, LayoutIsSound, Zenon
<1>3. Written(l, w) \subseteq 1..LongestPayload
  <2>1. LengthsFit(l)
    BY <1>1, LayoutsAssumption, Zenon DEF LayoutSound
  <2> QED
    BY <1>1, <2>1, Zenon DEF LengthsFit
<1> HIDE DEF l, w
<1>4. \E bytes \in WriteText(l.tail, text) : IsBuilt(p, l, w, args, bytes)
  BY <1>1, <1>2, BuilderBuilds
<1>5. PICK bytes \in WriteText(l.tail, text) : IsBuilt(p, l, w, args, bytes)
  BY <1>4
<1>6. w.length \in Nat
  BY <1>2, Zenon DEF WaySound
<1>7. w.length + Len(bytes) \in Written(l, w)
  BY <1>1, <1>2, <1>6, LengthIsWritten
<1>8. p \in Seq(Octets) /\ Len(p) = w.length + Len(bytes)
  BY <1>5, Zenon DEF IsBuilt
<1>9. Len(p) \in 1..LongestPayload
  BY <1>3, <1>7, <1>8, Zenon
<1> QED
  BY <1>8, <1>9, Zenon DEF Fitting

Shortest(l) == CHOOSE n \in l.lengths : \A m \in l.lengths : n <= m

\* One byte among equal ones, after the command.
IsSent(l, p) ==
  \E n \in 0..Shortest(l), k \in 1..Shortest(l), b \in Foreign, c \in {0, 18} :
    p = <<l.cmd>> \o [i \in 1..n |-> IF i = k THEN b ELSE c]

LEMMA PayloadIs ==
  ASSUME NEW l, NEW p \in PayloadsOf(l)
  PROVE  l.lengths # {} /\ IsSent(l, p)
BY SMTT(30) DEF PayloadsOf, IsSent, Shortest

\* What other units send is at most a byte longer than the shortest frame.
LEMMA SentFits ==
  ASSUME NEW l, LengthsFit(l), l.lengths \subseteq 1..LongestPayload, l.cmd \in Octets,
         NEW p \in PayloadsOf(l)
  PROVE  p \in Fitting
<1> DEFINE longest == Shortest(l)
<1>1. l.lengths # {} /\ IsSent(l, p)
  BY PayloadIs
<1>2. PICK n \in 0..longest, k \in 1..longest, b \in Foreign, c \in {0, 18} :
        p = <<l.cmd>> \o [i \in 1..n |-> IF i = k THEN b ELSE c]
  BY <1>1, Zenon DEF IsSent
<1>3. PICK m \in l.lengths : m < LongestPayload /\ \A q \in l.lengths : m <= q
  BY <1>1, Zenon DEF LengthsFit
<1>4. longest \in l.lengths /\ \A q \in l.lengths : longest <= q
  BY <1>3, Zenon DEF Shortest
<1> HIDE DEF longest
<1>5. longest \in Nat /\ longest < LongestPayload
  <2>1. longest <= m
    BY <1>3, <1>4
  <2>2. longest \in 1..LongestPayload /\ m \in 1..LongestPayload
    BY <1>3, <1>4
  <2> QED
    BY <1>3, <2>1, <2>2, LongestAssumption
<1> DEFINE rest == [i \in 1..n |-> IF i = k THEN b ELSE c]
<1>6. b \in Octets /\ c \in Octets /\ n \in Nat /\ n < LongestPayload
  BY <1>5, ForeignAssumption, LongestAssumption DEF Octets
<1>7. rest \in Seq(Octets) /\ Len(rest) = n
  <2>1. rest \in [1..n -> Octets]
    BY <1>6
  <2> HIDE DEF rest
  <2> QED
    BY <1>6, <2>1, MadeSequence
<1> HIDE DEF rest
<1>8. p \in Seq(Octets) /\ Len(p) = 1 + n
  <2>1. <<l.cmd>> \in Seq(Octets) /\ Len(<<l.cmd>>) = 1
    OBVIOUS
  <2>2. p = <<l.cmd>> \o rest
    BY <1>2 DEF rest
  <2> QED
    BY <1>7, <2>1, <2>2, ConcatProperties
<1>9. Len(p) \in 1..LongestPayload
  BY <1>6, <1>8, LongestAssumption
<1> QED
  BY <1>8, <1>9, Zenon DEF Fitting

LEMMA JoinedIsShort ==
  ASSUME NEW D, NEW parts \in Seq(Seq(D)), NEW most \in Nat, Len(parts) <= 3,
         \A m \in 1..Len(parts) : Len(parts[m]) <= most
  PROVE  /\ Joined(parts) \in Seq(D) /\ Len(Joined(parts)) <= 3 * most
         /\ Len(parts) <= 2 => Len(Joined(parts)) <= 2 * most
<1> DEFINE N == Len(parts)
           end(m) == EndOf(parts, m)
<1>1. /\ Joined(parts) \in Seq(D) /\ end(0) = 0 /\ Len(Joined(parts)) = end(N)
      /\ \A m \in 0..N : end(m) \in Nat
      /\ \A m \in 1..N : end(m) = end(m - 1) + Len(parts[m])
  BY PartsAreThere, Zenon
<1>2. N \in Nat /\ N <= 3 /\ \A m \in 1..N : Len(parts[m]) \in Nat /\ Len(parts[m]) <= most
  OBVIOUS
<1> HIDE DEF end, N
<1>3. ASSUME NEW m \in 1..N PROVE m - 1 \in 0..N /\ end(m) <= end(m - 1) + most
  <2>1. m - 1 \in 0..N
    BY <1>2
  <2>2. /\ end(m - 1) \in Nat /\ Len(parts[m]) \in Nat /\ Len(parts[m]) <= most
        /\ end(m) = end(m - 1) + Len(parts[m])
    BY <1>1, <1>2, <2>1, Zenon
  <2> QED
    BY <2>1, <2>2
<1>4. N >= 1 => end(1) <= most
  BY <1>1, <1>2, <1>3
<1>5. N >= 2 => end(2) <= 2 * most
  <2>1. N >= 2 => 2 \in 1..N /\ 2 - 1 = 1 /\ 1 \in 0..N /\ 2 \in 0..N
    BY <1>2
  <2>2. N >= 2 => end(2) <= end(1) + most /\ end(1) \in Nat /\ end(2) \in Nat
    BY <1>1, <1>3, <2>1
  <2> QED
    BY <1>2, <1>4, <2>2
<1>6. N >= 3 => end(3) <= 3 * most
  <2>1. N >= 3 => 3 \in 1..N /\ 3 - 1 = 2 /\ 2 \in 0..N /\ 3 \in 0..N
    BY <1>2
  <2>2. N >= 3 => end(3) <= end(2) + most /\ end(2) \in Nat /\ end(3) \in Nat
    BY <1>1, <1>3, <2>1
  <2> QED
    BY <1>2, <1>5, <2>2
<1>7. N = 0 \/ N = 1 \/ N = 2 \/ N = 3
  BY <1>2
<1>8. end(N) <= 3 * most /\ (N <= 2 => end(N) <= 2 * most)
  BY <1>1, <1>4, <1>5, <1>6, <1>7
<1> QED
  BY <1>1, <1>8 DEF N

LEMMA ShortTextsAreShort == \A text \in ShortTexts : Len(text) <= 9
<1> SUFFICES ASSUME NEW text \in ShortTexts PROVE Len(text) <= 9
  OBVIOUS
<1> DEFINE some == {[1..n -> Characters] : n \in 0..2}
           eight == [i \in 1..8 |-> 66]
           nine == [i \in 1..9 |-> 66]
<1>1. text \in (UNION some) \/ text = eight \/ text = nine
  BY Zenon DEF ShortTexts
<1>2. CASE text \in UNION some
  <2>1. PICK n \in 0..2 : text \in [1..n -> Characters]
    BY <1>2
  <2>2. n \in Nat
    OBVIOUS
  <2>3. Len(text) = n
    BY <2>1, <2>2, MadeSequence
  <2> QED
    BY <2>3
<1>3. CASE text = eight
  <2>1. eight \in [1..8 -> Nat] /\ 8 \in Nat
    OBVIOUS
  <2> HIDE DEF eight
  <2>2. Len(eight) = 8
    BY <2>1, MadeSequence
  <2> QED
    BY <1>3, <2>2
<1>4. CASE text = nine
  <2>1. nine \in [1..9 -> Nat] /\ 9 \in Nat
    OBVIOUS
  <2> HIDE DEF nine
  <2>2. Len(nine) = 9
    BY <2>1, MadeSequence
  <2> QED
    BY <1>4, <2>2
<1> QED
  BY <1>1, <1>2, <1>3, <1>4

\* Four bytes of address and kind in front of a body that is short enough.
LEMMA BodyFits ==
  ASSUME NEW head \in Seq(Octets), Len(head) = 4, NEW body \in Seq(Octets), Len(body) <= 27
  PROVE  head \o body \in Fitting
<1>1. head \o body \in Seq(Octets) /\ Len(head \o body) = Len(head) + Len(body)
  BY ConcatProperties, Zenon
<1>2. Len(head \o body) \in 1..LongestPayload
  <2>1. Len(body) \in Nat
    OBVIOUS
  <2> QED
    BY <1>1, <2>1, LongestAssumption, ListsAssumption
<1> QED
  BY <1>1, <1>2, Zenon DEF Fitting

LEMMA OctetsAreSmall == \A n \in Nat : n <= 255 => n \in Octets
BY DEF Octets

LEMMA SmallNumbersAreOctets ==
  ASSUME NEW x \in Seq(Nat), \A k \in DOMAIN x : x[k] <= 255
  PROVE  x \in Seq(Octets)
<1>1. Len(x) \in Nat /\ x \in [1..Len(x) -> Nat] /\ DOMAIN x = 1..Len(x)
  OBVIOUS
<1>2. ASSUME NEW k \in DOMAIN x PROVE x[k] \in Octets
  <2>1. x[k] \in Nat /\ x[k] <= 255
    BY <1>1
  <2> QED
    BY <2>1, OctetsAreSmall, Zenon
<1>3. x \in [1..Len(x) -> Octets]
  BY <1>1, <1>2
<1> QED
  BY <1>1, <1>3, MadeSequence

LEMMA MenuFits ==
  ASSUME NEW texts \in Seq(Seq(Nat)), Len(texts) <= 2, \A i \in DOMAIN texts : Len(texts[i]) <= 9
  PROVE  BuildMenu(texts) \subseteq Fitting
<1> SUFFICES ASSUME NEW p \in BuildMenu(texts) PROVE p \in Fitting
  OBVIOUS
<1> DEFINE parts == [i \in DOMAIN texts |-> Led(i, texts[i])]
           body == Joined(parts) \o <<0>>
           head == <<33, 240, 1, 0>>
<1>1. /\ p = head \o body
      /\ \A i \in DOMAIN texts : \A k \in DOMAIN texts[i] : ~ (texts[i][k] > 255)
  <2>1. /\ p = head \o JoinFields(texts)
        /\ ~ \E i \in DOMAIN texts : \E k \in DOMAIN texts[i] : texts[i][k] > 255
    BY Zenon DEF BuildMenu
  <2>2. JoinFields(texts) = body
    BY Zenon DEF JoinFields, Led
  <2> QED
    BY <2>1, <2>2, Zenon
<1>2. ASSUME NEW i \in DOMAIN texts
      PROVE  Led(i, texts[i]) \in Seq(Octets) /\ Len(Led(i, texts[i])) <= 10
  <2> DEFINE x == texts[i]
             y == IF i > 1 THEN <<6>> ELSE <<>>
  <2>1. x \in Seq(Nat) /\ Len(x) <= 9
    OBVIOUS
  <2>2. \A k \in DOMAIN x : ~ (x[k] > 255)
    BY <1>1, Zenon
  <2>3. y \in Seq(Octets) /\ Len(y) \in 0..1
    <3>1. 6 \in Octets
      BY DEF Octets
    <3>2. /\ <<6>> \in Seq(Octets) /\ Len(<<6>>) \in 0..1
          /\ <<>> \in Seq(Octets) /\ Len(<<>>) \in 0..1
      BY <3>1
    <3>3. y = <<6>> \/ y = <<>>
      BY Zenon
    <3> HIDE DEF y
    <3> QED
      BY <3>2, <3>3, Zenon
  <2> HIDE DEF x, y
  <2>4. \A k \in DOMAIN x : x[k] <= 255
    BY <2>1, <2>2
  <2>5. x \in Seq(Octets)
    BY <2>1, <2>4, SmallNumbersAreOctets
  <2>6. y \o x \in Seq(Octets) /\ Len(y \o x) = Len(y) + Len(x)
    BY <2>3, <2>5, ConcatProperties, Zenon
  <2> DEFINE m == Len(y)
             n == Len(x)
  <2>7. m \in 0..1 /\ n \in Nat /\ n <= 9
    BY <2>1, <2>3
  <2> HIDE DEF m, n
  <2>8. m + n <= 10
    BY <2>7
  <2>9. y \o x \in Seq(Octets) /\ Len(y \o x) <= 10
    BY <2>6, <2>8, Zenon DEF m, n
  <2> QED
    BY <2>9, Zenon DEF Led, x, y
<1>3. parts \in Seq(Seq(Octets)) /\ Len(parts) = Len(texts) /\ DOMAIN texts = 1..Len(texts)
  <2>1. DOMAIN texts = 1..Len(texts) /\ Len(texts) \in Nat
    OBVIOUS
  <2>2. parts \in [1..Len(texts) -> Seq(Octets)]
    BY <1>2, <2>1
  <2> HIDE DEF parts
  <2> QED
    BY <2>1, <2>2, MadeSequence
<1>4. \A m \in 1..Len(parts) : Len(parts[m]) <= 10
  BY <1>2, <1>3
<1> HIDE DEF parts
<1>5. Joined(parts) \in Seq(Octets) /\ Len(Joined(parts)) <= 20
  <2>1. Len(parts) <= 3 /\ Len(parts) <= 2 /\ 10 \in Nat
    BY <1>3
  <2>2. Joined(parts) \in Seq(Octets) /\ Len(Joined(parts)) <= 2 * 10
    BY <1>3, <1>4, <2>1, JoinedIsShort
  <2> QED
    BY <2>2
<1>6. body \in Seq(Octets) /\ Len(body) <= 27
  <2> DEFINE e == <<0>>
             x == Joined(parts)
  <2>1. e \in Seq(Octets) /\ Len(e) = 1
    BY DEF Octets
  <2> HIDE DEF e, x
  <2>2. x \o e \in Seq(Octets) /\ Len(x \o e) = Len(x) + Len(e)
    BY <1>5, <2>1, ConcatProperties, Zenon DEF x
  <2>3. Len(x) \in Nat /\ Len(x) <= 20
    BY <1>5 DEF x
  <2>4. x \o e \in Seq(Octets) /\ Len(x \o e) <= 27
    BY <2>1, <2>2, <2>3
  <2> QED
    BY <2>4, Zenon DEF x, e
<1>7. head \in Seq(Octets) /\ Len(head) = 4
  BY DEF Octets
<1> HIDE DEF head, body
<1> QED
  BY <1>1, <1>6, <1>7, BodyFits

LEMMA StationsFit ==
  ASSUME NEW entries \in Seq(Entries)
  PROVE  BuildStations(entries) \subseteq Fitting
<1> SUFFICES ASSUME NEW p \in BuildStations(entries) PROVE p \in Fitting
  OBVIOUS
<1> DEFINE parts == [k \in DOMAIN entries |-> Marked(entries[k])]
           body == Joined(parts)
           head == <<212, 3, Len(entries) % 256, 0>>
<1>1. /\ p = head \o body /\ ~ (Len(entries) > 3)
      /\ \A k \in DOMAIN entries : ~ (Len(entries[k].name) > 8)
      /\ \A k \in DOMAIN entries : \A c \in Range(entries[k].name) : ~ (c > 127)
  BY Zenon DEF BuildStations, Marked, Mark
<1>2. ASSUME NEW k \in DOMAIN entries
      PROVE  Marked(entries[k]) \in Seq(Octets) /\ Len(Marked(entries[k])) <= 9
  <2> DEFINE entry == entries[k]
             x == entry.name
             y == Marked(entry)
  <2>1. entry \in Entries
    OBVIOUS
  <2>2. ~ (Len(x) > 8) /\ \A c \in Range(x) : ~ (c > 127)
    BY <1>1, Zenon
  <2> HIDE DEF entry
  <2>3. /\ x \in Seq(Nat) /\ Mark(entry) \in 0..31 /\ y \in Seq(Nat) /\ Len(y) = Len(x) + 1
        /\ \A i \in 1..Len(x) : y[i] = x[i]
        /\ y[Len(x) + 1] = Mark(entry)
    BY <2>1, MarkedIs, Zenon
  <2> HIDE DEF x, y
  <2>4. \A i \in 1..Len(x) : x[i] <= 127
    <3>1. \A i \in 1..Len(x) : x[i] \in Nat /\ x[i] \in Range(x)
      BY <2>3 DEF Range
    <3> QED
      BY <2>2, <3>1
  <2>5. Len(x) \in Nat /\ Len(x) <= 8 /\ DOMAIN y = 1..(Len(x) + 1)
    BY <2>2, <2>3
  <2>6. \A i \in DOMAIN y : y[i] <= 255
    <3>1. \A i \in DOMAIN y : i \in 1..Len(x) \/ i = Len(x) + 1
      BY <2>5
    <3>2. (\A n \in Nat : n <= 127 => n <= 255) /\ \A n \in 0..31 : n <= 255
      OBVIOUS
    <3>3. \A i \in 1..Len(x) : y[i] <= 255
      <4> TAKE i \in 1..Len(x)
      <4>1. x[i] \in Nat /\ x[i] <= 127
        BY <2>3, <2>4
      <4>2. x[i] <= 255
        BY <3>2, <4>1
      <4>3. y[i] = x[i]
        BY <2>3, Zenon
      <4> QED
        BY <4>2, <4>3, Zenon
    <3>4. y[Len(x) + 1] <= 255
      BY <2>3, <3>2, Zenon
    <3> QED
      BY <3>1, <3>3, <3>4, Zenon
  <2>7. y \in Seq(Octets)
    BY <2>3, <2>6, SmallNumbersAreOctets, Zenon
  <2>8. Len(y) <= 9
    BY <2>3, <2>5
  <2> QED
    BY <2>7, <2>8, Zenon DEF y, entry
<1>3. /\ parts \in Seq(Seq(Octets)) /\ Len(parts) = Len(entries)
      /\ DOMAIN entries = 1..Len(entries) /\ Len(entries) \in Nat
  <2>1. DOMAIN entries = 1..Len(entries) /\ Len(entries) \in Nat
    OBVIOUS
  <2>2. parts \in [1..Len(entries) -> Seq(Octets)]
    BY <1>2, <2>1
  <2> HIDE DEF parts
  <2> QED
    BY <2>1, <2>2, MadeSequence
<1>4. \A m \in 1..Len(parts) : Len(parts[m]) <= 9
  BY <1>2, <1>3
<1> HIDE DEF parts
<1>5. body \in Seq(Octets) /\ Len(body) <= 27
  <2>1. Len(parts) <= 3 /\ 9 \in Nat
    BY <1>1, <1>3
  <2>2. Joined(parts) \in Seq(Octets) /\ Len(Joined(parts)) <= 3 * 9
    BY <1>3, <1>4, <2>1, JoinedIsShort
  <2> QED
    BY <2>2
<1>6. head \in Seq(Octets) /\ Len(head) = 4
  <2>1. Len(entries) % 256 \in Octets
    <3>1. \A n \in Nat : n % 256 \in Octets
      BY DEF Octets
    <3> QED
      BY <1>3, <3>1, Zenon
  <2>2. 212 \in Octets /\ 3 \in Octets /\ 0 \in Octets
    BY DEF Octets
  <2> QED
    BY <2>1, <2>2
<1> HIDE DEF head, body
<1> QED
  BY <1>1, <1>5, <1>6, BodyFits

\* The codec is one of those there are, nothing has been read unless a payload
\* was received, and every payload fits into a frame.
TypesInv ==
  /\ codec \in Names
  /\ stage \notin {"sent", "again"} => before = {}
  /\ payload \subseteq Fitting

LEMMA TypesBegin == CodecsInit => TypesInv
<1> SUFFICES ASSUME CodecsInit PROVE TypesInv
  OBVIOUS
<1>1. codec \in Names
  BY PingAssumption DEF CodecsInit
<1> QED
  BY <1>1 DEF CodecsInit, TypesInv

LEMMA TypesStay ==
  ASSUME CodecsInv, TypesInv, CodecsInv', [CodecsNext]_codecs
  PROVE  TypesInv'
<1>1. CASE Compose
  <2>1. PICK c \in Names : codec' = c
    BY <1>1, Zenon DEF Compose
  <2>2. stage = "idle" /\ stage' = "built" /\ before' = before
    BY <1>1, Zenon DEF Compose
  <2>3. payload' \subseteq Fitting
    BY <2>2, BuiltFits DEF CodecsInv
  <2> QED
    BY <2>1, <2>2, <2>3 DEF TypesInv
<1>2. CASE Receive
  <2>1. PICK c \in Names : \E p \in PayloadsOf(Layouts[c]) : codec' = c /\ payload' = {p}
    BY <1>2, Zenon DEF Receive
  <2>2. PICK p \in PayloadsOf(Layouts[c]) : codec' = c /\ payload' = {p}
    BY <2>1, Zenon
  <2>3. stage' = "sent"
    BY <1>2, Zenon DEF Receive
  <2>4. p \in Fitting
    <3>1. LayoutSound(c)
      BY LayoutsAssumption, Zenon
    <3>2. /\ LengthsFit(Layouts[c]) /\ Layouts[c].lengths \subseteq 1..LongestPayload
          /\ Layouts[c].cmd \in Octets
      BY <3>1, Zenon DEF LayoutSound, ReadsSound
    <3> QED
      BY <3>2, SentFits, Zenon
  <2> QED
    BY <2>2, <2>3, <2>4 DEF TypesInv
<1>3. CASE BuildAgain
  <2>1. stage' = "again" /\ codec' = codec
    BY <1>3, Zenon DEF BuildAgain
  <2>2. payload' \subseteq Fitting
    BY <2>1, BuiltFits DEF CodecsInv
  <2> QED
    BY <2>1, <2>2 DEF TypesInv
<1>4. CASE ComposeMenu
  <2>1. PICK n \in 1..2 : \E texts \in [1..n -> ShortTexts] : payload' = BuildMenu(texts)
    BY <1>4, Zenon DEF ComposeMenu
  <2>2. PICK texts \in [1..n -> ShortTexts] : payload' = BuildMenu(texts)
    BY <2>1, Zenon
  <2>3. stage = "idle" /\ stage' = "menu" /\ codec' = codec /\ before' = before
    BY <1>4, Zenon DEF ComposeMenu
  <2>4. texts \in Seq(Seq(Nat)) /\ Len(texts) = n
    <3>1. texts \in [1..n -> Seq(Nat)] /\ n \in Nat
      BY ShortTextsAre
    <3> QED
      BY <3>1, MadeSequence
  <2>5. \A i \in DOMAIN texts : Len(texts[i]) <= 9
    BY ShortTextsAreShort
  <2>6. Len(texts) <= 2
    BY <2>4
  <2>7. payload' \subseteq Fitting
    BY <2>2, <2>4, <2>5, <2>6, MenuFits, Zenon
  <2> QED
    BY <2>3, <2>7 DEF TypesInv
<1>5. CASE ComposeStations
  <2>1. /\ stage = "idle" /\ stage' = "stations" /\ codec' = codec /\ before' = before
    BY <1>5, Zenon DEF ComposeStations
  <2>2. given.args' \in Seq(Entries) /\ payload' = BuildStations(given.args')
    BY <2>1 DEF CodecsInv
  <2>3. payload' \subseteq Fitting
    BY <2>2, StationsFit, Zenon
  <2> QED
    BY <2>1, <2>3 DEF TypesInv
<1>6. CASE UNCHANGED codecs
  BY <1>6 DEF codecs, TypesInv
<1> QED
  BY <1>1, <1>2, <1>3, <1>4, <1>5, <1>6 DEF CodecsNext

\* What was read has a value, or none, for every field of the codec's parser.
LEMMA TypesAreThose == CodecsInv /\ TypesInv => CodecsTypeOK
<1> SUFFICES ASSUME CodecsInv, TypesInv PROVE CodecsTypeOK
  OBVIOUS
<1>1. codec \in Names /\ payload \subseteq Fitting
  BY DEF TypesInv
<1>2. stage \in {"idle", "built", "sent", "again", "menu", "stations"}
  BY DEF CodecsInv
<1>3. ASSUME NEW p \in payload
      PROVE  Len(p) \in 1..LongestPayload /\ \A i \in DOMAIN p : p[i] \in Octets
  <2>1. p \in Seq(Octets) /\ Len(p) \in 1..LongestPayload
    BY <1>1 DEF Fitting
  <2> QED
    BY <2>1
<1>4. ASSUME NEW r \in before PROVE DOMAIN r.fields = DOMAIN Layouts[codec].reads
  <2>1. stage = "sent" \/ stage = "again"
    BY DEF TypesInv
  <2>2. \E p \in Seq(Octets) : r \in Read(Layouts[codec], p)
    <3>1. CASE stage = "sent"
      BY <3>1 DEF CodecsInv, Received
    <3>2. CASE stage = "again"
      BY <3>2 DEF CodecsInv, Reread
    <3> QED
      BY <2>1, <3>1, <3>2
  <2>3. PICK p \in Seq(Octets) : r \in Read(Layouts[codec], p)
    BY <2>2
  <2> QED
    BY <2>3 DEF Read
<1> QED
  BY <1>1, <1>2, <1>3, <1>4, Zenon DEF CodecsTypeOK

\* The codec is one of those there are, every payload fits into a frame and
\* consists of octets, and what was read of it has an entry for every field of
\* the parser (packages/ikbus-commands/src, the codecs of index.ts:1-16).
THEOREM CodecsAreTyped == CodecsSpec => []CodecsTypeOK
<1>1. CodecsInv /\ CodecsInv' /\ TypesInv /\ [CodecsNext]_codecs => TypesInv'
  BY TypesStay
<1>2. CodecsSpec => []TypesInv
  BY <1>1, TypesBegin, CodecsInvHolds, PTL DEF CodecsSpec
<1> QED
  BY <1>2, TypesAreThose, CodecsInvHolds, PTL

=============================================================================
