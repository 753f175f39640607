---------------------------- MODULE CodecsProofs ----------------------------
(***************************************************************************)
(* Proofs about the conversions, for inputs of any length.                 *)
(***************************************************************************)
EXTENDS Codecs, RegistryProofs

-----------------------------------------------------------------------------
(* Base64: the tables.                                                     *)

(* The tables are inverse to each other, and padding is no letter.         *)
LEMMA TablesInverse ==
  ASSUME NEW v \in 0 .. 63
  PROVE  /\ encoding_table[v] \in 0 .. 255 /\ encoding_table[v] # Pad
         /\ decoding_table[encoding_table[v]] = v
  <1> DEFINE c == encoding_table[v]
  <1>1. CASE v \in 0 .. 25
    <2>1. c = 65 + v BY <1>1 DEF encoding_table
    <2> HIDE DEF c
    <2>2. c \in 65 .. 90 /\ c \in 0 .. 255 BY <1>1, <2>1
    <2>3. decoding_table[c] = c - 65 BY <2>2 DEF decoding_table
    <2> QED BY <1>1, <2>1, <2>2, <2>3 DEF Pad, c
  <1>2. CASE v \in 26 .. 51
    <2>1. c = 71 + v BY <1>2 DEF encoding_table
    <2> HIDE DEF c
    <2>2. c \in 97 .. 122 /\ c \in 0 .. 255 /\ c \notin 65 .. 90 BY <1>2, <2>1
    <2>3. decoding_table[c] = c - 71 BY <2>2 DEF decoding_table
    <2> QED BY <1>2, <2>1, <2>2, <2>3 DEF Pad, c
  <1>3. CASE v \in 52 .. 61
    <2>1. c = v - 4 BY <1>3 DEF encoding_table
    <2> HIDE DEF c
    <2>2. c \in 48 .. 57 /\ c \in 0 .. 255 /\ c \notin 65 .. 90 /\ c \notin 97 .. 122
      BY <1>3, <2>1
    <2>3. decoding_table[c] = c + 4 BY <2>2 DEF decoding_table
    <2> QED BY <1>3, <2>1, <2>2, <2>3 DEF Pad, c
  <1>4. CASE v = 62
    <2>1. c = 43 BY <1>4 DEF encoding_table
    <2>2. decoding_table[43] = 62 BY DEF decoding_table
    <2> QED BY <1>4, <2>1, <2>2 DEF Pad
  <1>5. CASE v = 63
    <2>1. c = 47 BY <1>5 DEF encoding_table
    <2>2. decoding_table[47] = 63 BY DEF decoding_table
    <2> QED BY <1>5, <2>1, <2>2 DEF Pad
  <1> QED BY <1>1, <1>2, <1>3, <1>4, <1>5

(* The letter of a sextet stands for that sextet only.                     *)
LEMMA SextetOfLetter ==
  ASSUME NEW v \in 0 .. 63
  PROVE  Sextet(encoding_table[v]) = v
  <1> DEFINE w == CHOOSE w \in 0 .. 63 : encoding_table[w] = encoding_table[v]
  <1>1. w \in 0 .. 63 /\ encoding_table[w] = encoding_table[v] OBVIOUS
  <1> HIDE DEF w
  <1>2. decoding_table[encoding_table[w]] = w /\ decoding_table[encoding_table[v]] = v
    BY <1>1, TablesInverse
  <1> QED BY <1>1, <1>2 DEF Sextet, w

-----------------------------------------------------------------------------
(* Base64: three octets and four sextets.                                  *)

(* Powers that are numbers.                                                *)
LEMMA Powers ==
  /\ 64 ^ 0 = 1 /\ 64 ^ 1 = 64 /\ 64 ^ 2 = 4096 /\ 64 ^ 3 = 262144
  /\ 256 ^ 0 = 1 /\ 256 ^ 1 = 256 /\ 256 ^ 2 = 65536
  /\ 2 ^ 0 = 1 /\ 2 ^ 1 = 2 /\ 2 ^ 2 = 4 /\ 2 ^ 3 = 8 /\ 2 ^ 4 = 16 /\ 2 ^ 5 = 32
  /\ 2 ^ 6 = 64 /\ 2 ^ 7 = 128
  OBVIOUS

Triple(a, b, c) == (a * 65536) + (b * 256) + c

(* A byte.                                                                 *)
Octet == 0 .. 255

(* What the encoder shifts and masks: sextet r of a triple.                *)
Sixth(x, r) == (x \div (64 ^ (3 - r))) % 64

(* The same sextet from the octets.                                        *)
SixthOf(a, b, c, r) ==
  CASE r = 0 -> a \div 4
    [] r = 1 -> ((a % 4) * 16) + (b \div 16)
    [] r = 2 -> ((b % 16) * 4) + (c \div 64)
    [] r = 3 -> c % 64

(* The bits of three octets, in sextets.                                   *)
LEMMA SextetsOfTriple ==
  ASSUME NEW a \in 0 .. 255, NEW b \in 0 .. 255, NEW c \in 0 .. 255, NEW r \in 0 .. 3
  PROVE  Sixth(Triple(a, b, c), r) = SixthOf(a, b, c, r)
  <1> DEFINE T == Triple(a, b, c)
  <1>1. T \div 262144 = a \div 4 BY DEF Triple
  <1>2. T \div 4096 = (a * 16) + (b \div 16) BY DEF Triple
  <1>3. T \div 64 = (a * 1024) + (b * 4) + (c \div 64) BY DEF Triple
  <1>4. T % 64 = c % 64 /\ T \div 1 = T BY DEF Triple
  <1> HIDE DEF T
  <1>5. \A x \in 0 .. 63 : x % 64 = x OBVIOUS
  <1>6. a \div 4 \in 0 .. 63 OBVIOUS
  <1>7. (T \div 262144) % 64 = a \div 4 BY <1>1, <1>5, <1>6
  <1>8. ((a * 16) + (b \div 16)) % 64 = ((a % 4) * 16) + (b \div 16) OBVIOUS
  <1>9. ((a * 1024) + (b * 4) + (c \div 64)) % 64 = ((b % 16) * 4) + (c \div 64) OBVIOUS
  <1>10. CASE r = 0
    <2>1. 64 ^ (3 - r) = 262144 BY <1>10, Powers
    <2> QED BY <1>7, <1>10, <2>1, SMT DEF Sixth, SixthOf, T
  <1>11. CASE r = 1
    <2>1. 64 ^ (3 - r) = 4096 BY <1>11, Powers
    <2> QED BY <1>2, <1>8, <1>11, <2>1, SMT DEF Sixth, SixthOf, T
  <1>12. CASE r = 2
    <2>1. 64 ^ (3 - r) = 64 BY <1>12, Powers
    <2> QED BY <1>3, <1>9, <1>12, <2>1, SMT DEF Sixth, SixthOf, T
  <1>13. CASE r = 3
    <2>1. 64 ^ (3 - r) = 1 BY <1>13, Powers
    <2> QED BY <1>4, <1>13, <2>1, SMT DEF Sixth, SixthOf, T
  <1> QED BY <1>10, <1>11, <1>12, <1>13

(* Sextet r of group k of the data, counted from 0.                        *)
SextetAt(d, k, r) == SixthOf(At(d, 3 * k), At(d, (3 * k) + 1), At(d, (3 * k) + 2), r)

Groups(n) == ((n - 1) \div 3) + 1

(* Octets of the data, and zeros behind it.                                *)
LEMMA AtType ==
  ASSUME NEW d \in Seq(0 .. 255), NEW i \in Nat
  PROVE  /\ At(d, i) \in 0 .. 255
         /\ i < Len(d) => At(d, i) = d[i + 1]
         /\ i >= Len(d) => At(d, i) = 0
  <1>1. CASE i < Len(d)
    <2>1. i + 1 \in 1 .. Len(d) BY <1>1
    <2>2. d[i + 1] \in 0 .. 255 BY <2>1, ElementOfSeq
    <2> QED BY <1>1, <2>2 DEF At
  <1>2. CASE i >= Len(d) BY <1>2 DEF At
  <1> QED BY <1>1, <1>2

(* The length of the code, and how much of it is padding.                  *)
LEMMA GroupsOf ==
  ASSUME NEW n \in Nat \ {0}
  PROVE  /\ Groups(n) \in Nat /\ Groups(n) > 0
         /\ ((n - 1) \div 3) * 4 + 4 = 4 * Groups(n)
         /\ mod_table(n) = (3 * Groups(n)) - n
         /\ mod_table(n) \in 0 .. 2
  BY DEF Groups, mod_table

(* A sextet that padding stands for is empty.                              *)
LEMMA PaddedSextets ==
  ASSUME NEW d \in Seq(0 .. 255), d # <<>>, NEW k \in Nat, k < Groups(Len(d)),
         NEW r \in 0 .. 3
  PROVE  /\ SextetAt(d, k, r) \in 0 .. 63
         /\ (4 * k) + r + 1 > (4 * Groups(Len(d))) - mod_table(Len(d)) => SextetAt(d, k, r) = 0
  <1> DEFINE n == Len(d)
             g == Groups(n)
             m == mod_table(n)
             a == At(d, 3 * k)
             b == At(d, (3 * k) + 1)
             c == At(d, (3 * k) + 2)
             s == SextetAt(d, k, r)
  <1>1. n \in Nat \ {0} BY EmptySeq
  <1>2. g \in Nat /\ g > 0 /\ m = (3 * g) - n /\ m \in 0 .. 2 BY <1>1, GroupsOf
  <1>3. a \in 0 .. 255 /\ b \in 0 .. 255 /\ c \in 0 .. 255 BY AtType
  <1>4. /\ r = 0 => s = a \div 4
        /\ r = 1 => s = ((a % 4) * 16) + (b \div 16)
        /\ r = 2 => s = ((b % 16) * 4) + (c \div 64)
        /\ r = 3 => s = c % 64
    BY DEF SextetAt, SixthOf
  <1>5. ((3 * k) + 1 >= n => b = 0) /\ ((3 * k) + 2 >= n => c = 0) BY AtType
  <1> HIDE DEF n, g, m, a, b, c, s
  <1>6. r = 0 \/ r = 1 \/ r = 2 \/ r = 3 OBVIOUS
  <1>7. s \in 0 .. 63
    <2>1. r = 0 => s \in 0 .. 63 BY <1>3, <1>4
    <2>2. r = 1 => s \in 0 .. 63 BY <1>3, <1>4
    <2>3. r = 2 => s \in 0 .. 63 BY <1>3, <1>4
    <2>4. r = 3 => s \in 0 .. 63 BY <1>3, <1>4
    <2> QED BY <1>6, <2>1, <2>2, <2>3, <2>4
  <1>8. ASSUME (4 * k) + r + 1 > (4 * g) - m PROVE s = 0
    <2>1. k = g - 1 BY <1>2, <1>8 DEF g, n
    <2>2. r > 3 - m BY <1>2, <1>8, <2>1
    <2>3. CASE r = 3
      <3>1. c = 0 BY <1>1, <1>2, <1>5, <2>1, <2>2, <2>3
      <3> QED BY <1>4, <2>3, <3>1
    <2>4. CASE r = 2
      <3>1. b = 0 /\ c = 0 BY <1>1, <1>2, <1>5, <2>1, <2>2, <2>4
      <3> QED BY <1>4, <2>4, <3>1
    <2> QED BY <1>2, <1>6, <2>2, <2>3, <2>4
  <1> QED BY <1>7, <1>8 DEF s, n, g, m

(* The code is letters of all sextets, with padding for the last ones.     *)
LEMMA EncodedAt ==
  ASSUME NEW d \in Seq(0 .. 255), d # <<>>
  PROVE  /\ Len(base64_encode(d)) = 4 * Groups(Len(d))
         /\ \A k \in Nat, r \in 0 .. 3 : k < Groups(Len(d)) =>
              base64_encode(d)[(4 * k) + r + 1]
                = IF (4 * k) + r + 1 > (4 * Groups(Len(d))) - mod_table(Len(d)) THEN Pad
                  ELSE encoding_table[SextetAt(d, k, r)]
  <1> DEFINE n == Len(d)
             g == Groups(n)
             m == mod_table(n)
             s == base64_encode(d)
             T(k) == Triple(At(d, 3 * k), At(d, (3 * k) + 1), At(d, (3 * k) + 2))
             letter(j) == IF j > (4 * g) - m THEN Pad
                          ELSE encoding_table[Sixth(T((j - 1) \div 4), (j - 1) % 4)]
  <1>1. n \in Nat \ {0} BY EmptySeq
  <1>2. g \in Nat /\ g > 0 /\ ((n - 1) \div 3) * 4 + 4 = 4 * g BY <1>1, GroupsOf
  <1>3. s = [j \in 1 .. ((n - 1) \div 3) * 4 + 4 |-> letter(j)]
    <2> HIDE DEF g, m
    <2>1. s = [j \in 1 .. ((n - 1) \div 3) * 4 + 4 |->
                 IF j > (((n - 1) \div 3) * 4 + 4) - m THEN Pad
                 ELSE encoding_table[Sixth(T((j - 1) \div 4), (j - 1) % 4)]]
      BY DEF base64_encode, Triple, Sixth, m
    <2> HIDE DEF s, T, n
    <2> QED BY <1>2, <2>1
  <1>4. s = [j \in 1 .. 4 * g |-> letter(j)]
    <2> HIDE DEF s, letter, n, g
    <2> QED BY <1>2, <1>3
  <1>5. Len(s) = 4 * g
    <2> HIDE DEF s, letter, n, g
    <2>1. s = [j \in 1 .. 4 * g |-> s[j]] BY <1>4
    <2>2. 4 * g \in Nat BY <1>2
    <2> QED BY <2>1, <2>2, FunctionIsList
  <1>6. ASSUME NEW k \in Nat, NEW r \in 0 .. 3, k < g
        PROVE  s[(4 * k) + r + 1] = IF (4 * k) + r + 1 > (4 * g) - m THEN Pad
                                    ELSE encoding_table[SextetAt(d, k, r)]
    <2> DEFINE j == (4 * k) + r + 1
               a == At(d, 3 * k)
               b == At(d, (3 * k) + 1)
               c == At(d, (3 * k) + 2)
    <2>1. j \in 1 .. 4 * g /\ (j - 1) \div 4 = k /\ (j - 1) % 4 = r BY <1>2, <1>6
    <2>2. s[j] = letter(j)
      <3> HIDE DEF s, letter, j, g
      <3> QED BY <1>4, <2>1
    <2>3. a \in 0 .. 255 /\ b \in 0 .. 255 /\ c \in 0 .. 255 BY AtType
    <2>7. T(k) = Triple(a, b, c) OBVIOUS
    <2>8. SextetAt(d, k, r) = SixthOf(a, b, c, r) BY DEF SextetAt
    <2> HIDE DEF T, a, b, c
    <2>5. Sixth(T(k), r) = SextetAt(d, k, r)
      <3>1. Sixth(Triple(a, b, c), r) = SixthOf(a, b, c, r) BY <2>3, SextetsOfTriple
      <3> QED BY <2>7, <2>8, <3>1
    <2>6. letter(j) = IF j > (4 * g) - m THEN Pad
                      ELSE encoding_table[Sixth(T(k), r)]
      <3> HIDE DEF T, g, m, j
      <3> QED BY <2>1
    <2> HIDE DEF s, letter, T, g, m
    <2> QED BY <2>2, <2>5, <2>6
  <1> QED BY <1>5, <1>6

-----------------------------------------------------------------------------
(* Base64: decoding.                                                       *)

(* What the decoder shifts and masks: octet r of a triple.                 *)
Eighth(x, r) == (x \div (256 ^ (2 - r))) % 256

(* Four sextets in a triple.                                               *)
Quadruple(p, q, r, s) == (p * 262144) + (q * 4096) + (r * 64) + s

(* The sextets of three octets in a triple.                                *)
Sextets(a, b, c) ==
  Quadruple(SixthOf(a, b, c, 0), SixthOf(a, b, c, 1), SixthOf(a, b, c, 2), SixthOf(a, b, c, 3))

(* The octets come out of the triple that the sextets make.                *)
LEMMA OctetsOfSextets ==
  ASSUME NEW a \in Octet, NEW b \in Octet, NEW c \in Octet
  PROVE  /\ Eighth(Sextets(a, b, c), 0) = a /\ Eighth(Sextets(a, b, c), 1) = b
         /\ Eighth(Sextets(a, b, c), 2) = c
  <1> USE DEF Octet
  <1> DEFINE p == SixthOf(a, b, c, 0)
             q == SixthOf(a, b, c, 1)
             r == SixthOf(a, b, c, 2)
             s == SixthOf(a, b, c, 3)
             T == Triple(a, b, c)
  <1>1. /\ p = a \div 4 /\ q = ((a % 4) * 16) + (b \div 16)
        /\ r = ((b % 16) * 4) + (c \div 64) /\ s = c % 64
    BY SMT DEF SixthOf
  <1>2. \A x \in 0 .. 255 : /\ x = (4 * (x \div 4)) + (x % 4)
                            /\ x = (16 * (x \div 16)) + (x % 16)
                            /\ x = (64 * (x \div 64)) + (x % 64)
    OBVIOUS
  <1>6. ((a \div 4) * 262144) + ((((a % 4) * 16) + (b \div 16)) * 4096)
          + ((((b % 16) * 4) + (c \div 64)) * 64) + (c % 64) = T
    BY <1>2, SMT DEF Triple
  <1>7. T \div 65536 = a /\ T \div 256 = (a * 256) + b /\ T % 256 = c /\ T \div 1 = T
    BY SMT DEF Triple
  <1>8. a % 256 = a /\ ((a * 256) + b) % 256 = b OBVIOUS
  <1> HIDE DEF p, q, r, s, T
  <1>3. Quadruple(p, q, r, s) = T BY <1>1, <1>6, SMT DEF Quadruple
  <1>4. 256 ^ (2 - 0) = 65536 /\ 256 ^ (2 - 1) = 256 /\ 256 ^ (2 - 2) = 1 BY Powers, SMT
  <1>5. Eighth(T, 0) = a /\ Eighth(T, 1) = b /\ Eighth(T, 2) = c
    BY <1>4, <1>7, <1>8, SMT DEF Eighth
  <1> QED BY <1>3, <1>5 DEF p, q, r, s, Sextets

(* decoded_length takes the padding off.                                   *)
LEMMA DecodedLength ==
  ASSUME NEW d \in Seq(0 .. 255), d # <<>>
  PROVE  decoded_length(base64_encode(d)) = Len(d)
  <1> DEFINE n == Len(d)
             g == Groups(n)
             m == mod_table(n)
             s == base64_encode(d)
  <1>1. n \in Nat \ {0} BY EmptySeq
  <1>2. g \in Nat /\ g > 0 /\ m = (3 * g) - n /\ m \in 0 .. 2 BY <1>1, GroupsOf
  <1>3. Len(s) = 4 * g BY EncodedAt
  <1>4. ASSUME NEW r \in 0 .. 3
        PROVE  s[(4 * (g - 1)) + r + 1] = Pad <=> r + 1 > 4 - m
    <2> DEFINE k == g - 1
    <2>1. k \in Nat /\ k < g BY <1>2
    <2>2. s[(4 * k) + r + 1] = IF (4 * k) + r + 1 > (4 * g) - m THEN Pad
                               ELSE encoding_table[SextetAt(d, k, r)]
      BY <2>1, EncodedAt
    <2>3. encoding_table[SextetAt(d, k, r)] # Pad BY <2>1, PaddedSextets, TablesInverse
    <2> HIDE DEF s, m, g
    <2>4. (4 * k) + r + 1 > (4 * g) - m <=> r + 1 > 4 - m BY <1>2
    <2> QED BY <2>2, <2>3, <2>4
  <1>5. /\ s[(4 * (g - 1)) + 3 + 1] = Pad <=> 3 + 1 > 4 - m
        /\ s[(4 * (g - 1)) + 2 + 1] = Pad <=> 2 + 1 > 4 - m
    <2>1. 3 \in 0 .. 3 /\ 2 \in 0 .. 3 OBVIOUS
    <2> HIDE DEF s, m, g
    <2> QED BY <1>4, <2>1
  <1> HIDE DEF s, g, m, n
  <1>6. /\ (4 * (g - 1)) + 3 + 1 = 4 * g /\ (4 * (g - 1)) + 2 + 1 = (4 * g) - 1
        /\ (4 * g) \div 4 = g
    BY <1>2
  <1>7. /\ s[Len(s)] = Pad <=> m > 0
        /\ s[Len(s) - 1] = Pad <=> m > 1
    BY <1>2, <1>3, <1>5, <1>6
  <1>8. ((Len(s) \div 4) * 3) - (IF s[Len(s)] = Pad THEN 1 ELSE 0)
          - (IF s[Len(s) - 1] = Pad THEN 1 ELSE 0) = n
    BY <1>1, <1>2, <1>3, <1>6, <1>7
  <1> QED BY <1>8 DEF decoded_length, s, n

(* The decoder finds the sextets, the ones under padding as zeros.         *)
LEMMA DecodedSextet ==
  ASSUME NEW d \in Seq(0 .. 255), d # <<>>, NEW k \in Nat, k < Groups(Len(d)), NEW r \in 0 .. 3,
         NEW x, x = base64_encode(d)[(4 * k) + r + 1]
  PROVE  (IF x = Pad THEN 0 ELSE decoding_table[x]) = SextetAt(d, k, r)
  <1> DEFINE padded == (4 * k) + r + 1 > (4 * Groups(Len(d))) - mod_table(Len(d))
             v == SextetAt(d, k, r)
  <1>1. x = IF padded THEN Pad ELSE encoding_table[v] BY EncodedAt
  <1>2. v \in 0 .. 63 /\ (padded => v = 0) BY PaddedSextets
  <1> HIDE DEF padded, v
  <1>3. encoding_table[v] # Pad /\ decoding_table[encoding_table[v]] = v
    BY <1>2, TablesInverse
  <1> QED BY <1>1, <1>2, <1>3 DEF v

(* Decoding what was encoded gives the data.                               *)
LEMMA DecodedData ==
  ASSUME NEW d \in Seq(0 .. 255), d # <<>>
  PROVE  base64_decode(base64_encode(d)) = d
  <1> DEFINE n == Len(d)
             g == Groups(n)
             s == base64_encode(d)
             sextet(i) == IF s[i] = Pad THEN 0 ELSE decoding_table[s[i]]
             T(k) == Quadruple(sextet((4 * k) + 1), sextet((4 * k) + 2), sextet((4 * k) + 3),
                               sextet((4 * k) + 4))
             octet(j) == Eighth(T((j - 1) \div 3), (j - 1) % 3)
  <1>1. n \in Nat \ {0} BY EmptySeq
  <1>2. g \in Nat /\ g > 0 /\ mod_table(n) = (3 * g) - n /\ mod_table(n) \in 0 .. 2
    BY <1>1, GroupsOf
  <1>3. base64_decode(s) = [j \in 1 .. n |-> octet(j)]
    <2>1. decoded_length(s) = n BY DecodedLength
    <2>3. Len(s) % 4 = 0
      <3>1. Len(s) = 4 * g BY EncodedAt
      <3> HIDE DEF s, g
      <3> QED BY <1>2, <3>1
    <2> HIDE DEF s, n
    <2>2. base64_decode(s) = [j \in 1 .. decoded_length(s) |-> octet(j)]
      BY <2>3, SMT DEF base64_decode, Quadruple, Eighth
    <2> HIDE DEF octet
    <2> QED BY <2>1, <2>2
  <1>4. ASSUME NEW j \in 1 .. n PROVE octet(j) = d[j]
    <2> DEFINE k == (j - 1) \div 3
               r == (j - 1) % 3
               a == At(d, 3 * k)
               b == At(d, (3 * k) + 1)
               c == At(d, (3 * k) + 2)
    <2>1. k \in Nat /\ r \in 0 .. 2 /\ j = (3 * k) + r + 1 /\ k < g
      <3> HIDE DEF n, g
      <3>1. k \in Nat /\ r \in 0 .. 2 /\ j = (3 * k) + r + 1 BY <1>1
      <3> HIDE DEF k, r
      <3>2. k < g BY <1>1, <1>2, <3>1
      <3> QED BY <3>1, <3>2 DEF k, r
    <2> HIDE DEF k, r
    <2>2. a \in 0 .. 255 /\ b \in 0 .. 255 /\ c \in 0 .. 255 BY <2>1, AtType
    <2>3. ASSUME NEW i \in 0 .. 3 PROVE sextet((4 * k) + i + 1) = SixthOf(a, b, c, i)
      <3>1. SextetAt(d, k, i) = SixthOf(a, b, c, i) BY DEF SextetAt
      <3> DEFINE x == s[(4 * k) + i + 1]
      <3>2. (IF x = Pad THEN 0 ELSE decoding_table[x]) = SextetAt(d, k, i)
        BY <2>1, DecodedSextet
      <3> QED BY <3>1, <3>2
    <2>4. /\ (4 * k) + 1 = (4 * k) + 0 + 1 /\ (4 * k) + 2 = (4 * k) + 1 + 1
          /\ (4 * k) + 3 = (4 * k) + 2 + 1 /\ (4 * k) + 4 = (4 * k) + 3 + 1
          /\ 0 \in 0 .. 3 /\ 1 \in 0 .. 3 /\ 2 \in 0 .. 3 /\ 3 \in 0 .. 3
      BY <2>1
    <2> HIDE DEF a, b, c, sextet
    <2>5. T(k) = Quadruple(SixthOf(a, b, c, 0), SixthOf(a, b, c, 1), SixthOf(a, b, c, 2),
                           SixthOf(a, b, c, 3))
      <3>1. /\ sextet((4 * k) + 1) = SixthOf(a, b, c, 0)
            /\ sextet((4 * k) + 2) = SixthOf(a, b, c, 1)
            /\ sextet((4 * k) + 3) = SixthOf(a, b, c, 2)
            /\ sextet((4 * k) + 4) = SixthOf(a, b, c, 3)
        BY <2>3, <2>4
      <3> QED BY <3>1
    <2>7. octet(j) = Eighth(T(k), r) BY DEF k, r
    <2> HIDE DEF T
    <2>6. Eighth(T(k), 0) = a /\ Eighth(T(k), 1) = b /\ Eighth(T(k), 2) = c
      <3>1. T(k) = Sextets(a, b, c) BY <2>5 DEF Sextets
      <3>2. /\ Eighth(Sextets(a, b, c), 0) = a /\ Eighth(Sextets(a, b, c), 1) = b
            /\ Eighth(Sextets(a, b, c), 2) = c
        <4>1. a \in Octet /\ b \in Octet /\ c \in Octet BY <2>2 DEF Octet
        <4> QED BY <4>1, OctetsOfSextets
      <3> QED BY <3>1, <3>2
    <2>8. /\ r = 0 => a = d[j]
          /\ r = 1 => b = d[j]
          /\ r = 2 => c = d[j]
      <3>1. \A i \in Nat : i < Len(d) => At(d, i) = d[i + 1] BY AtType
      <3>2. CASE r = 0
        <4>1. 3 * k \in Nat /\ 3 * k < Len(d) /\ (3 * k) + 1 = j BY <1>1, <2>1, <3>2
        <4> QED BY <3>1, <3>2, <4>1 DEF a
      <3>3. CASE r = 1
        <4>1. (3 * k) + 1 \in Nat /\ (3 * k) + 1 < Len(d) /\ ((3 * k) + 1) + 1 = j
          BY <1>1, <2>1, <3>3
        <4> QED BY <3>1, <3>3, <4>1 DEF b
      <3>4. CASE r = 2
        <4>1. (3 * k) + 2 \in Nat /\ (3 * k) + 2 < Len(d) /\ ((3 * k) + 2) + 1 = j
          BY <1>1, <2>1, <3>4
        <4> QED BY <3>1, <3>4, <4>1 DEF c
      <3> QED BY <3>2, <3>3, <3>4
    <2>9. r = 0 \/ r = 1 \/ r = 2 BY <2>1
    <2> HIDE DEF octet
    <2> QED BY <2>6, <2>7, <2>8, <2>9
  <1>5. d = [j \in 1 .. n |-> d[j]] OBVIOUS
  <1> HIDE DEF octet, n
  <1> QED BY <1>3, <1>4, <1>5

-----------------------------------------------------------------------------
(* Every call has had one of the inputs, and its output.                   *)
CallsInv ==
  /\ call = "base64" => input \in Octets /\ out = base64_encode(input)
  /\ call = "arguments" => input \in Arguments /\ out = arglist_parse(WrittenList(input))
  /\ call = "manifest" => input \in Plugins /\ out = benthos_dc_manifest_parse(input)

(* A call is answered, and the next one is a new one.                      *)
LEMMA Calls == CallSpec => []CallsInv
  <1>1. CallInit => CallsInv BY DEF CallInit, CallsInv
  <1>2. CallsInv /\ [CallNext]_callVars => CallsInv'
    <2> SUFFICES ASSUME CallsInv, [CallNext]_callVars PROVE CallsInv' OBVIOUS
    <2>1. CASE EncodeData BY <2>1 DEF EncodeData, CallsInv
    <2>2. CASE ParseArguments BY <2>2 DEF ParseArguments, CallsInv
    <2>3. CASE ParseManifest BY <2>3 DEF ParseManifest, CallsInv
    <2>4. CASE UNCHANGED callVars BY <2>4 DEF callVars, CallsInv
    <2>5. CASE Return BY <2>5 DEF Return, CallsInv
    <2> QED BY <2>1, <2>2, <2>3, <2>4, <2>5 DEF CallNext
  <1> QED BY <1>1, <1>2, PTL DEF CallSpec

(* The client's base64_decode gives back what the daemon encoded, bytes    *)
(* and length, for data of any length and any bytes.                       *)
THEOREM DecodingInverts == CallSpec => []DecodeInvertsEncode
  <1>1. ASSUME CallsInv PROVE DecodeInvertsEncode
    <2>1. ASSUME call = "base64" PROVE base64_decode(out) = input
      <3>1. input \in Seq(0 .. 255) /\ input # <<>>
        BY <1>1, <2>1, CodecsAssumption DEF CallsInv
      <3>2. base64_decode(base64_encode(input)) = input BY <3>1, DecodedData
      <3> QED BY <1>1, <2>1, <3>2 DEF CallsInv
    <2> QED BY <2>1 DEF DecodeInvertsEncode
  <1> QED BY <1>1, Calls, PTL
-----------------------------------------------------------------------------
(* Base64: bits.                                                           *)

(* Bit i of x, counted from the highest of its bits.                       *)
Bit(x, width, i) == (x \div (2 ^ (width - 1 - i))) % 2

OctetOf(a, b, c, r) == CASE r = 0 -> a [] r = 1 -> b [] r = 2 -> c

(* Bit e of three octets is bit e of their four sextets.                   *)
LEMMA BitsOfTriple ==
  ASSUME NEW a \in Octet, NEW b \in Octet, NEW c \in Octet, NEW e \in 0 .. 23
  PROVE  Bit(SixthOf(a, b, c, e \div 6), 6, e % 6) = Bit(OctetOf(a, b, c, e \div 8), 8, e % 8)
  <1> DEFINE p == SixthOf(a, b, c, 0)
             q == SixthOf(a, b, c, 1)
             r == SixthOf(a, b, c, 2)
             s == SixthOf(a, b, c, 3)
  <1>1. a \in Nat /\ b \in Nat /\ c \in Nat /\ a < 256 /\ b < 256 /\ c < 256 BY DEF Octet
  <1>2. /\ p = a \div 4 /\ q = ((a % 4) * 16) + (b \div 16)
        /\ r = ((b % 16) * 4) + (c \div 64) /\ s = c % 64
    BY DEF SixthOf
  <1>3. OctetOf(a, b, c, 0) = a /\ OctetOf(a, b, c, 1) = b /\ OctetOf(a, b, c, 2) = c
    BY DEF OctetOf
  <1>4. /\ 2 ^ (6 - 1 - 0) = 32 /\ 2 ^ (6 - 1 - 1) = 16 /\ 2 ^ (6 - 1 - 2) = 8
        /\ 2 ^ (6 - 1 - 3) = 4 /\ 2 ^ (6 - 1 - 4) = 2 /\ 2 ^ (6 - 1 - 5) = 1
        /\ 2 ^ (8 - 1 - 0) = 128 /\ 2 ^ (8 - 1 - 1) = 64 /\ 2 ^ (8 - 1 - 2) = 32
        /\ 2 ^ (8 - 1 - 3) = 16 /\ 2 ^ (8 - 1 - 4) = 8 /\ 2 ^ (8 - 1 - 5) = 4
        /\ 2 ^ (8 - 1 - 6) = 2 /\ 2 ^ (8 - 1 - 7) = 1
    BY Powers
  <1> HIDE DEF p, q, r, s
  <1>5. ASSUME NEW x
        PROVE  /\ Bit(x, 6, 0) = (x \div 32) % 2 /\ Bit(x, 6, 1) = (x \div 16) % 2
               /\ Bit(x, 6, 2) = (x \div 8) % 2 /\ Bit(x, 6, 3) = (x \div 4) % 2
               /\ Bit(x, 6, 4) = (x \div 2) % 2 /\ Bit(x, 6, 5) = (x \div 1) % 2
               /\ Bit(x, 8, 0) = (x \div 128) % 2 /\ Bit(x, 8, 1) = (x \div 64) % 2
               /\ Bit(x, 8, 2) = (x \div 32) % 2 /\ Bit(x, 8, 3) = (x \div 16) % 2
               /\ Bit(x, 8, 4) = (x \div 8) % 2 /\ Bit(x, 8, 5) = (x \div 4) % 2
               /\ Bit(x, 8, 6) = (x \div 2) % 2 /\ Bit(x, 8, 7) = (x \div 1) % 2
    BY <1>4 DEF Bit
  <1>11. /\ Bit(p, 6, 0) = Bit(a, 8, 0) /\ Bit(p, 6, 1) = Bit(a, 8, 1)
         /\ Bit(p, 6, 2) = Bit(a, 8, 2) /\ Bit(p, 6, 3) = Bit(a, 8, 3)
         /\ Bit(p, 6, 4) = Bit(a, 8, 4) /\ Bit(p, 6, 5) = Bit(a, 8, 5)
    <2>1. (p \div 32) % 2 = (a \div 128) % 2 BY <1>1, <1>2
    <2>2. (p \div 16) % 2 = (a \div 64) % 2 BY <1>1, <1>2
    <2>3. (p \div 8) % 2 = (a \div 32) % 2 BY <1>1, <1>2
    <2>4. (p \div 4) % 2 = (a \div 16) % 2 BY <1>1, <1>2
    <2>5. (p \div 2) % 2 = (a \div 8) % 2 BY <1>1, <1>2
    <2>6. (p \div 1) % 2 = (a \div 4) % 2 BY <1>1, <1>2
    <2> HIDE DEF Bit
    <2> QED BY <1>5, <2>1, <2>2, <2>3, <2>4, <2>5, <2>6
  <1>12. /\ Bit(q, 6, 0) = Bit(a, 8, 6) /\ Bit(q, 6, 1) = Bit(a, 8, 7)
         /\ Bit(q, 6, 2) = Bit(b, 8, 0) /\ Bit(q, 6, 3) = Bit(b, 8, 1)
         /\ Bit(q, 6, 4) = Bit(b, 8, 2) /\ Bit(q, 6, 5) = Bit(b, 8, 3)
    <2>1. (q \div 32) % 2 = (a \div 2) % 2 BY <1>1, <1>2
    <2>2. (q \div 16) % 2 = (a \div 1) % 2 BY <1>1, <1>2
    <2>3. (q \div 8) % 2 = (b \div 128) % 2 BY <1>1, <1>2
    <2>4. (q \div 4) % 2 = (b \div 64) % 2 BY <1>1, <1>2
    <2>5. (q \div 2) % 2 = (b \div 32) % 2 BY <1>1, <1>2
    <2>6. (q \div 1) % 2 = (b \div 16) % 2 BY <1>1, <1>2
    <2> HIDE DEF Bit
    <2> QED BY <1>5, <2>1, <2>2, <2>3, <2>4, <2>5, <2>6
  <1>13. /\ Bit(r, 6, 0) = Bit(b, 8, 4) /\ Bit(r, 6, 1) = Bit(b, 8, 5)
         /\ Bit(r, 6, 2) = Bit(b, 8, 6) /\ Bit(r, 6, 3) = Bit(b, 8, 7)
         /\ Bit(r, 6, 4) = Bit(c, 8, 0) /\ Bit(r, 6, 5) = Bit(c, 8, 1)
    <2>1. (r \div 32) % 2 = (b \div 8) % 2 BY <1>1, <1>2
    <2>2. (r \div 16) % 2 = (b \div 4) % 2 BY <1>1, <1>2
    <2>3. (r \div 8) % 2 = (b \div 2) % 2 BY <1>1, <1>2
    <2>4. (r \div 4) % 2 = (b \div 1) % 2 BY <1>1, <1>2
    <2>5. (r \div 2) % 2 = (c \div 128) % 2 BY <1>1, <1>2
    <2>6. (r \div 1) % 2 = (c \div 64) % 2 BY <1>1, <1>2
    <2> HIDE DEF Bit
    <2> QED BY <1>5, <2>1, <2>2, <2>3, <2>4, <2>5, <2>6
  <1>14. /\ Bit(s, 6, 0) = Bit(c, 8, 2) /\ Bit(s, 6, 1) = Bit(c, 8, 3)
         /\ Bit(s, 6, 2) = Bit(c, 8, 4) /\ Bit(s, 6, 3) = Bit(c, 8, 5)
         /\ Bit(s, 6, 4) = Bit(c, 8, 6) /\ Bit(s, 6, 5) = Bit(c, 8, 7)
    <2>1. (s \div 32) % 2 = (c \div 32) % 2 BY <1>1, <1>2
    <2>2. (s \div 16) % 2 = (c \div 16) % 2 BY <1>1, <1>2
    <2>3. (s \div 8) % 2 = (c \div 8) % 2 BY <1>1, <1>2
    <2>4. (s \div 4) % 2 = (c \div 4) % 2 BY <1>1, <1>2
    <2>5. (s \div 2) % 2 = (c \div 2) % 2 BY <1>1, <1>2
    <2>6. (s \div 1) % 2 = (c \div 1) % 2 BY <1>1, <1>2
    <2> HIDE DEF Bit
    <2> QED BY <1>5, <2>1, <2>2, <2>3, <2>4, <2>5, <2>6
  <1>6. CASE e \in 0 .. 5
    <2>1. e = 0 \/ e = 1 \/ e = 2 \/ e = 3 \/ e = 4 \/ e = 5 BY <1>6
    <2>2. /\ e = 0 => e \div 6 = 0 /\ e % 6 = 0 /\ e \div 8 = 0 /\ e % 8 = 0
          /\ e = 1 => e \div 6 = 0 /\ e % 6 = 1 /\ e \div 8 = 0 /\ e % 8 = 1
          /\ e = 2 => e \div 6 = 0 /\ e % 6 = 2 /\ e \div 8 = 0 /\ e % 8 = 2
          /\ e = 3 => e \div 6 = 0 /\ e % 6 = 3 /\ e \div 8 = 0 /\ e % 8 = 3
          /\ e = 4 => e \div 6 = 0 /\ e % 6 = 4 /\ e \div 8 = 0 /\ e % 8 = 4
          /\ e = 5 => e \div 6 = 0 /\ e % 6 = 5 /\ e \div 8 = 0 /\ e % 8 = 5
      OBVIOUS
    <2> QED BY <1>3, <1>11, <2>1, <2>2 DEF p
  <1>7. CASE e \in 6 .. 11
    <2>1. e = 6 \/ e = 7 \/ e = 8 \/ e = 9 \/ e = 10 \/ e = 11 BY <1>7
    <2>2. /\ e = 6 => e \div 6 = 1 /\ e % 6 = 0 /\ e \div 8 = 0 /\ e % 8 = 6
          /\ e = 7 => e \div 6 = 1 /\ e % 6 = 1 /\ e \div 8 = 0 /\ e % 8 = 7
          /\ e = 8 => e \div 6 = 1 /\ e % 6 = 2 /\ e \div 8 = 1 /\ e % 8 = 0
          /\ e = 9 => e \div 6 = 1 /\ e % 6 = 3 /\ e \div 8 = 1 /\ e % 8 = 1
          /\ e = 10 => e \div 6 = 1 /\ e % 6 = 4 /\ e \div 8 = 1 /\ e % 8 = 2
          /\ e = 11 => e \div 6 = 1 /\ e % 6 = 5 /\ e \div 8 = 1 /\ e % 8 = 3
      OBVIOUS
    <2> QED BY <1>3, <1>12, <2>1, <2>2 DEF q
  <1>8. CASE e \in 12 .. 17
    <2>1. e = 12 \/ e = 13 \/ e = 14 \/ e = 15 \/ e = 16 \/ e = 17 BY <1>8
    <2>2. /\ e = 12 => e \div 6 = 2 /\ e % 6 = 0 /\ e \div 8 = 1 /\ e % 8 = 4
          /\ e = 13 => e \div 6 = 2 /\ e % 6 = 1 /\ e \div 8 = 1 /\ e % 8 = 5
          /\ e = 14 => e \div 6 = 2 /\ e % 6 = 2 /\ e \div 8 = 1 /\ e % 8 = 6
          /\ e = 15 => e \div 6 = 2 /\ e % 6 = 3 /\ e \div 8 = 1 /\ e % 8 = 7
          /\ e = 16 => e \div 6 = 2 /\ e % 6 = 4 /\ e \div 8 = 2 /\ e % 8 = 0
          /\ e = 17 => e \div 6 = 2 /\ e % 6 = 5 /\ e \div 8 = 2 /\ e % 8 = 1
      OBVIOUS
    <2> QED BY <1>3, <1>13, <2>1, <2>2 DEF r
  <1>9. CASE e \in 18 .. 23
    <2>1. e = 18 \/ e = 19 \/ e = 20 \/ e = 21 \/ e = 22 \/ e = 23 BY <1>9
    <2>2. /\ e = 18 => e \div 6 = 3 /\ e % 6 = 0 /\ e \div 8 = 2 /\ e % 8 = 2
          /\ e = 19 => e \div 6 = 3 /\ e % 6 = 1 /\ e \div 8 = 2 /\ e % 8 = 3
          /\ e = 20 => e \div 6 = 3 /\ e % 6 = 2 /\ e \div 8 = 2 /\ e % 8 = 4
          /\ e = 21 => e \div 6 = 3 /\ e % 6 = 3 /\ e \div 8 = 2 /\ e % 8 = 5
          /\ e = 22 => e \div 6 = 3 /\ e % 6 = 4 /\ e \div 8 = 2 /\ e % 8 = 6
          /\ e = 23 => e \div 6 = 3 /\ e % 6 = 5 /\ e \div 8 = 2 /\ e % 8 = 7
      OBVIOUS
    <2> QED BY <1>3, <1>14, <2>1, <2>2 DEF s
  <1> QED BY <1>6, <1>7, <1>8, <1>9

(* Bit k of the sextets, group by group, is bit k of the data, or 0 behind *)
(* the data.                                                               *)
LEMMA BitsOfData ==
  ASSUME NEW d \in Seq(0 .. 255), NEW k \in Nat
  PROVE  Bit(SextetAt(d, k \div 24, (k % 24) \div 6), 6, k % 6)
           = IF k < 8 * Len(d) THEN Bit(d[(k \div 8) + 1], 8, k % 8) ELSE 0
  <1> DEFINE h == k \div 24
             e == k % 24
             a == At(d, 3 * h)
             b == At(d, (3 * h) + 1)
             c == At(d, (3 * h) + 2)
             x == At(d, k \div 8)
  <1>1. h \in Nat /\ e \in 0 .. 23 /\ k = (24 * h) + e OBVIOUS
  <1>2. k % 6 = e % 6 /\ k % 8 = e % 8 /\ k \div 8 = (3 * h) + (e \div 8)
    <2> HIDE DEF h, e
    <2> QED BY <1>1
  <1>3. a \in Octet /\ b \in Octet /\ c \in Octet BY <1>1, AtType DEF Octet
  <1>4. SextetAt(d, h, e \div 6) = SixthOf(a, b, c, e \div 6) BY DEF SextetAt
  <1>5. /\ k \div 8 \in Nat /\ (k \div 8 < Len(d) <=> k < 8 * Len(d))
        /\ \A y \in Nat : y % 8 \in 0 .. 7
    <2>1. Len(d) \in Nat OBVIOUS
    <2>2. \A n \in Nat : k \div 8 < n <=> k < 8 * n OBVIOUS
    <2> QED BY <2>1, <2>2
  <1>6. OctetOf(a, b, c, e \div 8) = x
    <2> HIDE DEF h, e
    <2>1. e \div 8 = 0 \/ e \div 8 = 1 \/ e \div 8 = 2 BY <1>1
    <2>2. (3 * h) + 0 = 3 * h BY <1>1
    <2>3. CASE e \div 8 = 0 BY <1>2, <2>2, <2>3 DEF OctetOf
    <2>4. CASE e \div 8 = 1 BY <1>2, <2>4 DEF OctetOf
    <2>5. CASE e \div 8 = 2 BY <1>2, <2>5 DEF OctetOf
    <2> QED BY <2>1, <2>3, <2>4, <2>5
  <1> HIDE DEF h, e, a, b, c
  <1>7. Bit(SextetAt(d, h, e \div 6), 6, k % 6) = Bit(x, 8, k % 8)
    <2>1. Bit(SixthOf(a, b, c, e \div 6), 6, e % 6) = Bit(OctetOf(a, b, c, e \div 8), 8, e % 8)
      BY <1>1, <1>3, BitsOfTriple
    <2> HIDE DEF x
    <2> QED BY <1>2, <1>4, <1>6, <2>1
  <1>8. CASE k < 8 * Len(d)
    <2>1. x = d[(k \div 8) + 1]
      <3>1. \A i \in Nat : i < Len(d) => At(d, i) = d[i + 1] BY AtType
      <3>2. k \div 8 \in Nat /\ k \div 8 < Len(d) BY <1>5, <1>8
      <3> QED BY <3>1, <3>2
    <2> HIDE DEF x
    <2> QED BY <1>7, <1>8, <2>1 DEF h, e
  <1>9. CASE ~(k < 8 * Len(d))
    <2>1. x = 0
      <3>1. \A i \in Nat : i >= Len(d) => At(d, i) = 0 BY AtType
      <3>2. k \div 8 \in Nat /\ k \div 8 >= Len(d) BY <1>5, <1>9
      <3> QED BY <3>1, <3>2
    <2>2. Bit(0, 8, k % 8) = 0
      <3> DEFINE i == k % 8
      <3>1. i \in 0 .. 7 BY <1>5
      <3>2. /\ 2 ^ (8 - 1 - 0) = 128 /\ 2 ^ (8 - 1 - 1) = 64 /\ 2 ^ (8 - 1 - 2) = 32
            /\ 2 ^ (8 - 1 - 3) = 16 /\ 2 ^ (8 - 1 - 4) = 8 /\ 2 ^ (8 - 1 - 5) = 4
            /\ 2 ^ (8 - 1 - 6) = 2 /\ 2 ^ (8 - 1 - 7) = 1
        BY Powers
      <3>3. /\ Bit(0, 8, 0) = 0 /\ Bit(0, 8, 1) = 0 /\ Bit(0, 8, 2) = 0 /\ Bit(0, 8, 3) = 0
            /\ Bit(0, 8, 4) = 0 /\ Bit(0, 8, 5) = 0 /\ Bit(0, 8, 6) = 0 /\ Bit(0, 8, 7) = 0
        BY <3>2, SMT DEF Bit
      <3> HIDE DEF i
      <3>4. i = 0 \/ i = 1 \/ i = 2 \/ i = 3 \/ i = 4 \/ i = 5 \/ i = 6 \/ i = 7 BY <3>1
      <3>5. Bit(0, 8, i) = 0 BY <3>3, <3>4
      <3> QED BY <3>5 DEF i
    <2> HIDE DEF x
    <2> QED BY <1>7, <1>9, <2>1, <2>2 DEF h, e
  <1> QED BY <1>8, <1>9

(* Letters of the code are the sextets, and padding is behind them.        *)
LEMMA EncodedLetter ==
  ASSUME NEW d \in Seq(0 .. 255), d # <<>>, NEW i \in 0 .. (4 * Groups(Len(d))) - 1
  PROVE  LET c == base64_encode(d)[i + 1]
             n == (4 * Groups(Len(d))) - mod_table(Len(d))
         IN /\ c = Pad <=> i + 1 > n
            /\ i + 1 <= n => Sextet(c) = SextetAt(d, i \div 4, i % 4)
  <1> DEFINE g == Groups(Len(d))
             m == mod_table(Len(d))
             c == base64_encode(d)[i + 1]
             h == i \div 4
             r == i % 4
  <1>1. Len(d) \in Nat \ {0} BY EmptySeq
  <1>2. g \in Nat /\ m \in 0 .. 2 BY <1>1, GroupsOf
  <1>3. h \in Nat /\ r \in 0 .. 3 /\ i = (4 * h) + r /\ h < g /\ i \in Nat
    <2> HIDE DEF g
    <2> QED BY <1>2 DEF g
  <1> HIDE DEF h, r
  <1>4. base64_encode(d)[(4 * h) + r + 1] = IF (4 * h) + r + 1 > (4 * g) - m THEN Pad
                                            ELSE encoding_table[SextetAt(d, h, r)]
    BY <1>3, EncodedAt
  <1>5. SextetAt(d, h, r) \in 0 .. 63 BY <1>3, PaddedSextets
  <1> HIDE DEF g, m
  <1>6. c = IF i + 1 > (4 * g) - m THEN Pad ELSE encoding_table[SextetAt(d, h, r)]
    BY <1>3, <1>4
  <1>7. /\ encoding_table[SextetAt(d, h, r)] # Pad
        /\ Sextet(encoding_table[SextetAt(d, h, r)]) = SextetAt(d, h, r)
    <2>1. ASSUME NEW v \in 0 .. 63
          PROVE  encoding_table[v] # Pad /\ Sextet(encoding_table[v]) = v
      <3>1. encoding_table[v] # Pad BY TablesInverse, Zenon
      <3>2. Sextet(encoding_table[v]) = v BY SextetOfLetter, Zenon
      <3> QED BY <3>1, <3>2
    <2> QED BY <1>5, <2>1, Zenon
  <1>8. i + 1 <= (4 * g) - m <=> ~(i + 1 > (4 * g) - m) BY <1>2, <1>3
  <1> HIDE DEF c
  <1> QED BY <1>6, <1>7, <1>8 DEF c, g, m, h, r

(* What EncodeKeepsBits says of code s for data d.                         *)
HasBitsOf(s, d) ==
  /\ Len(s) % 4 = 0
  /\ \E n \in Len(s) - 2 .. Len(s) :
       /\ \A i \in 1 .. Len(s) : s[i] = Pad <=> i > n
       /\ 6 * n \in 8 * Len(d) .. (8 * Len(d)) + 5
       /\ \A k \in 0 .. (6 * n) - 1 :
            BitOf([i \in 1 .. n |-> Sextet(s[i])], 6, k)
              = IF k < 8 * Len(d) THEN BitOf(d, 8, k) ELSE 0

(* The code of data has the bits of the data.                              *)
LEMMA EncodedBits ==
  ASSUME NEW d \in Seq(0 .. 255), d # <<>>
  PROVE  HasBitsOf(base64_encode(d), d)
  <1> DEFINE s == base64_encode(d)
  <1> DEFINE g == Groups(Len(d))
             m == mod_table(Len(d))
             n == (4 * g) - m
             S == [i \in 1 .. n |-> Sextet(s[i])]
  <1>1. Len(d) \in Nat \ {0} BY EmptySeq
  <1>2. g \in Nat /\ g > 0 /\ m = (3 * g) - Len(d) /\ m \in 0 .. 2 BY <1>1, GroupsOf
  <1>3. Len(s) = 4 * g BY EncodedAt
  <1> HIDE DEF g, m, s
  <1>4. /\ Len(s) % 4 = 0 /\ n \in Len(s) - 2 .. Len(s) /\ n \in Nat
        /\ 6 * n \in 8 * Len(d) .. (8 * Len(d)) + 5
    BY <1>1, <1>2, <1>3
  <1>5. ASSUME NEW i \in 0 .. (4 * g) - 1
        PROVE  /\ s[i + 1] = Pad <=> i + 1 > n
               /\ i + 1 <= n => Sextet(s[i + 1]) = SextetAt(d, i \div 4, i % 4)
    BY EncodedLetter DEF g, m, s
  <1> HIDE DEF n
  <1>6. ASSUME NEW i \in 1 .. Len(s) PROVE s[i] = Pad <=> i > n
    <2>1. i - 1 \in 0 .. (4 * g) - 1 /\ (i - 1) + 1 = i BY <1>2, <1>3
    <2>2. s[(i - 1) + 1] = Pad <=> (i - 1) + 1 > n BY <1>5, <2>1
    <2> QED BY <2>1, <2>2
  <1>7. ASSUME NEW k \in 0 .. (6 * n) - 1
        PROVE  BitOf(S, 6, k) = IF k < 8 * Len(d) THEN BitOf(d, 8, k) ELSE 0
    <2> DEFINE i == k \div 6
               v == SextetAt(d, k \div 24, (k % 24) \div 6)
    <2>1. k \in Nat /\ i \in Nat /\ i < n /\ i \div 4 = k \div 24 /\ i % 4 = (k % 24) \div 6
      BY <1>4
    <2> HIDE DEF i
    <2>2. i \in 0 .. (4 * g) - 1 /\ i + 1 \in 1 .. n BY <1>2, <1>3, <1>4, <2>1
    <2>3. S[i + 1] = v
      <3>1. Sextet(s[i + 1]) = SextetAt(d, i \div 4, i % 4) BY <1>5, <2>2
      <3> HIDE DEF v
      <3>2. S[i + 1] = Sextet(s[i + 1]) BY <2>2
      <3> QED BY <2>1, <3>1, <3>2 DEF v
    <2>4. BitOf(S, 6, k) = Bit(S[i + 1], 6, k % 6) BY DEF BitOf, Bit, i
    <2>5. BitOf(d, 8, k) = Bit(d[(k \div 8) + 1], 8, k % 8) BY DEF BitOf, Bit
    <2>6. Bit(v, 6, k % 6) = IF k < 8 * Len(d) THEN Bit(d[(k \div 8) + 1], 8, k % 8) ELSE 0
      BY <2>1, BitsOfData
    <2> HIDE DEF S, v
    <2> QED BY <2>3, <2>4, <2>5, <2>6
  <1>8. HasBitsOf(s, d) BY <1>4, <1>6, <1>7 DEF HasBitsOf
  <1> QED BY <1>8 DEF s

(* base64_encode gives the bits of the data in their order, six to a       *)
(* letter, filled up with zeros, and padding to a multiple of four, for    *)
(* data of any length and any bytes.                                       *)
THEOREM EncodingKeepsBits == CallSpec => []EncodeKeepsBits
  <1>1. ASSUME CallsInv PROVE EncodeKeepsBits
    <2> SUFFICES ASSUME call = "base64" PROVE HasBitsOf(out, input)
      BY Zenon DEF EncodeKeepsBits, HasBitsOf
    <2>1. input \in Seq(0 .. 255) /\ input # <<>> /\ out = base64_encode(input)
      BY <1>1, CodecsAssumption DEF CallsInv
    <2>2. HasBitsOf(base64_encode(input), input) BY <2>1, EncodedBits
    <2> QED BY <2>1, <2>2
  <1> QED BY <1>1, Calls, PTL

-----------------------------------------------------------------------------
(* Arguments: induction, and text inside of text.                          *)

(* Induction from hi down to lo.                                           *)
LEMMA Downwards ==
  ASSUME NEW lo \in Nat, NEW hi \in Nat, NEW T, hi \in T,
         \A n \in (lo + 1) .. hi : n \in T => n - 1 \in T
  PROVE  \A n \in lo .. hi : n \in T
  <1> DEFINE B == {i \in Nat : i <= hi - lo /\ hi - i \notin T}
  <1>1. SUFFICES ASSUME NEW n \in lo .. hi, n \notin T PROVE FALSE OBVIOUS
  <1>2. hi - n \in B
    <2>1. hi - n \in Nat /\ hi - n <= hi - lo /\ hi - (hi - n) = n OBVIOUS
    <2> QED BY <1>1, <2>1
  <1>3. PICK k \in B : \A m \in B : k <= m BY <1>2, Least
  <1>4. k \in Nat /\ k <= hi - lo /\ hi - k \notin T BY <1>3
  <1>5. k # 0 BY <1>4
  <1>6. k - 1 \in Nat /\ k - 1 < k /\ k - 1 <= hi - lo /\ hi - (k - 1) \in (lo + 1) .. hi
        /\ (hi - (k - 1)) - 1 = hi - k
    BY <1>4, <1>5
  <1>7. k - 1 \notin B BY <1>3, <1>6
  <1>8. hi - (k - 1) \in T BY <1>6, <1>7
  <1> QED BY <1>4, <1>6, <1>8

(* x stands in s behind the first p characters.                            *)
Occurs(x, s, p) == p + Len(x) <= Len(s) /\ \A i \in 1 .. Len(x) : s[p + i] = x[i]

(* Where a text stands, its parts stand.                                   *)
LEMMA OccursParts ==
  ASSUME NEW x, NEW y, IsList(x), IsList(y), NEW s, Len(s) \in Nat, NEW p \in Nat,
         Occurs(x \o y, s, p)
  PROVE  Occurs(x, s, p) /\ Occurs(y, s, p + Len(x)) /\ p + Len(x) \in Nat
         /\ p + Len(x \o y) = (p + Len(x)) + Len(y)
  <1> DEFINE a == Len(x)
             b == Len(y)
             z == x \o y
  <1>1. a \in Nat /\ b \in Nat /\ Len(z) = a + b BY ConcatIsList
  <1>2. \A i \in 1 .. a : z[i] = x[i] BY ConcatIsList
  <1>3. \A i \in 1 .. b : z[a + i] = y[i] BY ConcatIsList
  <1>4. p + Len(z) <= Len(s) /\ \A i \in 1 .. Len(z) : s[p + i] = z[i] BY DEF Occurs
  <1> HIDE DEF z
  <1>5. \A i \in 1 .. a : s[p + i] = x[i]
    <2> HIDE DEF a
    <2>1. \A i \in 1 .. a : i \in 1 .. Len(z) BY <1>1
    <2> QED BY <1>2, <1>4, <2>1
  <1>6. \A i \in 1 .. b : s[(p + a) + i] = y[i]
    <2> HIDE DEF a, b
    <2>1. \A i \in 1 .. b : a + i \in 1 .. Len(z) /\ p + (a + i) = (p + a) + i BY <1>1
    <2> QED BY <1>3, <1>4, <2>1
  <1>7. p + a <= Len(s) /\ (p + a) + b <= Len(s) /\ p + a \in Nat /\ p + Len(z) = (p + a) + b
    <2> HIDE DEF a, b
    <2> QED BY <1>1, <1>4
  <1> QED BY <1>5, <1>6, <1>7 DEF Occurs, z

(* The first n elements of a list.                                         *)
First(w, n) == [i \in 1 .. n |-> w[i]]

(* Longer and longer beginnings of a list.                                 *)
LEMMA FirstGrows ==
  ASSUME NEW w, IsList(w)
  PROVE  /\ First(w, 0) = <<>> /\ First(w, Len(w)) = w
         /\ \A n \in 1 .. Len(w) : First(w, n) = Append(First(w, n - 1), w[n])
  <1>1. PICK S : w \in Seq(S) BY DEF IsList
  <1>2. First(w, Len(w)) = w BY <1>1 DEF First
  <1>3. First(w, 0) = <<>> BY DEF First
  <1>4. ASSUME NEW n \in 1 .. Len(w) PROVE First(w, n) = Append(First(w, n - 1), w[n])
    <2>1. Len(w) \in Nat /\ n - 1 \in Nat BY <1>1
    <2>2. \A i \in 1 .. Len(w) : w[i] \in S BY <1>1, ElementOfSeq
    <2> DEFINE u == First(w, n - 1)
    <2>3. u \in Seq(S) /\ Len(u) = n - 1 BY <2>1, <2>2 DEF First
    <2>4. \A i \in 1 .. (n - 1) : u[i] = w[i] BY DEF First
    <2>5. First(w, n) \in Seq(S) /\ Len(First(w, n)) = n /\ \A i \in 1 .. n : First(w, n)[i] = w[i]
      BY <2>1, <2>2 DEF First
    <2> HIDE DEF u
    <2>6. Append(u, w[n]) \in Seq(S) /\ Len(Append(u, w[n])) = n BY <2>1, <2>2, <2>3
    <2>7. \A i \in 1 .. n : Append(u, w[n])[i] = w[i] BY <2>1, <2>3, <2>4
    <2> QED BY <2>5, <2>6, <2>7, SeqEqual DEF u
  <1> QED BY <1>2, <1>3, <1>4

-----------------------------------------------------------------------------
(* Arguments: the loops.                                                   *)

(* A round of the loop of arglist_parse, or none where it has ended.       *)
Round(s, st) == IF st.refused \/ st.p >= Len(s) THEN st ELSE ScanArgument(s, st)

IsScan(f, s, k) == f = [n \in 0 .. k |-> IF n = 0 THEN ScanStart ELSE Round(s, f[n - 1])]

IsQuote(f, w, k) == f = [n \in 0 .. k |-> IF n = 0 THEN <<>> ELSE f[n - 1] \o Literal(w[n])]

IsWritten(f, args, k) ==
  f = [n \in 1 .. k |-> IF n = 1 THEN WrittenAs(args[1])
                        ELSE (f[n - 1] \o <<":">>) \o WrittenAs(args[n])]

(* The loop has a state after every number of rounds.                      *)
LEMMA ScanExists ==
  ASSUME NEW s, NEW L \in Nat
  PROVE  \E f : IsScan(f, s, L)
  <1> DEFINE T == {k \in Nat : \E f : IsScan(f, s, k)}
  <1>1. 0 \in T
    <2>1. IsScan([n \in 0 .. 0 |-> ScanStart], s, 0) BY DEF IsScan
    <2> QED BY <2>1
  <1>2. ASSUME NEW k \in 1 .. L, k - 1 \in T PROVE k \in T
    <2>1. PICK f : IsScan(f, s, k - 1) BY <1>2
    <2> DEFINE g == [n \in 0 .. k |-> IF n < k THEN f[n] ELSE Round(s, f[k - 1])]
    <2>2. \A n \in 0 .. (k - 1) : f[n] = IF n = 0 THEN ScanStart ELSE Round(s, f[n - 1])
      BY <2>1 DEF IsScan
    <2>3. \A n \in 0 .. k : g[n] = IF n = 0 THEN ScanStart ELSE Round(s, g[n - 1]) BY <2>2
    <2>4. IsScan(g, s, k) BY <2>3 DEF IsScan
    <2> QED BY <2>4
  <1> HIDE DEF T
  <1>3. \A n \in 0 .. L : n \in T BY <1>1, <1>2, Upwards
  <1> QED BY <1>3 DEF T

(* The quotation of a word is made letter by letter.                       *)
LEMMA QuoteExists ==
  ASSUME NEW w, NEW L \in Nat
  PROVE  \E f : IsQuote(f, w, L)
  <1> DEFINE T == {k \in Nat : \E f : IsQuote(f, w, k)}
  <1>1. 0 \in T
    <2>1. IsQuote([n \in 0 .. 0 |-> <<>>], w, 0) BY DEF IsQuote
    <2> QED BY <2>1
  <1>2. ASSUME NEW k \in 1 .. L, k - 1 \in T PROVE k \in T
    <2>1. PICK f : IsQuote(f, w, k - 1) BY <1>2
    <2> DEFINE g == [n \in 0 .. k |-> IF n < k THEN f[n] ELSE f[k - 1] \o Literal(w[k])]
    <2>2. \A n \in 0 .. (k - 1) : f[n] = IF n = 0 THEN <<>> ELSE f[n - 1] \o Literal(w[n])
      BY <2>1 DEF IsQuote
    <2>3. \A n \in 0 .. k : g[n] = IF n = 0 THEN <<>> ELSE g[n - 1] \o Literal(w[n]) BY <2>2
    <2>4. IsQuote(g, w, k) BY <2>3 DEF IsQuote
    <2> QED BY <2>4
  <1> HIDE DEF T
  <1>3. \A n \in 0 .. L : n \in T BY <1>1, <1>2, Upwards
  <1> QED BY <1>3 DEF T

(* A list of arguments is written argument by argument.                    *)
LEMMA WrittenExists ==
  ASSUME NEW args, NEW L \in Nat \ {0}
  PROVE  \E f : IsWritten(f, args, L)
  <1> DEFINE T == {k \in Nat : \E f : IsWritten(f, args, k)}
             Part(n) == WrittenAs(args[n])
  <1>1. 1 \in T
    <2>1. IsWritten([n \in 1 .. 1 |-> Part(1)], args, 1) BY DEF IsWritten
    <2> QED BY <2>1
  <1>2. ASSUME NEW k \in 2 .. L, k - 1 \in T PROVE k \in T
    <2>1. PICK f : IsWritten(f, args, k - 1) BY <1>2
    <2> DEFINE g == [n \in 1 .. k |-> IF n < k THEN f[n] ELSE (f[k - 1] \o <<":">>) \o Part(k)]
    <2>2. \A n \in 1 .. (k - 1) :
            f[n] = IF n = 1 THEN Part(1) ELSE (f[n - 1] \o <<":">>) \o Part(n)
      BY <2>1 DEF IsWritten
    <2> HIDE DEF Part
    <2>3. \A n \in 1 .. k : g[n] = IF n = 1 THEN Part(1) ELSE (g[n - 1] \o <<":">>) \o Part(n)
      BY <2>2
    <2>4. IsWritten(g, args, k) BY <2>3 DEF IsWritten, Part
    <2> QED BY <2>4
  <1> HIDE DEF T
  <1>3. \A n \in 1 .. L : n \in T
    <2>1. \A n \in (1 + 1) .. L : n - 1 \in T => n \in T BY <1>2
    <2> QED BY <1>1, <2>1, Upwards
  <1> QED BY <1>3 DEF T

(* arglist_parse gives what its loop has found at the end.                 *)
LEMMA ParseIsScan ==
  ASSUME NEW s, Len(s) \in Nat
  PROVE  \E f : /\ IsScan(f, s, Len(s))
                /\ arglist_parse(s) = IF f[Len(s)].refused THEN Refused ELSE Entry(f[Len(s)]).list
  <1> DEFINE h == CHOOSE f : IsScan(f, s, Len(s))
  <1>1. IsScan(h, s, Len(s)) BY ScanExists
  <1>2. arglist_parse(s) = IF h[Len(s)].refused THEN Refused ELSE Entry(h[Len(s)]).list
    BY DEF arglist_parse, IsScan, Round
  <1> QED BY <1>1, <1>2

(* Quote is the last of its beginnings.                                    *)
LEMMA QuoteIs ==
  ASSUME NEW w, Len(w) \in Nat
  PROVE  \E f : IsQuote(f, w, Len(w)) /\ Quote(w) = f[Len(w)]
  <1> DEFINE h == CHOOSE f : IsQuote(f, w, Len(w))
  <1>1. IsQuote(h, w, Len(w)) BY QuoteExists
  <1>2. Quote(w) = h[Len(w)] BY DEF Quote, IsQuote
  <1> QED BY <1>1, <1>2

(* WrittenList is the last of its beginnings.                              *)
LEMMA WrittenIs ==
  ASSUME NEW args, Len(args) \in Nat \ {0}
  PROVE  \E f : IsWritten(f, args, Len(args)) /\ WrittenList(args) = f[Len(args)]
  <1> DEFINE h == CHOOSE f : IsWritten(f, args, Len(args))
  <1>1. IsWritten(h, args, Len(args)) BY WrittenExists
  <1>2. WrittenList(args) = h[Len(args)] BY DEF WrittenList, IsWritten
  <1> QED BY <1>1, <1>2

-----------------------------------------------------------------------------
(* Arguments: rounds of the loop.                                          *)

(* A state of the loop that has refused nothing.                           *)
Scanned(p, l, n, v, b) ==
  [p |-> p, list |-> l, name |-> n, value |-> v, in_name |-> b, refused |-> FALSE]

(* The loop f over s comes to st, in at most as many rounds as st has      *)
(* characters behind it.                                                   *)
Reached(f, s, st) ==
  /\ st.p \in Nat /\ st.refused = FALSE
  /\ \E n \in 0 .. Len(s) : n <= st.p /\ f[n] = st

(* A round that goes on leads to the next state that is reached.           *)
LEMMA ReachedNext ==
  ASSUME NEW s, Len(s) \in Nat, NEW f, IsScan(f, s, Len(s)), NEW st, Reached(f, s, st),
         st.p < Len(s), NEW q, q = ScanArgument(s, st), q.p \in Nat, q.p > st.p,
         q.refused = FALSE
  PROVE  Reached(f, s, q)
  <1>1. PICK n \in 0 .. Len(s) : n <= st.p /\ f[n] = st BY DEF Reached
  <1>2. st.p \in Nat /\ st.refused = FALSE BY DEF Reached
  <1>3. n + 1 \in 0 .. Len(s) /\ n + 1 # 0 /\ (n + 1) - 1 = n /\ n + 1 <= q.p BY <1>1, <1>2
  <1>4. f[n + 1] = Round(s, f[n]) BY <1>3 DEF IsScan
  <1>5. Round(s, st) = q BY <1>2 DEF Round
  <1> QED BY <1>1, <1>3, <1>4, <1>5 DEF Reached

(* The loop stays where the text ends.                                     *)
LEMMA ReachedEnd ==
  ASSUME NEW s, Len(s) \in Nat, NEW f, IsScan(f, s, Len(s)), NEW st, Reached(f, s, st),
         st.p = Len(s)
  PROVE  f[Len(s)] = st
  <1> DEFINE L == Len(s)
             T == {k \in Nat : f[k] = st}
  <1>1. PICK n \in 0 .. L : n <= st.p /\ f[n] = st BY DEF Reached
  <1>2. n \in T BY <1>1
  <1>3. ASSUME NEW k \in (n + 1) .. L, k - 1 \in T PROVE k \in T
    <2>1. k \in 0 .. L /\ k # 0 BY <1>1
    <2>2. f[k] = Round(s, f[k - 1]) BY <2>1 DEF IsScan
    <2>3. Round(s, st) = st BY DEF Round, Reached
    <2> QED BY <1>3, <2>1, <2>2, <2>3
  <1>4. \A k \in n .. L : k \in T
    <2>1. L \in Nat /\ n \in Nat BY <1>1
    <2> HIDE DEF T, L
    <2> QED BY <1>2, <1>3, <2>1, Upwards
  <1> QED BY <1>1, <1>4

(* The loop at p, with x of a name or of a value.                          *)
InWord(b, p, l, n, x) ==
  IF b THEN Scanned(p, l, x, <<>>, TRUE) ELSE Scanned(p, l, n, x, FALSE)

(* A letter is put where the loop is.                                      *)
LEMMA ScanLetter ==
  ASSUME NEW s, NEW b \in BOOLEAN, NEW p \in Nat, NEW l, NEW n, NEW x,
         s[p + 1] \notin {"=", ":"}
  PROVE  ScanArgument(s, InWord(b, p, l, n, x)) = InWord(b, p + 1, l, n, Append(x, s[p + 1]))
  <1>1. CASE b
    <2>1. ScanArgument(s, Scanned(p, l, x, <<>>, TRUE))
            = Scanned(p + 1, l, Append(x, s[p + 1]), <<>>, TRUE)
      BY DEF ScanArgument, Scanned, Doubled, Put
    <2> QED BY <1>1, <2>1 DEF InWord
  <1>2. CASE ~b
    <2>1. ScanArgument(s, Scanned(p, l, n, x, FALSE))
            = Scanned(p + 1, l, n, Append(x, s[p + 1]), FALSE)
      BY DEF ScanArgument, Scanned, Doubled, Put
    <2> QED BY <1>2, <2>1 DEF InWord
  <1> QED BY <1>1, <1>2

(* Two equal separators count for one.                                     *)
LEMMA ScanDoubled ==
  ASSUME NEW s, NEW b \in BOOLEAN, NEW p \in Nat, NEW l, NEW n, NEW x, Doubled(s, p)
  PROVE  ScanArgument(s, InWord(b, p, l, n, x)) = InWord(b, p + 2, l, n, Append(x, s[p + 1]))
  <1>1. CASE b
    <2>1. ScanArgument(s, Scanned(p, l, x, <<>>, TRUE))
            = Scanned(p + 2, l, Append(x, s[p + 1]), <<>>, TRUE)
      BY DEF ScanArgument, Scanned, Put, AfterDoubled
    <2> QED BY <1>1, <2>1 DEF InWord
  <1>2. CASE ~b
    <2>1. ScanArgument(s, Scanned(p, l, n, x, FALSE))
            = Scanned(p + 2, l, n, Append(x, s[p + 1]), FALSE)
      BY DEF ScanArgument, Scanned, Put, AfterDoubled
    <2> QED BY <1>2, <2>1 DEF InWord
  <1> QED BY <1>1, <1>2

(* A single = ends the name.                                               *)
LEMMA ScanEquals ==
  ASSUME NEW s, NEW p \in Nat, NEW l, NEW n, NEW v, ~Doubled(s, p), s[p + 1] = "="
  PROVE  ScanArgument(s, Scanned(p, l, n, v, TRUE)) = Scanned(p + 1, l, n, v, FALSE)
  BY DEF ScanArgument, Scanned

-----------------------------------------------------------------------------
(* Arguments: words.                                                       *)

(* A character as it is written.                                           *)
LEMMA LiteralIs ==
  ASSUME NEW c
  PROVE  /\ IsList(Literal(c)) /\ Literal(c)[1] = c /\ Len(Literal(c)) \in {1, 2}
         /\ c \in {"=", ":"} => Len(Literal(c)) = 2 /\ Literal(c)[2] = c
         /\ c \notin {"=", ":"} => Len(Literal(c)) = 1
  <1>1. <<c, c>> \in Seq({c}) /\ <<c>> \in Seq({c}) OBVIOUS
  <1>2. IsList(<<c, c>>) /\ IsList(<<c>>) BY <1>1, SequenceIsList
  <1>3. Len(<<c, c>>) = 2 /\ Len(<<c>>) = 1 /\ <<c, c>>[1] = c /\ <<c, c>>[2] = c /\ <<c>>[1] = c
    OBVIOUS
  <1>4. CASE c \in {"=", ":"} BY <1>2, <1>3, <1>4 DEF Literal
  <1>5. CASE c \notin {"=", ":"} BY <1>2, <1>3, <1>5 DEF Literal
  <1> QED BY <1>4, <1>5

(* The loop reads one character as it is written.                          *)
LEMMA ScanCharacter ==
  ASSUME NEW s, Len(s) \in Nat, NEW f, IsScan(f, s, Len(s)), NEW b \in BOOLEAN, NEW p \in Nat,
         NEW l, NEW n, NEW x, NEW c, Occurs(Literal(c), s, p), Reached(f, s, InWord(b, p, l, n, x))
  PROVE  Reached(f, s, InWord(b, p + Len(Literal(c)), l, n, Append(x, c)))
  <1> DEFINE k == Len(Literal(c))
             st == InWord(b, p, l, n, x)
             q == InWord(b, p + k, l, n, Append(x, c))
  <1>1. st.p = p /\ q.p = p + k /\ q.refused = FALSE BY DEF InWord, Scanned
  <1>2. k \in {1, 2} /\ Literal(c)[1] = c BY LiteralIs
  <1>3. p + k <= Len(s) /\ \A i \in 1 .. k : s[p + i] = Literal(c)[i] BY DEF Occurs
  <1>4. p < Len(s) /\ p + k \in Nat /\ p + k > p /\ s[p + 1] = c
    <2> HIDE DEF k
    <2> QED BY <1>2, <1>3
  <1>5. q = ScanArgument(s, st)
    <2>1. CASE c \in {"=", ":"}
      <3>1. k = 2 /\ Literal(c)[2] = c BY <2>1, LiteralIs
      <3> HIDE DEF k
      <3>2. s[p + 2] = c /\ p + 1 < Len(s) BY <1>3, <3>1
      <3>3. Doubled(s, p) BY <1>4, <2>1, <3>2 DEF Doubled
      <3>4. ScanArgument(s, InWord(b, p, l, n, x)) = InWord(b, p + 2, l, n, Append(x, s[p + 1]))
        BY <3>3, ScanDoubled
      <3> QED BY <1>4, <3>1, <3>4
    <2>2. CASE c \notin {"=", ":"}
      <3>1. k = 1 BY <2>2, LiteralIs
      <3> HIDE DEF k
      <3>2. s[p + 1] \notin {"=", ":"} BY <1>4, <2>2
      <3>3. ScanArgument(s, InWord(b, p, l, n, x)) = InWord(b, p + 1, l, n, Append(x, s[p + 1]))
        BY <3>2, ScanLetter
      <3> QED BY <1>4, <3>1, <3>3
    <2> QED BY <2>1, <2>2
  <1> HIDE DEF st, q, k
  <1>6. Reached(f, s, st) BY DEF st
  <1> QED BY <1>1, <1>4, <1>5, <1>6, ReachedNext DEF q, k

(* The beginnings of a quotation stand where it stands.                    *)
LEMMA QuoteGrows ==
  ASSUME NEW w, Len(w) \in Nat, NEW g, IsQuote(g, w, Len(w))
  PROVE  /\ g[0] = <<>>
         /\ \A k \in 0 .. Len(w) : IsList(g[k])
         /\ \A k \in 1 .. Len(w) : g[k] = g[k - 1] \o Literal(w[k])
         /\ \A s, p : Len(s) \in Nat /\ p \in Nat /\ Occurs(g[Len(w)], s, p) =>
              \A k \in 0 .. Len(w) : Occurs(g[k], s, p)
  <1> DEFINE L == Len(w)
  <1>1. g[0] = <<>> /\ \A k \in 1 .. L : g[k] = g[k - 1] \o Literal(w[k])
    <2>1. \A k \in 0 .. L : g[k] = IF k = 0 THEN <<>> ELSE g[k - 1] \o Literal(w[k]) BY DEF IsQuote
    <2>2. 0 \in 0 .. L /\ \A k \in 1 .. L : k \in 0 .. L /\ k # 0 OBVIOUS
    <2> QED BY <2>1, <2>2
  <1>2. \A k \in 0 .. L : IsList(g[k])
    <2> DEFINE T == {k \in Nat : IsList(g[k])}
    <2>1. 0 \in T
      <3>1. <<>> \in Seq({}) OBVIOUS
      <3>2. IsList(<<>>) BY <3>1, SequenceIsList
      <3> QED BY <1>1, <3>2
    <2>2. ASSUME NEW k \in (0 + 1) .. L, k - 1 \in T PROVE k \in T
      <3>1. IsList(Literal(w[k])) BY LiteralIs
      <3>2. k \in 1 .. L /\ k \in Nat /\ IsList(g[k - 1]) BY <2>2
      <3>3. IsList(g[k - 1] \o Literal(w[k])) BY <3>1, <3>2, ConcatIsList
      <3> QED BY <1>1, <3>2, <3>3
    <2> HIDE DEF T
    <2>3. \A k \in 0 .. L : k \in T BY <2>1, <2>2, Upwards
    <2> QED BY <2>3 DEF T
  <1>3. ASSUME NEW s, NEW p, Len(s) \in Nat, p \in Nat, Occurs(g[L], s, p)
        PROVE  \A k \in 0 .. L : Occurs(g[k], s, p)
    <2> DEFINE T == {k \in Nat : Occurs(g[k], s, p)}
    <2>1. L \in T BY <1>3
    <2>2. ASSUME NEW k \in (0 + 1) .. L, k \in T PROVE k - 1 \in T
      <3>1. IsList(Literal(w[k])) BY LiteralIs
      <3>2. k \in 1 .. L /\ k - 1 \in 0 .. L /\ k - 1 \in Nat /\ Occurs(g[k], s, p) BY <2>2
      <3>3. IsList(g[k - 1]) /\ Occurs(g[k - 1] \o Literal(w[k]), s, p) BY <1>1, <1>2, <3>2
      <3>4. Occurs(g[k - 1], s, p) BY <1>3, <3>1, <3>3, OccursParts
      <3> QED BY <3>2, <3>4
    <2> HIDE DEF T
    <2>3. \A k \in 0 .. L : k \in T BY <2>1, <2>2, Downwards
    <2> QED BY <2>3 DEF T
  <1> QED BY <1>1, <1>2, <1>3

(* The loop reads a word as it is quoted.                                  *)
LEMMA ScanWord ==
  ASSUME NEW s, Len(s) \in Nat, NEW f, IsScan(f, s, Len(s)), NEW b \in BOOLEAN, NEW p \in Nat,
         NEW l, NEW n, NEW w, IsList(w), Len(w) \in Nat, Occurs(Quote(w), s, p),
         Reached(f, s, InWord(b, p, l, n, <<>>))
  PROVE  Reached(f, s, InWord(b, p + Len(Quote(w)), l, n, w))
  <1> DEFINE L == Len(w)
  <1>1. PICK g : IsQuote(g, w, L) /\ Quote(w) = g[L] BY QuoteIs
  <1>2. /\ g[0] = <<>> /\ \A k \in 0 .. L : IsList(g[k]) /\ Occurs(g[k], s, p)
        /\ \A k \in 1 .. L : g[k] = g[k - 1] \o Literal(w[k])
    BY <1>1, QuoteGrows
  <1> DEFINE T == {k \in Nat : Reached(f, s, InWord(b, p + Len(g[k]), l, n, First(w, k)))}
  <1>3. 0 \in T
    <2>1. Len(g[0]) = 0 /\ p + 0 = p BY <1>2
    <2>2. First(w, 0) = <<>> BY FirstGrows
    <2>3. InWord(b, p + Len(g[0]), l, n, First(w, 0)) = InWord(b, p, l, n, <<>>) BY <2>1, <2>2
    <2> QED BY <2>3
  <1>4. ASSUME NEW k \in (0 + 1) .. L, k - 1 \in T PROVE k \in T
    <2> DEFINE m == p + Len(g[k - 1])
               c == w[k]
    <2>1. k \in 1 .. L /\ k - 1 \in 0 .. L /\ k \in 0 .. L BY <1>4
    <2>2. IsList(Literal(c)) BY LiteralIs
    <2>3. IsList(g[k - 1]) /\ g[k] = g[k - 1] \o Literal(c) /\ Occurs(g[k], s, p) BY <1>2, <2>1
    <2>4. /\ Occurs(Literal(c), s, m) /\ m \in Nat
          /\ p + Len(g[k - 1] \o Literal(c)) = m + Len(Literal(c))
      <3>1. Occurs(g[k - 1] \o Literal(c), s, p) BY <2>3
      <3> HIDE DEF c
      <3> QED BY <2>2, <2>3, <3>1, OccursParts
    <2>5. First(w, k) = Append(First(w, k - 1), c) BY <2>1, FirstGrows
    <2>6. Reached(f, s, InWord(b, m, l, n, First(w, k - 1))) BY <1>4
    <2> HIDE DEF m, c
    <2>7. Reached(f, s, InWord(b, m + Len(Literal(c)), l, n, Append(First(w, k - 1), c)))
      BY <2>4, <2>6, ScanCharacter
    <2>8. Reached(f, s, InWord(b, p + Len(g[k]), l, n, First(w, k))) BY <2>3, <2>4, <2>5, <2>7
    <2> QED BY <2>1, <2>8
  <1>5. L \in T
    <2> HIDE DEF T
    <2>1. \A k \in 0 .. L : k \in T BY <1>3, <1>4, Upwards
    <2> QED BY <2>1
  <1>6. First(w, L) = w BY FirstGrows
  <1> QED BY <1>1, <1>5, <1>6

(* How a quotation begins.                                                 *)
LEMMA QuoteBegins ==
  ASSUME NEW w, Len(w) \in Nat
  PROVE  /\ IsList(Quote(w)) /\ (Len(w) = 0 => Quote(w) = <<>>)
         /\ Len(w) > 0 => Len(Quote(w)) > 0 /\ Quote(w)[1] = w[1]
  <1> DEFINE L == Len(w)
             Q == Quote(w)
  <1>1. PICK g : IsQuote(g, w, L) /\ Q = g[L] BY QuoteIs
  <1>2. /\ g[0] = <<>> /\ \A k \in 0 .. L : IsList(g[k])
        /\ \A k \in 1 .. L : g[k] = g[k - 1] \o Literal(w[k])
    BY <1>1, QuoteGrows
  <1>3. IsList(Q) /\ (L = 0 => Q = <<>>) BY <1>1, <1>2
  <1>4. ASSUME L > 0 PROVE Len(Q) > 0 /\ Q[1] = w[1]
    <2> DEFINE x == Literal(w[1])
    <2>1. Len(Q) \in Nat BY <1>3 DEF IsList
    <2>2. Occurs(g[L], Q, 0) BY <1>1, <2>1 DEF Occurs
    <2>3. Occurs(g[1], Q, 0)
      <3>1. 1 \in 0 .. L /\ 0 \in Nat BY <1>4
      <3> HIDE DEF Q
      <3>2. \A k \in 0 .. L : Occurs(g[k], Q, 0) BY <1>1, <2>1, <2>2, <3>1, QuoteGrows
      <3> QED BY <3>1, <3>2
    <2>4. 1 \in 1 .. L /\ 1 - 1 = 0 BY <1>4
    <2>5. g[1] = <<>> \o x
      <3> HIDE DEF x
      <3> QED BY <1>2, <2>4 DEF x
    <2>6. IsList(x) /\ IsList(<<>>) /\ x[1] = w[1] /\ Len(x) \in {1, 2}
      <3>1. <<>> \in Seq({}) OBVIOUS
      <3>2. IsList(<<>>) BY <3>1, SequenceIsList
      <3>3. IsList(x) /\ x[1] = w[1] /\ Len(x) \in {1, 2} BY LiteralIs
      <3> QED BY <3>2, <3>3
    <2> HIDE DEF x, Q
    <2>7. Occurs(x, Q, 0 + Len(<<>>)) BY <2>1, <2>3, <2>5, <2>6, OccursParts
    <2>8. Len(<<>>) = 0 OBVIOUS
    <2>9. Occurs(x, Q, 0) BY <2>7, <2>8
    <2>10. 0 + Len(x) <= Len(Q) /\ Q[0 + 1] = x[1] BY <2>6, <2>9 DEF Occurs
    <2> QED BY <2>1, <2>6, <2>10
  <1> QED BY <1>3, <1>4

-----------------------------------------------------------------------------
(* Arguments: lists.                                                       *)

(* The name of an argument, = and its value.                               *)
LEMMA WrittenParts ==
  ASSUME NEW arg, Len(arg.name) \in Nat, Len(arg.value) \in Nat
  PROVE  /\ IsList(Quote(arg.name)) /\ IsList(<<"=">>) /\ IsList(Quote(arg.value))
         /\ IsList(Quote(arg.name) \o <<"=">>) /\ IsList(WrittenAs(arg))
         /\ Len(Quote(arg.name) \o <<"=">>) = Len(Quote(arg.name)) + 1
  <1>1. IsList(Quote(arg.name)) /\ IsList(Quote(arg.value)) BY QuoteBegins
  <1>2. IsList(<<"=">>)
    <2>1. <<"=">> \in Seq({"="}) OBVIOUS
    <2> QED BY <2>1, SequenceIsList
  <1>3. /\ IsList(Quote(arg.name) \o <<"=">>)
        /\ Len(Quote(arg.name) \o <<"=">>) = Len(Quote(arg.name)) + 1
    <2>1. Len(<<"=">>) = 1 OBVIOUS
    <2> QED BY <1>1, <1>2, <2>1, ConcatIsList
  <1>4. IsList((Quote(arg.name) \o <<"=">>) \o Quote(arg.value)) BY <1>1, <1>3, ConcatIsList
  <1> QED BY <1>1, <1>2, <1>3, <1>4 DEF WrittenAs

(* The loop reads an argument as it is written, if its value does not      *)
(* begin with = and no = follows it.                                       *)
LEMMA ScanWritten ==
  ASSUME NEW s, Len(s) \in Nat, NEW f, IsScan(f, s, Len(s)), NEW p \in Nat, NEW l, NEW arg,
         IsList(arg.name), IsList(arg.value), Len(arg.name) \in Nat, Len(arg.value) \in Nat,
         Occurs(WrittenAs(arg), s, p), Reached(f, s, Scanned(p, l, <<>>, <<>>, TRUE)),
         Len(arg.value) > 0 => arg.value[1] # "=",
         NEW e, e = p + Len(WrittenAs(arg)), e < Len(s) => s[e + 1] # "="
  PROVE  Reached(f, s, Scanned(e, l, arg.name, arg.value, FALSE))
  <1> DEFINE N == Quote(arg.name)
             V == Quote(arg.value)
             m == p + Len(N)
  <1>1. IsList(N) /\ IsList(<<"=">>) /\ IsList(V) /\ IsList(N \o <<"=">>) BY WrittenParts
  <1>2. WrittenAs(arg) = (N \o <<"=">>) \o V BY DEF WrittenAs
  <1>3. /\ Len(V) \in Nat /\ (Len(arg.value) = 0 => V = <<>>)
        /\ Len(arg.value) > 0 => Len(V) > 0 /\ V[1] = arg.value[1]
    BY <1>1, QuoteBegins DEF IsList
  <1>4. Len(N \o <<"=">>) = Len(N) + 1 /\ Len(N) \in Nat BY <1>1, WrittenParts DEF IsList
  <1> HIDE DEF N, V
  <1>5. /\ Occurs(N \o <<"=">>, s, p) /\ Occurs(V, s, p + Len(N \o <<"=">>))
        /\ e = (p + Len(N \o <<"=">>)) + Len(V)
    <2> DEFINE M == N \o <<"=">>
    <2>1. Occurs(M \o V, s, p) /\ e = p + Len(M \o V) BY <1>2
    <2>2. IsList(M) BY <1>1
    <2> HIDE DEF M
    <2>3. Occurs(M, s, p) /\ Occurs(V, s, p + Len(M)) /\ e = (p + Len(M)) + Len(V)
      BY <1>1, <2>1, <2>2, OccursParts
    <2> QED BY <2>3 DEF M
  <1>6. Occurs(N, s, p) /\ Occurs(<<"=">>, s, m) /\ m \in Nat BY <1>1, <1>5, OccursParts
  <1>7. m + 1 \in Nat /\ Occurs(V, s, m + 1) /\ e = (m + 1) + Len(V)
    <2>1. p + Len(N \o <<"=">>) = m + 1 BY <1>4
    <2> QED BY <1>5, <1>6, <2>1
  <1>8. m < Len(s) /\ s[m + 1] = "="
    <2>1. Len(<<"=">>) = 1 /\ <<"=">>[1] = "=" OBVIOUS
    <2>2. m + 1 <= Len(s) /\ s[m + 1] = <<"=">>[1] BY <1>6, <2>1 DEF Occurs
    <2> QED BY <1>6, <2>1, <2>2
  <1> HIDE DEF m
  <1>9. Reached(f, s, Scanned(m, l, arg.name, <<>>, TRUE))
    <2>1. Reached(f, s, InWord(TRUE, p, l, <<>>, <<>>)) BY DEF InWord
    <2>2. Reached(f, s, InWord(TRUE, p + Len(Quote(arg.name)), l, <<>>, arg.name))
      BY <1>6, <2>1, ScanWord DEF N
    <2> QED BY <2>2 DEF InWord, m, N
  <1>10. ~Doubled(s, m)
    <2> SUFFICES ASSUME m + 1 < Len(s) PROVE s[m + 2] # "=" BY <1>8 DEF Doubled
    <2>1. CASE Len(arg.value) > 0
      <3>1. Len(V) > 0 /\ V[1] # "=" BY <1>3, <2>1
      <3>2. s[(m + 1) + 1] = V[1] BY <1>3, <1>7, <3>1 DEF Occurs
      <3>3. (m + 1) + 1 = m + 2 BY <1>6
      <3> QED BY <3>1, <3>2, <3>3
    <2>2. CASE Len(arg.value) = 0
      <3>1. Len(V) = 0 BY <1>3, <2>2
      <3>2. e = m + 1 /\ e + 1 = m + 2 BY <1>6, <1>7, <3>1
      <3> QED BY <3>2
    <2> QED BY <2>1, <2>2
  <1>11. Reached(f, s, Scanned(m + 1, l, arg.name, <<>>, FALSE))
    <2> DEFINE st == Scanned(m, l, arg.name, <<>>, TRUE)
               q == Scanned(m + 1, l, arg.name, <<>>, FALSE)
    <2>1. ScanArgument(s, st) = q BY <1>6, <1>8, <1>10, ScanEquals
    <2>2. st.p = m /\ q.p = m + 1 /\ q.refused = FALSE BY DEF Scanned
    <2> HIDE DEF st, q
    <2>3. Reached(f, s, st) BY <1>9 DEF st
    <2>4. m + 1 > m BY <1>6
    <2>5. Reached(f, s, q) BY <1>7, <1>8, <2>1, <2>2, <2>3, <2>4, ReachedNext
    <2> QED BY <2>5 DEF q
  <1>12. Reached(f, s, InWord(FALSE, m + 1, l, arg.name, <<>>)) BY <1>11 DEF InWord
  <1>13. Reached(f, s, InWord(FALSE, (m + 1) + Len(Quote(arg.value)), l, arg.name, arg.value))
    BY <1>7, <1>12, ScanWord DEF V
  <1> QED BY <1>7, <1>13 DEF InWord, V

(* The loop reads a : between arguments, if none follows it.               *)
LEMMA ScanSeparator ==
  ASSUME NEW s, Len(s) \in Nat, NEW f, IsScan(f, s, Len(s)), NEW p \in Nat, NEW l, NEW n, NEW v,
         Reached(f, s, Scanned(p, l, n, v, FALSE)), p < Len(s), s[p + 1] = ":",
         s[p + 2] # ":"
  PROVE  Reached(f, s, Scanned(p + 1, Append(l, [name |-> n, value |-> v]), <<>>, <<>>, TRUE))
  <1> DEFINE st == Scanned(p, l, n, v, FALSE)
             q == Scanned(p + 1, Append(l, [name |-> n, value |-> v]), <<>>, <<>>, TRUE)
  <1>1. ~Doubled(s, p) BY DEF Doubled
  <1>2. ScanArgument(s, st) = q BY <1>1 DEF ScanArgument, Scanned, Entry
  <1>3. st.p = p /\ q.p = p + 1 /\ q.refused = FALSE BY DEF Scanned
  <1>4. Reached(f, s, st) OBVIOUS
  <1> HIDE DEF st, q
  <1>5. p + 1 \in Nat /\ p + 1 > p OBVIOUS
  <1>6. Reached(f, s, q) BY <1>2, <1>3, <1>4, <1>5, ReachedNext
  <1> QED BY <1>6 DEF q

(* How an argument begins.                                                 *)
LEMMA WrittenBegins ==
  ASSUME NEW arg, Len(arg.name) \in Nat, Len(arg.value) \in Nat,
         Len(arg.name) > 0 => arg.name[1] # ":"
  PROVE  Len(WrittenAs(arg)) > 0 /\ WrittenAs(arg)[1] # ":"
  <1> DEFINE N == Quote(arg.name)
             M == N \o <<"=">>
             V == Quote(arg.value)
  <1>1. IsList(N) /\ IsList(<<"=">>) /\ IsList(V) /\ IsList(M) BY WrittenParts
  <1>2. WrittenAs(arg) = M \o V BY DEF WrittenAs
  <1>3. (Len(arg.name) = 0 => N = <<>>) /\ (Len(arg.name) > 0 => Len(N) > 0 /\ N[1] = arg.name[1])
    BY QuoteBegins
  <1> HIDE DEF N, V
  <1>4. /\ Len(N) \in Nat /\ Len(M) = Len(N) + 1
        /\ \A i \in 1 .. Len(N) : M[i] = N[i]
        /\ M[Len(N) + 1] = "="
    <2>1. Len(<<"=">>) = 1 /\ <<"=">>[1] = "=" /\ 1 \in 1 .. 1 OBVIOUS
    <2>2. /\ Len(N) \in Nat /\ Len(M) = Len(N) + Len(<<"=">>)
          /\ \A i \in 1 .. Len(N) : M[i] = N[i]
          /\ \A i \in 1 .. Len(<<"=">>) : M[Len(N) + i] = <<"=">>[i]
      BY <1>1, ConcatIsList
    <2> HIDE DEF M
    <2> QED BY <2>1, <2>2
  <1> HIDE DEF M
  <1>5. Len(M \o V) = Len(M) + Len(V) /\ Len(V) \in Nat /\ \A i \in 1 .. Len(M) : (M \o V)[i] = M[i]
    BY <1>1, ConcatIsList
  <1>6. Len(M) > 0 /\ Len(M) \in Nat BY <1>4
  <1>7. Len(M \o V) > 0 /\ (M \o V)[1] = M[1] BY <1>5, <1>6
  <1>8. M[1] # ":"
    <2>1. CASE Len(arg.name) > 0
      <3>1. Len(N) > 0 /\ N[1] # ":" BY <1>3, <2>1
      <3>2. M[1] = N[1] BY <1>4, <3>1
      <3> QED BY <3>1, <3>2
    <2>2. CASE Len(arg.name) = 0
      <3>1. Len(N) = 0 BY <1>3, <2>2
      <3>2. M[1] = "=" BY <1>4, <3>1
      <3> QED BY <3>2
    <2> QED BY <2>1, <2>2
  <1> QED BY <1>2, <1>7, <1>8

(* The beginnings of a written list stand at its beginning.                *)
LEMMA WrittenGrows ==
  ASSUME NEW args, NEW K \in Nat \ {0}, NEW g, IsWritten(g, args, K),
         \A k \in 1 .. K : Len(args[k].name) \in Nat /\ Len(args[k].value) \in Nat
  PROVE  /\ g[1] = WrittenAs(args[1])
         /\ \A k \in 2 .. K : g[k] = (g[k - 1] \o <<":">>) \o WrittenAs(args[k])
         /\ \A k \in 1 .. K : /\ IsList(g[k]) /\ IsList(g[k] \o <<":">>) /\ Len(g[k]) \in Nat
                              /\ Len(g[k] \o <<":">>) = Len(g[k]) + 1
                              /\ Occurs(g[k], g[K], 0)
  <1>1. /\ g[1] = WrittenAs(args[1])
        /\ \A k \in 2 .. K : g[k] = (g[k - 1] \o <<":">>) \o WrittenAs(args[k])
    <2>1. \A k \in 1 .. K : g[k] = IF k = 1 THEN WrittenAs(args[1])
                                   ELSE (g[k - 1] \o <<":">>) \o WrittenAs(args[k])
      BY DEF IsWritten
    <2>2. 1 \in 1 .. K /\ \A k \in 2 .. K : k \in 1 .. K /\ k # 1 OBVIOUS
    <2> QED BY <2>1, <2>2
  <1>2. IsList(<<":">>) /\ Len(<<":">>) = 1
    <2>1. <<":">> \in Seq({":"}) /\ Len(<<":">>) = 1 OBVIOUS
    <2> QED BY <2>1, SequenceIsList
  <1>3. \A k \in 1 .. K : IsList(WrittenAs(args[k])) BY WrittenParts
  <1>4. ASSUME NEW x, IsList(x)
        PROVE  IsList(x \o <<":">>) /\ Len(x) \in Nat /\ Len(x \o <<":">>) = Len(x) + 1
    BY <1>2, <1>4, ConcatIsList
  <1>5. \A k \in 1 .. K : IsList(g[k])
    <2> DEFINE T == {k \in Nat : IsList(g[k])}
    <2>1. 1 \in T
      <3>1. 1 \in 1 .. K OBVIOUS
      <3> QED BY <1>1, <1>3, <3>1
    <2>2. ASSUME NEW k \in (1 + 1) .. K, k - 1 \in T PROVE k \in T
      <3>1. k \in 2 .. K /\ k \in 1 .. K /\ k \in Nat /\ IsList(g[k - 1]) BY <2>2
      <3>2. IsList(g[k - 1] \o <<":">>) BY <1>4, <3>1
      <3>3. IsList((g[k - 1] \o <<":">>) \o WrittenAs(args[k])) BY <1>3, <3>1, <3>2, ConcatIsList
      <3> QED BY <1>1, <3>1, <3>3
    <2> HIDE DEF T
    <2>3. \A k \in 1 .. K : k \in T BY <2>1, <2>2, Upwards
    <2> QED BY <2>3 DEF T
  <1>6. \A k \in 1 .. K : Occurs(g[k], g[K], 0)
    <2> DEFINE T == {k \in Nat : Occurs(g[k], g[K], 0)}
               s == g[K]
    <2>1. Len(s) \in Nat
      <3>1. K \in 1 .. K OBVIOUS
      <3> QED BY <1>4, <1>5, <3>1
    <2>2. K \in T BY <2>1 DEF Occurs
    <2>3. ASSUME NEW k \in (1 + 1) .. K, k \in T PROVE k - 1 \in T
      <3> DEFINE x == g[k - 1]
                 y == x \o <<":">>
                 z == WrittenAs(args[k])
      <3>1. k \in 2 .. K /\ k \in 1 .. K /\ k - 1 \in 1 .. K /\ k - 1 \in Nat /\ Occurs(g[k], s, 0)
        BY <2>3
      <3>2. IsList(x) /\ IsList(y) /\ IsList(z) BY <1>3, <1>4, <1>5, <3>1
      <3>3. Occurs(y \o z, s, 0) BY <1>1, <3>1
      <3>4. 0 \in Nat OBVIOUS
      <3> HIDE DEF s, z
      <3>5. Occurs(y, s, 0)
        <4> HIDE DEF y
        <4> QED BY <2>1, <3>2, <3>3, <3>4, OccursParts
      <3> HIDE DEF x
      <3>6. Occurs(x, s, 0) BY <1>2, <2>1, <3>2, <3>4, <3>5, OccursParts
      <3> QED BY <3>1, <3>6 DEF x, s
    <2> HIDE DEF T
    <2>4. \A k \in 1 .. K : k \in T BY <2>2, <2>3, Downwards
    <2> QED BY <2>4 DEF T
  <1> QED BY <1>1, <1>4, <1>5, <1>6

(* Parsing a written list gives the list.                                  *)
LEMMA ParseWritten ==
  ASSUME NEW C, NEW args \in Seq([name : Seq(C), value : Seq(C)]), args # <<>>, ~AmbiguousList(args)
  PROVE  arglist_parse(WrittenList(args)) = args
  <1> DEFINE K == Len(args)
             s == WrittenList(args)
  <1>1. K \in Nat \ {0} BY EmptySeq
  <1>2. ASSUME NEW k \in 1 .. K
        PROVE  /\ args[k] = [name |-> args[k].name, value |-> args[k].value]
               /\ IsList(args[k].name) /\ IsList(args[k].value)
               /\ Len(args[k].name) \in Nat /\ Len(args[k].value) \in Nat
               /\ Len(args[k].value) > 0 => args[k].value[1] # "="
               /\ k > 1 /\ Len(args[k].name) > 0 => args[k].name[1] # ":"
    <2>1. args[k] \in [name : Seq(C), value : Seq(C)] BY <1>2, ElementOfSeq
    <2>2. args[k].name \in Seq(C) /\ args[k].value \in Seq(C) BY <2>1
    <2>3. IsList(args[k].name) /\ IsList(args[k].value) BY <2>2, SequenceIsList
    <2>4. \A x \in Seq(C) : Len(x) \in Nat /\ (Len(x) > 0 => x # <<>> /\ Head(x) = x[1]) OBVIOUS
    <2>5. Len(args[k].value) > 0 => args[k].value[1] # "="
      BY <1>2, <2>2, <2>4 DEF AmbiguousList
    <2>6. k > 1 /\ Len(args[k].name) > 0 => args[k].name[1] # ":"
      <3>1. k > 1 => k \in 2 .. K BY <1>1, <1>2
      <3> QED BY <2>2, <2>4, <3>1 DEF AmbiguousList
    <2> QED BY <2>1, <2>2, <2>3, <2>4, <2>5, <2>6
  <1>3. PICK g : IsWritten(g, args, K) /\ s = g[K] BY <1>1, WrittenIs
  <1>4. /\ g[1] = WrittenAs(args[1])
        /\ \A k \in 2 .. K : g[k] = (g[k - 1] \o <<":">>) \o WrittenAs(args[k])
        /\ \A k \in 1 .. K : /\ IsList(g[k]) /\ IsList(g[k] \o <<":">>) /\ Len(g[k]) \in Nat
                             /\ Len(g[k] \o <<":">>) = Len(g[k]) + 1 /\ Occurs(g[k], s, 0)
    <2> HIDE DEF K, s
    <2>1. \A k \in 1 .. K : Len(args[k].name) \in Nat /\ Len(args[k].value) \in Nat BY <1>2
    <2>2. IsWritten(g, args, K) /\ s = g[K] BY <1>3
    <2>3. /\ g[1] = WrittenAs(args[1])
          /\ \A k \in 2 .. K : g[k] = (g[k - 1] \o <<":">>) \o WrittenAs(args[k])
          /\ \A k \in 1 .. K : /\ IsList(g[k]) /\ IsList(g[k] \o <<":">>) /\ Len(g[k]) \in Nat
                               /\ Len(g[k] \o <<":">>) = Len(g[k]) + 1 /\ Occurs(g[k], g[K], 0)
      BY <1>1, <2>1, <2>2, WrittenGrows, Zenon
    <2> QED BY <2>2, <2>3
  <1> HIDE DEF s
  <1>5. Len(s) \in Nat /\ s = g[K] /\ K \in 1 .. K /\ 1 \in 1 .. K BY <1>1, <1>3, <1>4
  <1>6. PICK f : /\ IsScan(f, s, Len(s))
                 /\ arglist_parse(s) = IF f[Len(s)].refused THEN Refused ELSE Entry(f[Len(s)]).list
    BY <1>5, ParseIsScan
  (* What stands behind argument k.                                        *)
  <1>7. ASSUME NEW k \in 1 .. K, Len(g[k]) < Len(s)
        PROVE  /\ k + 1 \in 2 .. K /\ s[Len(g[k]) + 1] = ":"
               /\ Occurs(WrittenAs(args[k + 1]), s, Len(g[k]) + 1)
               /\ Len(g[k + 1]) = (Len(g[k]) + 1) + Len(WrittenAs(args[k + 1]))
    <2> DEFINE x == g[k]
               y == x \o <<":">>
               z == WrittenAs(args[k + 1])
    <2>1. k # K BY <1>5, <1>7
    <2>2. k + 1 \in 2 .. K /\ k + 1 \in 1 .. K /\ (k + 1) - 1 = k BY <1>1, <1>7, <2>1
    <2>3. g[k + 1] = y \o z /\ Occurs(g[k + 1], s, 0)
      <3>1. g[k + 1] = (g[(k + 1) - 1] \o <<":">>) \o WrittenAs(args[k + 1]) BY <1>4, <2>2
      <3>2. Occurs(g[k + 1], s, 0) BY <1>4, <2>2
      <3> QED BY <2>2, <3>1, <3>2
    <2>4. IsList(x) /\ IsList(y) /\ Len(x) \in Nat /\ Len(y) = Len(x) + 1 BY <1>4, <1>7
    <2>5. IsList(z) /\ IsList(<<":">>) /\ Len(<<":">>) = 1 /\ <<":">>[1] = ":"
      <3>1. <<":">> \in Seq({":"}) /\ Len(<<":">>) = 1 /\ <<":">>[1] = ":" OBVIOUS
      <3>2. IsList(z) BY <1>2, <2>2, WrittenParts
      <3> QED BY <3>1, <3>2, SequenceIsList
    <2>6. Occurs(y \o z, s, 0) /\ 0 \in Nat BY <2>3
    <2> HIDE DEF z
    <2>7. Occurs(y, s, 0) /\ Occurs(z, s, 0 + Len(y)) /\ 0 + Len(y \o z) = (0 + Len(y)) + Len(z)
      <3>1. IsList(y) /\ IsList(z) /\ Len(s) \in Nat BY <1>5, <2>4, <2>5
      <3> HIDE DEF y
      <3> QED BY <2>6, <3>1, OccursParts
    <2> HIDE DEF x
    <2>8. Occurs(<<":">>, s, 0 + Len(x)) BY <1>5, <2>4, <2>5, <2>6, <2>7, OccursParts
    <2>9. s[Len(x) + 1] = ":"
      <3>1. 0 + Len(x) = Len(x) BY <2>4
      <3>2. Occurs(<<":">>, s, Len(x)) BY <2>8, <3>1
      <3> QED BY <2>5, <3>2 DEF Occurs
    <2>10. 0 + Len(y) = Len(x) + 1 BY <2>4
    <2>11. 0 + Len(y \o z) = Len(y \o z)
      <3>1. IsList(y \o z) /\ Len(y \o z) \in Nat
        <4> HIDE DEF y
        <4> QED BY <2>4, <2>5, ConcatIsList DEF IsList
      <3> QED BY <3>1
    <2> QED BY <2>2, <2>3, <2>7, <2>9, <2>10, <2>11 DEF x, z
  (* Argument k, once the loop is at its beginning.                        *)
  <1>8. ASSUME NEW k \in 1 .. K, NEW p \in Nat, NEW l, Occurs(WrittenAs(args[k]), s, p),
               Len(g[k]) = p + Len(WrittenAs(args[k])),
               Reached(f, s, Scanned(p, l, <<>>, <<>>, TRUE))
        PROVE  Reached(f, s, Scanned(Len(g[k]), l, args[k].name, args[k].value, FALSE))
    <2>1. Len(g[k]) < Len(s) => s[Len(g[k]) + 1] # "=" BY <1>7
    <2> DEFINE e == Len(g[k])
               arg == args[k]
    <2>2. /\ IsList(arg.name) /\ IsList(arg.value) /\ Len(arg.name) \in Nat
          /\ Len(arg.value) \in Nat /\ (Len(arg.value) > 0 => arg.value[1] # "=")
      BY <1>2
    <2>3. e = p + Len(WrittenAs(arg)) /\ Occurs(WrittenAs(arg), s, p) BY <1>8
    <2>4. e < Len(s) => s[e + 1] # "=" BY <2>1
    <2> HIDE DEF e, arg
    <2>5. Reached(f, s, Scanned(e, l, arg.name, arg.value, FALSE))
      BY <1>5, <1>6, <1>8, <2>2, <2>3, <2>4, ScanWritten
    <2> QED BY <2>5 DEF e, arg
  <1> DEFINE Behind(k) == Scanned(Len(g[k]), First(args, k - 1), args[k].name, args[k].value, FALSE)
             T == {k \in Nat : Reached(f, s, Behind(k))}
  <1>9. IsList(args) BY SequenceIsList
  <1>10. 1 \in T
    <2>1. Reached(f, s, Scanned(0, <<>>, <<>>, <<>>, TRUE))
      <3>1. ScanStart = Scanned(0, <<>>, <<>>, <<>>, TRUE) BY DEF ScanStart, Scanned
      <3>2. 0 \in 0 .. Len(s) /\ f[0] = ScanStart BY <1>5, <1>6 DEF IsScan
      <3>3. ScanStart.p = 0 /\ ScanStart.refused = FALSE BY DEF ScanStart
      <3>4. Reached(f, s, ScanStart) BY <3>2, <3>3 DEF Reached
      <3> QED BY <3>1, <3>4
    <2>2. Occurs(WrittenAs(args[1]), s, 0) /\ Len(g[1]) = 0 + Len(WrittenAs(args[1]))
      <3>1. Occurs(g[1], s, 0) /\ Len(g[1]) \in Nat /\ g[1] = WrittenAs(args[1]) BY <1>4, <1>5
      <3>2. Len(g[1]) = 0 + Len(g[1]) BY <3>1
      <3> QED BY <3>1, <3>2
    <2>3. First(args, 1 - 1) = <<>> BY <1>9, FirstGrows
    <2>4. Reached(f, s, Scanned(Len(g[1]), <<>>, args[1].name, args[1].value, FALSE))
      BY <1>5, <1>8, <2>1, <2>2
    <2> QED BY <2>3, <2>4
  <1>11. ASSUME NEW k \in (1 + 1) .. K, k - 1 \in T PROVE k \in T
    <2> DEFINE j == k - 1
               p == Len(g[j])
               l == First(args, j - 1)
    <2>1. k \in 2 .. K /\ k \in 1 .. K /\ k \in Nat /\ j \in 1 .. K /\ j + 1 = k BY <1>1, <1>11
    <2>2. Reached(f, s, Scanned(p, l, args[j].name, args[j].value, FALSE)) BY <1>11
    <2>3. p \in Nat /\ p < Len(s)
      <3>1. p \in Nat /\ IsList(g[j] \o <<":">>) /\ Len(g[j] \o <<":">>) = p + 1 BY <1>4, <2>1
      <3>2. g[k] = (g[j] \o <<":">>) \o WrittenAs(args[k]) /\ Occurs(g[k], s, 0) BY <1>4, <2>1
      <3>3. IsList(WrittenAs(args[k])) BY <1>2, <2>1, WrittenParts
      <3> DEFINE y == g[j] \o <<":">>
      <3>4. Len(g[k]) = Len(y) + Len(WrittenAs(args[k])) /\ Len(WrittenAs(args[k])) \in Nat
        <4>1. IsList(y) /\ g[k] = y \o WrittenAs(args[k]) BY <3>1, <3>2
        <4> HIDE DEF y
        <4> QED BY <3>3, <4>1, ConcatIsList
      <3>5. 0 + Len(g[k]) <= Len(s) BY <3>2 DEF Occurs
      <3> HIDE DEF p, y
      <3>6. Len(y) = p + 1 BY <3>1 DEF y
      <3>7. p < Len(s) BY <1>5, <3>1, <3>4, <3>5, <3>6
      <3> QED BY <3>1, <3>7
    <2>4. /\ s[p + 1] = ":" /\ Occurs(WrittenAs(args[k]), s, p + 1)
          /\ Len(g[k]) = (p + 1) + Len(WrittenAs(args[k]))
      <3>1. /\ s[Len(g[j]) + 1] = ":" /\ Occurs(WrittenAs(args[j + 1]), s, Len(g[j]) + 1)
            /\ Len(g[j + 1]) = (Len(g[j]) + 1) + Len(WrittenAs(args[j + 1]))
        <4> HIDE DEF j
        <4> QED BY <1>7, <2>1, <2>3
      <3> HIDE DEF j
      <3> QED BY <2>1, <3>1
    <2>5. s[p + 2] # ":"
      <3> DEFINE x == WrittenAs(args[k])
      <3>1. Len(args[k].name) > 0 => args[k].name[1] # ":"
        <4>1. k > 1 BY <2>1
        <4> QED BY <1>2, <2>1, <4>1
      <3>2. Len(x) > 0 /\ x[1] # ":" BY <1>2, <2>1, <3>1, WrittenBegins
      <3>3. IsList(x) BY <1>2, <2>1, WrittenParts
      <3> HIDE DEF x, p
      <3>4. Len(x) \in Nat BY <3>3 DEF IsList
      <3>5. s[(p + 1) + 1] = x[1] BY <2>4, <3>2, <3>4 DEF Occurs, x
      <3>6. (p + 1) + 1 = p + 2 BY <2>3
      <3> QED BY <3>2, <3>5, <3>6
    <2>6. /\ First(args, j) = Append(l, args[j])
          /\ args[j] = [name |-> args[j].name, value |-> args[j].value]
      <3> HIDE DEF j
      <3> QED BY <1>2, <1>9, <2>1, FirstGrows
    <2> HIDE DEF p, l
    <2>7. Reached(f, s, Scanned(p + 1, First(args, j), <<>>, <<>>, TRUE))
      <3>1. Reached(f, s, Scanned(p + 1, Append(l, [name |-> args[j].name, value |-> args[j].value]),
                                  <<>>, <<>>, TRUE))
        <4> HIDE DEF j
        <4> QED BY <1>5, <1>6, <2>2, <2>3, <2>4, <2>5, ScanSeparator
      <3> QED BY <2>6, <3>1
    <2>8. p + 1 \in Nat BY <2>3
    <2>9. Reached(f, s, Scanned(Len(g[k]), First(args, j), args[k].name, args[k].value, FALSE))
      <3> HIDE DEF j
      <3> QED BY <1>8, <2>1, <2>4, <2>7, <2>8
    <2> QED BY <2>1, <2>9
  <1>12. K \in T
    <2> HIDE DEF T, K
    <2>1. \A k \in 1 .. K : k \in T BY <1>1, <1>10, <1>11, Upwards
    <2> QED BY <1>5, <2>1
  <1>13. f[Len(s)] = Behind(K)
    <2>1. Behind(K).p = Len(s) BY <1>5 DEF Scanned
    <2>2. Reached(f, s, Behind(K)) BY <1>12
    <2> HIDE DEF Behind
    <2> QED BY <1>5, <1>6, <2>1, <2>2, ReachedEnd
  <1>14. Behind(K).refused = FALSE
         /\ Entry(Behind(K)).list
              = Append(First(args, K - 1), [name |-> args[K].name, value |-> args[K].value])
    BY DEF Scanned, Entry
  <1>15. Append(First(args, K - 1), args[K]) = args
    <2>1. First(args, K) = Append(First(args, K - 1), args[K]) BY <1>5, <1>9, FirstGrows
    <2>2. First(args, K) = args BY <1>9, FirstGrows
    <2> QED BY <2>1, <2>2
  <1>16. args[K] = [name |-> args[K].name, value |-> args[K].value] BY <1>2, <1>5
  <1> HIDE DEF Behind, T, K
  <1>17. arglist_parse(s) = args BY <1>6, <1>13, <1>14, <1>15, <1>16
  <1> QED BY <1>17 DEF s

(* arglist_parse gives back every list of arguments that is written as     *)
(* arglist.h asks for, for any number of arguments that fit into its       *)
(* arrays.                                                                 *)
THEOREM ArgumentsComeBack == CallSpec => []ArgumentsRoundTrip
  <1>1. ASSUME CallsInv PROVE ArgumentsRoundTrip
    <2>1. ASSUME call = "arguments", ~AmbiguousList(input) PROVE out = input
      <3>1. input \in Seq([name : Seq(Characters), value : Seq(Characters)]) /\ input # <<>>
        BY <1>1, <2>1, CodecsAssumption DEF CallsInv
      <3>2. arglist_parse(WrittenList(input)) = input BY <2>1, <3>1, ParseWritten
      <3> QED BY <1>1, <2>1, <3>2 DEF CallsInv
    <2> QED BY <2>1 DEF ArgumentsRoundTrip
  <1> QED BY <1>1, Calls, PTL

-----------------------------------------------------------------------------
(* Manifests.                                                              *)

(* What benthos_dc_manifest_parse accepts, of any number of drivers,       *)
(* elements and entries, is well formed in all its parts, and all of it is *)
(* in the manifest.                                                        *)
THEOREM AcceptedManifests == CallSpec => []AcceptedIsSound
  <1>1. ASSUME CallsInv, call = "manifest", out.err = "none"
        PROVE  /\ input.plain /\ input.version # Empty /\ input.version # Blank
               /\ {input.name, input.library} \cap {Missing, Empty} = {}
               /\ DriversOk(input.elements, Len(input.elements))
               /\ out.val.name = conv_xmlstr(input.name)
               /\ out.val.library = conv_xmlstr(input.library)
               /\ Len(out.val.drivers) = Len(input.elements)
               /\ \A i \in 1 .. Len(input.elements) :
                    out.val.drivers[i].name = DriverName(input.elements[i])
    <2>1. input.root = "plugin" /\ IsDocument(input) BY <1>1, CodecsAssumption DEF CallsInv
    <2>2. out = parse_manifest(input)
      BY <1>1, <2>1 DEF CallsInv, benthos_dc_manifest_parse
    <2> QED BY <1>1, <2>1, <2>2, AcceptedDocument
  <1>2. ASSUME CallsInv PROVE AcceptedIsSound
    BY <1>1, <1>2 DEF AcceptedIsSound, DriversOk
  <1> QED BY <1>2, Calls, PTL
=============================================================================
