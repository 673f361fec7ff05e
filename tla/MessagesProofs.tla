---------------------------- MODULE MessagesProofs ----------------------------
(* Theorems about Messages: a frame is what the receive interrupt takes for *)
(* one, and what a reader finds in a buffer that begins with a frame is     *)
(* what the frame says.                                                     *)
EXTENDS Messages, WellFoundedInduction, TLAPS

-----------------------------------------------------------------------------
(* Recursive functions on an initial part of the naturals.                  *)

(* A set of numbers has a least one. *)
LEMMA LeastNumber ==
  ASSUME NEW S, S \subseteq Nat, S # {} PROVE \E k \in S : \A j \in S : k <= j
<1> DEFINE R == OpToRel(<, Nat)
<1>1. \A x, y \in Nat : <<x, y>> \in R <=> x < y BY DEF OpToRel
<1>2. IsWellFoundedOn(R, Nat) BY NatLessThanWellFounded
<1> HIDE DEF R
<1>3. PICK k \in S : \A j \in S : ~(<<j, k>> \in R) BY <1>2, WFMin
<1>4. \A j \in S : ~(j < k) BY <1>1, <1>3
<1>5. QED BY <1>4

(* A set of numbers that holds 0, and with each number below n the next, is *)
(* all of 0 .. n: an induction in terms of sets.                            *)
LEMMA CountUp ==
  ASSUME NEW n \in Nat, NEW S, 0 \in S, \A k \in 0 .. (n - 1) : k \in S => k + 1 \in S
  PROVE  0 .. n \subseteq S
<1> DEFINE Bad == (0 .. n) \ S
<1>1. SUFFICES ASSUME Bad # {} PROVE FALSE OBVIOUS
<1>2. PICK k \in Bad : \A j \in Bad : k <= j
  <2>1. Bad \subseteq Nat /\ Bad # {} BY <1>1
  <2> HIDE DEF Bad
  <2>2. QED BY <2>1, LeastNumber
<1>3. k # 0 /\ k - 1 \in 0 .. (n - 1) BY <1>2
<1>4. k - 1 \in S BY <1>2, <1>3
<1>5. QED BY <1>2, <1>3, <1>4

(* f is 0 at 0, and G[k] takes its value at k - 1 to its value at k.        *)
Recurs(f, n, G) == f = [k \in 0 .. n |-> IF k = 0 THEN 0 ELSE G[k][f[k - 1]]]

(* A function defined by recursion exists.                                  *)
LEMMA RecursionExists ==
  ASSUME NEW n \in Nat, NEW G
  PROVE  \E f : Recurs(f, n, G)
<1> USE DEF Recurs
<1> DEFINE Upto(j, f) == f = [k \in 0 .. j |-> IF k = 0 THEN 0 ELSE G[k][f[k - 1]]]
           S == {j \in 0 .. n : \E f : Upto(j, f)}
<1>1. 0 \in S
  <2>1. [k \in 0 .. 0 |-> 0]
          = [k \in 0 .. 0 |-> IF k = 0 THEN 0 ELSE G[k][[i \in 0 .. 0 |-> 0][k - 1]]]
    OBVIOUS
  <2>2. Upto(0, [k \in 0 .. 0 |-> 0]) BY <2>1
  <2> HIDE DEF Upto
  <2>3. 0 \in 0 .. n OBVIOUS
  <2>4. QED BY <2>2, <2>3
<1>2. ASSUME NEW j \in 0 .. (n - 1), j \in S PROVE j + 1 \in S
  <2>1. PICK f : Upto(j, f) BY <1>2
  <2> DEFINE g == [k \in 0 .. (j + 1) |-> IF k = j + 1 THEN G[j + 1][f[j]] ELSE f[k]]
  <2>2. ASSUME NEW k \in 0 .. (j + 1) PROVE g[k] = IF k = 0 THEN 0 ELSE G[k][g[k - 1]]
    <3>1. CASE k = 0 BY <3>1, <2>1
    <3>2. CASE k = j + 1
      <4>1. g[k] = G[j + 1][f[j]] BY <3>2
      <4>2. g[k - 1] = f[j] BY <3>2
      <4>3. QED BY <4>1, <4>2, <3>2
    <3>3. CASE k \in 1 .. j
      <4>1. f[k] = G[k][f[k - 1]] BY <2>1, <3>3
      <4>2. g[k] = f[k] /\ g[k - 1] = f[k - 1] BY <3>3
      <4>3. QED BY <4>1, <4>2, <3>3
    <3>4. QED BY <3>1, <3>2, <3>3
  <2>3. g = [k \in 0 .. (j + 1) |-> g[k]] OBVIOUS
  <2> HIDE DEF g
  <2>4. Upto(j + 1, g) BY <2>2, <2>3
  <2>5. QED BY <2>4
<1>3. n \in S
  <2> HIDE DEF S
  <2>1. QED BY <1>1, <1>2, CountUp
<1>4. QED BY <1>3

-----------------------------------------------------------------------------
(* The checksum.                                                            *)

(* Addition in an octet. *)
LEMMA OctetSum ==
  ASSUME NEW a \in Octets, NEW b \in Octets
  PROVE  (a + b) % 256 \in Octets /\ (a + b) % 256 = (IF a + b < 256 THEN a + b ELSE a + b - 256)
<1>1. a + b < 256 => (a + b) % 256 = a + b BY DEF Octets
<1>2. ~(a + b < 256) => (a + b) % 256 = a + b - 256 BY DEF Octets
<1>3. QED BY <1>1, <1>2 DEF Octets

(* The order of two summands does not matter. *)
LEMMA OctetSwap ==
  ASSUME NEW a \in Octets, NEW b \in Octets, NEW c \in Octets
  PROVE  (((a + b) % 256) + c) % 256 = (((a + c) % 256) + b) % 256
<1>1. /\ (((a + b) % 256) + c) % 256 = (IF ((a + b) % 256) + c < 256 THEN ((a + b) % 256) + c
                                     ELSE ((a + b) % 256) + c - 256)
      /\ (((a + c) % 256) + b) % 256 = (IF ((a + c) % 256) + b < 256 THEN ((a + c) % 256) + b
                                     ELSE ((a + c) % 256) + b - 256)
  BY OctetSum
<1>2. /\ (a + b) % 256 = (IF a + b < 256 THEN a + b ELSE a + b - 256)
      /\ (a + c) % 256 = (IF a + c < 256 THEN a + c ELSE a + c - 256)
  BY OctetSum
<1>3. QED BY <1>1, <1>2 DEF Octets

(* The partial sums of a sequence of octets. *)
Sums(f, s) == /\ f \in [0 .. Len(s) -> Octets]
              /\ f[0] = 0
              /\ \A k \in 1 .. Len(s) : f[k] = (f[k - 1] + s[k]) % 256

(* The checksum is the last of the partial sums. *)
LEMMA ChecksumIsSum ==
  ASSUME NEW s \in Seq(Octets)
  PROVE  \E f : Sums(f, s) /\ Checksum(s) = f[Len(s)]
<1> DEFINE Rec(f) == f = [n \in 0 .. Len(s) |-> IF n = 0 THEN 0 ELSE (f[n - 1] + s[n]) % 256]
           G == [n \in 1 .. Len(s) |-> [v \in Octets |-> (v + s[n]) % 256]]
<1>1. \A n \in 1 .. Len(s), v \in Octets : G[n][v] = (v + s[n]) % 256 OBVIOUS
<1> HIDE DEF G
<1>2. PICK f : f = [n \in 0 .. Len(s) |-> IF n = 0 THEN 0 ELSE G[n][f[n - 1]]]
  <2>1. Len(s) \in Nat OBVIOUS
  <2>2. PICK f : Recurs(f, Len(s), G) BY <2>1, RecursionExists
  <2>3. QED BY <2>2 DEF Recurs
<1>3. f = [n \in 0 .. Len(s) |-> f[n]] BY <1>2
<1>4. f[0] = 0 /\ \A n \in 1 .. Len(s) : f[n] = G[n][f[n - 1]]
  <2>1. 0 \in 0 .. Len(s) /\ \A n \in 1 .. Len(s) : n \in 0 .. Len(s) /\ n # 0 OBVIOUS
  <2>2. QED BY <1>2, <2>1
<1> DEFINE S == {k \in 0 .. Len(s) : f[k] \in Octets /\ \A n \in 1 .. k : f[n] = (f[n - 1] + s[n]) % 256}
<1>5. 0 .. Len(s) \subseteq S
  <2>1. 0 \in S BY <1>4 DEF Octets
  <2>2. ASSUME NEW k \in 0 .. (Len(s) - 1), k \in S PROVE k + 1 \in S
    <3>1. k + 1 \in 1 .. Len(s) /\ f[k] \in Octets /\ s[k + 1] \in Octets BY <2>2
    <3>2. f[k + 1] = G[k + 1][f[k]] BY <3>1, <1>4
    <3>3. f[k + 1] = (f[k] + s[k + 1]) % 256 BY <3>1, <3>2, <1>1
    <3>4. f[k + 1] \in Octets BY <3>1, <3>3, OctetSum
    <3>5. \A n \in 1 .. (k + 1) : f[n] = (f[n - 1] + s[n]) % 256 BY <2>2, <3>3
    <3>6. QED BY <3>1, <3>4, <3>5
  <2>3. Len(s) \in Nat OBVIOUS
  <2> HIDE DEF S
  <2>4. QED BY <2>1, <2>2, <2>3, CountUp
<1>6. \A n \in 1 .. Len(s) : f[n] = (f[n - 1] + s[n]) % 256
  <2>1. Len(s) \in S BY <1>5
  <2>2. QED BY <2>1
<1>7. Sums(f, s)
  <2>1. \A k \in 0 .. Len(s) : f[k] \in Octets BY <1>5
  <2>2. f \in [0 .. Len(s) -> Octets] BY <1>3, <2>1
  <2>3. QED BY <1>4, <1>6, <2>2 DEF Sums
<1>8. Rec(f)
  <2>1. \A n \in 0 .. Len(s) : f[n] = IF n = 0 THEN 0 ELSE (f[n - 1] + s[n]) % 256
    BY <1>4, <1>6
  <2>2. QED BY <1>3, <2>1
<1>9. Checksum(s) = (CHOOSE g : Rec(g))[Len(s)] BY DEF Checksum
<1>10. PICK g : Rec(g) /\ Checksum(s) = g[Len(s)] BY <1>8, <1>9
<1>11. g[0] = 0 /\ \A n \in 1 .. Len(s) : g[n] = (g[n - 1] + s[n]) % 256
  <2>1. 0 \in 0 .. Len(s) /\ \A n \in 1 .. Len(s) : n \in 0 .. Len(s) /\ n # 0 OBVIOUS
  <2>2. QED BY <1>10, <2>1
<1> DEFINE E == {k \in 0 .. Len(s) : g[k] = f[k]}
<1>12. 0 .. Len(s) \subseteq E
  <2>1. 0 \in E BY <1>4, <1>11
  <2>2. ASSUME NEW k \in 0 .. (Len(s) - 1), k \in E PROVE k + 1 \in E
    <3>1. k + 1 \in 1 .. Len(s) /\ k + 1 - 1 = k OBVIOUS
    <3>2. g[k + 1] = (g[k] + s[k + 1]) % 256 BY <1>11, <3>1
    <3>3. f[k + 1] = (f[k] + s[k + 1]) % 256 BY <1>6, <3>1
    <3>4. QED BY <2>2, <3>1, <3>2, <3>3
  <2>3. Len(s) \in Nat OBVIOUS
  <2> HIDE DEF E
  <2>4. QED BY <2>1, <2>2, <2>3, CountUp
<1>13. g[Len(s)] = f[Len(s)] BY <1>12
<1>14. QED BY <1>7, <1>10, <1>13

(* The checksum notices that an octet other than 0 is missing: this is by   *)
(* how much the sum changes.                                                *)
LEMMA ChecksumWithout ==
  ASSUME NEW s \in Seq(Octets), NEW r \in Seq(Octets), NEW p \in 1 .. Len(s),
         Len(r) = Len(s) - 1,
         \A k \in 1 .. Len(r) : r[k] = s[IF k < p THEN k ELSE k + 1]
  PROVE  /\ Checksum(s) \in Octets /\ Checksum(r) \in Octets
         /\ Checksum(s) = (Checksum(r) + s[p]) % 256
<1>1. PICK f : Sums(f, s) /\ Checksum(s) = f[Len(s)] BY ChecksumIsSum
<1>2. PICK g : Sums(g, r) /\ Checksum(r) = g[Len(r)] BY ChecksumIsSum
<1> DEFINE Agrees(k) == IF k < p THEN g[k] = f[k] ELSE f[k + 1] = (g[k] + s[p]) % 256
           S == {k \in 0 .. Len(r) : Agrees(k)}
<1>3. 0 \in S
  <2>1. f[0] = 0 /\ g[0] = 0 BY <1>1, <1>2 DEF Sums
  <2>2. p = 1 => f[1] = (f[0] + s[1]) % 256 BY <1>1 DEF Sums
  <2>3. QED BY <2>1, <2>2
<1>4. ASSUME NEW k \in 0 .. (Len(r) - 1), k \in S PROVE k + 1 \in S
  <2>0. /\ k \in 0 .. Len(r) /\ k + 1 \in 1 .. Len(r) /\ (k + 1) - 1 = k
        /\ k \in 0 .. Len(s) /\ k + 1 \in 0 .. Len(s)
        /\ k + 1 \in 1 .. Len(s) /\ k + 2 \in 1 .. Len(s) /\ (k + 2) - 1 = k + 1
    OBVIOUS
  <2>s. s[k + 1] \in Octets /\ s[k + 2] \in Octets /\ r[k + 1] \in Octets BY <2>0
  <2>1. g[k + 1] = (g[k] + r[k + 1]) % 256 /\ g[k] \in Octets /\ r[k + 1] \in Octets
    <3>1. /\ g \in [0 .. Len(r) -> Octets]
          /\ \A i \in 1 .. Len(r) : g[i] = (g[i - 1] + r[i]) % 256
      BY <1>2 DEF Sums
    <3>2. g[k] \in Octets BY <2>0, <3>1
    <3>3. QED BY <2>0, <2>s, <3>1, <3>2
  <2>f. /\ f \in [0 .. Len(s) -> Octets]
        /\ \A i \in 1 .. Len(s) : f[i] = (f[i - 1] + s[i]) % 256
    BY <1>1 DEF Sums
  <2>2. f[k + 1] = (f[k] + s[k + 1]) % 256 /\ f[k] \in Octets /\ s[k + 1] \in Octets
    <3>1. f[k] \in Octets BY <2>0, <2>f
    <3>2. QED BY <2>0, <2>s, <2>f, <3>1
  <2>3. f[k + 2] = (f[k + 1] + s[k + 2]) % 256 /\ f[k + 1] \in Octets /\ s[k + 2] \in Octets
    <3>1. f[k + 1] \in Octets BY <2>0, <2>f
    <3>2. QED BY <2>0, <2>s, <2>f, <3>1
  <2>4. CASE k + 1 < p
    <3>1. r[k + 1] = s[k + 1] /\ g[k] = f[k] BY <2>4, <1>4
    <3>2. QED BY <3>1, <2>1, <2>2, <2>4
  <2>5. CASE k + 1 = p
    <3>1. r[k + 1] = s[k + 2] /\ g[k] = f[k] BY <2>5, <1>4
    <3>2. f[k + 2] = (((g[k] + s[p]) % 256) + r[k + 1]) % 256 BY <3>1, <2>2, <2>3, <2>5
    <3>3. f[k + 2] = (((g[k] + r[k + 1]) % 256) + s[p]) % 256
      BY <3>2, <2>1, <2>2, <2>5, OctetSwap
    <3>4. QED BY <3>3, <2>1, <2>5
  <2>6. CASE k >= p
    <3>1. r[k + 1] = s[k + 2] /\ f[k + 1] = (g[k] + s[p]) % 256 BY <2>6, <1>4
    <3>2. f[k + 2] = (((g[k] + s[p]) % 256) + r[k + 1]) % 256 BY <3>1, <2>3
    <3>3. s[p] \in Octets OBVIOUS
    <3>4. f[k + 2] = (((g[k] + r[k + 1]) % 256) + s[p]) % 256
      BY <3>2, <3>3, <2>1, OctetSwap
    <3>5. QED BY <3>4, <2>1, <2>6
  <2>7. QED BY <2>4, <2>5, <2>6
<1>5. Len(r) \in S
  <2> HIDE DEF S
  <2>1. Len(r) \in Nat /\ Len(r) \in 0 .. Len(r) OBVIOUS
  <2>2. 0 .. Len(r) \subseteq S BY <1>3, <1>4, <2>1, CountUp
  <2>3. QED BY <2>1, <2>2
<1>6. f[Len(s)] \in Octets /\ g[Len(r)] \in Octets
  <2>1. Len(s) \in 0 .. Len(s) /\ Len(r) \in 0 .. Len(r) OBVIOUS
  <2>2. QED BY <1>1, <1>2, <2>1 DEF Sums
<1>7. f[Len(s)] = (g[Len(r)] + s[p]) % 256
  <2>1. Len(s) \in Nat /\ Len(r) + 1 = Len(s) /\ Agrees(Len(r)) BY <1>5
  <2>2. CASE p = Len(s)
    <3>1. f[Len(s)] = (f[Len(s) - 1] + s[p]) % 256 BY <1>1, <2>2 DEF Sums
    <3>2. QED BY <2>1, <2>2, <3>1
  <2>3. CASE p # Len(s)
    <3>1. ~(Len(r) < p) BY <2>1, <2>3
    <3>2. QED BY <2>1, <3>1
  <2>4. QED BY <2>2, <2>3
<1>8. QED BY <1>1, <1>2, <1>6, <1>7

-----------------------------------------------------------------------------
(* The shape of a frame.                                                    *)
LEMMA Joined ==
  ASSUME NEW s \in Seq(Octets), NEW t \in Seq(Octets)
  PROVE  /\ s \o t \in Seq(Octets) /\ Len(s \o t) = Len(s) + Len(t)
         /\ \A k \in 1 .. Len(s) : (s \o t)[k] = s[k]
         /\ \A k \in 1 .. Len(t) : (s \o t)[Len(s) + k] = t[k]
OBVIOUS

(* A pair of octets. *)
LEMMA Two ==
  ASSUME NEW a \in Octets, NEW b \in Octets
  PROVE  <<a, b>> \in Seq(Octets) /\ Len(<<a, b>>) = 2 /\ <<a, b>>[1] = a /\ <<a, b>>[2] = b
OBVIOUS

(* Three octets. *)
LEMMA Three ==
  ASSUME NEW a \in Octets, NEW b \in Octets, NEW c \in Octets
  PROVE  /\ <<a, b, c>> \in Seq(Octets) /\ Len(<<a, b, c>>) = 3
         /\ <<a, b, c>>[1] = a /\ <<a, b, c>>[2] = b /\ <<a, b, c>>[3] = c
OBVIOUS

(* The two octets of a word, and the word they make. *)
LEMMA WordIsOctets ==
  ASSUME NEW n \in Words
  PROVE  /\ Word(n) \in Seq(Octets) /\ Len(Word(n)) = 2
         /\ n = Word(n)[1] + 256 * Word(n)[2]
<1>1. n % 256 \in Octets /\ n \div 256 \in Octets /\ n = (n % 256) + 256 * (n \div 256)
  BY DEF Words, Octets
<1>2. QED BY <1>1, Two DEF Word

(* The end of a sequence, from place a on. *)
LEMMA SubSeqOctets ==
  ASSUME NEW s \in Seq(Octets), NEW a \in 1 .. (Len(s) + 1)
  PROVE  /\ SubSeq(s, a, Len(s)) \in Seq(Octets)
         /\ Len(SubSeq(s, a, Len(s))) = Len(s) + 1 - a
         /\ \A k \in 1 .. (Len(s) + 1 - a) : SubSeq(s, a, Len(s))[k] = s[a + k - 1]
OBVIOUS

(* Sequences of octets are equal if their octets are.                       *)
LEMMA SameOctets ==
  ASSUME NEW s \in Seq(Octets), NEW t \in Seq(Octets), Len(s) = Len(t),
         \A k \in 1 .. Len(s) : s[k] = t[k]
  PROVE  s = t
OBVIOUS

(* What the receive interrupt relies on.                                    *)
Proper(o) == /\ o \in Seq(Octets) /\ Len(o) \in 11 .. 127
             /\ o[1] \in {170, 187, 204} /\ o[2] \in {17, 34}
             /\ LengthOf(o) = Len(o) - 5
             /\ o[5] = Checksum(SubSeq(o, 6, Len(o)))
             /\ o[Len(o) - 1] = CR /\ o[Len(o)] = LT

(* A sequence of n octets, and one that is made of two.                     *)
Is(s, n) == s \in Seq(Octets) /\ n \in Nat /\ Len(s) = n
Joins(u, s, n, t, m) == /\ Is(u, n + m)
                        /\ \A k \in 1 .. n : u[k] = s[k]
                        /\ \A k \in 1 .. m : u[n + k] = t[k]

(* What a concatenation is made of. *)
LEMMA Parts ==
  ASSUME NEW s, NEW t, NEW n, NEW m, Is(s, n), Is(t, m), NEW u, u = s \o t
  PROVE  Joins(u, s, n, t, m)
<1>1. s \in Seq(Octets) /\ t \in Seq(Octets) /\ n \in Nat /\ m \in Nat
      /\ Len(s) = n /\ Len(t) = m BY DEF Is
<1>2. /\ u \in Seq(Octets) /\ Len(u) = Len(s) + Len(t)
      /\ \A k \in 1 .. Len(s) : u[k] = s[k]
      /\ \A k \in 1 .. Len(t) : u[Len(s) + k] = t[k]
  BY <1>1, Joined
<1>3. Is(u, n + m) BY <1>1, <1>2 DEF Is
<1>4. QED BY <1>1, <1>2, <1>3 DEF Joins

(* From place i on, u holds the l octets of x. *)
Has(u, i, x, l) == \A j \in 1 .. l : u[i + j] = x[j]

(* A frame whose fields take n octets, with its type and status. *)
IsFrame(o, n, type, status) == /\ Proper(o) /\ Is(o, n + 7)
                               /\ TypeOf(o) = type /\ o[3] % 16 = status

Preambles == {170, 187, 204} \X {17, 34}

(* A frame around n octets of fields: its header fits, and the fields begin *)
(* at the sixth octet.                                                      *)
LEMMA FrameShape ==
  ASSUME NEW pre, NEW type \in 1 .. 6, NEW status \in 0 .. 15, NEW n \in 4 .. 120,
         NEW fields, NEW o
  PROVE  /\ pre \in Preambles /\ Is(fields, n)
         /\ o = Frame(pre, type, status, fields)
         => IsFrame(o, n, type, status) /\ Has(o, 5, fields, n)
<1>0. SUFFICES ASSUME pre \in Preambles, Is(fields, n),
                      o = Frame(pre, type, status, fields)
               PROVE  IsFrame(o, n, type, status) /\ Has(o, 5, fields, n)
  OBVIOUS
<1>1. PICK rest : rest = fields \o Terminator OBVIOUS
<1>2. CR \in Octets /\ LT \in Octets BY DEF CR, LT, Octets
<1>3. Is(Terminator, 2) /\ Terminator[1] = CR /\ Terminator[2] = LT
  BY <1>2, Two DEF Terminator, Is
<1>4. Joins(rest, fields, n, Terminator, 2)
  <2>1. Is(fields, n) /\ Is(Terminator, 2) BY <1>0, <1>3
  <2>2. QED BY <1>1, <2>1, Parts
<1>5. Is(rest, n + 2) BY <1>4 DEF Joins
<1>6. rest[n + 1] = CR /\ rest[n + 2] = LT BY <1>3, <1>4 DEF Joins
<1>7. \A k \in 1 .. n : rest[k] = fields[k] BY <1>4 DEF Joins
<1>8. PICK c : c = Checksum(rest) OBVIOUS
<1>9. c \in Octets
  <2>1. PICK f : Sums(f, rest) /\ Checksum(rest) = f[Len(rest)]
    BY <1>5, ChecksumIsSum DEF Is
  <2>2. Len(rest) \in 0 .. Len(rest) BY <1>5 DEF Is
  <2>3. QED BY <1>8, <2>1, <2>2 DEF Sums
<1>10. PICK t : t = 16 * type + status OBVIOUS
<1>11. t \in 16 .. 255 /\ t \div 16 = type /\ t % 16 = status BY <1>10
<1>12. PICK p, q : p \in {170, 187, 204} /\ q \in {17, 34} /\ pre = <<p, q>>
  BY <1>0 DEF Preambles
<1>13. Is(pre, 2) /\ pre[1] = p /\ pre[2] = q
  <2>1. p \in Octets /\ q \in Octets BY <1>12 DEF Octets
  <2>2. QED BY <1>12, <2>1, Two DEF Is
<1>14. PICK head : head = <<t, n + 2, c>> OBVIOUS
<1>15. Is(head, 3) /\ head[1] = t /\ head[2] = n + 2 /\ head[3] = c
  <2>1. t \in Octets /\ n + 2 \in Octets BY <1>11 DEF Octets
  <2>2. QED BY <1>9, <1>14, <2>1, Three DEF Is
<1>16. PICK front : front = pre \o head OBVIOUS
<1>17. Joins(front, pre, 2, head, 3) BY <1>13, <1>15, <1>16, Parts
<1>18. Is(front, 5) BY <1>17 DEF Joins
<1>19. front[1] = p /\ front[2] = q /\ front[3] = t /\ front[4] = n + 2 /\ front[5] = c
  <2>1. /\ front[1] = pre[1] /\ front[2] = pre[2]
        /\ front[2 + 1] = head[1] /\ front[2 + 2] = head[2] /\ front[2 + 3] = head[3]
    BY <1>17 DEF Joins
  <2>2. QED BY <1>13, <1>15, <2>1
<1>20. o = front \o rest
  <2>1. Len(rest) = n + 2 BY <1>5 DEF Is
  <2>2. QED BY <1>0, <1>1, <1>8, <1>10, <1>14, <1>16, <2>1 DEF Frame
<1>21. Joins(o, front, 5, rest, n + 2) BY <1>5, <1>18, <1>20, Parts
<1>22. o \in Seq(Octets) /\ Len(o) = n + 7 BY <1>21 DEF Joins, Is
<1>23. o[1] = p /\ o[2] = q /\ o[3] = t /\ o[4] = n + 2 /\ o[5] = c
  <2>1. \A k \in 1 .. 5 : o[k] = front[k] BY <1>21 DEF Joins
  <2>2. QED BY <1>19, <2>1
<1>24. \A k \in 1 .. (n + 2) : o[5 + k] = rest[k] BY <1>21 DEF Joins
<1>25. SubSeq(o, 6, Len(o)) = rest
  <2>1. PICK sub : sub = SubSeq(o, 6, Len(o)) OBVIOUS
  <2>2. 6 \in 1 .. (Len(o) + 1) /\ Len(o) + 1 - 6 = n + 2 BY <1>22
  <2>3. /\ sub \in Seq(Octets) /\ Len(sub) = n + 2
        /\ \A k \in 1 .. (n + 2) : sub[k] = o[6 + k - 1]
    BY <1>22, <2>1, <2>2, SubSeqOctets
  <2>4. \A k \in 1 .. (n + 2) : sub[k] = rest[k] BY <1>24, <2>3
  <2>5. Len(rest) = n + 2 /\ rest \in Seq(Octets) BY <1>5 DEF Is
  <2>6. sub = rest BY <2>3, <2>4, <2>5, SameOctets
  <2>7. QED BY <2>1, <2>6
<1>26. o[Len(o) - 1] = CR /\ o[Len(o)] = LT
  <2>1. o[5 + (n + 1)] = rest[n + 1] /\ o[5 + (n + 2)] = rest[n + 2] BY <1>24
  <2>2. Len(o) - 1 = 5 + (n + 1) /\ Len(o) = 5 + (n + 2) BY <1>22
  <2>3. QED BY <1>6, <2>1, <2>2
<1>27. Proper(o)
  <2>1. Len(o) \in 11 .. 127 /\ o[4] = Len(o) - 5 BY <1>22, <1>23
  <2>2. o[5] = Checksum(SubSeq(o, 6, Len(o))) BY <1>8, <1>23, <1>25
  <2>3. o \in Seq(Octets) /\ o[1] \in {170, 187, 204} /\ o[2] \in {17, 34}
    BY <1>12, <1>22, <1>23
  <2>4. QED BY <1>26, <2>1, <2>2, <2>3 DEF Proper, LengthOf
<1>28. TypeOf(o) = type /\ o[3] % 16 = status BY <1>11, <1>23 DEF TypeOf
<1>29. Has(o, 5, fields, n) BY <1>7, <1>24 DEF Has
<1>30. Is(o, n + 7) BY <1>22 DEF Is
<1>31. QED BY <1>27, <1>28, <1>29, <1>30 DEF IsFrame

-----------------------------------------------------------------------------
(* The fields of a frame.                                                   *)
LEMMA Former ==
  ASSUME NEW u, NEW s, NEW n \in Nat, NEW t, NEW m, NEW i \in Nat, NEW x, NEW l \in Nat,
         Joins(u, s, n, t, m), Has(s, i, x, l), i + l <= n
  PROVE  Has(u, i, x, l)
<1>1. SUFFICES ASSUME NEW j \in 1 .. l PROVE u[i + j] = x[j] BY DEF Has
<1>2. i + j \in 1 .. n OBVIOUS
<1>3. u[i + j] = s[i + j] BY <1>2 DEF Joins
<1>4. QED BY <1>3 DEF Has

(* Both parts of a concatenation are found in it. *)
LEMMA Latter ==
  ASSUME NEW u, NEW s, NEW n, NEW t, NEW m
  PROVE  Joins(u, s, n, t, m) => Is(u, n + m) /\ Has(u, 0, s, n) /\ Has(u, n, t, m)
BY DEF Joins, Has, Is

(* An array of octets is a sequence. *)
LEMMA ArrayIs ==
  ASSUME NEW n \in Nat, NEW f \in [1 .. n -> Octets]
  PROVE  Is(f, n)
BY DEF Is

(* The octets that memset writes. *)
LEMMA ZerosAre ==
  ASSUME NEW n \in Nat
  PROVE  Is(Zeros(n), n) /\ \A k \in 1 .. n : Zeros(n)[k] = 0
<1>1. Zeros(n) \in [1 .. n -> Octets] BY DEF Zeros, Octets
<1>2. Is(Zeros(n), n) BY <1>1, ArrayIs
<1>3. QED BY <1>2 DEF Zeros

(* A word has two octets. *)
LEMMA WordIs == ASSUME NEW n \in Words PROVE Is(Word(n), 2)
BY WordIsOctets DEF Is

(* One octet. *)
LEMMA OneIs ==
  ASSUME NEW a \in Octets PROVE Is(<<a>>, 1) /\ <<a>>[1] = a
BY DEF Is

(* Two octets. *)
LEMMA TwoIs ==
  ASSUME NEW a \in Octets, NEW b \in Octets
  PROVE  Is(<<a, b>>, 2) /\ <<a, b>>[1] = a /\ <<a, b>>[2] = b
BY Two DEF Is

(* Three octets. *)
LEMMA ThreeIs ==
  ASSUME NEW a \in Octets, NEW b \in Octets, NEW c \in Octets
  PROVE  Is(<<a, b, c>>, 3) /\ <<a, b, c>>[1] = a /\ <<a, b, c>>[2] = b /\ <<a, b, c>>[3] = c
BY Three DEF Is

(* A padded name fills its field. *)
LEMMA PadIs ==
  ASSUME NEW f \in Names PROVE Is(Pad(f, 10), 10) /\ \A k \in 1 .. 10 : Pad(f, 10)[k] = f[k]
<1>1. Is(f, 10) BY ArrayIs DEF Names
<1>2. Pad(f, 10) = f \o Zeros(0)
  <2>1. 10 - Len(f) = 0 BY <1>1 DEF Is
  <2>2. QED BY <2>1 DEF Pad
<1>3. Is(Zeros(0), 0) BY ZerosAre
<1>4. Joins(Pad(f, 10), f, 10, Zeros(0), 0) BY <1>1, <1>2, <1>3, Parts
<1>5. QED BY <1>4 DEF Joins

(* What the fields of each kind of message are. *)
SyncFields(net, time) == Word(net) \o <<1>> \o Word(time) \o <<2>> \o <<115, 121, 110, 99>>

(* Where the fields of a SYNC stand. *)
LEMMA SyncFieldsAre ==
  ASSUME NEW net \in Words, NEW time \in Words
  PROVE  /\ Is(SyncFields(net, time), 10)
         /\ Has(SyncFields(net, time), 0, Word(net), 2)
         /\ Has(SyncFields(net, time), 3, Word(time), 2)
         /\ Has(SyncFields(net, time), 5, <<2>>, 1)
<1>1. PICK a : a = Word(net) \o <<1>> OBVIOUS
<1>2. PICK b : b = a \o Word(time) OBVIOUS
<1>3. PICK c : c = b \o <<2>> OBVIOUS
<1>4. PICK d : d = c \o <<115, 121, 110, 99>> OBVIOUS
<1>5. Is(Word(net), 2) /\ Is(Word(time), 2) BY WordIs
<1>6. Is(<<1>>, 1) /\ Is(<<2>>, 1) BY OneIs DEF Octets
<1>7. Is(<<115, 121, 110, 99>>, 4) BY DEF Is, Octets
<1>8. Joins(a, Word(net), 2, <<1>>, 1) BY <1>1, <1>5, <1>6, Parts
<1>9. Is(a, 3) /\ Has(a, 0, Word(net), 2) BY <1>8, Latter
<1>10. Joins(b, a, 3, Word(time), 2) BY <1>2, <1>5, <1>9, Parts
<1>11. Is(b, 5) /\ Has(b, 0, Word(net), 2) /\ Has(b, 3, Word(time), 2)
  BY <1>9, <1>10, Latter, Former
<1>12. Joins(c, b, 5, <<2>>, 1) BY <1>3, <1>6, <1>11, Parts
<1>13. Is(c, 6) /\ Has(c, 0, Word(net), 2) /\ Has(c, 3, Word(time), 2) /\ Has(c, 5, <<2>>, 1)
  BY <1>11, <1>12, Latter, Former
<1>14. Joins(d, c, 6, <<115, 121, 110, 99>>, 4) BY <1>4, <1>7, <1>13, Parts
<1>15. Is(d, 10) /\ Has(d, 0, Word(net), 2) /\ Has(d, 3, Word(time), 2) /\ Has(d, 5, <<2>>, 1)
  BY <1>13, <1>14, Latter, Former
<1>16. QED BY <1>1, <1>2, <1>3, <1>4, <1>15 DEF SyncFields

JoinReqFields(mac, net, options, slots, user, password) ==
  mac \o Zeros(6) \o Word(net) \o <<0, options, slots>> \o Pad(user, 10) \o Pad(password, 10)

(* Where the fields of a JOINREQ stand. *)
LEMMA JoinReqFieldsAre ==
  ASSUME NEW mac \in Addresses, NEW net \in Words, NEW options \in Octets,
         NEW slots \in Octets, NEW user \in Names, NEW password \in Names,
         NEW f, f = JoinReqFields(mac, net, options, slots, user, password)
  PROVE  /\ Is(f, 37)
         /\ Has(f, 0, mac, 6) /\ Has(f, 12, Word(net), 2)
         /\ Has(f, 14, <<0, options, slots>>, 3)
         /\ Has(f, 17, user, 10) /\ Has(f, 27, password, 10)
<1>1. PICK a : a = mac \o Zeros(6) OBVIOUS
<1>2. PICK b : b = a \o Word(net) OBVIOUS
<1>3. PICK t : t = <<0, options, slots>> OBVIOUS
<1>4. PICK c : c = b \o t OBVIOUS
<1>5. PICK d : d = c \o Pad(user, 10) OBVIOUS
<1>6. PICK e : e = d \o Pad(password, 10) OBVIOUS
<1>7. Is(mac, 6) /\ Is(Zeros(6), 6) /\ Is(Word(net), 2)
  BY ArrayIs, ZerosAre, WordIs DEF Addresses
<1>8. Is(t, 3)
  <2>1. 0 \in Octets BY DEF Octets
  <2>2. QED BY <1>3, <2>1, ThreeIs
<1>9. Is(Pad(user, 10), 10) /\ Is(Pad(password, 10), 10) BY PadIs
<1>10. Joins(a, mac, 6, Zeros(6), 6) BY <1>1, <1>7, Parts
<1>11. Is(a, 12) /\ Has(a, 0, mac, 6) BY <1>10, Latter
<1>12. Joins(b, a, 12, Word(net), 2) BY <1>2, <1>7, <1>11, Parts
<1>13. Is(b, 14) /\ Has(b, 0, mac, 6) /\ Has(b, 12, Word(net), 2)
  BY <1>11, <1>12, Latter, Former
<1>14. Joins(c, b, 14, t, 3) BY <1>4, <1>8, <1>13, Parts
<1>15. Is(c, 17) /\ Has(c, 0, mac, 6) /\ Has(c, 12, Word(net), 2) /\ Has(c, 14, t, 3)
  BY <1>13, <1>14, Latter, Former
<1>16. Joins(d, c, 17, Pad(user, 10), 10) BY <1>5, <1>9, <1>15, Parts
<1>17. /\ Is(d, 27) /\ Has(d, 0, mac, 6) /\ Has(d, 12, Word(net), 2) /\ Has(d, 14, t, 3)
       /\ Has(d, 17, Pad(user, 10), 10)
  BY <1>15, <1>16, Latter, Former
<1>18. Joins(e, d, 27, Pad(password, 10), 10) BY <1>6, <1>9, <1>17, Parts
<1>19. /\ Is(e, 37) /\ Has(e, 0, mac, 6) /\ Has(e, 12, Word(net), 2) /\ Has(e, 14, t, 3)
       /\ Has(e, 17, Pad(user, 10), 10) /\ Has(e, 27, Pad(password, 10), 10)
  BY <1>17, <1>18, Latter, Former
<1>20. Has(e, 17, user, 10) /\ Has(e, 27, password, 10) BY <1>19, PadIs DEF Has
<1>21. e = f BY <1>1, <1>2, <1>3, <1>4, <1>5, <1>6 DEF JoinReqFields
<1>22. QED BY <1>3, <1>19, <1>20, <1>21

(* The digits of a number: how many they are, and their value.              *)
LEMMA DigitsAre ==
  ASSUME NEW n \in 0 .. 128
  PROVE  \E d \in 1 .. 3 :
           /\ Is(Digits(n), d)
           /\ \A k \in 1 .. d : IsDigit(Digits(n)[k])
           /\ d = 1 => n = Digits(n)[1] - 48
           /\ d = 2 => n = 10 * (Digits(n)[1] - 48) + (Digits(n)[2] - 48)
           /\ d = 3 => n = 10 * (10 * (Digits(n)[1] - 48) + (Digits(n)[2] - 48))
                           + (Digits(n)[3] - 48)
<1>1. CASE n < 10
  <2>1. Digits(n) = <<48 + n>> BY <1>1 DEF Digits
  <2>2. Is(Digits(n), 1) /\ Digits(n)[1] = 48 + n
    <3>1. 48 + n \in Octets BY <1>1 DEF Octets
    <3>2. QED BY <2>1, <3>1, OneIs
  <2>3. QED BY <1>1, <2>2 DEF IsDigit
<1>2. CASE ~(n < 10) /\ n < 100
  <2>1. PICK a, b : a = n \div 10 /\ b = n % 10 OBVIOUS
  <2>2. a \in 0 .. 9 /\ b \in 0 .. 9 /\ n = 10 * a + b BY <1>2, <2>1
  <2>3. Digits(n) = <<48 + a, 48 + b>> BY <1>2, <2>1 DEF Digits
  <2>4. 48 + a \in Octets /\ 48 + b \in Octets BY <2>2 DEF Octets
  <2>5. Is(Digits(n), 2) /\ Digits(n)[1] = 48 + a /\ Digits(n)[2] = 48 + b
    BY <2>3, <2>4, TwoIs
  <2>6. \A k \in 1 .. 2 : IsDigit(Digits(n)[k]) BY <2>2, <2>5 DEF IsDigit
  <2>7. n = 10 * (Digits(n)[1] - 48) + (Digits(n)[2] - 48) BY <2>2, <2>5
  <2>8. QED BY <2>5, <2>6, <2>7
<1>3. CASE ~(n < 100)
  <2>1. PICK a, b, c : a = n \div 100 /\ b = (n \div 10) % 10 /\ c = n % 10 OBVIOUS
  <2>2. a \in 0 .. 9 /\ b \in 0 .. 9 /\ c \in 0 .. 9 /\ n = 10 * (10 * a + b) + c
    BY <1>3, <2>1
  <2>3. Digits(n) = <<48 + a, 48 + b, 48 + c>> BY <1>3, <2>1 DEF Digits
  <2>4. 48 + a \in Octets /\ 48 + b \in Octets /\ 48 + c \in Octets BY <2>2 DEF Octets
  <2>5. /\ Is(Digits(n), 3) /\ Digits(n)[1] = 48 + a /\ Digits(n)[2] = 48 + b
        /\ Digits(n)[3] = 48 + c
    BY <2>3, <2>4, ThreeIs
  <2>6. \A k \in 1 .. 3 : IsDigit(Digits(n)[k]) BY <2>2, <2>5 DEF IsDigit
  <2>7. n = 10 * (10 * (Digits(n)[1] - 48) + (Digits(n)[2] - 48)) + (Digits(n)[3] - 48)
    BY <2>2, <2>5
  <2>8. QED BY <2>5, <2>6, <2>7
<1>4. QED BY <1>1, <1>2, <1>3

(* An id's text is one to four octets long. *)
LEMMA DecimalIs ==
  ASSUME NEW id \in Octets
  PROVE  /\ id < 128 => Decimal(id) = Digits(id)
         /\ ~(id < 128) => /\ Decimal(id)[1] = 45
                           /\ \A d \in 1 .. 3 : Is(Digits(256 - id), d)
                                => Has(Decimal(id), 1, Digits(256 - id), d)
         /\ \E d \in 1 .. 4 : Is(Decimal(id), d)
<1>1. CASE id < 128
  <2>1. Decimal(id) = Digits(id) /\ id \in 0 .. 128 BY <1>1 DEF Decimal, Octets
  <2>2. PICK d \in 1 .. 3 : Is(Digits(id), d) BY <2>1, DigitsAre
  <2>3. QED BY <1>1, <2>1, <2>2
<1>2. CASE ~(id < 128)
  <2>1. Decimal(id) = <<45>> \o Digits(256 - id) /\ 256 - id \in 0 .. 128
    BY <1>2 DEF Decimal, Octets
  <2>2. Is(<<45>>, 1) /\ <<45>>[1] = 45 BY OneIs DEF Octets
  <2>3. PICK d \in 1 .. 3 : Is(Digits(256 - id), d) BY <2>1, DigitsAre
  <2>4. ASSUME NEW e \in 1 .. 3, Is(Digits(256 - id), e)
        PROVE  /\ Is(Decimal(id), 1 + e) /\ Has(Decimal(id), 0, <<45>>, 1)
               /\ Has(Decimal(id), 1, Digits(256 - id), e)
    <3>1. Joins(Decimal(id), <<45>>, 1, Digits(256 - id), e) BY <2>1, <2>2, <2>4, Parts
    <3>2. QED BY <3>1, Latter
  <2>5. Is(Decimal(id), 1 + d) /\ 1 + d \in 1 .. 4 BY <2>3, <2>4
  <2>6. Decimal(id)[1] = 45
    <3>1. Has(Decimal(id), 0, <<45>>, 1) BY <2>3, <2>4
    <3>2. QED BY <2>2, <3>1 DEF Has
  <2>7. QED BY <1>2, <2>4, <2>5, <2>6
<1>3. QED BY <1>1, <1>2

JoinRespFields(server, mac, net, id) == server \o mac \o Word(net) \o <<1>> \o Decimal(id)

(* Where the fields of a JOINRESP stand. *)
LEMMA JoinRespFieldsAre ==
  ASSUME NEW server \in Addresses, NEW mac \in Addresses, NEW net \in Words,
         NEW id \in Octets, NEW f, f = JoinRespFields(server, mac, net, id)
  PROVE  \E n \in 1 .. 4 : /\ Is(Decimal(id), n) /\ Is(f, 15 + n)
                           /\ Has(f, 6, mac, 6) /\ Has(f, 15, Decimal(id), n)
<1>1. PICK a : a = server \o mac OBVIOUS
<1>2. PICK b : b = a \o Word(net) OBVIOUS
<1>3. PICK c : c = b \o <<1>> OBVIOUS
<1>4. PICK d : d = c \o Decimal(id) OBVIOUS
<1>5. Is(server, 6) /\ Is(mac, 6) /\ Is(Word(net), 2) BY ArrayIs, WordIs DEF Addresses
<1>6. Is(<<1>>, 1) BY OneIs DEF Octets
<1>7. PICK n \in 1 .. 4 : Is(Decimal(id), n) BY DecimalIs
<1>8. Joins(a, server, 6, mac, 6) BY <1>1, <1>5, Parts
<1>9. Is(a, 12) /\ Has(a, 6, mac, 6) BY <1>8, Latter
<1>10. Joins(b, a, 12, Word(net), 2) BY <1>2, <1>5, <1>9, Parts
<1>11. Is(b, 14) /\ Has(b, 6, mac, 6) BY <1>9, <1>10, Latter, Former
<1>12. Joins(c, b, 14, <<1>>, 1) BY <1>3, <1>6, <1>11, Parts
<1>13. Is(c, 15) /\ Has(c, 6, mac, 6) BY <1>11, <1>12, Latter, Former
<1>14. Joins(d, c, 15, Decimal(id), n) BY <1>4, <1>7, <1>13, Parts
<1>15. Is(d, 15 + n) /\ Has(d, 6, mac, 6) /\ Has(d, 15, Decimal(id), n)
  BY <1>13, <1>14, Latter, Former
<1>16. d = f BY <1>1, <1>2, <1>3, <1>4 DEF JoinRespFields
<1>17. QED BY <1>7, <1>15, <1>16

(* A text of an application has at most 61 octets, none of them zero. *)
LEMMA TextIs ==
  ASSUME NEW text \in Texts
  PROVE  \E n \in 0 .. 61 : Is(text, n) /\ \A k \in 1 .. n : text[k] # 0
<1>1. PICK chars : chars = 1 .. 255 OBVIOUS
<1>2. text \in Seq(chars) /\ Len(text) < 62 BY <1>1 DEF Texts
<1>3. \A c \in chars : c \in Octets /\ c # 0 BY <1>1 DEF Octets
<1>4. PICK n : n = Len(text) OBVIOUS
<1>5. n \in Nat /\ n < 62 BY <1>2, <1>4
<1>6. \A k \in 1 .. n : text[k] \in chars BY <1>2, <1>4
<1>7. text \in Seq(Octets)
  <2>1. text \in [1 .. n -> chars] BY <1>2, <1>4
  <2>2. text \in [1 .. n -> Octets] BY <1>3, <2>1
  <2>3. QED BY <1>5, <2>2
<1>8. Is(text, n) BY <1>4, <1>5, <1>7 DEF Is
<1>9. \A k \in 1 .. n : text[k] # 0 BY <1>3, <1>6
<1>10. n \in 0 .. 61 BY <1>5
<1>11. QED BY <1>8, <1>9, <1>10

StatusFields(net, slot, dst, text) == Word(net) \o <<slot, dst>> \o text

(* Where the fields of a STATUS stand. *)
LEMMA StatusFieldsAre ==
  ASSUME NEW net \in Words, NEW slot \in Octets, NEW dst \in Octets, NEW text \in Texts,
         NEW f, f = StatusFields(net, slot, dst, text)
  PROVE  \E n \in 0 .. 61 : /\ Is(text, n) /\ Is(f, 4 + n)
                            /\ Has(f, 0, Word(net), 2) /\ Has(f, 2, <<slot, dst>>, 2)
                            /\ Has(f, 4, text, n)
<1>1. PICK t : t = <<slot, dst>> OBVIOUS
<1>2. PICK a : a = Word(net) \o t OBVIOUS
<1>3. PICK b : b = a \o text OBVIOUS
<1>4. Is(Word(net), 2) /\ Is(t, 2) BY <1>1, WordIs, TwoIs
<1>5. PICK n \in 0 .. 61 : Is(text, n) BY TextIs
<1>6. Joins(a, Word(net), 2, t, 2) BY <1>2, <1>4, Parts
<1>7. Is(a, 4) /\ Has(a, 0, Word(net), 2) /\ Has(a, 2, t, 2) BY <1>6, Latter
<1>8. Joins(b, a, 4, text, n) BY <1>3, <1>5, <1>7, Parts
<1>9. Is(b, 4 + n) /\ Has(b, 0, Word(net), 2) /\ Has(b, 2, t, 2) /\ Has(b, 4, text, n)
  BY <1>7, <1>8, Latter, Former
<1>10. b = f BY <1>1, <1>2, <1>3 DEF StatusFields
<1>11. QED BY <1>1, <1>5, <1>9, <1>10

ControlFields(net, src, dst, text) == Word(net) \o <<1, src, dst>> \o text

(* Where the fields of a CONTRL stand. *)
LEMMA ControlFieldsAre ==
  ASSUME NEW net \in Words, NEW src \in Octets, NEW dst \in Octets, NEW text \in Texts,
         NEW f, f = ControlFields(net, src, dst, text)
  PROVE  \E n \in 0 .. 61 : /\ Is(text, n) /\ Is(f, 5 + n)
                            /\ Has(f, 0, Word(net), 2) /\ Has(f, 2, <<1, src, dst>>, 3)
                            /\ Has(f, 5, text, n)
<1>1. PICK t : t = <<1, src, dst>> OBVIOUS
<1>2. PICK a : a = Word(net) \o t OBVIOUS
<1>3. PICK b : b = a \o text OBVIOUS
<1>4. Is(Word(net), 2) /\ Is(t, 3)
  <2>1. 1 \in Octets BY DEF Octets
  <2>2. QED BY <1>1, <2>1, WordIs, ThreeIs
<1>5. PICK n \in 0 .. 61 : Is(text, n) BY TextIs
<1>6. Joins(a, Word(net), 2, t, 3) BY <1>2, <1>4, Parts
<1>7. Is(a, 5) /\ Has(a, 0, Word(net), 2) /\ Has(a, 2, t, 3) BY <1>6, Latter
<1>8. Joins(b, a, 5, text, n) BY <1>3, <1>5, <1>7, Parts
<1>9. Is(b, 5 + n) /\ Has(b, 0, Word(net), 2) /\ Has(b, 2, t, 3) /\ Has(b, 5, text, n)
  BY <1>7, <1>8, Latter, Former
<1>10. b = f BY <1>1, <1>2, <1>3 DEF ControlFields
<1>11. QED BY <1>1, <1>5, <1>9, <1>10

(* The frames of each kind.                                                 *)
LEMMA Within ==
  ASSUME NEW o, NEW i \in Nat, NEW x, NEW l \in Nat, NEW j \in Nat, NEW y, NEW m \in Nat,
         Has(o, i, x, l), Has(x, j, y, m), j + m <= l
  PROVE  Has(o, i + j, y, m)
<1>1. SUFFICES ASSUME NEW k \in 1 .. m PROVE o[(i + j) + k] = y[k] BY DEF Has
<1>2. j + k \in 1 .. l /\ (i + j) + k = i + (j + k) OBVIOUS
<1>3. o[i + (j + k)] = x[j + k] BY <1>2 DEF Has
<1>4. x[j + k] = y[k] BY DEF Has
<1>5. QED BY <1>2, <1>3, <1>4

(* A SYNC is a frame, and where its fields stand in it. *)
LEMMA SyncIs ==
  ASSUME NEW net \in Words, NEW time \in Words, NEW o
  PROVE  o = SyncMessage(net, time) =>
           /\ IsFrame(o, 10, SyncType, 0)
           /\ Has(o, 5, Word(net), 2) /\ Has(o, 8, Word(time), 2) /\ Has(o, 10, <<2>>, 1)
<1>1. SUFFICES ASSUME o = SyncMessage(net, time)
               PROVE  /\ IsFrame(o, 10, SyncType, 0)
                      /\ Has(o, 5, Word(net), 2) /\ Has(o, 8, Word(time), 2)
                      /\ Has(o, 10, <<2>>, 1)
  OBVIOUS
<1>2. PICK f : f = SyncFields(net, time) OBVIOUS
<1>3. /\ Is(f, 10) /\ Has(f, 0, Word(net), 2) /\ Has(f, 3, Word(time), 2)
      /\ Has(f, 5, <<2>>, 1)
  BY <1>2, SyncFieldsAre
<1>4. PICK pre : pre = <<170, 17>> OBVIOUS
<1>5. IsFrame(o, 10, 1, 0) /\ Has(o, 5, f, 10)
  <2>1. pre \in Preambles BY <1>4 DEF Preambles
  <2>2. o = Frame(pre, 1, 0, f) BY <1>1, <1>2, <1>4 DEF SyncMessage, SyncFields, SyncType
  <2>3. 1 \in 1 .. 6 /\ 0 \in 0 .. 15 /\ 10 \in 4 .. 120 /\ Is(f, 10) BY <1>3
  <2>4. QED BY <2>1, <2>2, <2>3, FrameShape
<1>6. Has(o, 5 + 0, Word(net), 2) /\ Has(o, 5 + 3, Word(time), 2) /\ Has(o, 5 + 5, <<2>>, 1)
  BY <1>3, <1>5, Within
<1>7. QED BY <1>5, <1>6 DEF SyncType

(* The same of a JOINREQ, whose address is copied as it is. *)
LEMMA JoinReqIs ==
  ASSUME NEW mac \in Addresses, NEW net \in Words, NEW slots \in Octets,
         NEW user \in Names, NEW password \in Names, NEW o
  PROVE  CopyAddress(mac) = mac /\ o = JoinReqMessage(mac, net, slots, user, password) =>
           /\ IsFrame(o, 37, JoinReqType, 0)
           /\ Has(o, 5, mac, 6) /\ Has(o, 17, Word(net), 2)
           /\ \E options \in Octets : Has(o, 19, <<0, options, slots>>, 3)
           /\ Has(o, 22, user, 10) /\ Has(o, 32, password, 10)
<1>1. SUFFICES ASSUME CopyAddress(mac) = mac,
                      o = JoinReqMessage(mac, net, slots, user, password)
               PROVE  /\ IsFrame(o, 37, JoinReqType, 0)
                      /\ Has(o, 5, mac, 6) /\ Has(o, 17, Word(net), 2)
                      /\ \E options \in Octets : Has(o, 19, <<0, options, slots>>, 3)
                      /\ Has(o, 22, user, 10) /\ Has(o, 32, password, 10)
  OBVIOUS
<1>2. PICK options : options = 32 + (IF slots = 0 THEN 0 ELSE 16) OBVIOUS
<1>3. options \in Octets BY <1>2 DEF Octets
<1>4. PICK f : f = JoinReqFields(mac, net, options, slots, user, password) OBVIOUS
<1>5. PICK t : t = <<0, options, slots>> OBVIOUS
<1>6. /\ Is(f, 37) /\ Has(f, 0, mac, 6) /\ Has(f, 12, Word(net), 2) /\ Has(f, 14, t, 3)
      /\ Has(f, 17, user, 10) /\ Has(f, 27, password, 10)
  BY <1>3, <1>4, <1>5, JoinReqFieldsAre
<1>7. PICK pre : pre = <<187, 17>> OBVIOUS
<1>8. IsFrame(o, 37, 2, 0) /\ Has(o, 5, f, 37)
  <2>1. pre \in Preambles BY <1>7 DEF Preambles
  <2>2. o = Frame(pre, 2, 0, f)
    BY <1>1, <1>2, <1>4, <1>7 DEF JoinReqMessage, JoinReqFields, JoinReqType
  <2>3. 2 \in 1 .. 6 /\ 0 \in 0 .. 15 /\ 37 \in 4 .. 120 /\ Is(f, 37) BY <1>6
  <2>4. QED BY <2>1, <2>2, <2>3, FrameShape
<1>9. Has(o, 5 + 0, mac, 6) /\ Has(o, 5 + 12, Word(net), 2)
  <2>1. Has(f, 0, mac, 6) /\ Has(f, 12, Word(net), 2) BY <1>6
  <2>2. QED BY <1>8, <2>1, Within
<1>10. Has(o, 5 + 14, t, 3)
  <2>1. Has(f, 14, t, 3) BY <1>6
  <2>2. QED BY <1>8, <2>1, Within
<1>11. Has(o, 5 + 17, user, 10) /\ Has(o, 5 + 27, password, 10)
  <2>1. Has(f, 17, user, 10) /\ Has(f, 27, password, 10) BY <1>6
  <2>2. QED BY <1>8, <2>1, Within
<1>12. QED BY <1>3, <1>5, <1>8, <1>9, <1>10, <1>11 DEF JoinReqType

(* The same of a JOINRESP, whose id takes one to four octets. *)
LEMMA JoinRespIs ==
  ASSUME NEW status \in 0 .. 15, NEW server \in Addresses, NEW mac \in Addresses,
         NEW net \in Words, NEW id \in Octets, NEW o
  PROVE  o = JoinRespMessage(status, server, mac, net, id) =>
           \E n \in 1 .. 4 : /\ Is(Decimal(id), n)
                             /\ IsFrame(o, 15 + n, JoinRespType, status)
                             /\ Has(o, 11, mac, 6) /\ Has(o, 20, Decimal(id), n)
<1>1. SUFFICES ASSUME o = JoinRespMessage(status, server, mac, net, id)
               PROVE  \E n \in 1 .. 4 : /\ Is(Decimal(id), n)
                                        /\ IsFrame(o, 15 + n, JoinRespType, status)
                                        /\ Has(o, 11, mac, 6) /\ Has(o, 20, Decimal(id), n)
  OBVIOUS
<1>2. PICK f : f = JoinRespFields(server, mac, net, id) OBVIOUS
<1>3. PICK n \in 1 .. 4 : /\ Is(Decimal(id), n) /\ Is(f, 15 + n)
                          /\ Has(f, 6, mac, 6) /\ Has(f, 15, Decimal(id), n)
  BY <1>2, JoinRespFieldsAre
<1>4. PICK pre : pre = <<187, 34>> OBVIOUS
<1>5. IsFrame(o, 15 + n, 3, status) /\ Has(o, 5, f, 15 + n)
  <2>1. pre \in Preambles BY <1>4 DEF Preambles
  <2>2. o = Frame(pre, 3, status, f)
    BY <1>1, <1>2, <1>4 DEF JoinRespMessage, JoinRespFields, JoinRespType
  <2>3. 3 \in 1 .. 6 /\ 15 + n \in 4 .. 120 /\ Is(f, 15 + n) BY <1>3
  <2>4. QED BY <2>1, <2>2, <2>3, FrameShape
<1>6. Has(o, 5 + 6, mac, 6) BY <1>3, <1>5, Within
<1>7. Has(o, 5 + 15, Decimal(id), n)
  <2>1. Has(f, 15, Decimal(id), n) /\ 15 + n <= 15 + n /\ 15 + n \in Nat /\ n \in Nat BY <1>3
  <2>2. QED BY <1>5, <2>1, Within
<1>8. QED BY <1>3, <1>5, <1>6, <1>7 DEF JoinRespType

(* The same of a STATUS. *)
LEMMA StatusIs ==
  ASSUME NEW net \in Words, NEW slot \in Octets, NEW dst \in Octets, NEW text \in Texts, NEW o
  PROVE  o = StatusMessage(net, slot, dst, text) =>
           \E n \in 0 .. 61 : /\ Is(text, n) /\ IsFrame(o, 4 + n, StatusType, 0)
                              /\ Has(o, 5, Word(net), 2) /\ Has(o, 7, <<slot, dst>>, 2)
                              /\ Has(o, 9, text, n)
<1>1. SUFFICES ASSUME o = StatusMessage(net, slot, dst, text)
               PROVE  \E n \in 0 .. 61 : /\ Is(text, n) /\ IsFrame(o, 4 + n, StatusType, 0)
                                         /\ Has(o, 5, Word(net), 2)
                                         /\ Has(o, 7, <<slot, dst>>, 2) /\ Has(o, 9, text, n)
  OBVIOUS
<1>2. PICK f : f = StatusFields(net, slot, dst, text) OBVIOUS
<1>3. PICK t : t = <<slot, dst>> OBVIOUS
<1>4. PICK n \in 0 .. 61 : /\ Is(text, n) /\ Is(f, 4 + n)
                           /\ Has(f, 0, Word(net), 2) /\ Has(f, 2, t, 2) /\ Has(f, 4, text, n)
  BY <1>2, <1>3, StatusFieldsAre
<1>5. PICK pre : pre = <<204, 17>> OBVIOUS
<1>6. IsFrame(o, 4 + n, 4, 0) /\ Has(o, 5, f, 4 + n)
  <2>1. pre \in Preambles BY <1>5 DEF Preambles
  <2>2. o = Frame(pre, 4, 0, f)
    BY <1>1, <1>2, <1>5 DEF StatusMessage, StatusFields, StatusType
  <2>3. 4 \in 1 .. 6 /\ 0 \in 0 .. 15 /\ 4 + n \in 4 .. 120 /\ Is(f, 4 + n) BY <1>4
  <2>4. QED BY <2>1, <2>2, <2>3, FrameShape
<1>7. 4 + n \in Nat /\ n \in Nat /\ 0 + 2 <= 4 + n /\ 2 + 2 <= 4 + n /\ 4 + n <= 4 + n OBVIOUS
<1>8. Has(o, 5 + 0, Word(net), 2) /\ Has(o, 5 + 2, t, 2) BY <1>4, <1>6, <1>7, Within
<1>9. Has(o, 5 + 4, text, n)
  <2>1. Has(f, 4, text, n) BY <1>4
  <2>2. QED BY <1>6, <1>7, <2>1, Within
<1>10. QED BY <1>3, <1>4, <1>6, <1>8, <1>9 DEF StatusType

(* The same of a CONTRL. *)
LEMMA ControlIs ==
  ASSUME NEW net \in Words, NEW status \in 0 .. 15, NEW src \in Octets, NEW dst \in Octets,
         NEW text \in Texts, NEW o
  PROVE  o = ControlMessage(net, status, src, dst, text) =>
           \E n \in 0 .. 61 : /\ Is(text, n) /\ IsFrame(o, 5 + n, ControlType, status)
                              /\ Has(o, 5, Word(net), 2) /\ Has(o, 7, <<1, src, dst>>, 3)
                              /\ Has(o, 10, text, n)
<1>1. SUFFICES ASSUME o = ControlMessage(net, status, src, dst, text)
               PROVE  \E n \in 0 .. 61 : /\ Is(text, n)
                                         /\ IsFrame(o, 5 + n, ControlType, status)
                                         /\ Has(o, 5, Word(net), 2)
                                         /\ Has(o, 7, <<1, src, dst>>, 3) /\ Has(o, 10, text, n)
  OBVIOUS
<1>2. PICK f : f = ControlFields(net, src, dst, text) OBVIOUS
<1>3. PICK t : t = <<1, src, dst>> OBVIOUS
<1>4. PICK n \in 0 .. 61 : /\ Is(text, n) /\ Is(f, 5 + n)
                           /\ Has(f, 0, Word(net), 2) /\ Has(f, 2, t, 3) /\ Has(f, 5, text, n)
  BY <1>2, <1>3, ControlFieldsAre
<1>5. PICK pre : pre = <<204, 34>> OBVIOUS
<1>6. IsFrame(o, 5 + n, 6, status) /\ Has(o, 5, f, 5 + n)
  <2>1. pre \in Preambles BY <1>5 DEF Preambles
  <2>2. o = Frame(pre, 6, status, f)
    BY <1>1, <1>2, <1>5 DEF ControlMessage, ControlFields, ControlType
  <2>3. 6 \in 1 .. 6 /\ 5 + n \in 4 .. 120 /\ Is(f, 5 + n) BY <1>4
  <2>4. QED BY <2>1, <2>2, <2>3, FrameShape
<1>7. 5 + n \in Nat /\ n \in Nat /\ 0 + 2 <= 5 + n /\ 2 + 3 <= 5 + n /\ 5 + n <= 5 + n OBVIOUS
<1>8. Has(o, 5 + 0, Word(net), 2) /\ Has(o, 5 + 2, t, 3) BY <1>4, <1>6, <1>7, Within
<1>9. Has(o, 5 + 5, text, n)
  <2>1. Has(f, 5, text, n) BY <1>4
  <2>2. QED BY <1>6, <1>7, <2>1, Within
<1>10. QED BY <1>3, <1>4, <1>6, <1>8, <1>9 DEF ControlType

-----------------------------------------------------------------------------
(* Readers.                                                                 *)
LEMMA WordRead ==
  ASSUME NEW m, NEW i \in Nat, NEW n \in Words, Has(m, i, Word(n), 2)
  PROVE  WordAt(m, i + 1) = n
<1>1. m[i + 1] = Word(n)[1] /\ m[i + 2] = Word(n)[2] BY DEF Has
<1>2. (i + 1) + 1 = i + 2 OBVIOUS
<1>3. QED BY <1>1, <1>2, WordIsOctets DEF WordAt

(* The l octets of m behind place i. *)
Part(m, i, l) == SubSeq(m, i + 1, i + l)

(* An array that stands in a buffer is read from there. *)
LEMMA ArrayRead ==
  ASSUME NEW m, NEW top, NEW i \in Nat, NEW x, NEW l \in Nat,
         Is(m, top), Is(x, l), Has(m, i, x, l), i + l <= top
  PROVE  Part(m, i, l) = x
<1>1. m \in Seq(Octets) /\ Len(m) = top /\ top \in Nat BY DEF Is
<1>2. PICK s : s = SubSeq(m, i + 1, i + l) OBVIOUS
<1>3. /\ s \in Seq(Octets) /\ Len(s) = l
      /\ \A k \in 1 .. l : s[k] = m[i + k]
  <2>1. CASE l = 0
    <3>1. s = <<>> BY <1>1, <1>2, <2>1
    <3>2. QED BY <2>1, <3>1
  <2>2. CASE l > 0
    <3>1. i + 1 \in 1 .. Len(m) /\ i + l \in 1 .. Len(m) BY <1>1, <2>2
    <3>2. QED BY <1>1, <1>2, <2>2, <3>1
  <2>3. QED BY <2>1, <2>2
<1>4. \A k \in 1 .. l : s[k] = x[k] BY <1>3 DEF Has
<1>5. x \in Seq(Octets) /\ Len(x) = l BY DEF Is
<1>6. s = x BY <1>3, <1>4, <1>5, SameOctets
<1>7. QED BY <1>2, <1>6 DEF Part

(* atoi understands the digits that ltoa wrote.                             *)
LEMMA NumberRead ==
  ASSUME NEW m, NEW top, NEW k, k \in Nat \ {0}, NEW n \in 0 .. 128, NEW d \in 1 .. 3,
         Is(m, top), Is(Digits(n), d), Has(m, k - 1, Digits(n), d),
         k + d <= top, ~IsDigit(m[k + d])
  PROVE  NumberAt(m, k) = n
<1>1. Len(m) = top /\ top \in Nat BY DEF Is
<1>2. /\ \A j \in 1 .. d : IsDigit(Digits(n)[j])
      /\ d = 1 => n = Digits(n)[1] - 48
      /\ d = 2 => n = 10 * (Digits(n)[1] - 48) + (Digits(n)[2] - 48)
      /\ d = 3 => n = 10 * (10 * (Digits(n)[1] - 48) + (Digits(n)[2] - 48))
                      + (Digits(n)[3] - 48)
  <2>1. PICK e \in 1 .. 3 :
           /\ Is(Digits(n), e)
           /\ \A j \in 1 .. e : IsDigit(Digits(n)[j])
           /\ e = 1 => n = Digits(n)[1] - 48
           /\ e = 2 => n = 10 * (Digits(n)[1] - 48) + (Digits(n)[2] - 48)
           /\ e = 3 => n = 10 * (10 * (Digits(n)[1] - 48) + (Digits(n)[2] - 48))
                           + (Digits(n)[3] - 48)
    BY DigitsAre
  <2>2. e = d BY <2>1 DEF Is
  <2>3. QED BY <2>1, <2>2
<1>3. \A j \in 0 .. (d - 1) : m[k + j] = Digits(n)[j + 1]
  <2>1. TAKE j \in 0 .. (d - 1)
  <2>2. j + 1 \in 1 .. d /\ (k - 1) + (j + 1) = k + j OBVIOUS
  <2>3. QED BY <2>2 DEF Has
<1>4. \A j \in 0 .. (d - 1) : IsDigit(m[k + j])
  <2>1. TAKE j \in 0 .. (d - 1)
  <2>2. j + 1 \in 1 .. d OBVIOUS
  <2>3. QED BY <1>2, <1>3, <2>2
<1>5. DigitsAt(m, k) = d
  <2> DEFINE P(e) == /\ \A j \in 0 .. (e - 1) : IsDigit(m[k + j])
                     /\ k + e <= Len(m) => ~IsDigit(m[k + e])
  <2>1. d \in 0 .. (Len(m) + 1 - k) /\ P(d) BY <1>1, <1>4
  <2>2. ASSUME NEW e \in 0 .. (Len(m) + 1 - k), P(e) PROVE e = d
    <3>1. e \in Nat /\ k + d <= Len(m) BY <1>1
    <3>2. ~(e < d)
      <4>1. SUFFICES ASSUME e < d PROVE FALSE OBVIOUS
      <4>2. e \in 0 .. (d - 1) /\ k + e <= Len(m) BY <3>1, <4>1
      <4>3. QED BY <1>4, <2>2, <4>2
    <3>3. ~(d < e)
      <4>1. SUFFICES ASSUME d < e PROVE FALSE OBVIOUS
      <4>2. d \in 0 .. (e - 1) BY <3>1, <4>1
      <4>3. QED BY <2>2, <4>2
    <3>4. QED BY <3>1, <3>2, <3>3
  <2>3. DigitsAt(m, k) = CHOOSE e \in 0 .. (Len(m) + 1 - k) : P(e) BY DEF DigitsAt
  <2> HIDE DEF P
  <2>4. QED BY <2>1, <2>2, <2>3
<1> DEFINE Rec(f) == f = [i \in 0 .. d |-> IF i = 0 THEN 0
                                           ELSE 10 * f[i - 1] + (m[k + i - 1] - 48)]
<1>7. \A i \in 1 .. d : m[k + i - 1] = Digits(n)[i] /\ m[k + i - 1] \in 48 .. 57
  <2>1. TAKE i \in 1 .. d
  <2>2. i - 1 \in 0 .. (d - 1) /\ k + (i - 1) = k + i - 1 /\ (i - 1) + 1 = i OBVIOUS
  <2>3. QED BY <1>3, <1>4, <2>2 DEF IsDigit
<1>8. ASSUME NEW f, Rec(f) PROVE f[d] = n
  <2>1. /\ f[0] = 0
        /\ \A i \in 1 .. d : f[i] = 10 * f[i - 1] + (m[k + i - 1] - 48)
    <3>1. 0 \in 0 .. d /\ \A i \in 1 .. d : i \in 0 .. d /\ i # 0 OBVIOUS
    <3>2. QED BY <1>8, <3>1
  <2>2. f[1] = 10 * f[0] + (Digits(n)[1] - 48) BY <1>7, <2>1
  <2>3. d > 1 => f[2] = 10 * f[1] + (Digits(n)[2] - 48) BY <1>7, <2>1
  <2>4. d > 2 => f[3] = 10 * f[2] + (Digits(n)[3] - 48) BY <1>7, <2>1
  <2>5. Digits(n)[1] \in Int /\ 1 \in 1 .. d BY <1>7
  <2>6. CASE d = 1 BY <1>2, <2>1, <2>2, <2>5, <2>6
  <2>7. CASE d = 2
    <3>1. f[2] = 10 * (Digits(n)[1] - 48) + (Digits(n)[2] - 48) BY <2>1, <2>2, <2>3, <2>5, <2>7
    <3>2. QED BY <1>2, <2>7, <3>1
  <2>8. CASE d = 3
    <3>1. f[3] = 10 * (10 * (Digits(n)[1] - 48) + (Digits(n)[2] - 48)) + (Digits(n)[3] - 48)
      BY <2>1, <2>2, <2>3, <2>4, <2>5, <2>8
    <3>2. QED BY <1>2, <2>8, <3>1
  <2>9. QED BY <2>6, <2>7, <2>8
<1>9. \E f : Rec(f)
  <2>1. PICK D : D = Digits(n) OBVIOUS
  <2> DEFINE f == [i \in 0 .. d |-> IF i = 0 THEN 0
                                    ELSE IF i = 1 THEN D[1] - 48
                                    ELSE IF i = 2 THEN 10 * (D[1] - 48) + (D[2] - 48)
                                    ELSE 10 * (10 * (D[1] - 48) + (D[2] - 48)) + (D[3] - 48)]
  <2>2. \A i \in 0 .. d : f[i] = IF i = 0 THEN 0 ELSE 10 * f[i - 1] + (m[k + i - 1] - 48)
    <3>1. TAKE i \in 0 .. d
    <3>2. CASE i = 0 BY <3>2
    <3>3. CASE i = 1
      <4>1. D[1] \in Int /\ m[k + i - 1] = D[1] BY <1>7, <2>1, <3>3
      <4>2. f[i] = D[1] - 48 /\ f[i - 1] = 0 BY <3>3
      <4>3. QED BY <3>3, <4>1, <4>2
    <3>4. CASE i = 2
      <4>1. m[k + i - 1] = D[2] BY <1>7, <2>1, <3>4
      <4>2. f[i] = 10 * (D[1] - 48) + (D[2] - 48) /\ f[i - 1] = D[1] - 48 BY <3>4
      <4>3. QED BY <3>4, <4>1, <4>2
    <3>5. CASE i = 3
      <4>1. m[k + i - 1] = D[3] BY <1>7, <2>1, <3>5
      <4>2. /\ f[i] = 10 * (10 * (D[1] - 48) + (D[2] - 48)) + (D[3] - 48)
            /\ f[i - 1] = 10 * (D[1] - 48) + (D[2] - 48)
        BY <3>5
      <4>3. QED BY <3>5, <4>1, <4>2
    <3>6. QED BY <3>2, <3>3, <3>4, <3>5
  <2>3. f = [i \in 0 .. d |-> f[i]] OBVIOUS
  <2> HIDE DEF f
  <2>4. Rec(f) BY <2>2, <2>3
  <2>5. QED BY <2>4
<1>10. NumberAt(m, k) = (CHOOSE f : Rec(f))[d] BY <1>5 DEF NumberAt
<1> HIDE DEF Rec
<1>11. QED BY <1>8, <1>9, <1>10

(* A buffer that begins with octets of a frame has the frame's fields.      *)
LEMMA Held ==
  ASSUME NEW m, NEW o, NEW l \in Nat, NEW i \in Nat, NEW x, NEW n \in Nat,
         Has(m, 0, o, l), Has(o, i, x, n), i + n <= l
  PROVE  Has(m, i, x, n)
<1>1. Has(m, 0 + i, x, n) BY Within
<1>2. QED BY <1>1

(* The fields that are arrays, in a buffer that reaches behind them.         *)
LEMMA FieldsRead ==
  ASSUME NEW m, NEW top, Is(m, top), top >= 44, NEW x
  PROVE  /\ Is(x, 6) /\ Has(m, 5, x, 6) => SubSeq(m, 6, 11) = x
         /\ Is(x, 6) /\ Has(m, 11, x, 6) => SubSeq(m, 12, 17) = x
         /\ Is(x, 10) /\ Has(m, 22, x, 10) => SubSeq(m, 23, 32) = x
         /\ Is(x, 10) /\ Has(m, 32, x, 10) => SubSeq(m, 33, 42) = x
<1>1. top \in Nat BY DEF Is
<1>2. Is(x, 6) /\ Has(m, 5, x, 6) => Part(m, 5, 6) = x BY <1>1, ArrayRead
<1>3. Is(x, 6) /\ Has(m, 11, x, 6) => Part(m, 11, 6) = x BY <1>1, ArrayRead
<1>4. Is(x, 10) /\ Has(m, 22, x, 10) => Part(m, 22, 10) = x BY <1>1, ArrayRead
<1>5. Is(x, 10) /\ Has(m, 32, x, 10) => Part(m, 32, 10) = x BY <1>1, ArrayRead
<1>6. /\ Part(m, 5, 6) = SubSeq(m, 6, 11) /\ Part(m, 11, 6) = SubSeq(m, 12, 17)
      /\ Part(m, 22, 10) = SubSeq(m, 23, 32) /\ Part(m, 32, 10) = SubSeq(m, 33, 42)
  BY DEF Part
<1>7. QED BY <1>2, <1>3, <1>4, <1>5, <1>6

(* A server or a client reads what was said. *)
THEOREM SyncRead ==
  ASSUME NEW s \in Syncs, NEW o, o = SyncMessage(s.net, s.time),
         NEW m, Has(m, 0, o, 17)
  PROVE  ReadSync(m) = s
<1>1. /\ s.net \in Words /\ s.time \in Words
      /\ s = [kind |-> "SYNC", net |-> s.net, time |-> s.time, access |-> 2]
  BY DEF Syncs
<1>2. Has(o, 5, Word(s.net), 2) /\ Has(o, 8, Word(s.time), 2) /\ Has(o, 10, <<2>>, 1)
  BY <1>1, SyncIs
<1>3. Has(m, 5, Word(s.net), 2) /\ Has(m, 8, Word(s.time), 2) /\ Has(m, 10, <<2>>, 1)
  BY <1>2, Held
<1>4. WordAt(m, 5 + 1) = s.net /\ WordAt(m, 8 + 1) = s.time BY <1>1, <1>3, WordRead
<1>5. m[11] = 2 BY <1>3 DEF Has
<1>6. QED BY <1>1, <1>4, <1>5 DEF ReadSync

(* comms_get_joinreq_data reads from any buffer that begins with the frame  *)
(* of comms_joinreq_message what was put into it.                           *)
THEOREM JoinReqRead ==
  ASSUME NEW s \in JoinReqs, NEW o,
         o = JoinReqMessage(s.mac, s.net, s.slots, s.user, s.password),
         NEW m, NEW top, Is(m, top), top >= 44, Has(m, 0, o, 44)
  PROVE  ReadJoinReq(m) = s
<1>1. /\ s.mac \in Addresses /\ s.net \in Words /\ s.slots \in Octets /\ s.user \in Names
      /\ s.password \in Names /\ CopyAddress(s.mac) = s.mac
      /\ s = [kind |-> "JOINREQ", mac |-> s.mac, net |-> s.net, slots |-> s.slots,
              user |-> s.user, password |-> s.password]
  BY DEF JoinReqs
<1>2. top \in Nat BY DEF Is
<1>3. /\ Has(o, 5, s.mac, 6) /\ Has(o, 17, Word(s.net), 2)
      /\ Has(o, 22, s.user, 10) /\ Has(o, 32, s.password, 10)
  BY <1>1, JoinReqIs
<1>4. PICK options \in Octets : Has(o, 19, <<0, options, s.slots>>, 3)
  BY <1>1, JoinReqIs
<1>5. Has(m, 5, s.mac, 6) /\ Has(m, 17, Word(s.net), 2) BY <1>3, Held
<1>6. Has(m, 22, s.user, 10) /\ Has(m, 32, s.password, 10) BY <1>3, Held
<1>7. Has(m, 19, <<0, options, s.slots>>, 3) BY <1>4, Held
<1>8. Is(s.mac, 6) /\ Is(s.user, 10) /\ Is(s.password, 10)
  BY <1>1, ArrayIs DEF Addresses, Names
<1>9. SubSeq(m, 6, 11) = s.mac BY <1>5, <1>8, FieldsRead
<1>10. SubSeq(m, 23, 32) = s.user BY <1>6, <1>8, FieldsRead
<1>11. SubSeq(m, 33, 42) = s.password BY <1>6, <1>8, FieldsRead
<1>12. WordAt(m, 17 + 1) = s.net BY <1>1, <1>5, WordRead
<1>13. m[22] = s.slots BY <1>7 DEF Has
<1>14. QED BY <1>1, <1>9, <1>10, <1>11, <1>12, <1>13 DEF ReadJoinReq

(* The queue entry of a STATUS frame lacks its last octet. *)
THEOREM StatusRead ==
  ASSUME NEW s \in Statuses, NEW o, o = StatusMessage(s.net, s.src, s.dst, s.text),
         NEW m, NEW top, Is(m, top), top >= 127, Has(m, 0, o, Len(o) - 1)
  PROVE  ReadStatus(m) = s
<1>1. /\ s.net \in Words /\ s.src \in Octets /\ s.dst \in Octets /\ s.text \in Texts
      /\ s = [kind |-> "STATUS", net |-> s.net, src |-> s.src, dst |-> s.dst, text |-> s.text]
  BY DEF Statuses
<1>2. top \in Nat BY DEF Is
<1>3. PICK n \in 0 .. 61 : /\ Is(s.text, n) /\ IsFrame(o, 4 + n, StatusType, 0)
                           /\ Has(o, 5, Word(s.net), 2) /\ Has(o, 7, <<s.src, s.dst>>, 2)
                           /\ Has(o, 9, s.text, n)
  BY <1>1, StatusIs
<1>4. Len(o) = n + 11 /\ LengthOf(o) = n + 6 BY <1>3 DEF IsFrame, Is, Proper
<1>5. PICK l : l = n + 10 OBVIOUS
<1>6. Has(m, 0, o, l) /\ l \in Nat BY <1>4, <1>5
<1>7. Has(m, 5, Word(s.net), 2) /\ Has(m, 7, <<s.src, s.dst>>, 2)
  <2>1. 5 + 2 <= l /\ 7 + 2 <= l BY <1>5
  <2>2. QED BY <1>3, <1>6, <2>1, Held
<1>8. Has(m, 9, s.text, n)
  <2>1. Has(o, 9, s.text, n) BY <1>3
  <2>2. 9 + n <= l /\ n \in Nat BY <1>5
  <2>3. QED BY <1>6, <2>1, <2>2, Held
<1>9. LengthOf(m) = n + 6 BY <1>4, <1>5, <1>6 DEF Has, LengthOf
<1>10. TextLength(m) = n BY <1>9 DEF TextLength
<1>11. SubSeq(m, 10, 9 + n) = s.text
  <2>1. 9 + n <= top /\ Is(s.text, n) /\ n \in Nat BY <1>2, <1>3
  <2>2. Part(m, 9, n) = s.text BY <1>8, <2>1, ArrayRead
  <2>3. QED BY <2>2 DEF Part
<1>12. WordAt(m, 5 + 1) = s.net BY <1>1, <1>7, WordRead
<1>13. m[8] = s.src /\ m[9] = s.dst BY <1>7 DEF Has
<1>14. QED BY <1>1, <1>10, <1>11, <1>12, <1>13 DEF ReadStatus

(* The id of a JOINRESP frame, a signed octet in text, is understood.       *)
LEMMA IdRead ==
  ASSUME NEW m, NEW top, NEW id \in Octets, NEW n \in 1 .. 4, Is(m, top), top >= 127,
         Is(Decimal(id), n), Has(m, 20, Decimal(id), n), m[21 + n] = CR
  PROVE  IdAt(m, 21) = id
<1>1. ~IsDigit(m[21 + n]) /\ top \in Nat BY DEF IsDigit, CR, Is
<1>2. m[21] = Decimal(id)[1] BY DEF Has
<1>3. CASE id < 128
  <2>1. Decimal(id) = Digits(id) /\ id \in 0 .. 128 BY <1>3, DecimalIs DEF Octets
  <2>2. PICK d \in 1 .. 3 : Is(Digits(id), d) /\ \A k \in 1 .. d : IsDigit(Digits(id)[k])
    BY <2>1, DigitsAre
  <2>3. d = n BY <2>1, <2>2 DEF Is
  <2>4. Has(m, 21 - 1, Digits(id), d) /\ ~IsDigit(m[21 + d]) /\ 21 + d <= top
    BY <1>1, <2>1, <2>3
  <2>5. NumberAt(m, 21) = id BY <2>1, <2>2, <2>4, NumberRead
  <2>6. m[21] # 45 BY <1>2, <2>1, <2>2 DEF IsDigit
  <2>7. IdAt(m, 21) = id % 256 BY <2>5, <2>6 DEF IdAt
  <2>8. QED BY <2>7 DEF Octets
<1>4. CASE ~(id < 128)
  <2>1. 256 - id \in 0 .. 128 /\ Decimal(id)[1] = 45
    <3>1. 256 - id \in 0 .. 128 BY <1>4 DEF Octets
    <3>2. Decimal(id)[1] = 45 BY <1>4, DecimalIs
    <3>3. QED BY <3>1, <3>2
  <2>2. PICK d \in 1 .. 3 : Is(Digits(256 - id), d) BY <2>1, DigitsAre
  <2>3. Decimal(id) = <<45>> \o Digits(256 - id) BY <1>4 DEF Decimal
  <2>4. Is(<<45>>, 1) BY OneIs DEF Octets
  <2>5. Joins(Decimal(id), <<45>>, 1, Digits(256 - id), d) BY <2>2, <2>3, <2>4, Parts
  <2>6. Is(Decimal(id), 1 + d) /\ Has(Decimal(id), 1, Digits(256 - id), d) BY <2>5, Latter
  <2>7. n = 1 + d BY <2>6 DEF Is
  <2>8. Has(m, 20 + 1, Digits(256 - id), d)
    <3>1. 1 + d <= n /\ d \in Nat /\ n \in Nat BY <2>7
    <3>2. QED BY <2>6, <3>1, Within
  <2>9. Has(m, 22 - 1, Digits(256 - id), d) /\ ~IsDigit(m[22 + d]) /\ 22 + d <= top
    BY <1>1, <2>7, <2>8
  <2>10. NumberAt(m, 22) = 256 - id BY <2>1, <2>2, <2>9, NumberRead
  <2>11. IdAt(m, 21) = (256 - (256 - id)) % 256 BY <1>2, <2>1, <2>10 DEF IdAt
  <2>12. (256 - (256 - id)) % 256 = id BY DEF Octets
  <2>13. QED BY <2>11, <2>12
<1>5. QED BY <1>3, <1>4

(* comms_get_joinresp_data reads the status, the address and the id of a    *)
(* JOINRESP as they were put in, although the id becomes a signed number in *)
(* digits on its way (ltoa, atoi).                                          *)
THEOREM JoinRespRead ==
  ASSUME NEW s \in JoinResps, NEW o,
         o = JoinRespMessage(s.status, s.server, s.mac, s.net, s.id),
         NEW m, NEW top, Is(m, top), top >= 127, Has(m, 0, o, Len(o))
  PROVE  ReadJoinResp(m) = [kind |-> s.kind, status |-> s.status, mac |-> s.mac, id |-> s.id]
<1>1. /\ s.status \in 0 .. 15 /\ s.server \in Addresses /\ s.mac \in Addresses
      /\ s.net \in Words /\ s.id \in Octets /\ s.kind = "JOINRESP"
  BY DEF JoinResps
<1>2. PICK n \in 1 .. 4 : /\ Is(Decimal(s.id), n) /\ IsFrame(o, 15 + n, JoinRespType, s.status)
                          /\ Has(o, 11, s.mac, 6) /\ Has(o, 20, Decimal(s.id), n)
  BY <1>1, JoinRespIs
<1>3. Len(o) = n + 22 /\ o[Len(o) - 1] = CR BY <1>2 DEF IsFrame, Is, Proper
<1>4. PICK l : l = n + 22 OBVIOUS
<1>5. Has(m, 0, o, l) /\ l \in Nat BY <1>3, <1>4
<1>6. Has(m, 11, s.mac, 6)
  <2>1. 11 + 6 <= l BY <1>4
  <2>2. QED BY <1>2, <1>5, <2>1, Held
<1>7. Has(m, 20, Decimal(s.id), n)
  <2>1. 20 + n <= l /\ n \in Nat /\ Has(o, 20, Decimal(s.id), n) BY <1>2, <1>4
  <2>2. QED BY <1>5, <2>1, Held
<1>8. m[21 + n] = CR
  <2>1. m[21 + n] = o[21 + n] BY <1>4, <1>5 DEF Has
  <2>2. QED BY <1>3, <2>1
<1>9. IdAt(m, 21) = s.id BY <1>1, <1>2, <1>7, <1>8, IdRead
<1>10. Is(s.mac, 6) BY <1>1, ArrayIs DEF Addresses
<1>11. SubSeq(m, 12, 17) = s.mac
  <2>1. top >= 44 BY DEF Is
  <2>2. QED BY <1>6, <1>10, <2>1, FieldsRead
<1>12. m[3] % 16 = s.status
  <2>1. m[3] = o[3] BY <1>4, <1>5 DEF Has
  <2>2. QED BY <1>2, <2>1 DEF IsFrame
<1>13. QED BY <1>1, <1>9, <1>11, <1>12 DEF ReadJoinResp

(* The text of a CONTRL frame is read to the next zero octet, less two: it  *)
(* begins with what was said.                                               *)
THEOREM ControlRead ==
  ASSUME NEW s \in Controls, NEW o,
         o = ControlMessage(s.net, s.status, s.src, s.dst, s.text),
         NEW m, NEW top, Is(m, top), top >= 127, Has(m, 0, o, Len(o)),
         NEW z \in 128 .. top, m[z] = 0
  PROVE  /\ DOMAIN ReadControl(m) = {"kind", "net", "src", "dst", "text"}
         /\ ReadControl(m).kind = s.kind /\ ReadControl(m).net = s.net
         /\ ReadControl(m).src = s.src /\ ReadControl(m).dst = s.dst
         /\ IsPrefix(s.text, ReadControl(m).text)
<1>1. /\ s.net \in Words /\ s.status \in 0 .. 15 /\ s.src \in Octets /\ s.dst \in Octets
      /\ s.text \in Texts /\ s.kind = "CONTRL"
  BY DEF Controls
<1>2. PICK n \in 0 .. 61 : /\ Is(s.text, n) /\ IsFrame(o, 5 + n, ControlType, s.status)
                           /\ Has(o, 5, Word(s.net), 2) /\ Has(o, 7, <<1, s.src, s.dst>>, 3)
                           /\ Has(o, 10, s.text, n)
  BY <1>1, ControlIs
<1>3. \A k \in 1 .. n : s.text[k] # 0
  <2>1. PICK e \in 0 .. 61 : Is(s.text, e) /\ \A k \in 1 .. e : s.text[k] # 0 BY <1>1, TextIs
  <2>2. e = n BY <1>2, <2>1 DEF Is
  <2>3. QED BY <2>1, <2>2
<1>4. Len(o) = n + 12 /\ o[Len(o) - 1] = CR /\ o[Len(o)] = LT
  BY <1>2 DEF IsFrame, Is, Proper
<1>5. PICK l : l = n + 12 OBVIOUS
<1>6. Has(m, 0, o, l) /\ l \in Nat BY <1>4, <1>5
<1>7. Has(m, 5, Word(s.net), 2) /\ Has(m, 7, <<1, s.src, s.dst>>, 3)
  <2>1. 5 + 2 <= l /\ 7 + 3 <= l BY <1>5
  <2>2. QED BY <1>2, <1>6, <2>1, Held
<1>8. Has(m, 10, s.text, n)
  <2>1. 10 + n <= l /\ n \in Nat /\ Has(o, 10, s.text, n) BY <1>2, <1>5
  <2>2. QED BY <1>6, <2>1, Held
<1>9. WordAt(m, 5 + 1) = s.net BY <1>1, <1>7, WordRead
<1>10. m[9] = s.src /\ m[10] = s.dst BY <1>7 DEF Has
<1>11. Len(m) = top /\ top \in Nat /\ m \in Seq(Octets) BY DEF Is
<1>12. \A k \in 11 .. (n + 12) : m[k] # 0
  <2>1. TAKE k \in 11 .. (n + 12)
  <2>2. CASE k <= n + 10
    <3>1. k - 10 \in 1 .. n /\ 10 + (k - 10) = k BY <2>2
    <3>2. m[k] = s.text[k - 10] BY <1>8, <3>1 DEF Has
    <3>3. QED BY <1>3, <3>1, <3>2
  <2>3. m[k] = o[k] BY <1>5, <1>6 DEF Has
  <2>4. CASE k = n + 11 BY <1>4, <2>3, <2>4 DEF CR
  <2>5. CASE k = n + 12 BY <1>4, <2>3, <2>5 DEF LT
  <2>6. QED BY <2>2, <2>4, <2>5
<1> DEFINE Zero(j) == m[j] = 0 /\ \A i \in 11 .. (j - 1) : m[i] # 0
<1>13. \E j \in 11 .. Len(m) : Zero(j)
  <2> DEFINE S == {j \in 11 .. top : m[j] = 0}
  <2>1. S \subseteq Nat /\ S # {}
    <3>1. z \in S BY <1>11
    <3>2. QED BY <3>1
  <2>2. PICK j \in S : \A i \in S : j <= i
    <3> HIDE DEF S
    <3>1. QED BY <2>1, LeastNumber
  <2>3. j \in 11 .. Len(m) /\ m[j] = 0 BY <1>11, <2>2
  <2>4. \A i \in 11 .. (j - 1) : m[i] # 0
    <3>1. SUFFICES ASSUME NEW i \in 11 .. (j - 1), m[i] = 0 PROVE FALSE OBVIOUS
    <3>2. i \in S BY <1>11, <2>3, <3>1
    <3>3. QED BY <2>2, <2>3, <3>2
  <2>5. QED BY <2>3, <2>4
<1>14. PICK j \in 11 .. Len(m) : Zero(j) /\ StrLen(m, 11) = j - 11
  <2>1. StrLen(m, 11) = (CHOOSE j \in 11 .. Len(m) : Zero(j)) - 11 BY DEF StrLen
  <2> HIDE DEF Zero
  <2>2. (CHOOSE j \in 11 .. Len(m) : Zero(j)) \in 11 .. Len(m)
        /\ Zero(CHOOSE j \in 11 .. Len(m) : Zero(j))
    BY <1>13
  <2>3. QED BY <2>1, <2>2
<1>15. j > n + 12
  <2>1. SUFFICES ASSUME ~(j > n + 12) PROVE FALSE OBVIOUS
  <2>2. j \in 11 .. (n + 12) BY <1>11, <1>14, <2>1
  <2>3. QED BY <1>12, <1>14, <2>2
<1>16. PICK t : t = SubSeq(m, 11, j - 3) OBVIOUS
<1>17. /\ t \in Seq(Octets) /\ Len(t) = j - 13 /\ n <= Len(t)
       /\ \A k \in 1 .. n : t[k] = m[10 + k]
  <2>1. j - 3 \in Int /\ j - 3 <= Len(m) /\ j \in Int BY <1>11, <1>14
  <2>2. QED BY <1>11, <1>15, <1>16, <2>1
<1>18. IsPrefix(s.text, t)
  <2>1. s.text \in Seq(Octets) /\ Len(s.text) = n BY <1>2 DEF Is
  <2>2. SubSeq(t, 1, n) = SubSeq(s.text, 1, n)
    <3>1. \A k \in 1 .. n : t[k] = s.text[k] BY <1>8, <1>17 DEF Has
    <3>2. QED BY <1>17, <2>1, <3>1
  <2>3. QED BY <1>17, <2>1, <2>2 DEF IsPrefix
<1>19. 8 + StrLen(m, 11) = j - 3 BY <1>11, <1>14
<1>20. ReadControl(m) = [kind |-> "CONTRL", net |-> s.net, src |-> s.src, dst |-> s.dst,
                         text |-> t]
  <2>1. WordAt(m, 6) = s.net BY <1>9
  <2>2. SubSeq(m, 11, 8 + StrLen(m, 11)) = t BY <1>16, <1>19
  <2>3. QED BY <1>10, <2>1, <2>2 DEF ReadControl
<1>21. QED BY <1>1, <1>18, <1>20

(* What every frame is like, and its type.                                  *)
THEOREM SayingIsProper ==
  ASSUME NEW o, NEW s, Saying(o, s)
  PROVE  /\ Proper(o) /\ Len(o) <= 73
         /\ \/ s.kind = "SYNC" /\ TypeOf(o) = SyncType
            \/ s.kind = "JOINREQ" /\ TypeOf(o) = JoinReqType
            \/ s.kind = "JOINRESP" /\ TypeOf(o) = JoinRespType
            \/ s.kind = "STATUS" /\ TypeOf(o) = StatusType
            \/ s.kind = "CONTRL" /\ TypeOf(o) = ControlType
<1>1. CASE s \in Syncs /\ o = SyncMessage(s.net, s.time)
  <2>1. s.kind = "SYNC" /\ s.net \in Words /\ s.time \in Words BY <1>1 DEF Syncs
  <2>2. IsFrame(o, 10, SyncType, 0) BY <1>1, <2>1, SyncIs
  <2>3. QED BY <2>1, <2>2 DEF IsFrame, Is
<1>2. CASE s \in JoinReqs /\ o = JoinReqMessage(s.mac, s.net, s.slots, s.user, s.password)
  <2>1. /\ s.kind = "JOINREQ" /\ s.mac \in Addresses /\ s.net \in Words /\ s.slots \in Octets
        /\ s.user \in Names /\ s.password \in Names /\ CopyAddress(s.mac) = s.mac
    BY <1>2 DEF JoinReqs
  <2>2. IsFrame(o, 37, JoinReqType, 0) BY <1>2, <2>1, JoinReqIs
  <2>3. QED BY <2>1, <2>2 DEF IsFrame, Is
<1>3. CASE s \in JoinResps /\ o = JoinRespMessage(s.status, s.server, s.mac, s.net, s.id)
  <2>1. /\ s.kind = "JOINRESP" /\ s.status \in 0 .. 15 /\ s.server \in Addresses
        /\ s.mac \in Addresses /\ s.net \in Words /\ s.id \in Octets
    BY <1>3 DEF JoinResps
  <2>2. PICK n \in 1 .. 4 : IsFrame(o, 15 + n, JoinRespType, s.status)
    BY <1>3, <2>1, JoinRespIs
  <2>3. QED BY <2>1, <2>2 DEF IsFrame, Is
<1>4. CASE s \in Statuses /\ o = StatusMessage(s.net, s.src, s.dst, s.text)
  <2>1. /\ s.kind = "STATUS" /\ s.net \in Words /\ s.src \in Octets /\ s.dst \in Octets
        /\ s.text \in Texts
    BY <1>4 DEF Statuses
  <2>2. PICK n \in 0 .. 61 : IsFrame(o, 4 + n, StatusType, 0) BY <1>4, <2>1, StatusIs
  <2>3. QED BY <2>1, <2>2 DEF IsFrame, Is
<1>5. CASE s \in Controls /\ o = ControlMessage(s.net, s.status, s.src, s.dst, s.text)
  <2>1. /\ s.kind = "CONTRL" /\ s.net \in Words /\ s.status \in 0 .. 15 /\ s.src \in Octets
        /\ s.dst \in Octets /\ s.text \in Texts
    BY <1>5 DEF Controls
  <2>2. PICK n \in 0 .. 61 : IsFrame(o, 5 + n, ControlType, s.status) BY <1>5, <2>1, ControlIs
  <2>3. Proper(o) /\ Len(o) = (5 + n) + 7 /\ TypeOf(o) = ControlType BY <2>2 DEF IsFrame, Is
  <2>4. Len(o) <= 73 BY <2>3
  <2>5. QED BY <2>1, <2>3, <2>4, Zenon
<1>6. QED BY <1>1, <1>2, <1>3, <1>4, <1>5 DEF Saying
=============================================================================
