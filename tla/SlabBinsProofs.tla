--------------------------- MODULE SlabBinsProofs ---------------------------
(***************************************************************************)
(* Proofs about the lists and bitmaps of an arena as they are in memory,   *)
(* for any number of chunks, any classes and any size of words: every list *)
(* is a ring of just the chunks that belong there, any() and all() are     *)
(* right, pointers and words do what sequences and sets do in Arena, and   *)
(* the collection misses no chunk of the list it takes apart.              *)
(***************************************************************************)
EXTENDS SlabBins, SequenceTheorems, WellFoundedInduction, TLAPS

-----------------------------------------------------------------------------
(* Numbers *)

\* A nonempty set of numbers has a least element.
LEMMA LeastElement ==
  ASSUME NEW S \in SUBSET Nat, S # {}
  PROVE  \E i \in S : \A j \in S : i <= j
<1> DEFINE less == { p \in Nat \X Nat : p[1] < p[2] }
<1>1. IsWellFoundedOn(less, Nat) BY NatLessThanWellFounded DEF OpToRel
<1>2. PICK i \in S : \A j \in S : <<j, i>> \notin less
  <2> HIDE DEF less
  <2> QED BY <1>1, WFMin
<1>3. \A j \in S : ~(j < i) BY <1>2
<1> QED BY <1>3

\* Multiplying by a size that is a constant of the model: the provers need it
\* said of plain numbers.
LEMMA Scaled ==
  ASSUME NEW a \in Nat, NEW b \in Nat, NEW k \in Nat
  PROVE  /\ a * k \in Nat /\ (a + b) * k = a * k + b * k /\ (a + 1) * k = a * k + k
         /\ a <= b => a * k <= b * k
         /\ k > 0 => a <= a * k /\ (a * k) \div k = a
OBVIOUS

\* A number is its quotient and its rest.
LEMMA Divided ==
  ASSUME NEW n \in Nat, NEW k \in Nat \ {0}
  PROVE  /\ n \div k \in Nat /\ n % k \in Nat
         /\ n = (n \div k) * k + (n % k) /\ n % k < k
OBVIOUS

-----------------------------------------------------------------------------
(* Bitmaps *)

\* The bit b of the word i.
LEMMA Split ==
  ASSUME NEW k \in Nat \ {0}, NEW i \in Nat, NEW b \in 0..(k - 1)
  PROVE  i * k + b \in Nat /\ (i * k + b) \div k = i /\ (i * k + b) % k = b
<1>1. PICK z \in Nat : z = i * k BY Scaled
<1>2. (i * k + b) \div k = i OBVIOUS
<1>3. z + b \in Nat /\ z + b = ((z + b) \div k) * k + ((z + b) % k) /\ (z + b) % k \in Nat
  BY <1>1, Divided
<1>4. z + b = i * k + ((z + b) % k) BY <1>1, <1>2, <1>3
<1> QED BY <1>1, <1>2, <1>3, <1>4

\* The word and the bit of a region.
LEMMA Join ==
  ASSUME NEW k \in Nat \ {0}, NEW pos \in Nat
  PROVE  /\ pos \div k \in Nat /\ pos % k \in 0..(k - 1)
         /\ pos = (pos \div k) * k + (pos % k)
BY Divided

\* Regions of earlier words are before those of later ones.
LEMMA InOrder ==
  ASSUME NEW k \in Nat \ {0}, NEW i \in Nat, NEW j \in Nat, i < j,
         NEW b \in 0..(k - 1), NEW c \in 0..(k - 1)
  PROVE  i * k + b < j * k + c
<1>1. i + 1 <= j BY SMT
<1>2. PICK x \in Nat, y \in Nat : x = i * k /\ y = j * k BY Scaled
<1>3. (i + 1) * k = x + k BY <1>2, Scaled
<1>4. (i + 1) * k <= y BY <1>1, <1>2, Scaled
<1> QED BY <1>2, <1>3, <1>4

\* The words that count.
LEMMA WordOf ==
  ASSUME NEW k \in Nat \ {0}, NEW n \in Nat \ {0}, NEW pos \in Nat
  PROVE  /\ (n - 1) \div k \in Nat
         /\ pos < n => pos \div k <= (n - 1) \div k
         /\ pos \div k < (n - 1) \div k => pos < n
<1>1. PICK l \in Nat, c \in 0..(k - 1) : l = (n - 1) \div k /\ n - 1 = l * k + c
  <2>1. n - 1 \in Nat OBVIOUS
  <2> QED BY <2>1, Join
<1>2. PICK i \in Nat, b \in 0..(k - 1) : i = pos \div k /\ pos = i * k + b BY Join
<1>3. l < i => n - 1 < pos BY <1>1, <1>2, InOrder
<1>4. i < l => pos < n - 1 BY <1>1, <1>2, InOrder
<1> QED BY <1>1, <1>2, <1>3, <1>4

\* A bitmap that was made for a slab: bits of the last word that do not count
\* are 0, whatever is in the words behind it.
BitmapOK(m) ==
  /\ m \in [bits : [B!Words -> SUBSET B!Ones], num : 1..(kLongBits * kArraySize)]
  /\ \A b \in m.bits[B!last_index(m)] : B!last_index(m) * kLongBits + b < m.num

\* Zero, of a Chunk that was none yet, or made for a slab.
BitmapType(m) == m = B!Zero \/ BitmapOK(m)

LEMMA Sizes ==
  /\ kLongBits \in Nat \ {0} /\ kArraySize \in Nat \ {0} /\ kLongBits * kArraySize \in Nat
  /\ kLongBits * kArraySize = kArraySize * kLongBits
<1>1. PICK k \in Nat, a \in Nat : k = kLongBits /\ a = kArraySize BY SlabAssumption
<1>2. k * a \in Nat /\ k * a = a * k BY Scaled
<1> QED BY <1>1, <1>2, SlabAssumption

LEMMA LastWord ==
  ASSUME NEW n \in 1..(kLongBits * kArraySize)
  PROVE  (n - 1) \div kLongBits \in B!Words
<1>1. PICK k \in Nat \ {0}, a \in Nat \ {0} : k = kLongBits /\ a = kArraySize /\ k * a = a * k
  BY Sizes
<1>2. n \in Nat \ {0} /\ n <= a * k /\ n - 1 \in Nat BY <1>1, Sizes
<1>3. PICK i \in Nat, b \in 0..(k - 1) : i = (n - 1) \div k /\ n - 1 = i * k + b BY <1>2, Join
<1>4. ASSUME a <= i PROVE FALSE
  <2>1. a * k <= i * k /\ i * k \in Nat BY <1>4, Scaled
  <2> QED BY <1>2, <1>3, <2>1
<1> QED BY <1>1, <1>3, <1>4 DEF B!Words

\* What is known of the words that count, and of the regions of a slab.
LEMMA BitmapShape ==
  ASSUME NEW m, BitmapOK(m)
  PROVE  /\ m.num \in Nat \ {0} /\ B!last_index(m) \in B!Words
         /\ \A i \in 0..B!last_index(m) : i \in B!Words /\ m.bits[i] \subseteq B!Ones
<1>1. m.num \in 1..(kLongBits * kArraySize) BY DEF BitmapOK
<1>2. B!last_index(m) \in B!Words BY <1>1, LastWord DEF B!last_index
<1>3. \A i \in 0..B!last_index(m) : i \in B!Words BY <1>2, Sizes DEF B!Words
<1> QED BY <1>1, <1>2, <1>3, Sizes DEF BitmapOK

\* The bits of the words that count are the free regions.
LEMMA BitsAreRegions ==
  ASSUME NEW m, BitmapOK(m)
  PROVE  /\ \A i \in 0..B!last_index(m) : \A b \in m.bits[i] :
              i * kLongBits + b \in B!Free(m)
         /\ \A pos \in B!Free(m) :
              /\ pos \div kLongBits \in 0..B!last_index(m)
              /\ pos % kLongBits \in m.bits[pos \div kLongBits]
<1>1. PICK k \in Nat \ {0}, n \in Nat \ {0}, l \in Nat :
        k = kLongBits /\ n = m.num /\ l = B!last_index(m)
  BY BitmapShape, Sizes DEF B!Words
<1>2. l = (n - 1) \div k BY <1>1 DEF B!last_index
<1>3. ASSUME NEW i \in 0..l, NEW b \in m.bits[i]
      PROVE  i * k + b \in B!Free(m)
  <2>1. i \in Nat /\ b \in 0..(k - 1) BY <1>1, <1>3, BitmapShape DEF B!Ones
  <2>2. PICK p \in Nat : p = i * k + b /\ p \div k = i /\ p % k = b BY <2>1, Split
  <2>3. p < n
    <3>1. CASE i = l BY <1>1, <1>3, <2>2, <3>1 DEF BitmapOK
    <3>2. CASE i < l BY <1>2, <2>2, <3>2, WordOf
    <3> QED BY <1>1, <1>3, <3>1, <3>2
  <2> QED BY <1>1, <1>3, <2>2, <2>3 DEF B!Free, B!test
<1>4. ASSUME NEW pos \in B!Free(m)
      PROVE  pos \div k \in 0..l /\ pos % k \in m.bits[pos \div k]
  <2>1. pos \in Nat /\ pos < n /\ pos % k \in m.bits[pos \div k] BY <1>1 DEF B!Free, B!test
  <2>2. pos \div k \in Nat /\ pos \div k <= l BY <1>2, <2>1, WordOf, Join
  <2> QED BY <2>1, <2>2
<1> QED BY <1>1, <1>3, <1>4

LEMMA AnyIs ==
  ASSUME NEW m, BitmapOK(m)
  PROVE  B!any(m) <=> B!Free(m) # {}
BY BitsAreRegions DEF B!any

LEMMA AllIs ==
  ASSUME NEW m, BitmapOK(m)
  PROVE  B!all(m) <=> B!Free(m) = 0..(m.num - 1)
<1>1. PICK k \in Nat \ {0}, n \in Nat \ {0}, l \in Nat :
        k = kLongBits /\ n = m.num /\ l = B!last_index(m)
  BY BitmapShape, Sizes DEF B!Words
<1>2. l = (n - 1) \div k BY <1>1 DEF B!last_index
<1>3. B!Ones = 0..(k - 1) BY <1>1 DEF B!Ones
\* how many bits of the last word count
<1>4. PICK c \in 0..(k - 1) : n - 1 = l * k + c
  <2>1. n - 1 \in Nat OBVIOUS
  <2> QED BY <1>2, <2>1, Join
<1>5. PICK z \in Nat : z = l * k BY Scaled
<1>6. (IF n % k = 0 THEN B!Ones ELSE B!LowBits(B!Ones, n % k)) = 0..c
  <2>1. CASE c < k - 1
    <3>1. c + 1 \in 0..(k - 1) /\ n = l * k + (c + 1) BY <1>4, <1>5, <2>1
    <3>2. n % k = c + 1 BY <3>1, Split
    <3>3. B!LowBits(0..(k - 1), c + 1) = 0..c BY <3>1 DEF B!LowBits
    <3>4. c + 1 # 0 BY <3>1
    <3> QED BY <1>3, <3>2, <3>3, <3>4
  <2>2. CASE c = k - 1
    <3>1. n = z + k BY <1>4, <1>5, <2>2
    <3>2. (l + 1) * k + 0 = z + k /\ l + 1 \in Nat BY <1>5, Scaled
    <3>3. ((l + 1) * k + 0) % k = 0
      <4>1. 0 \in 0..(k - 1) OBVIOUS
      <4> QED BY <3>2, <4>1, Split
    <3> QED BY <1>3, <2>2, <3>1, <3>2, <3>3
  <2> QED BY <2>1, <2>2
<1>7. B!all(m) <=> /\ \A i \in 0..(l - 1) : m.bits[i] = 0..(k - 1)
                   /\ m.bits[l] = 0..c
  BY <1>1, <1>3, <1>6 DEF B!all
<1>8. ASSUME B!all(m) PROVE B!Free(m) = 0..(n - 1)
  <2>1. ASSUME NEW pos \in 0..(n - 1) PROVE pos \in B!Free(m)
    <3>1. PICK i \in Nat, b \in 0..(k - 1) : i = pos \div k /\ b = pos % k /\ pos = i * k + b
      BY Join
    <3>2. i <= l BY <1>2, <3>1, WordOf
    <3>3. i = l => b <= c BY <1>4, <1>5, <3>1
    <3>4. b \in m.bits[i] BY <1>7, <1>8, <3>1, <3>2, <3>3
    <3> QED BY <1>1, <3>1, <3>4 DEF B!Free, B!test
  <2> QED BY <1>1, <2>1 DEF B!Free
<1>9. ASSUME B!Free(m) = 0..(n - 1) PROVE B!all(m)
  <2>1. ASSUME NEW i \in 0..l, NEW b \in 0..(k - 1), i = l => b <= c PROVE b \in m.bits[i]
    <3>1. PICK p \in Nat : p = i * k + b /\ p \div k = i /\ p % k = b BY <2>1, Split
    <3>2. p < n
      <4>1. CASE i = l BY <1>4, <1>5, <2>1, <3>1, <4>1
      <4>2. CASE i < l BY <1>2, <3>1, <4>2, WordOf
      <4> QED BY <4>1, <4>2
    <3>3. p \in B!Free(m) BY <1>9, <3>2
    <3>4. p % k \in m.bits[p \div k] BY <1>1, <3>3 DEF B!Free, B!test
    <3> QED BY <3>1, <3>4
  <2>2. ASSUME NEW i \in 0..l PROVE m.bits[i] \subseteq 0..(k - 1)
    BY <1>1, <1>3, BitmapShape
  <2>3. ASSUME NEW b \in m.bits[l] PROVE b <= c
    <3>1. b \in 0..(k - 1) BY <2>2, <2>3
    <3>2. l * k + b < n BY <1>1, <2>3 DEF BitmapOK
    <3> QED BY <1>4, <1>5, <3>1, <3>2
  <2>4. m.bits[l] = 0..c
    <3>1. \A b \in 0..c : b \in m.bits[l] BY <2>1
    <3>2. \A b \in m.bits[l] : b \in 0..c BY <2>2, <2>3
    <3> QED BY <3>1, <3>2
  <2>5. ASSUME NEW i \in 0..(l - 1) PROVE m.bits[i] = 0..(k - 1)
    <3>1. i \in 0..l /\ i # l OBVIOUS
    <3>2. \A b \in 0..(k - 1) : b \in m.bits[i] BY <2>1, <3>1
    <3>3. m.bits[i] \subseteq 0..(k - 1) BY <2>2, <3>1
    <3> QED BY <3>2, <3>3
  <2> QED BY <1>7, <2>4, <2>5
<1> QED BY <1>1, <1>8, <1>9

\* init: all regions are free.
LEMMA InitBits ==
  ASSUME NEW n \in 1..(kLongBits * kArraySize)
  PROVE  BitmapOK(B!init(n)) /\ B!Free(B!init(n)) = 0..(n - 1) /\ B!init(n).num = n
<1>1. PICK k \in Nat \ {0} : k = kLongBits BY Sizes
<1>2. PICK m : m = B!init(n) OBVIOUS
<1>3. PICK l \in B!Words : l = (n - 1) \div k /\ l \in Nat
  BY <1>1, LastWord, Sizes DEF B!Words
<1>4. B!Ones = 0..(k - 1) BY <1>1 DEF B!Ones
<1>5. /\ m.num = n /\ m = [bits |-> m.bits, num |-> n]
      /\ m.bits = [i \in B!Words |-> IF n % k # 0 /\ i = l THEN B!LowBits(B!Ones, n % k)
                                    ELSE B!Ones]
  BY <1>1, <1>2, <1>3 DEF B!init
<1>6. B!LowBits(B!Ones, n % k) \subseteq B!Ones BY DEF B!LowBits
<1>7. m \in [bits : [B!Words -> SUBSET B!Ones], num : 1..(kLongBits * kArraySize)]
  BY <1>5, <1>6
<1>8. B!last_index(m) = l BY <1>1, <1>3, <1>5 DEF B!last_index
<1>9. PICK c \in 0..(k - 1), z \in Nat : z = l * k /\ n - 1 = z + c
  <2>1. n - 1 \in Nat BY Sizes
  <2>2. PICK c \in 0..(k - 1) : n - 1 = l * k + c BY <1>3, <2>1, Join
  <2>3. l * k \in Nat BY <1>3, Scaled
  <2> QED BY <2>2, <2>3
<1>10. n % k = IF c = k - 1 THEN 0 ELSE c + 1
  <2>1. CASE c < k - 1
    <3>1. c + 1 \in 0..(k - 1) /\ n = l * k + (c + 1) BY <1>9, <2>1, Sizes
    <3>2. n % k = c + 1 BY <1>3, <3>1, Split
    <3> QED BY <2>1, <3>2
  <2>2. CASE c = k - 1
    <3>1. n = (l + 1) * k + 0 /\ l + 1 \in Nat
      <4>1. (l + 1) * k = z + k BY <1>3, <1>9, Scaled
      <4> QED BY <1>3, <1>9, <2>2, <4>1, Sizes
    <3>2. 0 \in 0..(k - 1) OBVIOUS
    <3>3. n % k = 0 BY <3>1, <3>2, Split
    <3> QED BY <2>2, <3>3
  <2> QED BY <2>1, <2>2
<1>11. m.bits[l] = 0..c
  <2>1. CASE c = k - 1 BY <1>4, <1>5, <1>10, <2>1
  <2>2. CASE c # k - 1
    <3>1. B!LowBits(0..(k - 1), c + 1) = 0..c BY <2>2 DEF B!LowBits
    <3>2. n % k # 0 /\ n % k = c + 1 BY <1>10, <2>2
    <3> QED BY <1>4, <1>5, <3>1, <3>2
  <2> QED BY <2>1, <2>2
<1>12. \A b \in m.bits[l] : l * kLongBits + b < m.num
  <2>1. \A b \in 0..c : z + b < n BY <1>9, Sizes
  <2> QED BY <1>1, <1>5, <1>9, <1>11, <2>1
<1>13. BitmapOK(m) BY <1>7, <1>8, <1>12 DEF BitmapOK
<1>14. \A i \in B!Words : i # l => m.bits[i] = B!Ones BY <1>5
<1>15. B!all(m)
  <2>1. \A i \in 0..(l - 1) : m.bits[i] = B!Ones
    <3>1. \A i \in 0..(l - 1) : i \in B!Words /\ i # l BY <1>3, Sizes DEF B!Words
    <3> QED BY <1>14, <3>1
  <2>2. m.bits[l] = IF n % k = 0 THEN B!Ones ELSE B!LowBits(B!Ones, n % k) BY <1>5
  <2> QED BY <1>1, <1>5, <1>8, <2>1, <2>2 DEF B!all
<1> QED BY <1>2, <1>5, <1>13, <1>15, AllIs

\* The region pos is the bit pos % kLongBits of its word, and nobody else's.
LEMMA OneBit ==
  ASSUME NEW m, BitmapOK(m), NEW pos \in 0..(m.num - 1),
         NEW w \in SUBSET B!Ones, NEW r, r = [m EXCEPT !.bits[pos \div kLongBits] = w],
         \A b \in B!Ones : b # pos % kLongBits => (b \in w <=> b \in m.bits[pos \div kLongBits])
  PROVE  /\ BitmapOK(r) /\ r.num = m.num
         /\ \A q \in 0..(m.num - 1) : q # pos => (q \in B!Free(r) <=> q \in B!Free(m))
         /\ pos \in B!Free(r) <=> pos % kLongBits \in w
<1>1. PICK k \in Nat \ {0}, n \in Nat \ {0}, l \in Nat :
        k = kLongBits /\ n = m.num /\ l = B!last_index(m)
  BY BitmapShape, Sizes DEF B!Words
<1>2. l = (n - 1) \div k BY <1>1 DEF B!last_index
<1>3. pos \in Nat /\ pos < n BY <1>1
<1>4. PICK i \in Nat, b \in 0..(k - 1) : i = pos \div k /\ b = pos % k /\ pos = i * k + b
  BY <1>3, Join
<1>5. i <= l BY <1>2, <1>3, <1>4, WordOf
<1>6. i \in B!Words BY <1>1, <1>4, <1>5, BitmapShape
<1>7. B!Ones = 0..(k - 1) BY <1>1 DEF B!Ones
<1>8. /\ m.bits \in [B!Words -> SUBSET B!Ones] /\ m = [bits |-> m.bits, num |-> n]
      /\ n \in 1..(kLongBits * kArraySize)
  BY <1>1 DEF BitmapOK
<1>9. r = [m EXCEPT !.bits[i] = w] BY <1>1, <1>4
<1>10. r = [bits |-> [m.bits EXCEPT ![i] = w], num |-> n]
  <2>1. PICK f : f = m.bits OBVIOUS
  <2>2. m = [bits |-> f, num |-> n] BY <1>8, <2>1
  <2> QED BY <1>9, <2>1, <2>2
<1>11. r.num = n /\ r.bits[i] = w /\ r.bits \in [B!Words -> SUBSET B!Ones]
  <2>1. r.num = n /\ r.bits = [m.bits EXCEPT ![i] = w] BY <1>10
  <2>2. PICK f \in [B!Words -> SUBSET B!Ones] : f = m.bits BY <1>8
  <2>3. [f EXCEPT ![i] = w] \in [B!Words -> SUBSET B!Ones] /\ [f EXCEPT ![i] = w][i] = w
    BY <1>6
  <2> QED BY <2>1, <2>2, <2>3
<1>12. \A j \in B!Words : j # i => r.bits[j] = m.bits[j] BY <1>8, <1>10
<1>13. B!last_index(r) = l BY <1>1, <1>11 DEF B!last_index
<1>14. ASSUME NEW c \in r.bits[l] PROVE l * k + c < n
  <2>1. l \in B!Words BY <1>1, BitmapShape
  <2>2. c \in 0..(k - 1) BY <1>7, <1>11, <1>14, <2>1
  <2>3. CASE c \in m.bits[l] BY <1>1, <2>3 DEF BitmapOK
  <2>4. CASE c \notin m.bits[l]
    <3>1. l = i BY <1>12, <1>14, <2>1, <2>4
    <3>2. c = b BY <1>1, <1>4, <1>7, <1>11, <1>14, <2>2, <2>4, <3>1
    <3> QED BY <1>3, <1>4, <3>1, <3>2
  <2> QED BY <2>3, <2>4
<1>15. r \in [bits : [B!Words -> SUBSET B!Ones], num : 1..(kLongBits * kArraySize)]
  BY <1>8, <1>10, <1>11
<1>16. BitmapOK(r) BY <1>1, <1>11, <1>13, <1>14, <1>15 DEF BitmapOK
<1>17. ASSUME NEW q \in 0..(n - 1), q # pos PROVE q \in B!Free(r) <=> q \in B!Free(m)
  <2>1. q \in Nat /\ q < n OBVIOUS
  <2>2. PICK j \in Nat, c \in 0..(k - 1) : j = q \div k /\ c = q % k /\ q = j * k + c
    BY <2>1, Join
  <2>3. j \in B!Words
    <3>1. j <= l BY <1>2, <2>1, <2>2, WordOf
    <3> QED BY <1>1, <2>2, <3>1, BitmapShape
  <2>4. j = i => c # b BY <1>4, <1>17, <2>2
  <2>5. c \in r.bits[j] <=> c \in m.bits[j] BY <1>1, <1>4, <1>7, <1>11, <1>12, <2>3, <2>4
  <2>6. q \in B!Free(r) <=> c \in r.bits[j] BY <1>1, <1>11, <2>2 DEF B!Free, B!test
  <2>7. q \in B!Free(m) <=> c \in m.bits[j] BY <1>1, <2>2 DEF B!Free, B!test
  <2> QED BY <2>5, <2>6, <2>7
<1>18. pos \in B!Free(r) <=> pos % k \in w BY <1>1, <1>3, <1>4, <1>11 DEF B!Free, B!test
<1> QED BY <1>1, <1>11, <1>16, <1>17, <1>18

LEMMA BitOfRegion ==
  ASSUME NEW m, BitmapOK(m), NEW pos \in 0..(m.num - 1)
  PROVE  /\ pos % kLongBits \in B!Ones
         /\ m.bits[pos \div kLongBits] \subseteq B!Ones
<1>1. PICK k \in Nat \ {0}, n \in Nat \ {0}, l \in Nat :
        k = kLongBits /\ n = m.num /\ l = (n - 1) \div k /\ l = B!last_index(m)
  BY BitmapShape, Sizes DEF B!Words, B!last_index
<1>2. PICK p \in Nat : p = pos /\ p < n BY <1>1
<1>3. p \div k \in Nat /\ p % k \in 0..(k - 1) /\ p \div k <= l
  <2>1. p \div k \in Nat /\ p % k \in 0..(k - 1) BY <1>2, Join
  <2>2. p \div k <= l BY <1>1, <1>2, WordOf
  <2> QED BY <2>1, <2>2
<1>4. p \div k \in 0..l BY <1>3
<1> QED BY <1>1, <1>2, <1>3, <1>4, BitmapShape DEF B!Ones

LEMMA SetBits ==
  ASSUME NEW m, BitmapOK(m), NEW pos \in 0..(m.num - 1)
  PROVE  /\ BitmapOK(B!set(m, pos)) /\ B!set(m, pos).num = m.num
         /\ B!Free(B!set(m, pos)) = B!Free(m) \cup {pos}
<1>1. PICK w, r : /\ w = m.bits[pos \div kLongBits] \cup {pos % kLongBits}
                  /\ r = B!set(m, pos)
  OBVIOUS
<1>2. r = [m EXCEPT !.bits[pos \div kLongBits] = w] BY <1>1 DEF B!set
<1>3. w \in SUBSET B!Ones BY <1>1, BitOfRegion
<1>4. /\ BitmapOK(r) /\ r.num = m.num
      /\ \A q \in 0..(m.num - 1) : q # pos => (q \in B!Free(r) <=> q \in B!Free(m))
      /\ pos \in B!Free(r) <=> pos % kLongBits \in w
  <2>1. \A b \in B!Ones : b # pos % kLongBits =>
          (b \in w <=> b \in m.bits[pos \div kLongBits])
    BY <1>1
  <2> QED BY <1>2, <1>3, <2>1, OneBit
<1>5. B!Free(r) \subseteq 0..(m.num - 1) /\ B!Free(m) \subseteq 0..(m.num - 1)
  BY <1>4 DEF B!Free
<1>6. B!Free(r) = B!Free(m) \cup {pos} BY <1>1, <1>4, <1>5
<1> QED BY <1>1, <1>4, <1>6

LEMMA ResetBits ==
  ASSUME NEW m, BitmapOK(m), NEW pos \in 0..(m.num - 1)
  PROVE  /\ BitmapOK(B!reset(m, pos)) /\ B!reset(m, pos).num = m.num
         /\ B!Free(B!reset(m, pos)) = B!Free(m) \ {pos}
<1>1. PICK w, r : /\ w = m.bits[pos \div kLongBits] \ {pos % kLongBits}
                  /\ r = B!reset(m, pos)
  OBVIOUS
<1>2. r = [m EXCEPT !.bits[pos \div kLongBits] = w] BY <1>1 DEF B!reset
<1>3. w \in SUBSET B!Ones BY <1>1, BitOfRegion
<1>4. /\ BitmapOK(r) /\ r.num = m.num
      /\ \A q \in 0..(m.num - 1) : q # pos => (q \in B!Free(r) <=> q \in B!Free(m))
      /\ pos \in B!Free(r) <=> pos % kLongBits \in w
  <2>1. \A b \in B!Ones : b # pos % kLongBits =>
          (b \in w <=> b \in m.bits[pos \div kLongBits])
    BY <1>1
  <2> QED BY <1>2, <1>3, <2>1, OneBit
<1>5. B!Free(r) \subseteq 0..(m.num - 1) /\ B!Free(m) \subseteq 0..(m.num - 1)
  BY <1>4 DEF B!Free
<1>6. B!Free(r) = B!Free(m) \ {pos} BY <1>1, <1>4, <1>5
<1> QED BY <1>1, <1>4, <1>6

\* ffs: the first bit of the first word is the least free region.
LEMMA FfsIs ==
  ASSUME NEW m, BitmapOK(m), B!Free(m) # {}
  PROVE  B!ffs(m) \in B!Free(m) /\ \A pos \in B!Free(m) : B!ffs(m) <= pos
<1>1. PICK k \in Nat \ {0}, l \in Nat : k = kLongBits /\ l = B!last_index(m)
  BY BitmapShape, Sizes DEF B!Words
<1> DEFINE S == { i \in 0..l : m.bits[i] # {} }
           First(i) == i \in B!Words /\ m.bits[i] # {} /\ \A j \in 0..(i - 1) : m.bits[j] = {}
<1>2. S \in SUBSET Nat /\ S # {}
  <2>1. B!any(m) BY AnyIs
  <2> QED BY <1>1, <2>1 DEF B!any
<1>3. PICK f \in S : \A i \in S : f <= i BY <1>2, LeastElement
<1>4. f \in 0..l /\ First(f)
  <2>1. f \in 0..l /\ m.bits[f] # {} OBVIOUS
  <2>2. f \in B!Words BY <1>1, <2>1, BitmapShape
  <2>3. ASSUME NEW j \in 0..(f - 1), m.bits[j] # {} PROVE FALSE
    <3>1. j \in S /\ j < f BY <2>1, <2>3
    <3> QED BY <1>3, <2>1, <3>1
  <2> QED BY <2>1, <2>2, <2>3
<1>5. ASSUME NEW i, First(i) PROVE i = f
  <2>1. i \in Nat /\ f \in Nat BY <1>4, <1>5, Sizes DEF B!Words
  <2>2. ~(i < f) BY <1>4, <1>5, <2>1
  <2>3. ~(f < i) BY <1>4, <1>5, <2>1
  <2> QED BY <2>1, <2>2, <2>3
<1>6. (CHOOSE i \in B!Words : m.bits[i] # {} /\ \A j \in 0..(i - 1) : m.bits[j] = {}) = f
  BY <1>4, <1>5
<1>7. m.bits[f] \in SUBSET 0..(k - 1) /\ m.bits[f] # {}
  BY <1>1, <1>4, BitmapShape DEF B!Ones
<1>8. PICK b \in m.bits[f] : \A c \in m.bits[f] : b <= c
  <2>1. m.bits[f] \in SUBSET Nat BY <1>7
  <2> QED BY <1>7, <2>1, LeastElement
<1>9. (CHOOSE c \in m.bits[f] : \A d \in m.bits[f] : c <= d) = b
  <2>1. \A c \in m.bits[f] : c \in Nat BY <1>7
  <2>2. ASSUME NEW c \in m.bits[f], \A d \in m.bits[f] : c <= d PROVE c = b
    BY <1>8, <2>1, <2>2
  <2> QED BY <1>8, <2>2
<1>10. B!ffs(m) = f * k + b BY <1>1, <1>6, <1>9 DEF B!ffs
<1>11. f * k + b \in B!Free(m) BY <1>1, <1>4, BitsAreRegions
<1>12. ASSUME NEW pos \in B!Free(m) PROVE f * k + b <= pos
  <2>1. pos \in Nat BY <1>12, BitmapShape DEF B!Free
  <2>2. PICK i \in Nat, c \in 0..(k - 1) : i = pos \div k /\ c = pos % k /\ pos = i * k + c
    BY <2>1, Join
  <2>3. i \in 0..l /\ c \in m.bits[i] BY <1>1, <2>2, BitsAreRegions
  <2>4. f <= i BY <1>3, <2>3
  <2>5. PICK z \in Nat : z = f * k BY <1>4, Scaled
  <2>6. CASE f = i
    <3>1. b <= c BY <1>8, <2>3, <2>6
    <3>2. pos = z + c BY <2>2, <2>5, <2>6
    <3> QED BY <1>7, <2>5, <3>1, <3>2
  <2>7. CASE f < i
    <3>1. b \in 0..(k - 1) /\ f \in Nat BY <1>4, <1>7
    <3>2. f * k + b < i * k + c BY <2>7, <3>1, InOrder
    <3>3. z + b < pos /\ b \in Nat BY <2>2, <2>5, <3>1, <3>2
    <3> QED BY <2>1, <2>5, <3>3
  <2> QED BY <1>4, <2>2, <2>4, <2>6, <2>7
<1> QED BY <1>10, <1>11, <1>12

-----------------------------------------------------------------------------
(* Lists *)

\* Position k of the ring of head h and elements q: the head is before the
\* first element and behind the last.
At(h, q, k) == IF k = 0 \/ k = Len(q) + 1 THEN h ELSE q[k]

Linked(l, h, q) ==
  /\ l.size[h] = Len(q)
  /\ \A k \in 0..Len(q) : /\ l.next[At(h, q, k)] = At(h, q, k + 1)
                          /\ l.prev[At(h, q, k + 1)] = At(h, q, k)

Links == [prev : [L!Node -> L!Node \cup {Null}], next : [L!Node -> L!Node \cup {Null}],
          size : [ListHead -> Int]]

\* The links l are rings of the elements Q[h], each of which is in one place.
Apart(Q) ==
  \A g \in ListHead, h \in ListHead :
    \A j \in 1..Len(Q[g]), k \in 1..Len(Q[h]) : Q[g][j] = Q[h][k] => g = h /\ j = k

Rings(l, Q) ==
  /\ l \in Links /\ Q \in [ListHead -> Seq(Chunk)]
  /\ Apart(Q)
  /\ \A h \in ListHead : Linked(l, h, Q[h])

Members(q) == { q[k] : k \in 1..Len(q) }

\* q without its element i
Cut(q, i) == [k \in 1..(Len(q) - 1) |-> IF k < i THEN q[k] ELSE q[k + 1]]

LEMMA Consed ==
  ASSUME NEW q \in Seq(Chunk), NEW n \in Chunk
  PROVE  /\ <<n>> \o q \in Seq(Chunk) /\ Len(<<n>> \o q) = Len(q) + 1
         /\ (<<n>> \o q)[1] = n
         /\ \A k \in 1..Len(q) : (<<n>> \o q)[k + 1] = q[k]
         /\ Members(<<n>> \o q) = Members(q) \cup {n}
<1> DEFINE p == <<n>> \o q
<1>1. p \in Seq(Chunk) /\ Len(p) = Len(q) + 1 /\ p[1] = n OBVIOUS
<1>2. \A k \in 1..Len(q) : p[k + 1] = q[k] OBVIOUS
<1>3. \A k \in 1..Len(p) : k = 1 \/ (k - 1 \in 1..Len(q) /\ p[k] = q[k - 1]) OBVIOUS
<1>4. Len(q) \in Nat OBVIOUS
<1>5. \A k \in 1..Len(q) : k + 1 \in 1..Len(p) BY <1>1, <1>4
<1>6. 1 \in 1..Len(p) BY <1>1, <1>4
<1> HIDE DEF p
<1>7. Members(p) = Members(q) \cup {n}
  <2>1. Members(p) \subseteq Members(q) \cup {n} BY <1>1, <1>3 DEF Members
  <2>2. Members(q) \subseteq Members(p) BY <1>2, <1>5 DEF Members
  <2>3. n \in Members(p) BY <1>1, <1>6 DEF Members
  <2> QED BY <2>1, <2>2, <2>3
<1> QED BY <1>1, <1>2, <1>7 DEF p

LEMMA CutIs ==
  ASSUME NEW q \in Seq(Chunk), NEW i \in 1..Len(q)
  PROVE  /\ Cut(q, i) \in Seq(Chunk) /\ Len(Cut(q, i)) = Len(q) - 1
         /\ \A k \in 1..(Len(q) - 1) : Cut(q, i)[k] = IF k < i THEN q[k] ELSE q[k + 1]
<1>1. Len(q) - 1 \in Nat OBVIOUS
<1>2. \A k \in 1..(Len(q) - 1) : (IF k < i THEN q[k] ELSE q[k + 1]) \in Chunk OBVIOUS
<1>3. Cut(q, i) \in Seq(Chunk) /\ Len(Cut(q, i)) = Len(q) - 1
  BY <1>1, <1>2, IsASeq DEF Cut
<1> QED BY <1>3 DEF Cut

LEMMA CutFirst ==
  ASSUME NEW q \in Seq(Chunk), q # <<>>
  PROVE  Cut(q, 1) = Tail(q)
<1>1. 1 \in 1..Len(q) /\ Tail(q) \in Seq(Chunk) /\ Len(Tail(q)) = Len(q) - 1 OBVIOUS
<1>2. \A k \in 1..(Len(q) - 1) : Tail(q)[k] = q[k + 1] /\ ~(k < 1) OBVIOUS
<1>3. Len(q) - 1 \in Nat BY <1>1
<1>4. \A k \in 1..Len(Tail(q)) : Cut(q, 1)[k] = Tail(q)[k] BY <1>1, <1>2, CutIs
<1>5. Cut(q, 1) \in Seq(Chunk) /\ Len(Cut(q, 1)) = Len(Tail(q)) BY <1>1, CutIs
<1> QED BY <1>1, <1>4, <1>5, SeqEqual

\* Without, where each element is in one place.
LEMMA WithoutIs ==
  ASSUME NEW q \in Seq(Chunk), NEW i \in 1..Len(q),
         \A j \in 1..Len(q), k \in 1..Len(q) : q[j] = q[k] => j = k
  PROVE  /\ Without(q, q[i]) = Cut(q, i)
         /\ Members(Cut(q, i)) = Members(q) \ {q[i]}
<1>1. (CHOOSE k \in 1..Len(q) : q[k] = q[i]) = i OBVIOUS
<1>2. Without(q, q[i]) = Cut(q, i) BY <1>1 DEF Without, Cut
<1>3. PICK n \in Nat, p \in Seq(Chunk) : n = Len(q) /\ p = Cut(q, i)
  BY CutIs
<1>4. Len(p) = n - 1 /\ \A k \in 1..(n - 1) : p[k] = IF k < i THEN q[k] ELSE q[k + 1]
  BY <1>3, CutIs
<1>5. ASSUME NEW k \in 1..(n - 1) PROVE p[k] \in Members(q) \ {q[i]}
  <2>1. CASE k < i
    <3>1. k \in 1..n /\ k # i /\ p[k] = q[k] BY <1>3, <1>4, <2>1
    <3> QED BY <1>3, <3>1 DEF Members
  <2>2. CASE ~(k < i)
    <3>1. k + 1 \in 1..n /\ k + 1 # i /\ p[k] = q[k + 1] BY <1>3, <1>4, <2>2
    <3> QED BY <1>3, <3>1 DEF Members
  <2> QED BY <2>1, <2>2
<1>6. ASSUME NEW k \in 1..n, k # i PROVE q[k] \in Members(p)
  <2>1. CASE k < i
    <3>1. k \in 1..(n - 1) /\ p[k] = q[k] BY <1>3, <1>4, <2>1
    <3> QED BY <1>4, <3>1 DEF Members
  <2>2. CASE k > i
    <3>1. k - 1 \in 1..(n - 1) /\ ~(k - 1 < i) /\ (k - 1) + 1 = k BY <1>3, <2>2
    <3>2. p[k - 1] = q[k] BY <1>4, <3>1
    <3> QED BY <1>4, <3>1, <3>2 DEF Members
  <2> QED BY <1>3, <1>6, <2>1, <2>2
<1>7. Members(p) \subseteq Members(q) \ {q[i]} BY <1>4, <1>5 DEF Members
<1>8. Members(q) \ {q[i]} \subseteq Members(p) BY <1>3, <1>6 DEF Members
<1> QED BY <1>2, <1>3, <1>7, <1>8

\* The nodes of a ring, and no two positions of one or two of them are the
\* same, counting the head once.
LEMMA Nodes ==
  ASSUME NEW l, NEW Q, Rings(l, Q), NEW h \in ListHead, NEW k \in 0..(Len(Q[h]) + 1)
  PROVE  /\ Q[h] \in Seq(Chunk) /\ Len(Q[h]) \in Nat
         /\ At(h, Q[h], k) \in L!Node
         /\ k \in 1..Len(Q[h]) => At(h, Q[h], k) = Q[h][k] /\ Q[h][k] \in Chunk
         /\ At(h, Q[h], 0) = h /\ At(h, Q[h], Len(Q[h]) + 1) = h
<1>1. Q[h] \in Seq(Chunk) BY DEF Rings
<1> QED BY <1>1 DEF At, L!Node

LEMMA Positions ==
  ASSUME NEW l, NEW Q, Rings(l, Q), NEW g \in ListHead, NEW h \in ListHead,
         NEW j \in 0..(Len(Q[g]) + 1), NEW k \in 0..(Len(Q[h]) + 1),
         At(g, Q[g], j) = At(h, Q[h], k)
  PROVE  /\ g = h
         /\ j = k \/ (j = 0 /\ k = Len(Q[h]) + 1) \/ (k = 0 /\ j = Len(Q[g]) + 1)
<1>1. Q[g] \in Seq(Chunk) /\ Q[h] \in Seq(Chunk) BY DEF Rings
<1>2. PICK m \in Nat, n \in Nat : m = Len(Q[g]) /\ n = Len(Q[h]) BY <1>1
<1>3. CASE j \in 1..m /\ k \in 1..n
  <2>1. Q[g][j] = Q[h][k] BY <1>2, <1>3, Nodes
  <2> QED BY <1>2, <1>3, <2>1 DEF Rings, Apart
<1>4. CASE j \in 1..m /\ k \notin 1..n
  <2>1. k = 0 \/ k = n + 1 BY <1>2, <1>4
  <2>2. At(h, Q[h], k) = h BY <1>2, <2>1, Nodes
  <2>3. At(g, Q[g], j) \in Chunk BY <1>2, <1>4, Nodes
  <2> QED BY <2>2, <2>3, SlabAssumption
<1>5. CASE j \notin 1..m /\ k \in 1..n
  <2>1. j = 0 \/ j = m + 1 BY <1>2, <1>5
  <2>2. At(g, Q[g], j) = g BY <1>2, <2>1, Nodes
  <2>3. At(h, Q[h], k) \in Chunk BY <1>2, <1>5, Nodes
  <2> QED BY <2>2, <2>3, SlabAssumption
<1>6. CASE j \notin 1..m /\ k \notin 1..n
  <2>1. (j = 0 \/ j = m + 1) /\ (k = 0 \/ k = n + 1) BY <1>2, <1>6
  <2>2. At(g, Q[g], j) = g /\ At(h, Q[h], k) = h BY <1>2, <2>1, Nodes
  <2> QED BY <1>2, <2>1, <2>2
<1> QED BY <1>3, <1>4, <1>5, <1>6

LEMMA Pushed ==
  ASSUME NEW l, NEW Q, Rings(l, Q), NEW h \in ListHead, NEW n \in Chunk,
         \A g \in ListHead : n \notin Members(Q[g])
  PROVE  Rings(L!push(l, h, n), [Q EXCEPT ![h] = <<n>> \o Q[h]])
<1>1. PICK P, m, q, p, t :
        /\ P = [Q EXCEPT ![h] = <<n>> \o Q[h]] /\ m = L!push(l, h, n)
        /\ q = Q[h] /\ p = <<n>> \o Q[h] /\ t = l.next[h]
  OBVIOUS
<1>2. l \in Links /\ Q \in [ListHead -> Seq(Chunk)] BY DEF Rings
<1>3. q \in Seq(Chunk) /\ Len(q) \in Nat BY <1>1, <1>2
<1>4. /\ p \in Seq(Chunk) /\ Len(p) = Len(q) + 1 /\ p[1] = n
      /\ \A k \in 1..Len(q) : p[k + 1] = q[k]
  BY <1>1, <1>3, Consed
<1>5. t = At(h, q, 1) /\ t \in L!Node
  <2>1. Linked(l, h, q) BY <1>1 DEF Rings
  <2>2. l.next[At(h, q, 0)] = At(h, q, 1) /\ At(h, q, 0) = h BY <1>3, <2>1 DEF Linked, At
  <2>3. 1 \in 0..(Len(q) + 1) BY <1>3
  <2> QED BY <1>1, <2>2, <2>3, Nodes
<1>6. n \in L!Node /\ h \in L!Node /\ n # h BY SlabAssumption DEF L!Node
<1>7. /\ m.prev = [l.prev EXCEPT ![t] = n, ![n] = h]
      /\ m.next = [l.next EXCEPT ![n] = t, ![h] = n]
      /\ m.size = [l.size EXCEPT ![h] = @ + 1]
  BY <1>1 DEF L!push, L!first
<1>8. m \in Links
  <2>1. m = [prev |-> m.prev, next |-> m.next, size |-> m.size] BY <1>1 DEF L!push
  <2>2. m.prev \in [L!Node -> L!Node \cup {Null}] /\ m.next \in [L!Node -> L!Node \cup {Null}]
    <3>1. l.prev \in [L!Node -> L!Node \cup {Null}] /\ l.next \in [L!Node -> L!Node \cup {Null}]
      BY <1>2 DEF Links
    <3>2. \A f \in [L!Node -> L!Node \cup {Null}], x \in L!Node, y \in L!Node :
            [f EXCEPT ![x] = y] \in [L!Node -> L!Node \cup {Null}]
      OBVIOUS
    <3>3. [l.prev EXCEPT ![t] = n] \in [L!Node -> L!Node \cup {Null}]
          /\ [l.next EXCEPT ![n] = t] \in [L!Node -> L!Node \cup {Null}]
      BY <1>5, <1>6, <3>1, <3>2
    <3>4. m.prev = [[l.prev EXCEPT ![t] = n] EXCEPT ![n] = h]
          /\ m.next = [[l.next EXCEPT ![n] = t] EXCEPT ![h] = n]
      BY <1>7
    <3> QED BY <1>6, <3>2, <3>3, <3>4
  <2>3. m.size \in [ListHead -> Int] BY <1>2, <1>7 DEF Links
  <2> QED BY <2>1, <2>2, <2>3 DEF Links
<1>9. /\ P \in [ListHead -> Seq(Chunk)] /\ P[h] = p
      /\ \A g \in ListHead : g # h => P[g] = Q[g]
  BY <1>1, <1>2, <1>4
\* n is at no position
<1>10. ASSUME NEW g \in ListHead, NEW k \in 0..(Len(Q[g]) + 1) PROVE At(g, Q[g], k) # n
  <2>1. CASE k \in 1..Len(Q[g])
    <3>1. At(g, Q[g], k) \in Members(Q[g]) BY <2>1, Nodes DEF Members
    <3> QED BY <3>1
  <2>2. CASE k \notin 1..Len(Q[g])
    <3>1. Len(Q[g]) \in Nat BY <1>2
    <3>2. k = 0 \/ k = Len(Q[g]) + 1 BY <2>2, <3>1
    <3>3. At(g, Q[g], k) = g BY <3>2, Nodes
    <3> QED BY <3>3, SlabAssumption
  <2> QED BY <2>1, <2>2
<1>11. ASSUME NEW g \in ListHead, g # h PROVE Linked(m, g, P[g])
  <2>1. P[g] = Q[g] /\ m.size[g] = l.size[g] /\ Len(Q[g]) \in Nat
    BY <1>2, <1>7, <1>9, <1>11 DEF Links
  <2>2. Linked(l, g, Q[g]) BY DEF Rings
  <2>3. ASSUME NEW k \in 0..Len(Q[g])
        PROVE  /\ m.next[At(g, Q[g], k)] = At(g, Q[g], k + 1)
               /\ m.prev[At(g, Q[g], k + 1)] = At(g, Q[g], k)
    <3>1. k \in 0..(Len(Q[g]) + 1) /\ k + 1 \in 0..(Len(Q[g]) + 1) BY <2>1
    <3>2. PICK x \in L!Node, y \in L!Node : x = At(g, Q[g], k) /\ y = At(g, Q[g], k + 1)
      BY <3>1, Nodes
    <3>3. x # n /\ y # n BY <1>10, <3>1, <3>2
    <3>4. x # h
      <4>1. h = At(h, Q[h], 0) /\ 0 \in 0..(Len(Q[h]) + 1) BY <1>1, <1>3 DEF At
      <4> QED BY <1>11, <3>1, <3>2, <4>1, Positions
    <3>5. y # t
      <4>1. 1 \in 0..(Len(Q[h]) + 1) BY <1>1, <1>3
      <4> QED BY <1>1, <1>5, <1>11, <3>1, <3>2, <4>1, Positions
    <3>6. m.next[x] = l.next[x] /\ m.prev[y] = l.prev[y]
      BY <1>2, <1>7, <3>2, <3>3, <3>4, <3>5 DEF Links
    <3> QED BY <2>2, <3>2, <3>6 DEF Linked
  <2> QED BY <2>1, <2>2, <2>3 DEF Linked
\* the positions of the longer ring
<1>12. /\ At(h, p, 0) = h /\ At(h, p, 1) = n
       /\ \A k \in 1..(Len(q) + 1) : At(h, p, k + 1) = At(h, q, k)
  <2>1. ASSUME NEW k \in 1..(Len(q) + 1) PROVE At(h, p, k + 1) = At(h, q, k)
    <3>1. CASE k = Len(q) + 1 BY <1>3, <1>4, <3>1 DEF At
    <3>2. CASE k # Len(q) + 1
      <4>1. k \in 1..Len(q) /\ k # 0 /\ k + 1 # 0 /\ k + 1 # Len(p) + 1 BY <1>3, <1>4, <3>2
      <4> QED BY <1>4, <3>2, <4>1 DEF At
    <3> QED BY <3>1, <3>2
  <2>2. 1 # Len(p) + 1 /\ 1 # 0 BY <1>3, <1>4
  <2> QED BY <1>4, <2>1, <2>2 DEF At
<1>13. Linked(m, h, p)
  <2>1. m.size[h] = Len(p)
    <3>1. l.size[h] = Len(q) BY <1>1 DEF Rings, Linked
    <3> QED BY <1>2, <1>4, <1>7, <3>1 DEF Links
  <2>2. m.next[h] = n /\ m.prev[n] = h /\ m.next[n] = t /\ m.prev[t] = n
    <3>1. t # n
      <4>1. 1 \in 0..(Len(Q[h]) + 1) BY <1>1, <1>3
      <4> QED BY <1>1, <1>5, <1>10, <4>1
    <3> QED BY <1>2, <1>5, <1>6, <1>7, <3>1 DEF Links
  <2>3. ASSUME NEW k \in 1..Len(q)
        PROVE  /\ m.next[At(h, q, k)] = At(h, q, k + 1)
               /\ m.prev[At(h, q, k + 1)] = At(h, q, k)
    <3>1. k \in 0..(Len(Q[h]) + 1) /\ k + 1 \in 0..(Len(Q[h]) + 1) /\ 0 \in 0..(Len(Q[h]) + 1)
          /\ 1 \in 0..(Len(Q[h]) + 1) /\ k # 0 /\ k # Len(q) + 1 /\ k + 1 # 1 /\ k + 1 # 0
      BY <1>1, <1>3
    <3>2. PICK x \in L!Node, y \in L!Node : x = At(h, q, k) /\ y = At(h, q, k + 1)
      BY <1>1, <3>1, Nodes
    <3>3. x # n /\ y # n BY <1>1, <1>10, <3>1, <3>2
    <3>4. x # h
      <4>1. h = At(h, Q[h], 0) BY DEF At
      <4>2. ASSUME At(h, Q[h], k) = At(h, Q[h], 0) PROVE FALSE
        <5>1. k = 0 \/ (k = 0 /\ 0 = Len(Q[h]) + 1) \/ (0 = 0 /\ k = Len(Q[h]) + 1)
          BY <3>1, <4>2, Positions
        <5> QED BY <1>1, <3>1, <5>1
      <4> QED BY <1>1, <3>2, <4>1, <4>2
    <3>5. y # t
      <4>1. ASSUME At(h, Q[h], k + 1) = At(h, Q[h], 1) PROVE FALSE
        <5>1. k + 1 = 1 \/ k + 1 = 0 \/ 1 = 0 BY <3>1, <4>1, Positions
        <5> QED BY <3>1, <5>1
      <4> QED BY <1>1, <1>5, <3>2, <4>1
    <3>6. m.next[x] = l.next[x] /\ m.prev[y] = l.prev[y]
      BY <1>2, <1>7, <3>2, <3>3, <3>4, <3>5 DEF Links
    <3>7. k \in 0..Len(q) BY <1>3
    <3> QED BY <1>1, <3>2, <3>6, <3>7 DEF Rings, Linked
  <2>4. ASSUME NEW k \in 0..Len(p)
        PROVE  m.next[At(h, p, k)] = At(h, p, k + 1) /\ m.prev[At(h, p, k + 1)] = At(h, p, k)
    <3>1. CASE k = 0 BY <1>12, <2>2, <3>1
    <3>2. CASE k = 1
      <4>1. 1 \in 1..(Len(q) + 1) BY <1>3
      <4>2. At(h, p, 1 + 1) = t BY <1>5, <1>12, <4>1
      <4> QED BY <1>12, <2>2, <3>2, <4>2
    <3>3. CASE k > 1
      <4>1. PICK j \in 1..Len(q) : k = j + 1
        <5>1. k - 1 \in 1..Len(q) /\ k = (k - 1) + 1 BY <1>3, <1>4, <3>3
        <5> QED BY <5>1
      <4>2. j \in 1..(Len(q) + 1) /\ j + 1 \in 1..(Len(q) + 1) BY <1>3
      <4>3. At(h, p, k) = At(h, q, j) /\ At(h, p, k + 1) = At(h, q, j + 1)
        BY <1>12, <4>1, <4>2
      <4> QED BY <2>3, <4>3
    <3>4. k \in Nat OBVIOUS
    <3> QED BY <3>1, <3>2, <3>3, <3>4
  <2> QED BY <2>1, <2>4 DEF Linked
<1>14. Apart(P)
  <2>1. ASSUME NEW f \in ListHead, NEW g \in ListHead,
               NEW j \in 1..Len(P[f]), NEW k \in 1..Len(P[g]), P[f][j] = P[g][k]
        PROVE  f = g /\ j = k
    <3> DEFINE New(e, i) == e = h /\ i = 1
               Of(e, i) == IF e = h THEN i - 1 ELSE i
    <3>1. ASSUME NEW e \in ListHead, NEW i \in 1..Len(P[e])
          PROVE  \/ New(e, i) /\ P[e][i] = n
                 \/ ~New(e, i) /\ P[e][i] # n /\ Of(e, i) \in 1..Len(Q[e])
                    /\ P[e][i] = Q[e][Of(e, i)]
      <4>1. CASE e # h
        <5>1. i \in 1..Len(Q[e]) /\ P[e][i] = Q[e][i] BY <1>9, <4>1
        <5>2. Q[e][i] # n BY <5>1 DEF Members
        <5> QED BY <4>1, <5>1, <5>2
      <4>2. CASE e = h /\ i = 1 BY <1>4, <1>9, <4>2
      <4>3. CASE e = h /\ i # 1
        <5>1. PICK x \in 1..Len(q) : i = x + 1 /\ x = i - 1
          <6>1. i - 1 \in 1..Len(q) /\ i = (i - 1) + 1 BY <1>3, <1>4, <1>9, <4>3
          <6> QED BY <6>1
        <5>2. P[e][i] = Q[e][x] BY <1>1, <1>4, <1>9, <4>3, <5>1
        <5>3. Q[e][x] # n BY <1>1, <4>3 DEF Members
        <5> QED BY <1>1, <4>3, <5>1, <5>2, <5>3
      <4> QED BY <4>1, <4>2, <4>3
    <3>2. CASE P[f][j] = n
      <4>1. New(f, j) BY <3>1, <3>2
      <4>2. New(g, k) BY <2>1, <3>1, <3>2
      <4> QED BY <4>1, <4>2
    <3>3. CASE P[f][j] # n
      <4>1. /\ Of(f, j) \in 1..Len(Q[f]) /\ Of(g, k) \in 1..Len(Q[g])
            /\ Q[f][Of(f, j)] = Q[g][Of(g, k)]
        BY <2>1, <3>1, <3>3
      <4>2. f = g /\ Of(f, j) = Of(g, k) BY <4>1 DEF Rings, Apart
      <4>3. j \in Nat /\ k \in Nat BY <1>9
      <4> QED BY <4>2, <4>3
    <3> QED BY <3>2, <3>3
  <2> QED BY <2>1 DEF Apart
<1> QED BY <1>1, <1>8, <1>9, <1>11, <1>13, <1>14 DEF Rings

LEMMA Erased ==
  ASSUME NEW l, NEW Q, Rings(l, Q), NEW h \in ListHead, NEW i \in 1..Len(Q[h])
  PROVE  /\ Rings(L!erase(l, h, Q[h][i]), [Q EXCEPT ![h] = Cut(Q[h], i)])
         /\ \A g \in ListHead : Q[h][i] \notin Members([Q EXCEPT ![h] = Cut(Q[h], i)][g])
<1>1. PICK P, m, q, p, n :
        /\ P = [Q EXCEPT ![h] = Cut(Q[h], i)] /\ m = L!erase(l, h, Q[h][i])
        /\ q = Q[h] /\ p = Cut(Q[h], i) /\ n = Q[h][i]
  OBVIOUS
<1>2. l \in Links /\ Q \in [ListHead -> Seq(Chunk)] BY DEF Rings
<1>3. q \in Seq(Chunk) /\ Len(q) \in Nat /\ i \in 1..Len(q) /\ i \in Nat BY <1>1, <1>2
<1>4. /\ p \in Seq(Chunk) /\ Len(p) = Len(q) - 1
      /\ \A k \in 1..(Len(q) - 1) : p[k] = IF k < i THEN q[k] ELSE q[k + 1]
  BY <1>1, <1>3, CutIs
<1>5. i - 1 \in 0..(Len(q) + 1) /\ i \in 0..(Len(q) + 1) /\ i + 1 \in 0..(Len(q) + 1)
      /\ i - 1 \in 0..Len(q) /\ i \in 0..Len(q)
  BY <1>3
<1>6. PICK x \in L!Node, y \in L!Node : x = At(h, q, i - 1) /\ y = At(h, q, i + 1)
  BY <1>1, <1>5, Nodes
<1>7. l.next[n] = y /\ l.prev[n] = x
  <2>1. Linked(l, h, q) BY <1>1 DEF Rings
  <2>2. At(h, q, i) = n /\ (i - 1) + 1 = i BY <1>1, <1>3 DEF At
  <2>3. l.next[At(h, q, i)] = At(h, q, i + 1) BY <1>5, <2>1 DEF Linked
  <2>4. l.prev[At(h, q, (i - 1) + 1)] = At(h, q, i - 1) BY <1>5, <2>1 DEF Linked
  <2> QED BY <1>6, <2>2, <2>3, <2>4
<1>8. /\ m = [prev |-> m.prev, next |-> m.next, size |-> m.size]
      /\ m.prev = [l.prev EXCEPT ![y] = x] /\ m.next = [l.next EXCEPT ![x] = y]
      /\ m.size = [l.size EXCEPT ![h] = @ - 1]
  BY <1>1, <1>7 DEF L!erase
<1>9. m \in Links
  <2>1. m.prev \in [L!Node -> L!Node \cup {Null}] BY <1>2, <1>6, <1>8 DEF Links
  <2>2. m.next \in [L!Node -> L!Node \cup {Null}] BY <1>2, <1>6, <1>8 DEF Links
  <2>3. m.size \in [ListHead -> Int] BY <1>2, <1>8 DEF Links
  <2> QED BY <1>8, <2>1, <2>2, <2>3 DEF Links
<1>10. /\ P \in [ListHead -> Seq(Chunk)] /\ P[h] = p
       /\ \A g \in ListHead : g # h => P[g] = Q[g]
  BY <1>1, <1>2, <1>4
<1>11. ASSUME NEW g \in ListHead, g # h PROVE Linked(m, g, P[g])
  <2>1. P[g] = Q[g] /\ m.size[g] = l.size[g] /\ Len(Q[g]) \in Nat
    BY <1>2, <1>8, <1>10, <1>11 DEF Links
  <2>2. Linked(l, g, Q[g]) BY DEF Rings
  <2>3. ASSUME NEW k \in 0..Len(Q[g])
        PROVE  /\ m.next[At(g, Q[g], k)] = At(g, Q[g], k + 1)
               /\ m.prev[At(g, Q[g], k + 1)] = At(g, Q[g], k)
    <3>1. k \in 0..(Len(Q[g]) + 1) /\ k + 1 \in 0..(Len(Q[g]) + 1) BY <2>1
    <3>2. PICK u \in L!Node, v \in L!Node : u = At(g, Q[g], k) /\ v = At(g, Q[g], k + 1)
      BY <3>1, Nodes
    <3>3. u # x
      <4>1. At(g, Q[g], k) # At(h, Q[h], i - 1)
        BY <1>1, <1>5, <1>11, <3>1, Positions
      <4> QED BY <1>1, <1>6, <3>2, <4>1
    <3>4. v # y
      <4>1. At(g, Q[g], k + 1) # At(h, Q[h], i + 1)
        BY <1>1, <1>5, <1>11, <3>1, Positions
      <4> QED BY <1>1, <1>6, <3>2, <4>1
    <3>5. m.next[u] = l.next[u] /\ m.prev[v] = l.prev[v]
      BY <1>2, <1>8, <3>2, <3>3, <3>4 DEF Links
    <3> QED BY <2>2, <3>2, <3>5 DEF Linked
  <2> QED BY <2>1, <2>2, <2>3 DEF Linked
\* the positions of the shorter ring
<1>12. ASSUME NEW k \in 0..Len(q)
       PROVE  At(h, p, k) = IF k < i THEN At(h, q, k) ELSE At(h, q, k + 1)
  <2>1. CASE k = 0
    <3>1. k < i BY <1>3, <2>1
    <3> QED BY <2>1, <3>1 DEF At
  <2>2. CASE k = Len(q) /\ k # 0
    <3>1. ~(k < i) /\ k = Len(p) + 1 /\ k + 1 = Len(q) + 1 BY <1>3, <1>4, <2>2
    <3> QED BY <3>1 DEF At
  <2>3. CASE k # 0 /\ k # Len(q)
    <3>1. k \in 1..(Len(q) - 1) /\ k # Len(p) + 1 /\ k # Len(q) + 1 /\ k + 1 # 0
          /\ k + 1 # Len(q) + 1
      BY <1>3, <1>4, <2>3
    <3>2. At(h, p, k) = p[k] /\ At(h, q, k) = q[k] /\ At(h, q, k + 1) = q[k + 1]
      BY <2>3, <3>1 DEF At
    <3> QED BY <1>4, <3>1, <3>2
  <2> QED BY <2>1, <2>2, <2>3
<1>13. Linked(m, h, p)
  <2>1. m.size[h] = Len(p)
    <3>1. l.size[h] = Len(q) BY <1>1 DEF Rings, Linked
    <3> QED BY <1>2, <1>4, <1>8, <3>1 DEF Links
  <2>2. m.next[x] = y /\ m.prev[y] = x BY <1>2, <1>6, <1>8 DEF Links
  <2>3. ASSUME NEW k \in 0..Len(q), k # i - 1, k # i
        PROVE  /\ m.next[At(h, q, k)] = At(h, q, k + 1)
               /\ m.prev[At(h, q, k + 1)] = At(h, q, k)
    <3>1. k \in 0..(Len(q) + 1) /\ k + 1 \in 0..(Len(q) + 1) BY <1>3
    <3>2. PICK u \in L!Node, v \in L!Node : u = At(h, q, k) /\ v = At(h, q, k + 1)
      BY <1>1, <3>1, Nodes
    <3>3. u # x
      <4>1. ASSUME At(h, Q[h], k) = At(h, Q[h], i - 1) PROVE FALSE
        <5>1. k = i - 1 \/ (k = 0 /\ i - 1 = Len(q) + 1) \/ (i - 1 = 0 /\ k = Len(q) + 1)
          BY <1>1, <1>5, <3>1, <4>1, Positions
        <5> QED BY <1>3, <2>3, <5>1
      <4> QED BY <1>1, <1>6, <3>2, <4>1
    <3>4. v # y
      <4>1. ASSUME At(h, Q[h], k + 1) = At(h, Q[h], i + 1) PROVE FALSE
        <5>1. k + 1 = i + 1 \/ k + 1 = 0 \/ i + 1 = 0
          BY <1>1, <1>5, <3>1, <4>1, Positions
        <5> QED BY <1>3, <2>3, <5>1
      <4> QED BY <1>1, <1>6, <3>2, <4>1
    <3>5. m.next[u] = l.next[u] /\ m.prev[v] = l.prev[v]
      BY <1>2, <1>8, <3>2, <3>3, <3>4 DEF Links
    <3> QED BY <1>1, <3>2, <3>5 DEF Rings, Linked
  <2>4. ASSUME NEW k \in 0..Len(p)
        PROVE  m.next[At(h, p, k)] = At(h, p, k + 1) /\ m.prev[At(h, p, k + 1)] = At(h, p, k)
    <3>1. k \in 0..Len(q) /\ k + 1 \in 0..Len(q) BY <1>3, <1>4
    <3>2. /\ At(h, p, k) = IF k < i THEN At(h, q, k) ELSE At(h, q, k + 1)
          /\ At(h, p, k + 1) = IF k + 1 < i THEN At(h, q, k + 1) ELSE At(h, q, (k + 1) + 1)
      BY <1>12, <3>1
    <3>3. CASE k + 1 < i
      <4>1. k < i /\ k # i - 1 /\ k # i BY <1>3, <3>3
      <4> QED BY <2>3, <3>1, <3>2, <3>3, <4>1
    <3>4. CASE k + 1 = i
      <4>1. k < i /\ k = i - 1 /\ ~(k + 1 < i) BY <1>3, <3>4
      <4>2. At(h, p, k) = x /\ At(h, p, k + 1) = y BY <1>6, <3>2, <3>4, <4>1
      <4> QED BY <2>2, <4>2
    <3>5. CASE k + 1 > i
      <4>1. ~(k < i) /\ ~(k + 1 < i) /\ k + 1 # i - 1 /\ k + 1 # i BY <1>3, <3>5
      <4>2. At(h, p, k) = At(h, q, k + 1) /\ At(h, p, k + 1) = At(h, q, (k + 1) + 1)
        BY <3>2, <4>1
      <4> QED BY <2>3, <3>1, <4>1, <4>2
    <3> QED BY <1>3, <3>1, <3>3, <3>4, <3>5
  <2> QED BY <2>1, <2>4 DEF Linked
<1>14. Apart(P)
  <2>1. ASSUME NEW f \in ListHead, NEW g \in ListHead,
               NEW j \in 1..Len(P[f]), NEW k \in 1..Len(P[g]), P[f][j] = P[g][k]
        PROVE  f = g /\ j = k
    <3> DEFINE Of(e, c) == IF e = h /\ ~(c < i) THEN c + 1 ELSE c
    <3>1. ASSUME NEW e \in ListHead, NEW c \in 1..Len(P[e])
          PROVE  Of(e, c) \in 1..Len(Q[e]) /\ P[e][c] = Q[e][Of(e, c)]
      <4>1. CASE e # h BY <1>10, <4>1
      <4>2. CASE e = h
        <5>1. c \in 1..(Len(q) - 1) BY <1>4, <1>10, <4>2
        <5>2. c \in 1..Len(q) /\ c + 1 \in 1..Len(q) BY <1>3, <5>1
        <5> QED BY <1>1, <1>4, <1>10, <4>2, <5>1, <5>2
      <4> QED BY <4>1, <4>2
    <3>2. /\ Of(f, j) \in 1..Len(Q[f]) /\ Of(g, k) \in 1..Len(Q[g])
          /\ Q[f][Of(f, j)] = Q[g][Of(g, k)]
      BY <2>1, <3>1
    <3>3. f = g /\ Of(f, j) = Of(g, k) BY <3>2 DEF Rings, Apart
    <3>4. j \in Nat /\ k \in Nat BY <1>10
    <3> QED BY <1>3, <3>3, <3>4
  <2> QED BY <2>1 DEF Apart
<1>15. Rings(m, P) BY <1>9, <1>10, <1>11, <1>13, <1>14 DEF Rings
<1>16. ASSUME NEW g \in ListHead PROVE n \notin Members(P[g])
  <2>1. CASE g # h
    <3>1. \A k \in 1..Len(Q[g]) : Q[g][k] # n BY <1>1, <2>1 DEF Rings, Apart
    <3> QED BY <1>10, <2>1, <3>1 DEF Members
  <2>2. CASE g = h
    <3>1. \A j \in 1..Len(q), k \in 1..Len(q) : q[j] = q[k] => j = k
      BY <1>1 DEF Rings, Apart
    <3>2. Members(p) = Members(q) \ {n} BY <1>1, <1>3, <3>1, WithoutIs
    <3> QED BY <1>10, <2>2, <3>2
  <2> QED BY <2>1, <2>2
<1> QED BY <1>1, <1>15, <1>16

\* The first of a list, and whether there is one.
LEMMA FirstIs ==
  ASSUME NEW l, NEW Q, Rings(l, Q), NEW h \in ListHead
  PROVE  /\ L!first(l, h) = At(h, Q[h], 1)
         /\ L!empty(l, h) <=> Q[h] = <<>>
         /\ Q[h] # <<>> => 1 \in 1..Len(Q[h]) /\ L!first(l, h) = Q[h][1] /\ Q[h][1] \in Chunk
         /\ Q[h] = <<>> => L!first(l, h) = h
<1>1. PICK q \in Seq(Chunk) : q = Q[h] BY DEF Rings
<1>2. Linked(l, h, q) /\ Len(q) \in Nat /\ (q = <<>> <=> Len(q) = 0) BY <1>1 DEF Rings
<1>3. l.next[At(h, q, 0)] = At(h, q, 0 + 1) /\ At(h, q, 0) = h BY <1>2 DEF Linked, At
<1>4. q # <<>> => 1 \in 1..Len(q) /\ 1 # 0 /\ 1 # Len(q) + 1 /\ q[1] \in Chunk BY <1>2
<1>5. q = <<>> => 1 = Len(q) + 1 BY <1>2
<1>6. q # <<>> => At(h, q, 1) = q[1] BY <1>4 DEF At
<1>7. q = <<>> => At(h, q, 1) = h BY <1>5 DEF At
<1>8. L!empty(l, h) <=> Len(q) = 0 BY <1>2 DEF Linked, L!empty
<1> QED BY <1>1, <1>2, <1>3, <1>4, <1>6, <1>7, <1>8 DEF L!first

\* pop erases the first.
LEMMA PopErases ==
  ASSUME NEW l, NEW Q, Rings(l, Q), NEW h \in ListHead, Q[h] # <<>>
  PROVE  L!pop(l, h) = L!erase(l, h, Q[h][1])
<1>1. PICK q \in Seq(Chunk) : q = Q[h] BY DEF Rings
<1>2. Linked(l, h, q) /\ Len(q) \in Nat /\ Len(q) # 0 BY <1>1 DEF Rings
<1>3. L!first(l, h) = q[1] BY <1>1, FirstIs
<1>4. 0 \in 0..Len(q) /\ 0 + 1 = 1 /\ 1 # Len(q) + 1 BY <1>2
<1>5. At(h, q, 0) = h /\ At(h, q, 1) = q[1] BY <1>4 DEF At
<1>6. l.prev[q[1]] = h BY <1>2, <1>4, <1>5 DEF Linked
<1> QED BY <1>1, <1>3, <1>6 DEF L!pop, L!erase

\* A chunk that is on no list has links that nobody follows.
LEMMA Forgotten ==
  ASSUME NEW l, NEW Q, Rings(l, Q), NEW n \in Chunk,
         \A g \in ListHead : n \notin Members(Q[g])
  PROVE  Rings(Gone(l, n), Q)
<1>1. PICK m : m = Gone(l, n) OBVIOUS
<1>2. l \in Links /\ n \in L!Node BY DEF Rings, L!Node
<1>3. PICK f, g, z : /\ f = l.prev /\ g = l.next /\ z = l.size
                     /\ l = [prev |-> f, next |-> g, size |-> z]
  BY <1>2 DEF Links
<1>4. m = [prev |-> [f EXCEPT ![n] = Null], next |-> [g EXCEPT ![n] = Null], size |-> z]
  BY <1>1, <1>3 DEF Gone
<1>5. f \in [L!Node -> L!Node \cup {Null}] /\ g \in [L!Node -> L!Node \cup {Null}]
      /\ z \in [ListHead -> Int]
  BY <1>2, <1>3 DEF Links
<1>6. m \in Links BY <1>4, <1>5 DEF Links
<1>7. /\ m.size = l.size
      /\ \A x \in L!Node : x # n => m.prev[x] = l.prev[x] /\ m.next[x] = l.next[x]
  BY <1>3, <1>4, <1>5
<1>8. ASSUME NEW h \in ListHead PROVE Linked(m, h, Q[h])
  <2>1. Linked(l, h, Q[h]) /\ Len(Q[h]) \in Nat BY DEF Rings
  <2>2. ASSUME NEW k \in 0..(Len(Q[h]) + 1) PROVE At(h, Q[h], k) \in L!Node \ {n}
    <3>1. CASE k \in 1..Len(Q[h])
      <4>1. At(h, Q[h], k) \in Members(Q[h]) BY <3>1, Nodes DEF Members
      <4> QED BY <4>1, Nodes
    <3>2. CASE k \notin 1..Len(Q[h])
      <4>1. k = 0 \/ k = Len(Q[h]) + 1 BY <2>1, <3>2
      <4>2. At(h, Q[h], k) = h BY <4>1, Nodes
      <4> QED BY <4>2, SlabAssumption DEF L!Node
    <3> QED BY <3>1, <3>2
  <2>3. \A k \in 0..Len(Q[h]) : k \in 0..(Len(Q[h]) + 1) /\ k + 1 \in 0..(Len(Q[h]) + 1)
    BY <2>1
  <2> QED BY <1>7, <2>1, <2>2, <2>3 DEF Linked
<1> QED BY <1>1, <1>6, <1>8 DEF Rings

\* The links lead through the elements, and back to the head.
LEMMA NthIs ==
  ASSUME NEW l, NEW Q, Rings(l, Q), NEW h \in ListHead
  PROVE  L!Nth(l, h) = [k \in 0..(Len(Q[h]) + 1) |-> At(h, Q[h], k)]
<1>1. PICK q \in Seq(Chunk), n \in Nat : q = Q[h] /\ n = Len(q) BY DEF Rings
<1>2. l.size[h] = n /\ Linked(l, h, q) BY <1>1 DEF Rings, Linked
<1> DEFINE Follows(f) == f = [k \in 0..(n + 1) |->
             IF k = 0 THEN h ELSE IF f[k - 1] = Null THEN Null ELSE l.next[f[k - 1]]]
           ring == [k \in 0..(n + 1) |-> At(h, q, k)]
<1>3. ASSUME NEW k \in 0..(n + 1)
      PROVE  /\ At(h, q, k) # Null
             /\ k = 0 => At(h, q, k) = h
             /\ k # 0 => k - 1 \in 0..(n + 1) /\ l.next[At(h, q, k - 1)] = At(h, q, k)
  <2>1. At(h, q, k) \in L!Node BY <1>1, Nodes
  <2>2. At(h, q, k) # Null BY <2>1, SlabAssumption DEF L!Node
  <2>3. ASSUME k # 0
        PROVE  k - 1 \in 0..(n + 1) /\ l.next[At(h, q, k - 1)] = At(h, q, k)
    <3>1. k - 1 \in 0..n /\ k - 1 \in 0..(n + 1) /\ (k - 1) + 1 = k BY <2>3
    <3>2. l.next[At(h, q, k - 1)] = At(h, q, (k - 1) + 1) BY <1>1, <1>2, <3>1 DEF Linked
    <3> QED BY <3>1, <3>2
  <2> QED BY <2>2, <2>3 DEF At
<1>4. Follows(ring)
  <2> DEFINE val(k) == IF k = 0 THEN h ELSE IF ring[k - 1] = Null THEN Null
                       ELSE l.next[ring[k - 1]]
  <2>1. ASSUME NEW k \in 0..(n + 1) PROVE val(k) = At(h, q, k)
    <3>1. CASE k = 0 BY <1>3, <3>1
    <3>2. CASE k # 0
      <4>1. k - 1 \in 0..(n + 1) BY <1>3, <3>2
      <4>2. ring[k - 1] = At(h, q, k - 1) /\ At(h, q, k - 1) # Null BY <1>3, <4>1
      <4> QED BY <1>3, <3>2, <4>2
    <3> QED BY <3>1, <3>2
  <2>2. ring = [k \in 0..(n + 1) |-> val(k)] BY <2>1
  <2> QED BY <2>2
<1>5. ASSUME NEW f, Follows(f) PROVE f = ring
  <2> DEFINE wrong == { k \in 0..(n + 1) : f[k] # At(h, q, k) }
  <2>1. ASSUME wrong # {} PROVE FALSE
    <3>1. wrong \in SUBSET Nat OBVIOUS
    <3>2. PICK k \in wrong : \A j \in wrong : k <= j BY <2>1, <3>1, LeastElement
    <3>3. k \in 0..(n + 1) /\ f[k] # At(h, q, k) OBVIOUS
    <3>4. f[k] = IF k = 0 THEN h ELSE IF f[k - 1] = Null THEN Null ELSE l.next[f[k - 1]]
      BY <1>5, <3>3
    <3>5. k # 0 BY <1>3, <3>3, <3>4
    <3>6. k - 1 \in 0..(n + 1) /\ k - 1 \notin wrong
      <4>1. k - 1 \in 0..(n + 1) BY <1>3, <3>3, <3>5
      <4>2. ~(k <= k - 1) BY <3>3
      <4> QED BY <3>2, <4>1, <4>2
    <3>7. f[k - 1] = At(h, q, k - 1) BY <3>6
    <3>8. f[k - 1] # Null /\ l.next[f[k - 1]] = At(h, q, k) BY <1>3, <3>3, <3>5, <3>6, <3>7
    <3> QED BY <3>3, <3>4, <3>5, <3>8
  <2>2. \A k \in 0..(n + 1) : f[k] = At(h, q, k) BY <2>1
  <2>3. f = [k \in 0..(n + 1) |-> f[k]] BY <1>5
  <2> QED BY <2>2, <2>3
<1>6. L!Nth(l, h) = CHOOSE f : Follows(f) BY <1>2 DEF L!Nth
<1>7. L!Nth(l, h) = ring BY <1>4, <1>5, <1>6
<1> QED BY <1>1, <1>7

\* So SeqOf and Ring say what Rings does.
LEMMA SeqIs ==
  ASSUME NEW l, NEW Q, Rings(l, Q), NEW h \in ListHead
  PROVE  L!SeqOf(l, h) = Q[h] /\ L!Ring(l, h)
<1>1. PICK q \in Seq(Chunk), n \in Nat : q = Q[h] /\ n = Len(q) BY DEF Rings
<1>2. l.size[h] = n /\ Linked(l, h, q) BY <1>1 DEF Rings, Linked
<1>3. L!Nth(l, h) = [k \in 0..(n + 1) |-> At(h, q, k)] BY <1>1, NthIs
<1>4. \A k \in 0..(n + 1) : L!Nth(l, h)[k] = At(h, q, k) BY <1>3
<1>5. \A k \in 1..n : k \in 0..(n + 1) /\ At(h, q, k) = q[k] BY <1>1 DEF At
<1>6. L!SeqOf(l, h) = q
  <2>1. L!SeqOf(l, h) = [k \in 1..n |-> q[k]] BY <1>2, <1>4, <1>5 DEF L!SeqOf
  <2>2. q = [k \in 1..n |-> q[k]] BY <1>1
  <2> QED BY <2>1, <2>2
<1>7. L!Ring(l, h)
  <2>1. \A k \in 1..n : L!Nth(l, h)[k] \in Chunk BY <1>1, <1>4, <1>5
  <2>2. L!Nth(l, h)[n + 1] = h
    <3>1. n + 1 \in 0..(n + 1) OBVIOUS
    <3> QED BY <1>1, <1>4, <3>1 DEF At
  <2>3. ASSUME NEW k \in 0..n PROVE l.prev[L!Nth(l, h)[k + 1]] = L!Nth(l, h)[k]
    <3>1. k \in 0..(n + 1) /\ k + 1 \in 0..(n + 1) OBVIOUS
    <3> QED BY <1>1, <1>2, <1>4, <3>1 DEF Linked
  <2> QED BY <1>2, <2>1, <2>2, <2>3 DEF L!Ring
<1> QED BY <1>1, <1>6, <1>7

-----------------------------------------------------------------------------
(* Lists that change *)

\* P is Q but for the place of c, which is on the list home and no other, or
\* on none when home is no list.
Moved(Q, P, c, home) ==
  \A h \in ListHead : /\ Members(P[h]) \ {c} = Members(Q[h]) \ {c}
                      /\ c \in Members(P[h]) <=> h = home

LEMMA Heads ==
  /\ Dirty \in ListHead /\ Null \notin ListHead /\ Null \notin Chunk
  /\ \A s \in Sind : /\ NonEmpty(s) \in ListHead /\ Empty(s) \in ListHead
                     /\ NonEmpty(s) # Dirty /\ Empty(s) # Dirty
                     /\ \A t \in Sind : /\ NonEmpty(s) # Empty(t)
                                        /\ NonEmpty(s) = NonEmpty(t) => s = t
                                        /\ Empty(s) = Empty(t) => s = t
BY SlabAssumption DEF ListHead, NonEmpty, Empty, Dirty

LEMMA Pushes ==
  ASSUME NEW l, NEW Q, Rings(l, Q), NEW h \in ListHead, NEW c \in Chunk,
         \A g \in ListHead : c \notin Members(Q[g])
  PROVE  /\ Rings(L!push(l, h, c), [Q EXCEPT ![h] = <<c>> \o Q[h]])
         /\ Moved(Q, [Q EXCEPT ![h] = <<c>> \o Q[h]], c, h)
<1>1. Q \in [ListHead -> Seq(Chunk)] BY DEF Rings
<1>2. Members(<<c>> \o Q[h]) = Members(Q[h]) \cup {c} BY <1>1, Consed
<1> QED BY <1>1, <1>2, Pushed DEF Moved

LEMMA Erases ==
  ASSUME NEW l, NEW Q, Rings(l, Q), NEW h \in ListHead, NEW c \in Members(Q[h])
  PROVE  /\ Rings(L!erase(l, h, c), [Q EXCEPT ![h] = Without(Q[h], c)])
         /\ Moved(Q, [Q EXCEPT ![h] = Without(Q[h], c)], c, Null)
         /\ \A g \in ListHead : c \notin Members([Q EXCEPT ![h] = Without(Q[h], c)][g])
<1>1. Q \in [ListHead -> Seq(Chunk)] BY DEF Rings
<1>2. PICK i \in 1..Len(Q[h]) : c = Q[h][i] BY DEF Members
<1>3. \A j \in 1..Len(Q[h]), k \in 1..Len(Q[h]) : Q[h][j] = Q[h][k] => j = k
  BY DEF Rings, Apart
<1>4. Without(Q[h], c) = Cut(Q[h], i) /\ Members(Cut(Q[h], i)) = Members(Q[h]) \ {c}
  BY <1>1, <1>2, <1>3, WithoutIs
<1>5. PICK P : P = [Q EXCEPT ![h] = Without(Q[h], c)] OBVIOUS
<1>6. Rings(L!erase(l, h, c), P) /\ \A g \in ListHead : c \notin Members(P[g])
  <2>1. /\ Rings(L!erase(l, h, Q[h][i]), [Q EXCEPT ![h] = Cut(Q[h], i)])
        /\ \A g \in ListHead : Q[h][i] \notin Members([Q EXCEPT ![h] = Cut(Q[h], i)][g])
    BY Erased
  <2>2. P = [Q EXCEPT ![h] = Cut(Q[h], i)] BY <1>4, <1>5
  <2> QED BY <1>2, <2>1, <2>2
<1>7. \A g \in ListHead : Members(P[g]) \ {c} = Members(Q[g]) \ {c} BY <1>1, <1>4, <1>5
<1>8. Moved(Q, P, c, Null) BY <1>6, <1>7, Heads DEF Moved
<1> QED BY <1>5, <1>6, <1>8

LEMMA MovedTwice ==
  ASSUME NEW Q, NEW P, NEW R, NEW c, NEW a, NEW b, Moved(Q, P, c, a), Moved(P, R, c, b)
  PROVE  Moved(Q, R, c, b)
BY DEF Moved

LEMMA WithoutNone ==
  ASSUME NEW q, NEW c, c \notin Members(q)
  PROVE  Without(q, c) = q
BY DEF Without, Members

\* The first of a list erased: the tail.
LEMMA WithoutFirst ==
  ASSUME NEW l, NEW Q, Rings(l, Q), NEW h \in ListHead, Q[h] # <<>>
  PROVE  Q[h][1] \in Members(Q[h]) /\ Without(Q[h], Q[h][1]) = Tail(Q[h])
<1>1. Q[h] \in Seq(Chunk) /\ 1 \in 1..Len(Q[h]) BY FirstIs DEF Rings
<1>2. \A j \in 1..Len(Q[h]), k \in 1..Len(Q[h]) : Q[h][j] = Q[h][k] => j = k
  BY DEF Rings, Apart
<1>3. Without(Q[h], Q[h][1]) = Cut(Q[h], 1) BY <1>1, <1>2, WithoutIs
<1> QED BY <1>1, <1>3, CutFirst DEF Members

\* An element has one list.
LEMMA OneList ==
  ASSUME NEW l, NEW Q, Rings(l, Q), NEW g \in ListHead, NEW h \in ListHead,
         NEW c, c \in Members(Q[g]), c \in Members(Q[h])
  PROVE  g = h
BY DEF Rings, Apart, Members

\* What SmallAlloc does with the slab c, the first of its list, and its bitmap
\* m: the bitmap, the free regions, the links and the lists that follow.
Rest(m) == B!reset(m, B!ffs(m))
Left(m) == { i \in B!Free(m) : \E j \in B!Free(m) : j < i }

TakenLinks(s, c, l, m) ==
  IF B!any(Rest(m)) THEN l ELSE L!push(L!erase(l, NonEmpty(s), c), Empty(s), c)

TakenLists(s, c, Q, m) ==
  IF Left(m) = {} THEN [Q EXCEPT ![NonEmpty(s)] = Tail(Q[NonEmpty(s)]),
                                 ![Empty(s)] = <<c>> \o Q[Empty(s)]]
  ELSE Q

TakenHome(s, m) == IF Left(m) = {} THEN Empty(s) ELSE NonEmpty(s)

LEMMA Takes ==
  ASSUME NEW l, NEW Q, Rings(l, Q), NEW s \in Sind, Q[NonEmpty(s)] # <<>>,
         NEW c, c = Q[NonEmpty(s)][1], NEW m, BitmapOK(m), B!Free(m) # {}
  PROVE  /\ c \in Chunk /\ BitmapOK(Rest(m)) /\ Rest(m).num = m.num
         /\ B!Free(Rest(m)) = Left(m) /\ Left(m) # 0..(m.num - 1)
         /\ Rings(TakenLinks(s, c, l, m), TakenLists(s, c, Q, m))
         /\ Moved(Q, TakenLists(s, c, Q, m), c, TakenHome(s, m))
<1> DEFINE f == B!ffs(m)
           rest == Rest(m)
           left == Left(m)
<1>0. PICK r, P : r = TakenLinks(s, c, l, m) /\ P = TakenLists(s, c, Q, m) OBVIOUS
<1>1. f \in B!Free(m) /\ \A pos \in B!Free(m) : f <= pos BY FfsIs
<1>2. B!Free(m) \subseteq 0..(m.num - 1) BY DEF B!Free
<1>3. BitmapOK(rest) /\ rest.num = m.num /\ B!Free(rest) = B!Free(m) \ {f}
  BY <1>1, <1>2, ResetBits DEF Rest
<1>4. B!Free(m) \ {f} = left
  <2>1. \A i \in B!Free(m) : i \in Int BY <1>2
  <2> HIDE DEF f
  <2>2. \A i \in B!Free(m) : (\E j \in B!Free(m) : j < i) <=> i # f BY <1>1, <2>1
  <2> QED BY <2>2 DEF Left
<1>5. left # 0..(m.num - 1) BY <1>1, <1>2, <1>4
<1>6. B!any(rest) <=> left # {} BY <1>3, <1>4, AnyIs
<1> HIDE DEF f, rest, left
<1>7. Q \in [ListHead -> Seq(Chunk)] /\ NonEmpty(s) \in ListHead /\ Empty(s) \in ListHead
      /\ NonEmpty(s) # Empty(s)
  BY Heads DEF Rings
<1>8. c \in Members(Q[NonEmpty(s)]) /\ Without(Q[NonEmpty(s)], c) = Tail(Q[NonEmpty(s)])
      /\ c \in Chunk
  BY <1>7, WithoutFirst, FirstIs
<1>9. CASE left # {}
  <2>1. r = l /\ P = Q BY <1>0, <1>6, <1>9 DEF TakenLinks, TakenLists, rest, left
  <2>2. ASSUME NEW h \in ListHead PROVE c \in Members(Q[h]) <=> h = NonEmpty(s)
    <3>1. ASSUME c \in Members(Q[h]) PROVE h = NonEmpty(s)
      <4>1. PICK g \in ListHead : g = NonEmpty(s) /\ c \in Members(Q[g]) BY <1>7, <1>8
      <4>2. g = h BY <3>1, <4>1, OneList
      <4> QED BY <4>1, <4>2
    <3> QED BY <1>8, <3>1
  <2>3. Moved(Q, Q, c, NonEmpty(s)) BY <2>2 DEF Moved
  <2> QED BY <1>0, <1>3, <1>4, <1>5, <1>8, <1>9, <2>1, <2>3 DEF TakenHome, rest, left
<1>10. CASE left = {}
  <2>1. PICK R : R = [Q EXCEPT ![NonEmpty(s)] = Tail(Q[NonEmpty(s)])] OBVIOUS
  <2>2. /\ Rings(L!erase(l, NonEmpty(s), c), R) /\ Moved(Q, R, c, Null)
        /\ \A g \in ListHead : c \notin Members(R[g])
    BY <1>7, <1>8, <2>1, Erases
  <2>3. R[Empty(s)] = Q[Empty(s)] BY <1>7, <2>1
  <2>4. P = [R EXCEPT ![Empty(s)] = <<c>> \o R[Empty(s)]]
    BY <1>0, <1>7, <1>10, <2>1, <2>3 DEF TakenLists, left
  <2>5. PICK k : k = L!erase(l, NonEmpty(s), c) /\ r = L!push(k, Empty(s), c)
    BY <1>0, <1>6, <1>10 DEF TakenLinks, rest, left
  <2>6. Rings(r, P) /\ Moved(R, P, c, Empty(s))
    <3>1. PICK h \in ListHead : h = Empty(s) BY <1>7
    <3>2. Rings(k, R) BY <2>2, <2>5
    <3>3. /\ Rings(L!push(k, h, c), [R EXCEPT ![h] = <<c>> \o R[h]])
          /\ Moved(R, [R EXCEPT ![h] = <<c>> \o R[h]], c, h)
      BY <1>8, <2>2, <3>2, Pushes
    <3> QED BY <2>4, <2>5, <3>1, <3>3
  <2>7. Moved(Q, P, c, Empty(s)) BY <2>2, <2>6, MovedTwice
  <2> QED BY <1>0, <1>3, <1>4, <1>5, <1>8, <1>10, <2>6, <2>7 DEF TakenHome, rest, left
<1> QED BY <1>9, <1>10

-----------------------------------------------------------------------------
(* The invariant *)

Lists == [h \in ListHead |-> List(h)]

\* The list a chunk belongs on: no list when its last region was just returned.
Home(c) ==
  IF state[c] = "active"
  THEN IF Free(c) = {} THEN Empty(sind[c])
       ELSE IF Free(c) = 0..(bitmap[c].num - 1) THEN Null ELSE NonEmpty(sind[c])
  ELSE IF state[c] = "dirty" THEN Dirty ELSE Null

Bitmaps ==
  bitmap = [c \in Chunk |-> bitmap[c]] /\ \A c \in Chunk : BitmapType(bitmap[c])

Types ==
  /\ Bitmaps
  /\ sind \in [Chunk -> Sind \cup {Null}]
  /\ state \in [Chunk -> {"out", "active", "dirty"}]
  /\ epoch \in [Chunk -> 0..(EpochLimit - 1)] /\ epoch_ \in 0..(EpochLimit - 1)

Slabs ==
  \A c \in Chunk : state[c] = "active" =>
    sind[c] \in Sind /\ BitmapOK(bitmap[c]) /\ bitmap[c].num = Num[sind[c]]

AtHome == \A c \in Chunk, h \in ListHead : c \in Members(Lists[h]) <=> h = Home(c)

\* The collection is at a position of the list, and has left no old chunk behind.
Walking ==
  curr # Null =>
    \E i \in 1..(Len(Lists[Dirty]) + 1) :
      /\ curr = At(Dirty, Lists[Dirty], i)
      /\ \A j \in 1..(i - 1) : ~Old(Lists[Dirty][j])

IInv ==
  Types /\ Slabs /\ Rings(links, Lists) /\ AtHome /\ Walking

\* Which chunks are at home on which list.
LEMMA HomeIs ==
  ASSUME Types, Slabs, NEW c \in Chunk
  PROVE  /\ \A s \in Sind :
              /\ Home(c) = NonEmpty(s) <=>
                   state[c] = "active" /\ sind[c] = s /\ Free(c) \notin {{}, 0..(Num[s] - 1)}
              /\ Home(c) = Empty(s) <=> state[c] = "active" /\ sind[c] = s /\ Free(c) = {}
         /\ Home(c) = Dirty <=> state[c] = "dirty"
<1>1. CASE state[c] = "active"
  <2>1. sind[c] \in Sind /\ bitmap[c].num = Num[sind[c]] BY <1>1 DEF Slabs
  <2>2. PICK t, F, G : t \in Sind /\ t = sind[c] /\ F = Free(c) /\ G = 0..(Num[t] - 1) BY <2>1
  <2>3. Home(c) = IF F = {} THEN Empty(t) ELSE IF F = G THEN Null ELSE NonEmpty(t)
    BY <1>1, <2>1, <2>2 DEF Home
  <2> QED BY <1>1, <2>2, <2>3, Heads
<1>2. CASE state[c] # "active"
  <2>1. Home(c) = IF state[c] = "dirty" THEN Dirty ELSE Null BY <1>2 DEF Home
  <2> QED BY <1>2, <2>1, Heads
<1> QED BY <1>1, <1>2

\* The links lead to what they were made to.
LEMMA ListsNow ==
  ASSUME NEW P, Rings(links, P)
  PROVE  Lists = P /\ \A h \in ListHead : List(h) = P[h]
<1>1. \A h \in ListHead : List(h) = P[h] BY SeqIs DEF List
<1>2. P \in [ListHead -> Seq(Chunk)] BY DEF Rings
<1>3. P = [h \in ListHead |-> P[h]] BY <1>2
<1> QED BY <1>1, <1>3 DEF Lists

LEMMA ListsNext ==
  ASSUME NEW P, Rings(links', P)
  PROVE  Lists' = P /\ \A h \in ListHead : List(h)' = P[h]
<1>1. \A h \in ListHead : L!SeqOf(links', h) = P[h] BY SeqIs
<1>2. \A h \in ListHead : List(h)' = P[h] BY <1>1 DEF List
<1>3. P \in [ListHead -> Seq(Chunk)] BY DEF Rings
<1>4. P = [h \in ListHead |-> P[h]] BY <1>3
<1> QED BY <1>2, <1>4 DEF Lists

\* A step that moves one chunk to where it belongs.
LEMMA Settled ==
  ASSUME AtHome, NEW P, Lists' = P, NEW c \in Chunk, Moved(Lists, P, c, Home(c)'),
         \A d \in Chunk : d # c => /\ state'[d] = state[d] /\ sind'[d] = sind[d]
                                   /\ bitmap'[d] = bitmap[d]
  PROVE  AtHome'
<1>1. \A d \in Chunk : d # c => Home(d)' = Home(d) BY DEF Home, Free
<1>2. ASSUME NEW d \in Chunk, NEW h \in ListHead
      PROVE  d \in Members(P[h]) <=> h = Home(d)'
  <2>1. CASE d = c BY <2>1 DEF Moved
  <2>2. CASE d # c
    <3>1. d \in Members(P[h]) <=> d \in Members(Lists[h]) BY <2>2 DEF Moved
    <3> QED BY <1>1, <2>2, <3>1 DEF AtHome
  <2> QED BY <2>1, <2>2
<1> QED BY <1>2 DEF AtHome

\* The lists R are those of Q with t on the list of dirty chunks, if it is a chunk.
Grown(Q, R, t) ==
  \A d \in Chunk, h \in ListHead :
    d \in Members(R[h]) <=> IF d = t THEN h = Dirty ELSE d \in Members(Q[h])

LEMMA OffLists ==
  ASSUME AtHome, Rings(links, Lists), NEW t \in Tails, NEW h \in ListHead
  PROVE  t \notin Members(Lists[h])
<1>1. CASE t = Null
  <2>1. Lists[h] \in Seq(Chunk) BY DEF Rings
  <2>2. Members(Lists[h]) \subseteq Chunk BY <2>1 DEF Members
  <2> QED BY <1>1, <2>2, Heads
<1>2. CASE t # Null
  <2>1. t \in Chunk /\ Home(t) = Null BY <1>2 DEF Tails, Home
  <2> QED BY <2>1, Heads DEF AtHome
<1> QED BY <1>1, <1>2

LEMMA TailPushed ==
  ASSUME NEW l, NEW Q, Rings(l, Q), NEW t \in Tails,
         \A h \in ListHead : t \notin Members(Q[h])
  PROVE  \E R : /\ Rings(PushTail(l, t), R) /\ Grown(Q, R, t)
                /\ \A h \in ListHead \ {Dirty} : R[h] = Q[h]
<1>1. CASE t = Null
  <2>1. PushTail(l, t) = l /\ Grown(Q, Q, t) BY <1>1, Heads DEF PushTail, Grown
  <2> QED BY <2>1
<1>2. CASE t # Null
  <2>1. t \in Chunk /\ PushTail(l, t) = L!push(l, Dirty, t) BY <1>2 DEF Tails, PushTail
  <2>2. PICK R : R = [Q EXCEPT ![Dirty] = <<t>> \o Q[Dirty]] OBVIOUS
  <2>3. Rings(PushTail(l, t), R) /\ Moved(Q, R, t, Dirty)
    <3>1. PICK h \in ListHead : h = Dirty BY Heads
    <3>2. /\ Rings(L!push(l, h, t), [Q EXCEPT ![h] = <<t>> \o Q[h]])
          /\ Moved(Q, [Q EXCEPT ![h] = <<t>> \o Q[h]], t, h)
      BY <2>1, Pushes
    <3> QED BY <2>1, <2>2, <3>1, <3>2
  <2>4. Grown(Q, R, t) BY <2>3 DEF Moved, Grown
  <2>5. \A h \in ListHead \ {Dirty} : R[h] = Q[h] BY <2>2 DEF Rings
  <2> QED BY <2>3, <2>4, <2>5
<1> QED BY <1>1, <1>2

\* AllocChunk takes the first of the dirty chunks.
LEMMA Popped ==
  ASSUME Rings(links, Lists), AtHome, ~L!empty(links, Dirty),
         NEW c \in Chunk, c = L!first(links, Dirty)
  PROVE  /\ \E R : /\ Rings(L!pop(links, Dirty), R) /\ Moved(Lists, R, c, Null)
                   /\ \A g \in ListHead : c \notin Members(R[g])
                   /\ \A g \in ListHead \ {Dirty} : R[g] = Lists[g]
         /\ c \in Members(Lists[Dirty])
<1>1. c = Lists[Dirty][1] /\ Lists[Dirty] # <<>> BY FirstIs, Heads
<1>2. c \in Members(Lists[Dirty]) BY <1>1, WithoutFirst, Heads
<1>3. L!pop(links, Dirty) = L!erase(links, Dirty, c) BY <1>1, PopErases, Heads
<1>4. PICK R : R = [Lists EXCEPT ![Dirty] = Without(Lists[Dirty], c)] OBVIOUS
<1>5. /\ Rings(L!pop(links, Dirty), R) /\ Moved(Lists, R, c, Null)
      /\ \A g \in ListHead : c \notin Members(R[g])
  <2>1. PICK h \in ListHead : h = Dirty BY Heads
  <2>2. /\ Rings(L!erase(links, h, c), [Lists EXCEPT ![h] = Without(Lists[h], c)])
        /\ Moved(Lists, [Lists EXCEPT ![h] = Without(Lists[h], c)], c, Null)
        /\ \A g \in ListHead : c \notin Members([Lists EXCEPT ![h] = Without(Lists[h], c)][g])
    BY <1>2, <2>1, Erases
  <2> QED BY <1>3, <1>4, <2>1, <2>2
<1>6. \A g \in ListHead \ {Dirty} : R[g] = Lists[g] BY <1>4 DEF Rings
<1> QED BY <1>2, <1>5, <1>6

LEMMA HandOutTypes ==
  ASSUME Types, NEW c, NEW st \in {"out", "active"}, NEW t, NEW e \in 0..(EpochLimit - 1),
         HandOut(c, st, t, e)
  PROVE  /\ state' \in [Chunk -> {"out", "active", "dirty"}]
         /\ epoch' \in [Chunk -> 0..(EpochLimit - 1)] /\ epoch_' \in 0..(EpochLimit - 1)
BY DEF Types, HandOut

\* In the lists R all but the chunk c are at home once t is a dirty chunk.
HomeBut(R, c, t) ==
  \A d \in Chunk \ {c}, h \in ListHead :
    d \in Members(R[h]) <=> h = IF d = t THEN Dirty ELSE Home(d)

\* SmallAlloc with a slab: of the list, or new.
MayTake(s, c, l, Q, m) ==
  /\ Rings(l, Q) /\ Q[NonEmpty(s)] # <<>> /\ c = Q[NonEmpty(s)][1]
  /\ BitmapOK(m) /\ m.num = Num[s] /\ B!Free(m) # {}

SlabIs(c, s, t) ==
  /\ state'[c] = "active" /\ sind'[c] = s
  /\ \A d \in Chunk : d # c => /\ state'[d] = IF d = t THEN "dirty" ELSE state[d]
                               /\ sind'[d] = sind[d]

LEMMA TakeStep ==
  ASSUME Types, Slabs, NEW s \in Sind, NEW l, NEW Q, NEW c, NEW m,
         MayTake(s, c, l, Q, m), Take(s, c, l, m),
         NEW R, NEW t, NEW home, HomeBut(R, c, t), Moved(R, Q, c, home), SlabIs(c, s, t)
  PROVE  /\ Bitmaps' /\ Slabs' /\ AtHome'
         /\ Rings(links', TakenLists(s, c, Q, m)) /\ Lists' = TakenLists(s, c, Q, m)
         /\ \A d \in Chunk : Free(d)' = IF d = c THEN Left(m) ELSE Free(d)
<1> USE DEF MayTake, SlabIs
<1>1. PICK rest, left, r, P :
        /\ rest = Rest(m) /\ left = Left(m)
        /\ r = TakenLinks(s, c, l, m) /\ P = TakenLists(s, c, Q, m)
  OBVIOUS
<1>2. /\ c \in Chunk /\ BitmapOK(rest) /\ rest.num = m.num /\ B!Free(rest) = left
      /\ left # 0..(m.num - 1)
      /\ Rings(r, P)
      /\ Moved(Q, P, c, TakenHome(s, m))
  BY <1>1, Takes
<1>3. bitmap' = [bitmap EXCEPT ![c] = rest] /\ links' = r
  BY <1>1 DEF Take, Rest, TakenLinks
<1>4. bitmap' = [d \in Chunk |-> IF d = c THEN rest ELSE bitmap[d]]
  BY <1>2, <1>3 DEF Types, Bitmaps
<1>5. \A d \in Chunk : bitmap'[d] = IF d = c THEN rest ELSE bitmap[d] BY <1>4
<1>6. bitmap' = [d \in Chunk |-> bitmap'[d]] BY <1>4, <1>5
<1>7. \A d \in Chunk : BitmapType(bitmap'[d]) BY <1>2, <1>5 DEF Types, Bitmaps, BitmapType
<1>8. ASSUME NEW d \in Chunk PROVE Free(d)' = IF d = c THEN left ELSE Free(d)
  <2>1. Free(d)' = B!Free(bitmap'[d]) BY DEF Free
  <2> QED BY <1>2, <1>5, <2>1 DEF Free
<1>9. Slabs'
  <2>1. ASSUME NEW d \in Chunk, state'[d] = "active"
        PROVE  /\ sind'[d] \in Sind /\ BitmapOK(bitmap'[d])
               /\ bitmap'[d].num = Num[sind'[d]]
    <3>1. CASE d = c BY <1>2, <1>5, <3>1
    <3>2. CASE d # c
      <4>1. state[d] = "active" /\ sind'[d] = sind[d] /\ bitmap'[d] = bitmap[d]
        BY <1>5, <2>1, <3>2
      <4> QED BY <4>1 DEF Slabs
    <3> QED BY <3>1, <3>2
  <2> QED BY <2>1 DEF Slabs
<1>10. Lists' = P BY <1>2, <1>3, ListsNext
<1>11. Home(c)' = IF left = {} THEN Empty(s) ELSE NonEmpty(s)
  <2>1. Free(c)' = left /\ bitmap'[c].num = m.num BY <1>2, <1>5, <1>8
  <2>2. left # 0..(bitmap'[c].num - 1) BY <1>2, <2>1
  <2> QED BY <2>1, <2>2 DEF Home
<1>12. Moved(R, P, c, Home(c)')
  <2>1. Home(c)' = TakenHome(s, m) BY <1>1, <1>11 DEF TakenHome
  <2> QED BY <1>2, <2>1, MovedTwice
<1>13. AtHome'
  <2>1. ASSUME NEW d \in Chunk \ {c} PROVE Home(d)' = IF d = t THEN Dirty ELSE Home(d)
    <3>1. Free(d)' = Free(d) /\ bitmap'[d] = bitmap[d] BY <1>5, <1>8
    <3> QED BY <3>1 DEF Home
  <2>2. ASSUME NEW d \in Chunk, NEW h \in ListHead
        PROVE  d \in Members(P[h]) <=> h = Home(d)'
    <3>1. CASE d = c BY <1>12, <3>1 DEF Moved
    <3>2. CASE d # c
      <4>1. d \in Members(P[h]) <=> d \in Members(R[h]) BY <1>12, <3>2 DEF Moved
      <4> QED BY <2>1, <3>2, <4>1 DEF HomeBut
    <3> QED BY <3>1, <3>2
  <2> QED BY <1>10, <2>2 DEF AtHome
<1> QED BY <1>1, <1>2, <1>3, <1>6, <1>7, <1>8, <1>9, <1>10, <1>13 DEF Bitmaps

-----------------------------------------------------------------------------
(* The steps *)

\* The collection is where it was, and so is its list.
LEMMA WalkKept ==
  ASSUME Walking, Lists'[Dirty] = Lists[Dirty], curr' = curr,
         epoch' = epoch, epoch_' = epoch_
  PROVE  Walking' /\ WalkStep
<1>1. Walking' BY DEF Walking, Old
<1>2. List(Dirty) = Lists[Dirty] /\ List(Dirty)' = Lists'[Dirty] BY Heads DEF Lists
<1> QED BY <1>1, <1>2 DEF WalkStep

\* A collection begins, if it does, with the first of the dirty chunks.
LEMMA WalkBegins ==
  ASSUME NEW P, Rings(links', P), curr = Null, Event
  PROVE  Walking' /\ WalkStep
<1>1. Lists' = P BY ListsNext
<1>2. PICK q \in Seq(Chunk) : q = P[Dirty] BY Heads DEF Rings
<1>3. L!first(links', Dirty) = At(Dirty, q, 1) BY <1>2, Heads, FirstIs
<1>4. ASSUME curr' # Null
      PROVE  \E i \in 1..(Len(q) + 1) :
               curr' = At(Dirty, q, i) /\ \A j \in 1..(i - 1) : ~(epoch'[q[j]] < epoch_')
  <2>1. curr' = L!first(links', Dirty) BY <1>4 DEF Event, L!first
  <2>2. 1 \in 1..(Len(q) + 1) /\ 1..(1 - 1) = {} BY <1>2
  <2> QED BY <1>3, <2>1, <2>2
<1>5. Walking' BY <1>1, <1>2, <1>4 DEF Walking, Old
<1> QED BY <1>5 DEF WalkStep

LEMMA AllocStep ==
  ASSUME IInv, NEW s \in Sind, SmallAlloc(s)
  PROVE  IInv' /\ (\E c \in Chunk : AllocExact(s, c)) /\ WalkStep
<1>1. Types /\ Slabs /\ Rings(links, Lists) /\ AtHome /\ Walking BY DEF IInv
<1>2. PICK h \in ListHead, e \in ListHead : /\ h = NonEmpty(s) /\ e = Empty(s)
                                            /\ h # e /\ h # Dirty /\ e # Dirty
  BY Heads
<1>3. Lists \in [ListHead -> Seq(Chunk)] BY <1>1 DEF Rings
<1>4. ~L!empty(links, h) BY <1>2 DEF SmallAlloc
<1>5. PICK c \in Chunk : Lists[h] # <<>> /\ c = L!first(links, h) /\ c = Lists[h][1]
  BY <1>1, <1>4, FirstIs
<1>6. Take(s, c, links, bitmap[c]) /\ sind' = sind /\ state' = state
      /\ epoch' = epoch /\ epoch_' = epoch_ /\ curr' = curr
  BY <1>2, <1>5 DEF SmallAlloc
<1>7. c \in Members(Lists[h]) BY <1>1, <1>5, WithoutFirst
<1>8. Home(c) = h BY <1>1, <1>7 DEF AtHome
<1>9. state[c] = "active" /\ sind[c] = s /\ Free(c) # {} BY <1>1, <1>2, <1>8, HomeIs
<1>10. PICK m : m = bitmap[c] /\ BitmapOK(m) /\ m.num = Num[s] /\ B!Free(m) # {}
  BY <1>1, <1>9 DEF Slabs, Free
<1>11. Moved(Lists, Lists, c, h) /\ HomeBut(Lists, c, Null)
  BY <1>1, <1>8, Heads DEF Moved, AtHome, HomeBut
<1>12. PICK P : P = TakenLists(s, c, Lists, m) OBVIOUS
<1>13. /\ Bitmaps' /\ Slabs' /\ AtHome'
       /\ Rings(links', P) /\ Lists' = P
       /\ \A d \in Chunk : Free(d)' = IF d = c THEN Left(m) ELSE Free(d)
  <2>1. SlabIs(c, s, Null) BY <1>6, <1>9, Heads DEF SlabIs
  <2>2. MayTake(s, c, links, Lists, m) BY <1>1, <1>2, <1>5, <1>10 DEF MayTake
  <2>3. Take(s, c, links, m) BY <1>6, <1>10
  <2> QED BY <1>1, <1>11, <1>12, <2>1, <2>2, <2>3, TakeStep
<1>14. P[h] = (IF Left(m) = {} THEN Tail(Lists[h]) ELSE Lists[h])
       /\ P[e] = (IF Left(m) = {} THEN <<c>> \o Lists[e] ELSE Lists[e])
       /\ P[Dirty] = Lists[Dirty]
  BY <1>2, <1>3, <1>12, Heads DEF TakenLists
<1>15. Types' BY <1>1, <1>6, <1>13 DEF Types
<1>17. Walking' /\ WalkStep BY <1>1, <1>6, <1>13, <1>14, WalkKept
<1>18. Rings(links', Lists') BY <1>13
<1>19. IInv' BY <1>13, <1>15, <1>17, <1>18 DEF IInv
<1>20. AllocExact(s, c)
  <2>1. List(h) = Lists[h] /\ List(e) = Lists[e] /\ List(h)' = P[h] /\ List(e)' = P[e]
    BY <1>13 DEF Lists
  <2>2. Left(m) = { i \in Free(c) : \E j \in Free(c) : j < i } BY <1>10 DEF Left, Free
  <2> QED BY <1>2, <1>5, <1>13, <1>14, <2>1, <2>2 DEF AllocExact
<1> QED BY <1>17, <1>19, <1>20

LEMMA NewSlabStep ==
  ASSUME IInv, NEW s \in Sind, SmallAllocNewSlab(s)
  PROVE  IInv' /\ (\E c \in Chunk : AllocExact(s, c)) /\ WalkStep
<1>1. Types /\ Slabs /\ Rings(links, Lists) /\ AtHome /\ Walking BY DEF IInv
<1>2. PICK h \in ListHead, e \in ListHead : /\ h = NonEmpty(s) /\ e = Empty(s)
                                            /\ h # e /\ h # Dirty /\ e # Dirty
  BY Heads
<1>3. Lists \in [ListHead -> Seq(Chunk)] BY <1>1 DEF Rings
<1>4. L!empty(links, h) /\ curr = Null /\ Event BY <1>2 DEF SmallAllocNewSlab
<1>5. Lists[h] = <<>> BY <1>1, <1>4, FirstIs
<1>6. PICK c \in Chunk, t \in Tails, e1 \in DirtyEpochs :
        /\ t # c
        /\ IF L!empty(links, Dirty) THEN state[c] = "out"
           ELSE c = L!first(links, Dirty) /\ t = Null
        /\ Take(s, c, L!push(IF L!empty(links, Dirty) THEN PushTail(links, t)
                             ELSE L!pop(links, Dirty), h, c), B!init(Num[s]))
        /\ sind' = [sind EXCEPT ![c] = s] /\ HandOut(c, "active", t, e1)
  BY <1>2 DEF SmallAllocNewSlab
\* taken off the dirty chunks; or never on a list, with the tail on it
<1>7. PICK l, R : /\ l = IF L!empty(links, Dirty) THEN PushTail(links, t)
                         ELSE L!pop(links, Dirty)
                  /\ Rings(l, R) /\ HomeBut(R, c, t)
                  /\ R[h] = Lists[h] /\ R[e] = Lists[e]
                  /\ \A g \in ListHead : c \notin Members(R[g])
  <2>1. CASE L!empty(links, Dirty)
    <3>1. PICK R : /\ Rings(PushTail(links, t), R) /\ Grown(Lists, R, t)
                   /\ \A g \in ListHead \ {Dirty} : R[g] = Lists[g]
      <4>1. \A g \in ListHead : t \notin Members(Lists[g]) BY <1>1, OffLists
      <4> QED BY <1>1, <4>1, TailPushed
    <3>2. \A g \in ListHead : c \notin Members(Lists[g])
      <4>1. c \in Tails BY <1>6, <2>1 DEF Tails
      <4> QED BY <1>1, <4>1, OffLists
    <3>3. \A g \in ListHead : c \notin Members(R[g]) BY <1>6, <3>1, <3>2 DEF Grown
    <3>4. HomeBut(R, c, t) BY <1>1, <3>1 DEF Grown, HomeBut, AtHome
    <3> QED BY <1>2, <2>1, <3>1, <3>3, <3>4
  <2>2. CASE ~L!empty(links, Dirty)
    <3>1. PICK R : /\ Rings(L!pop(links, Dirty), R) /\ Moved(Lists, R, c, Null)
                   /\ \A g \in ListHead : c \notin Members(R[g])
                   /\ \A g \in ListHead \ {Dirty} : R[g] = Lists[g]
      BY <1>1, <1>6, <2>2, Popped
    <3>2. HomeBut(R, c, t) BY <1>1, <1>6, <2>2, <3>1, Heads DEF Moved, HomeBut, AtHome
    <3> QED BY <1>2, <2>2, <3>1, <3>2
  <2> QED BY <2>1, <2>2
<1>8. PICK Q, k : Q = [R EXCEPT ![h] = <<c>> \o R[h]] /\ k = L!push(l, h, c) OBVIOUS
<1>9. Rings(k, Q) /\ Moved(R, Q, c, h) BY <1>7, <1>8, Pushes
<1>10. R \in [ListHead -> Seq(Chunk)] BY <1>7 DEF Rings
<1>11. Q[h] = <<c>> /\ Q[e] = Lists[e]
  <2>1. <<c>> \o <<>> = <<c>> OBVIOUS
  <2> QED BY <1>2, <1>5, <1>7, <1>8, <1>10, <2>1
<1>13. PICK m : /\ m = B!init(Num[s]) /\ BitmapOK(m) /\ m.num = Num[s]
                /\ B!Free(m) = 0..(Num[s] - 1) /\ B!Free(m) # {}
  <2>1. PICK n \in 1..(kLongBits * kArraySize) : n = Num[s] BY SlabAssumption
  <2>2. 0 \in 0..(n - 1) BY <2>1, Sizes
  <2>3. 0..(n - 1) # {} BY <2>2
  <2> QED BY <2>1, <2>3, InitBits
<1>14. SlabIs(c, s, t) BY <1>1, <1>6 DEF Types, HandOut, SlabIs
<1>15. PICK P : P = TakenLists(s, c, Q, m) OBVIOUS
<1>16. /\ Bitmaps' /\ Slabs' /\ AtHome'
       /\ Rings(links', P) /\ Lists' = P
       /\ \A d \in Chunk : Free(d)' = IF d = c THEN Left(m) ELSE Free(d)
  <2>2. MayTake(s, c, k, Q, m) BY <1>2, <1>9, <1>11, <1>13 DEF MayTake
  <2>3. Take(s, c, k, m) BY <1>6, <1>7, <1>8, <1>13
  <2> QED BY <1>1, <1>7, <1>9, <1>14, <1>15, <2>2, <2>3, TakeStep
<1>17. Types'
  <2>1. /\ state' \in [Chunk -> {"out", "active", "dirty"}]
        /\ epoch' \in [Chunk -> 0..(EpochLimit - 1)] /\ epoch_' \in 0..(EpochLimit - 1)
    <3>1. e1 \in 0..(EpochLimit - 1) BY DEF DirtyEpochs
    <3> QED BY <1>1, <1>6, <3>1, HandOutTypes
  <2> QED BY <1>1, <1>6, <1>16, <2>1 DEF Types
<1>19. Walking' /\ WalkStep BY <1>4, <1>16, WalkBegins
<1>20. IInv' BY <1>16, <1>17, <1>19 DEF IInv
<1>21. P[h] = (IF Left(m) = {} THEN Tail(<<c>>) ELSE <<c>>)
       /\ P[e] = (IF Left(m) = {} THEN <<c>> \o Lists[e] ELSE Lists[e])
  <2>1. Q \in [ListHead -> Seq(Chunk)] BY <1>9 DEF Rings
  <2> QED BY <1>2, <1>11, <1>15, <2>1 DEF TakenLists
<1>22. AllocExact(s, c)
  <2>1. List(h) = <<>> /\ List(e) = Lists[e] /\ List(h)' = P[h] /\ List(e)' = P[e]
    BY <1>5, <1>16 DEF Lists
  <2>2. PICK F : F = 0..(Num[s] - 1) /\ Left(m) = { i \in F : \E j \in F : j < i }
    BY <1>13 DEF Left
  <2>3. c = <<c>>[1] OBVIOUS
  <2> QED BY <1>2, <1>16, <1>21, <2>1, <2>2, <2>3 DEF AllocExact
<1> QED BY <1>19, <1>20, <1>22

\* SmallDalloc: the slab becomes or stays one with a free region, or has all of
\* them free and goes off the list.
LEMMA DallocStep ==
  ASSUME IInv, NEW c \in Chunk, NEW i \in Nat, SmallDalloc(c, i)
  PROVE  IInv' /\ DallocExact(c, i) /\ WalkStep
<1>1. Types /\ Slabs /\ Rings(links, Lists) /\ AtHome /\ Walking BY DEF IInv
<1>2. state[c] = "active" /\ i < bitmap[c].num /\ ~B!test(bitmap[c], i) BY DEF SmallDalloc
<1>3. PICK s \in Sind, b \in {bitmap[c]} : /\ s = sind[c] /\ b = bitmap[c]
                                           /\ BitmapOK(b) /\ b.num = Num[s]
  BY <1>1, <1>2 DEF Slabs
<1>4. i \in 0..(b.num - 1) /\ i \notin B!Free(b)
  <2>1. b.num \in Nat BY <1>3, BitmapShape
  <2> QED BY <1>2, <1>3, <2>1 DEF B!Free
<1>5. PICK m : m = B!set(b, i) /\ BitmapOK(m) /\ m.num = b.num /\ B!Free(m) = B!Free(b) \cup {i}
  BY <1>3, <1>4, SetBits
<1>6. (B!any(b) <=> B!Free(b) # {}) /\ (B!all(m) <=> B!Free(m) = 0..(b.num - 1))
  BY <1>3, <1>5, AnyIs, AllIs
<1>7. PICK h \in ListHead, e \in ListHead : /\ h = NonEmpty(s) /\ e = Empty(s)
                                            /\ h # e /\ h # Dirty /\ e # Dirty
  BY Heads
<1>8. Lists \in [ListHead -> Seq(Chunk)] BY <1>1 DEF Rings
<1>9. PICK l : /\ l = (IF B!any(b) THEN links ELSE L!push(L!erase(links, e, c), h, c))
               /\ links' = IF B!all(m) THEN L!erase(l, h, c) ELSE l
               /\ bitmap' = [bitmap EXCEPT ![c] = m]
               /\ sind' = sind /\ state' = state /\ curr' = curr
               /\ epoch' = epoch /\ epoch_' = epoch_
  BY <1>3, <1>5, <1>7 DEF SmallDalloc
<1>10. Free(c) = B!Free(b) /\ bitmap[c].num = b.num BY <1>3 DEF Free
<1>11. PICK Q : /\ Rings(l, Q) /\ Moved(Lists, Q, c, h) /\ Q[Dirty] = Lists[Dirty]
                /\ Q[h] = (IF Free(c) = {} THEN <<c>> \o Lists[h] ELSE Lists[h])
                /\ Q[e] = Without(Lists[e], c)
  <2>1. CASE Free(c) = {}
    <3>1. Home(c) = e BY <1>2, <1>3, <1>7, <2>1 DEF Home
    <3>2. c \in Members(Lists[e]) BY <1>1, <3>1 DEF AtHome
    <3>3. PICK R, k : R = [Lists EXCEPT ![e] = Without(Lists[e], c)] /\ k = L!erase(links, e, c)
      OBVIOUS
    <3>4. /\ Rings(k, R) /\ Moved(Lists, R, c, Null)
          /\ \A g \in ListHead : c \notin Members(R[g])
      BY <1>1, <3>2, <3>3, Erases
    <3>5. PICK Q : Q = [R EXCEPT ![h] = <<c>> \o R[h]] OBVIOUS
    <3>6. l = L!push(k, h, c) BY <1>6, <1>9, <1>10, <2>1, <3>3
    <3>7. Rings(l, Q) /\ Moved(R, Q, c, h) BY <3>4, <3>5, <3>6, Pushes
    <3>8. Moved(Lists, Q, c, h) BY <3>4, <3>7, MovedTwice
    <3>9. Q[h] = <<c>> \o Lists[h] /\ Q[e] = Without(Lists[e], c) /\ Q[Dirty] = Lists[Dirty]
      <4>1. R[h] = Lists[h] /\ R[e] = Without(Lists[e], c) /\ R[Dirty] = Lists[Dirty]
        BY <1>7, <1>8, <3>3, Heads
      <4>2. R \in [ListHead -> Seq(Chunk)] BY <3>4 DEF Rings
      <4> QED BY <1>7, <3>5, <4>1, <4>2, Heads
    <3> QED BY <2>1, <3>7, <3>8, <3>9
  <2>2. CASE Free(c) # {}
    <3>1. Free(c) # 0..(bitmap[c].num - 1) BY <1>4, <1>10
    <3>2. Home(c) = h BY <1>2, <1>3, <1>7, <2>2, <3>1 DEF Home
    <3>3. Moved(Lists, Lists, c, h) BY <1>1, <3>2 DEF Moved, AtHome
    <3>4. c \notin Members(Lists[e]) BY <1>1, <1>7, <3>2 DEF AtHome
    <3>5. Without(Lists[e], c) = Lists[e] BY <3>4, WithoutNone
    <3>6. l = links BY <1>6, <1>9, <1>10, <2>2
    <3> QED BY <1>1, <2>2, <3>3, <3>5, <3>6
  <2> QED BY <2>1, <2>2
<1>12. Q \in [ListHead -> Seq(Chunk)] BY <1>11 DEF Rings
<1>13. PICK P : /\ Rings(links', P) /\ P[Dirty] = Q[Dirty] /\ P[e] = Q[e]
                /\ Moved(Lists, P, c, IF B!all(m) THEN Null ELSE h)
                /\ P[h] = IF B!all(m) THEN Without(Q[h], c) ELSE Q[h]
  <2>1. CASE B!all(m)
    <3>1. c \in Members(Q[h]) BY <1>11 DEF Moved
    <3>2. PICK P : P = [Q EXCEPT ![h] = Without(Q[h], c)] OBVIOUS
    <3>3. links' = L!erase(l, h, c) BY <1>9, <2>1
    <3>4. Rings(links', P) /\ Moved(Q, P, c, Null) BY <1>11, <3>1, <3>2, <3>3, Erases
    <3>5. Moved(Lists, P, c, Null) BY <1>11, <3>4, MovedTwice
    <3>6. P[Dirty] = Q[Dirty] /\ P[e] = Q[e] /\ P[h] = Without(Q[h], c)
      BY <1>7, <1>12, <3>2, Heads
    <3> QED BY <2>1, <3>4, <3>5, <3>6
  <2>2. CASE ~B!all(m) BY <1>9, <1>11, <2>2
  <2> QED BY <2>1, <2>2
<1>14. Lists' = P /\ \A g \in ListHead : List(g)' = P[g] BY <1>13, ListsNext
<1>15. bitmap' = [d \in Chunk |-> IF d = c THEN m ELSE bitmap[d]]
  BY <1>1, <1>9 DEF Types, Bitmaps
<1>16. \A d \in Chunk : bitmap'[d] = IF d = c THEN m ELSE bitmap[d] BY <1>15
<1>17. Bitmaps'
  <2>1. bitmap' = [d \in Chunk |-> bitmap'[d]] BY <1>15, <1>16
  <2>2. \A d \in Chunk : BitmapType(bitmap'[d])
    BY <1>1, <1>5, <1>16 DEF Types, Bitmaps, BitmapType
  <2> QED BY <2>1, <2>2 DEF Bitmaps
<1>18. Types' BY <1>1, <1>9, <1>17 DEF Types
<1>19. Slabs'
  <2>1. ASSUME NEW d \in Chunk, state[d] = "active"
        PROVE  /\ sind[d] \in Sind /\ BitmapOK(bitmap'[d])
               /\ bitmap'[d].num = Num[sind[d]]
    <3>1. CASE d = c BY <1>3, <1>5, <1>16, <3>1
    <3>2. CASE d # c BY <1>1, <1>16, <2>1, <3>2 DEF Slabs
    <3> QED BY <3>1, <3>2
  <2> QED BY <1>9, <2>1 DEF Slabs
<1>20. Free(c)' = Free(c) \cup {i} /\ \A d \in Chunk : d # c => Free(d)' = Free(d)
  <2>1. Free(c)' = B!Free(bitmap'[c]) BY DEF Free
  <2>2. \A d \in Chunk : d # c => Free(d)' = Free(d) BY <1>16 DEF Free
  <2> QED BY <1>5, <1>10, <1>16, <2>1, <2>2
<1>21. Home(c)' = IF B!all(m) THEN Null ELSE h
  <2>1. Free(c)' # {} /\ state'[c] = "active" /\ sind'[c] = s BY <1>2, <1>3, <1>9, <1>20
  <2>2. B!all(m) <=> Free(c)' = 0..(bitmap'[c].num - 1)
    BY <1>5, <1>6, <1>10, <1>16, <1>20
  <2> QED BY <1>7, <2>1, <2>2 DEF Home
<1>22. AtHome'
  <2>1. Moved(Lists, P, c, Home(c)') BY <1>13, <1>21
  <2> QED BY <1>1, <1>9, <1>14, <1>16, <2>1, Settled
<1>24. Walking' /\ WalkStep BY <1>1, <1>9, <1>11, <1>13, <1>14, WalkKept
<1>25. IInv' BY <1>13, <1>14, <1>18, <1>19, <1>22, <1>24 DEF IInv
<1>26. DallocExact(c, i)
  <2>1. List(h) = Lists[h] /\ List(e) = Lists[e] /\ List(h)' = P[h] /\ List(e)' = P[e]
    BY <1>14 DEF Lists
  <2>2. List(Empty(sind[c]))' = P[e]
    <3>1. List(Empty(sind[c]))' = List(e)' BY <1>3, <1>7, <1>9 DEF List
    <3> QED BY <2>1, <3>1
  <2>3. List(NonEmpty(sind[c]))' = P[h]
    <3>1. List(NonEmpty(sind[c]))' = List(h)' BY <1>3, <1>7, <1>9 DEF List
    <3> QED BY <2>1, <3>1
  <2>4. B!all(m) <=> Free(c) \cup {i} = 0..(Num[s] - 1) BY <1>3, <1>5, <1>6, <1>10
  <2>5. \A d \in Chunk : Free(d)' = IF d = c THEN Free(c) \cup {i} ELSE Free(d) BY <1>20
  <2>6. P[e] = Without(List(Empty(s)), c) BY <1>7, <1>11, <1>13, <2>1
  <2>7. PICK back :
          /\ back = IF Free(c) = {} THEN <<c>> \o List(NonEmpty(s)) ELSE List(NonEmpty(s))
          /\ P[h] = IF Free(c) \cup {i} = 0..(Num[s] - 1) THEN Without(back, c) ELSE back
    BY <1>7, <1>11, <1>13, <2>1, <2>4
  <2> QED BY <1>3, <2>2, <2>3, <2>5, <2>6, <2>7 DEF DallocExact
<1> QED BY <1>24, <1>25, <1>26

\* DallocChunk: the chunk of no list goes to the dirty chunks.
LEMMA DirtyStep ==
  ASSUME IInv, NEW c \in Chunk, DallocChunk(c)
  PROVE  IInv' /\ WalkStep
<1>1. Types /\ Slabs /\ Rings(links, Lists) /\ AtHome /\ Walking BY DEF IInv
<1>2. /\ \/ state[c] = "active" /\ Free(c) = 0..(bitmap[c].num - 1)
         \/ state[c] = "out"
      /\ curr = Null /\ Event
      /\ links' = L!push(links, Dirty, c) /\ state' = [state EXCEPT ![c] = "dirty"]
      /\ epoch' = [epoch EXCEPT ![c] = epoch_] /\ epoch_' = epoch_
      /\ bitmap' = bitmap /\ sind' = sind
  BY DEF DallocChunk, Free
<1>3. Home(c) = Null
  <2>1. CASE state[c] = "active"
    <3>1. PICK n \in Nat \ {0} : n = bitmap[c].num BY <1>1, <2>1, BitmapShape DEF Slabs
    <3>2. 0 \in Free(c) BY <1>2, <2>1, <3>1
    <3> QED BY <1>2, <2>1, <3>2 DEF Home
  <2>2. CASE state[c] = "out" BY <2>2 DEF Home
  <2> QED BY <1>2, <2>1, <2>2
<1>4. \A g \in ListHead : c \notin Members(Lists[g]) BY <1>1, <1>3, Heads DEF AtHome
<1>5. PICK P : P = [Lists EXCEPT ![Dirty] = <<c>> \o Lists[Dirty]] OBVIOUS
<1>6. Rings(links', P) /\ Moved(Lists, P, c, Dirty) BY <1>1, <1>2, <1>4, <1>5, Pushes, Heads
<1>7. Lists' = P BY <1>6, ListsNext
<1>8. state'[c] = "dirty" /\ \A d \in Chunk : d # c => state'[d] = state[d]
  BY <1>1, <1>2 DEF Types
<1>9. Types' BY <1>1, <1>2 DEF Types, Bitmaps
<1>10. Slabs' BY <1>1, <1>2, <1>8 DEF Slabs
<1>11. AtHome'
  <2>1. Home(c)' = Dirty BY <1>8 DEF Home
  <2> QED BY <1>1, <1>2, <1>6, <1>7, <1>8, <2>1, Settled
<1>13. Walking' /\ WalkStep BY <1>2, <1>6, WalkBegins
<1> QED BY <1>6, <1>7, <1>9, <1>10, <1>11, <1>13 DEF IInv

\* AllocChunk for another request: the first dirty chunk goes, a tail comes.
LEMMA AllocChunkStep ==
  ASSUME IInv, AllocChunk
  PROVE  IInv' /\ WalkStep
<1>1. Types /\ Slabs /\ Rings(links, Lists) /\ AtHome /\ Walking BY DEF IInv
<1>2. curr = Null /\ Event /\ bitmap' = bitmap /\ sind' = sind BY DEF AllocChunk
<1>3. PICK c \in Chunk \cup {Null}, t \in Tails, e \in 0..(EpochLimit - 1) :
        /\ \/ c = Null /\ links' = PushTail(links, t)
           \/ /\ ~L!empty(links, Dirty) /\ c = L!first(links, Dirty)
              /\ links' = PushTail(L!pop(links, Dirty), t)
        /\ HandOut(c, "out", t, e)
  BY DEF AllocChunk
<1>4. \A h \in ListHead : t \notin Members(Lists[h]) BY <1>1, OffLists
<1>5. state' = [d \in Chunk |-> IF d = c THEN "out" ELSE IF d = t THEN "dirty" ELSE state[d]]
  BY <1>3 DEF HandOut
<1>6. PICK R : /\ Rings(links', R)
               /\ \A d \in Chunk, h \in ListHead : d \in Members(R[h]) <=> h = Home(d)'
  <2>1. CASE c = Null
    <3>1. links' = PushTail(links, t)
      <4>1. L!empty(links, Dirty) \/ L!first(links, Dirty) \in Chunk BY <1>1, FirstIs, Heads
      <4> QED BY <1>3, <2>1, <4>1, Heads
    <3>2. PICK R : Rings(links', R) /\ Grown(Lists, R, t) BY <1>1, <1>4, <3>1, TailPushed
    <3>3. \A d \in Chunk : Home(d)' = IF d = t THEN Dirty ELSE Home(d)
      BY <1>2, <1>5, <2>1, Heads DEF Home, Free
    <3> QED BY <1>1, <3>2, <3>3 DEF Grown, AtHome
  <2>2. CASE c # Null
    <3>1. /\ c \in Chunk /\ ~L!empty(links, Dirty) /\ c = L!first(links, Dirty)
          /\ links' = PushTail(L!pop(links, Dirty), t)
      BY <1>3, <2>2
    <3>2. PICK P : /\ Rings(L!pop(links, Dirty), P) /\ Moved(Lists, P, c, Null)
                   /\ \A g \in ListHead : c \notin Members(P[g])
      BY <1>1, <3>1, Popped
    <3>3. c # t
      <4>1. c \in Members(Lists[Dirty]) BY <1>1, <3>1, Popped
      <4> QED BY <1>4, <4>1, Heads
    <3>4. \A h \in ListHead : t \notin Members(P[h]) BY <1>4, <3>2, <3>3 DEF Moved
    <3>5. PICK R : Rings(links', R) /\ Grown(P, R, t) BY <3>1, <3>2, <3>4, TailPushed
    <3>6. \A d \in Chunk :
            Home(d)' = IF d = c THEN Null ELSE IF d = t THEN Dirty ELSE Home(d)
      BY <1>2, <1>5 DEF Home, Free
    <3>7. ASSUME NEW d \in Chunk, NEW h \in ListHead
          PROVE  d \in Members(R[h]) <=> h = Home(d)'
      <4>1. CASE d = c BY <3>2, <3>3, <3>5, <3>6, <4>1, Heads DEF Grown
      <4>2. CASE d = t BY <3>3, <3>5, <3>6, <4>2 DEF Grown
      <4>3. CASE d # c /\ d # t
        <5>1. d \in Members(R[h]) <=> d \in Members(Lists[h]) BY <3>2, <3>5, <4>3 DEF Grown, Moved
        <5> QED BY <1>1, <3>6, <4>3, <5>1 DEF AtHome
      <4> QED BY <4>1, <4>2, <4>3
    <3> QED BY <3>5, <3>7
  <2> QED BY <2>1, <2>2
<1>7. Lists' = R BY <1>6, ListsNext
<1>8. AtHome' BY <1>6, <1>7 DEF AtHome
<1>9. Types' BY <1>1, <1>2, <1>3, HandOutTypes DEF Types, Bitmaps
<1>10. Slabs'
  <2>1. \A d \in Chunk : state'[d] = "active" => state[d] = "active" BY <1>5
  <2> QED BY <1>1, <1>2, <2>1 DEF Slabs
<1>11. Walking' /\ WalkStep BY <1>2, <1>6, WalkBegins
<1> QED BY <1>6, <1>7, <1>8, <1>9, <1>10, <1>11 DEF IInv

\* Where the collection is, and what comes next.
LEMMA Turn ==
  ASSUME Rings(links, Lists), Walking, curr \in Chunk
  PROVE  \E i \in 1..Len(Lists[Dirty]) :
           /\ curr = Lists[Dirty][i] /\ curr # Null /\ curr # Dirty
           /\ \A j \in 1..(i - 1) : ~Old(Lists[Dirty][j])
           /\ links.next[curr] = At(Dirty, Lists[Dirty], i + 1)
           /\ links.next[curr] # Null /\ links.next[curr] # curr
<1>1. PICK q \in Seq(Chunk) : q = Lists[Dirty] BY Heads DEF Rings
<1>2. curr # Null /\ curr # Dirty BY Heads, SlabAssumption
<1>3. PICK i \in 1..(Len(q) + 1) : /\ curr = At(Dirty, q, i)
                                   /\ \A j \in 1..(i - 1) : ~Old(q[j])
  BY <1>1, <1>2 DEF Walking
<1>4. i # Len(q) + 1 BY <1>2, <1>3 DEF At
<1>5. i \in 1..Len(q) /\ i \in 0..Len(q) /\ i \in 0..(Len(q) + 1) /\ i + 1 \in 0..(Len(q) + 1)
      /\ i # 0 /\ i + 1 # 0
  BY <1>1, <1>4
<1>6. curr = q[i] BY <1>3, <1>4, <1>5 DEF At
<1>7. links.next[curr] = At(Dirty, q, i + 1) BY <1>1, <1>3, <1>5, Heads DEF Rings, Linked
<1>8. At(Dirty, q, i + 1) # Null
  <2>1. At(Dirty, q, i + 1) \in L!Node BY <1>1, <1>5, Nodes, Heads
  <2> QED BY <2>1, SlabAssumption DEF L!Node
<1>9. At(Dirty, q, i + 1) # At(Dirty, q, i)
  <2>1. ASSUME At(Dirty, Lists[Dirty], i + 1) = At(Dirty, Lists[Dirty], i) PROVE FALSE
    <3>1. i + 1 = i \/ i + 1 = 0 \/ i = 0 BY <1>1, <1>5, <2>1, Positions, Heads
    <3> QED BY <1>5, <3>1
  <2> QED BY <1>1, <2>1
<1> QED BY <1>1, <1>2, <1>3, <1>5, <1>6, <1>7, <1>8, <1>9

\* The turn goes on to the chunk that was next.
LEMMA GoesOn ==
  ASSUME Rings(links, Lists), NEW q \in Seq(Chunk), q = Lists[Dirty], NEW i \in 1..Len(q),
         curr = q[i], curr' = At(Dirty, q, i + 1)
  PROVE  \A k \in DOMAIN q : q[k] = curr => curr' = IF k = Len(q) THEN Dirty ELSE q[k + 1]
<1>1. \A j \in 1..Len(q), k \in 1..Len(q) : q[j] = q[k] => j = k BY Heads DEF Rings, Apart
<1>2. ASSUME NEW k \in DOMAIN q, q[k] = curr
      PROVE  curr' = IF k = Len(q) THEN Dirty ELSE q[k + 1]
  <2>1. k \in 1..Len(q) OBVIOUS
  <2>2. k = i BY <1>1, <1>2, <2>1
  <2>3. i + 1 # 0 /\ (i + 1 = Len(q) + 1 <=> i = Len(q)) OBVIOUS
  <2> QED BY <2>2, <2>3 DEF At
<1> QED BY <1>2

LEMMA VisitOldStep ==
  ASSUME IInv, VisitOld
  PROVE  IInv' /\ WalkStep
<1>1. Types /\ Slabs /\ Rings(links, Lists) /\ AtHome /\ Walking BY DEF IInv
<1>2. PICK c \in Chunk :
        /\ c = curr /\ Old(c) /\ curr' = links.next[c]
        /\ links' = Gone(L!erase(links, Dirty, c), c) /\ state' = [state EXCEPT ![c] = "out"]
        /\ epoch' = epoch /\ epoch_' = epoch_ /\ bitmap' = bitmap /\ sind' = sind
  BY DEF VisitOld
<1>3. PICK q \in Seq(Chunk) : q = Lists[Dirty] BY <1>1, Heads DEF Rings
<1>4. PICK i \in 1..Len(q) :
        /\ c = q[i] /\ c # Null /\ c # Dirty /\ \A j \in 1..(i - 1) : ~Old(q[j])
        /\ curr' = At(Dirty, q, i + 1) /\ curr' # Null /\ curr' # curr
  BY <1>1, <1>2, <1>3, Turn
<1>5. c \in Members(q) BY <1>4 DEF Members
<1>6. PICK P, k : P = [Lists EXCEPT ![Dirty] = Without(Lists[Dirty], c)]
                  /\ k = L!erase(links, Dirty, c)
  OBVIOUS
<1>7. /\ Rings(k, P) /\ Moved(Lists, P, c, Null)
      /\ \A g \in ListHead : c \notin Members(P[g])
  BY <1>1, <1>3, <1>5, <1>6, Erases, Heads
<1>8. Rings(links', P) BY <1>2, <1>6, <1>7, Forgotten
<1>9. Lists' = P /\ List(Dirty)' = P[Dirty] BY <1>8, ListsNext, Heads
<1>10. P[Dirty] = Without(q, c)
  <2>1. Lists \in [ListHead -> Seq(Chunk)] BY <1>1 DEF Rings
  <2> QED BY <1>3, <1>6, <2>1, Heads
<1>11. Without(q, c) = Cut(q, i)
  <2>1. \A j \in 1..Len(q), n \in 1..Len(q) : q[j] = q[n] => j = n
    BY <1>1, <1>3, Heads DEF Rings, Apart
  <2> QED BY <1>4, <2>1, WithoutIs
<1>12. state'[c] = "out" /\ \A d \in Chunk : d # c => state'[d] = state[d]
  BY <1>1, <1>2 DEF Types
<1>13. Types' BY <1>1, <1>2 DEF Types, Bitmaps
<1>14. Slabs' BY <1>1, <1>2, <1>12 DEF Slabs
<1>15. AtHome'
  <2>1. Home(c)' = Null BY <1>12 DEF Home
  <2> QED BY <1>1, <1>2, <1>7, <1>9, <1>12, <2>1, Settled
<1>17. PICK p \in Seq(Chunk) : /\ p = Cut(q, i) /\ Len(p) = Len(q) - 1
                               /\ \A j \in 1..(Len(q) - 1) : p[j] = IF j < i THEN q[j] ELSE q[j + 1]
  BY CutIs
<1>18. curr' = At(Dirty, p, i)
  <2>1. CASE i = Len(q)
    <3>1. i + 1 = Len(q) + 1 /\ i = Len(p) + 1 BY <1>17, <2>1
    <3> QED BY <1>4, <3>1 DEF At
  <2>2. CASE i # Len(q)
    <3>1. i \in 1..(Len(q) - 1) /\ i # 0 /\ i + 1 # 0 /\ i # Len(p) + 1
          /\ i + 1 # Len(q) + 1 /\ ~(i < i)
      BY <1>17, <2>2
    <3> QED BY <1>4, <1>17, <3>1 DEF At
  <2> QED BY <2>1, <2>2
<1>19. \A j \in 1..(i - 1) : ~(epoch'[p[j]] < epoch_')
  <2>1. ASSUME NEW j \in 1..(i - 1) PROVE ~(epoch'[p[j]] < epoch_')
    <3>1. j \in 1..(Len(q) - 1) /\ j < i OBVIOUS
    <3>2. p[j] = q[j] BY <1>17, <3>1
    <3> QED BY <1>2, <1>4, <3>2 DEF Old
  <2> QED BY <2>1
<1>20. Walking'
  <2>1. i \in 1..(Len(p) + 1) BY <1>17
  <2>2. Lists'[Dirty] = p BY <1>9, <1>10, <1>11, <1>17
  <2> QED BY <1>18, <1>19, <2>1, <2>2 DEF Walking, Old
<1>21. WalkStep
  <2>1. List(Dirty) = q BY <1>3, Heads DEF Lists
  <2>2. \A j \in DOMAIN q : q[j] = curr => curr' = IF j = Len(q) THEN Dirty ELSE q[j + 1]
    BY <1>1, <1>2, <1>3, <1>4, GoesOn
  <2> QED BY <1>2, <1>4, <1>9, <1>10, <2>1, <2>2 DEF WalkStep
<1> QED BY <1>8, <1>9, <1>13, <1>14, <1>15, <1>20, <1>21 DEF IInv

\* A step that moves no chunk.
LEMMA NothingMoves ==
  ASSUME IInv, UNCHANGED <<links, bitmap, sind, state>>
  PROVE  /\ Bitmaps' /\ Slabs' /\ Rings(links', Lists') /\ AtHome' /\ Lists' = Lists
         /\ List(Dirty)' = List(Dirty)
<1>1. Types /\ Slabs /\ Rings(links, Lists) /\ AtHome BY DEF IInv
<1>2. Lists' = Lists /\ \A h \in ListHead : List(h)' = Lists[h]
  <2>1. Rings(links', Lists) BY <1>1
  <2> QED BY <2>1, ListsNext
<1>3. \A c \in Chunk : Home(c)' = Home(c) BY DEF Home, Free
<1>4. AtHome' BY <1>1, <1>2, <1>3 DEF AtHome
<1>5. Bitmaps' /\ Slabs' BY <1>1 DEF Types, Bitmaps, Slabs
<1>6. List(Dirty)' = List(Dirty) BY <1>2, Heads DEF Lists
<1> QED BY <1>1, <1>2, <1>4, <1>5, <1>6

LEMMA VisitYoungStep ==
  ASSUME IInv, VisitYoung
  PROVE  IInv' /\ WalkStep
<1>1. Types /\ Slabs /\ Rings(links, Lists) /\ AtHome /\ Walking BY DEF IInv
<1>2. curr \in Chunk /\ ~Old(curr) /\ curr' = links.next[curr]
      /\ UNCHANGED <<links, bitmap, sind, state, epoch, epoch_>>
  BY DEF VisitYoung
<1>3. PICK q \in Seq(Chunk) : q = Lists[Dirty] BY <1>1, Heads DEF Rings
<1>4. PICK i \in 1..Len(q) :
        /\ curr = q[i] /\ \A j \in 1..(i - 1) : ~Old(q[j])
        /\ curr' = At(Dirty, q, i + 1) /\ curr' # Null
  BY <1>1, <1>2, <1>3, Turn
<1>5. /\ Bitmaps' /\ Slabs' /\ Rings(links', Lists') /\ AtHome' /\ Lists' = Lists
      /\ List(Dirty)' = List(Dirty)
  BY <1>2, NothingMoves
<1>6. Types' BY <1>1, <1>2, <1>5 DEF Types
<1>7. Walking'
  <2>1. i + 1 \in 1..(Len(q) + 1) OBVIOUS
  <2>2. \A j \in 1..((i + 1) - 1) : j = i \/ j \in 1..(i - 1) OBVIOUS
  <2>3. \A j \in 1..((i + 1) - 1) : ~(epoch'[q[j]] < epoch_') BY <1>2, <1>4, <2>2 DEF Old
  <2> QED BY <1>3, <1>4, <1>5, <2>1, <2>3 DEF Walking, Old
<1>8. WalkStep
  <2>1. List(Dirty) = q BY <1>3, Heads DEF Lists
  <2>2. \A j \in DOMAIN q : q[j] = curr => curr' = IF j = Len(q) THEN Dirty ELSE q[j + 1]
    BY <1>1, <1>3, <1>4, GoesOn
  <2> QED BY <1>2, <1>4, <1>5, <2>1, <2>2 DEF WalkStep
<1> QED BY <1>5, <1>6, <1>7, <1>8 DEF IInv

LEMMA OnIs ==
  ASSUME Rings(links, Lists), NEW h \in ListHead
  PROVE  On(h) = Members(Lists[h])
<1>1. PICK q \in Seq(Chunk) : q = Lists[h] /\ q = List(h) BY DEF Rings, Lists
<1>2. DOMAIN q = 1..Len(q) OBVIOUS
<1> QED BY <1>1, <1>2 DEF On, Members

LEMMA EndGCStep ==
  ASSUME IInv, EndGC
  PROVE  IInv' /\ WalkStep
<1>1. Types /\ Slabs /\ Rings(links, Lists) /\ AtHome /\ Walking BY DEF IInv
<1>2. /\ curr = Dirty /\ curr' = Null
      /\ epoch_' = IF epoch_ + 1 = EpochLimit THEN 0 ELSE epoch_ + 1
      /\ UNCHANGED <<links, bitmap, sind, state, epoch>>
  BY DEF EndGC
<1>3. PICK q \in Seq(Chunk) : q = Lists[Dirty] BY <1>1, Heads DEF Rings
<1>4. PICK i \in 1..(Len(q) + 1) : /\ Dirty = At(Dirty, q, i)
                                   /\ \A j \in 1..(i - 1) : ~Old(q[j])
  BY <1>1, <1>2, <1>3, Heads DEF Walking
<1>5. i = Len(q) + 1
  <2>1. ASSUME i \in 1..Len(q) PROVE FALSE
    <3>1. i # 0 /\ i # Len(q) + 1 /\ q[i] \in Chunk BY <2>1
    <3>2. Dirty \in Chunk BY <1>4, <3>1 DEF At
    <3> QED BY <3>2, Heads, SlabAssumption
  <2> QED BY <2>1
<1>6. \A c \in On(Dirty) : ~Old(c)
  <2>1. On(Dirty) = Members(q) BY <1>1, <1>3, Heads, OnIs
  <2>2. \A j \in 1..Len(q) : j \in 1..(i - 1) BY <1>5
  <2> QED BY <1>4, <2>1, <2>2 DEF Members
<1>7. /\ Bitmaps' /\ Slabs' /\ Rings(links', Lists') /\ AtHome' /\ Lists' = Lists
      /\ List(Dirty)' = List(Dirty)
  BY <1>2, NothingMoves
<1>8. Types'
  <2>1. epoch_' \in 0..(EpochLimit - 1) BY <1>1, <1>2, SlabAssumption DEF Types
  <2> QED BY <1>1, <1>2, <1>7, <2>1 DEF Types
<1>9. Walking' BY <1>2 DEF Walking
<1>10. WalkStep
  <2>1. List(Dirty) = q /\ \A k \in DOMAIN q : q[k] # Dirty
    BY <1>3, Heads, SlabAssumption DEF Lists
  <2> QED BY <1>2, <1>6, <1>7, <2>1 DEF WalkStep
<1> QED BY <1>7, <1>8, <1>9, <1>10 DEF IInv

-----------------------------------------------------------------------------
(* The specification *)

LEMMA Initial == Init => IInv
<1> SUFFICES ASSUME Init PROVE IInv OBVIOUS
<1>1. /\ links = L!init /\ bitmap = [c \in Chunk |-> B!Zero] /\ sind = [c \in Chunk |-> Null]
      /\ state = [c \in Chunk |-> "out"] /\ epoch = [c \in Chunk |-> 0] /\ epoch_ = 0
      /\ curr = Null
  BY DEF Init
<1>2. PICK Q : Q = [h \in ListHead |-> <<>>] OBVIOUS
<1>3. Q \in [ListHead -> Seq(Chunk)] /\ \A h \in ListHead : Q[h] = <<>> /\ Len(Q[h]) = 0
  BY <1>2
<1>4. PICK f : f = [n \in L!Node |-> IF n \in ListHead THEN n ELSE Null] OBVIOUS
<1>5. PICK z : z = [h \in ListHead |-> 0] OBVIOUS
<1>6. links = [prev |-> f, next |-> f, size |-> z] BY <1>1, <1>4, <1>5 DEF L!init
<1>7. f \in [L!Node -> L!Node \cup {Null}] BY <1>4 DEF L!Node
<1>8. links \in Links BY <1>5, <1>6, <1>7 DEF Links
<1>9. ASSUME NEW h \in ListHead PROVE Linked(links, h, Q[h])
  <2>1. links.next[h] = h /\ links.prev[h] = h /\ links.size[h] = 0
    BY <1>4, <1>5, <1>6 DEF L!Node
  <2>2. At(h, Q[h], 0) = h /\ At(h, Q[h], 0 + 1) = h BY <1>3 DEF At
  <2>3. \A k \in 0..Len(Q[h]) : k = 0 BY <1>3
  <2> QED BY <1>3, <2>1, <2>2, <2>3 DEF Linked
<1>10. \A h \in ListHead : 1..Len(Q[h]) = {} BY <1>3
<1>11. Rings(links, Q) BY <1>3, <1>8, <1>9, <1>10 DEF Rings, Apart
<1>12. Lists = Q BY <1>11, ListsNow
<1>13. AtHome
  <2>1. \A c \in Chunk : Home(c) = Null BY <1>1 DEF Home
  <2>2. \A h \in ListHead : Members(Q[h]) = {} BY <1>10 DEF Members
  <2> QED BY <1>12, <2>1, <2>2, Heads DEF AtHome
<1>14. Types BY <1>1, SlabAssumption DEF Types, Bitmaps, BitmapType
<1>15. Slabs /\ Walking BY <1>1 DEF Slabs, Walking
<1> QED BY <1>11, <1>12, <1>13, <1>14, <1>15 DEF IInv

LEMMA Steps ==
  ASSUME IInv, [Next]_vars
  PROVE  IInv' /\ [WalkStep]_vars
<1>1. ASSUME NEW s \in Sind, SmallAlloc(s) PROVE IInv' /\ WalkStep BY <1>1, AllocStep
<1>2. ASSUME NEW s \in Sind, SmallAllocNewSlab(s) PROVE IInv' /\ WalkStep BY <1>2, NewSlabStep
<1>3. ASSUME NEW c \in Chunk, DallocChunk(c) PROVE IInv' /\ WalkStep BY <1>3, DirtyStep
<1>4. ASSUME NEW c \in Chunk, NEW i \in 0..(bitmap[c].num - 1), SmallDalloc(c, i)
      PROVE  IInv' /\ WalkStep
  <2>1. i \in Nat OBVIOUS
  <2> QED BY <1>4, <2>1, DallocStep
<1>5. CASE VisitOld BY <1>5, VisitOldStep
<1>6. CASE VisitYoung BY <1>6, VisitYoungStep
<1>7. CASE EndGC BY <1>7, EndGCStep
<1>9. CASE AllocChunk BY <1>9, AllocChunkStep
<1>8. CASE UNCHANGED vars
  <2>1. UNCHANGED <<links, bitmap, sind, state, epoch, epoch_, curr>> BY <1>8 DEF vars
  <2>2. Bitmaps' /\ Slabs' /\ Rings(links', Lists') /\ AtHome' /\ Lists' = Lists
    BY <2>1, NothingMoves
  <2>3. Types' /\ Walking'
    BY <2>1, <2>2 DEF IInv, Types, Walking, Old
  <2> QED BY <1>8, <2>2, <2>3 DEF IInv
<1> QED BY <1>1, <1>2, <1>3, <1>4, <1>5, <1>6, <1>7, <1>8, <1>9 DEF Next

\* The lists are rings of the chunks that belong on them, bitmaps count what
\* they should, and the collection has left no old chunk behind it.
THEOREM Inductive == Spec => []IInv
<1>1. IInv /\ [Next]_vars => IInv' BY Steps
<1> QED BY Initial, <1>1, PTL DEF Spec

\* Every list is, in memory, a ring of the right size with just the chunks that
\* belong there, whatever the lives of the Chunk objects so far: erase() takes a
\* chunk off the list it is on, and the assertion of empty() holds.
THEOREM RingsAlwaysExact == Spec => []RingsExact
<1>1. ASSUME IInv PROVE RingsExact
  <2>1. Types /\ Slabs /\ Rings(links, Lists) /\ AtHome BY <1>1 DEF IInv
  <2>2. \A h \in ListHead : L!Ring(links, h) BY <2>1, SeqIs
  <2>3. ASSUME NEW c \in Chunk, NEW s \in Sind
        PROVE  /\ c \in On(NonEmpty(s)) <=>
                    /\ state[c] = "active" /\ sind[c] = s
                    /\ Free(c) \notin {{}, 0..(Num[s] - 1)}
               /\ c \in On(Empty(s)) <=> state[c] = "active" /\ sind[c] = s /\ Free(c) = {}
    <3>1. c \in On(NonEmpty(s)) <=> Home(c) = NonEmpty(s) BY <2>1, OnIs, Heads DEF AtHome
    <3>2. c \in On(Empty(s)) <=> Home(c) = Empty(s) BY <2>1, OnIs, Heads DEF AtHome
    <3> QED BY <2>1, <3>1, <3>2, HomeIs
  <2>4. ASSUME NEW c \in Chunk PROVE c \in On(Dirty) <=> state[c] = "dirty"
    <3>1. c \in On(Dirty) <=> Home(c) = Dirty BY <2>1, OnIs, Heads DEF AtHome
    <3> QED BY <2>1, <3>1, HomeIs
  <2> QED BY <2>2, <2>3, <2>4, Heads DEF RingsExact
<1> QED BY Inductive, <1>1, PTL

\* any() and all() say of a bitmap of words whether a region is free and
\* whether all are, for any size of words and any number of regions.
THEOREM AnyAndAllAlwaysExact == Spec => []AnyAndAllExact
<1>1. ASSUME IInv PROVE AnyAndAllExact
  <2>1. ASSUME NEW c \in Chunk, bitmap[c].num > 0 PROVE BitmapOK(bitmap[c])
    <3>1. BitmapType(bitmap[c]) BY <1>1 DEF IInv, Types, Bitmaps
    <3>2. B!Zero.num = 0 BY DEF B!Zero
    <3> QED BY <2>1, <3>1, <3>2 DEF BitmapType
  <2> QED BY <2>1, AnyIs, AllIs DEF AnyAndAllExact, Free
<1> QED BY Inductive, <1>1, PTL

\* SmallAlloc and SmallDalloc, done with links and words, do what Arena has of
\* them with sequences and sets, for any number of slabs and regions.
THEOREM StepsAlwaysExact == Spec => StepsExact
<1>1. ASSUME IInv
      PROVE  /\ \A s \in Sind :
                  SmallAlloc(s) \/ SmallAllocNewSlab(s) => \E c \in Chunk : AllocExact(s, c)
             /\ \A c \in Chunk, i \in 0..(kLongBits * kArraySize - 1) :
                  SmallDalloc(c, i) => DallocExact(c, i)
  <2>1. ASSUME NEW s \in Sind, SmallAlloc(s) \/ SmallAllocNewSlab(s)
        PROVE  \E c \in Chunk : AllocExact(s, c)
    BY <1>1, <2>1, AllocStep, NewSlabStep
  <2>2. ASSUME NEW c \in Chunk, NEW i \in 0..(kLongBits * kArraySize - 1), SmallDalloc(c, i)
        PROVE  DallocExact(c, i)
    <3>1. i \in Nat OBVIOUS
    <3> QED BY <1>1, <2>2, <3>1, DallocStep
  <2> QED BY <2>1, <2>2
<1> QED BY Inductive, <1>1, PTL DEF StepsExact

\* The collection takes chunks off the list it walks, in any number, goes from
\* each to the one that was next, and releases every old chunk and no other,
\* in whatever order old and young are on the list.
THEOREM WalkAlwaysMeetsAll == Spec => WalkMeetsAll
<1>1. IInv /\ [Next]_vars => [WalkStep]_vars BY Steps
<1> QED BY Inductive, <1>1, PTL DEF Spec, WalkMeetsAll

=============================================================================
