------------------------- MODULE BaseAllocatorProofs -------------------------
(***************************************************************************)
(* Proofs about the memory of ffmalloc's own objects (BaseAllocator), for  *)
(* any table of size classes, any cache line and page that satisfy         *)
(* BaseAssumption: headers, links and objects never overlap, a free node   *)
(* is on the list its header says, once, and the objects in use are a heap *)
(* of words.                                                               *)
(***************************************************************************)
EXTENDS BaseAllocator, FiniteSetTheorems, SequenceTheorems, WellFoundedInduction, TLAPS

-----------------------------------------------------------------------------
(* Numbers *)

\* A nonempty set of numbers has a least element.
LEMMA LeastElement ==
  ASSUME NEW S \in SUBSET Nat, S # {}
  PROVE  \E i \in S : \A j \in S : i <= j
<1> DEFINE less == { p \in Nat \X Nat : p[1] < p[2] }
<1>1. IsWellFoundedOn(less, Nat) BY NatLessThanWellFounded DEF OpToRel
<1>2. PICK i \in S : \A j \in S : <<j, i>> \notin less
  <2> HIDE DEF less
  <2> QED BY <1>1, WFMin
<1>3. \A j \in S : ~(j < i) BY <1>2
<1> QED BY <1>3

\* Multiplying by a size that is a constant of the model: the provers need it
\* said of plain numbers.
LEMMA Scaled ==
  ASSUME NEW a \in Nat, NEW b \in Nat, NEW k \in Nat
  PROVE  /\ a * k \in Nat /\ (a + b) * k = a * k + b * k /\ (a + 1) * k = a * k + k
         /\ a <= b => a * k <= b * k
         /\ k > 0 => a <= a * k /\ (a * k) \div k = a
OBVIOUS

\* A number is its quotient and its rest.
LEMMA Divided ==
  ASSUME NEW n \in Nat, NEW k \in Nat \ {0}
  PROVE  /\ n \div k \in Nat /\ n % k \in Nat
         /\ n = (n \div k) * k + (n % k) /\ n % k < k
OBVIOUS

\* Rounded up to a multiple of k.
LEMMA RoundedUp ==
  ASSUME NEW n \in Nat, NEW k \in Nat \ {0}
  PROVE  /\ ((n + k - 1) \div k) * k \in Nat
         /\ n <= ((n + k - 1) \div k) * k /\ ((n + k - 1) \div k) * k <= n + k - 1
<1>1. PICK m \in Nat : m = n + k - 1 OBVIOUS
<1>2. m \div k \in Nat /\ m % k \in Nat /\ m = (m \div k) * k + (m % k) /\ m % k < k
  BY Divided
<1>3. PICK q \in Nat, r \in Nat, z \in Nat : q = m \div k /\ r = m % k /\ z = q * k /\ r < k
  BY <1>2, Scaled
<1> QED BY <1>1, <1>2, <1>3

\* The multiple of k that n is above by less than k.
LEMMA RoundedDown ==
  ASSUME NEW k \in Nat \ {0}, NEW b \in Nat, NEW d \in Nat, d < k, b % k = 0
  PROVE  ((b + d) \div k) * k = b
<1>1. b = (b \div k) * k /\ b \div k \in Nat BY Divided
<1>2. PICK q \in Nat : q = b \div k BY <1>1
<1>3. (q * k + d) \div k = q OBVIOUS
<1> QED BY <1>1, <1>2, <1>3

-----------------------------------------------------------------------------
(* Sizes and places *)

LEMMA BaseNumbers ==
  /\ CacheLine \in Nat /\ CacheLine > 0 /\ PageSize \in Nat /\ CacheLine < PageSize
  /\ NumPages * PageSize \in Nat
  /\ Ind \subseteq Nat /\ SmallInd \subseteq Ind
  /\ \A i \in Ind : ClassSize[i] \in Nat /\ ClassSize[i] > 0
  /\ \A i \in SmallInd : SlabSize[i] \in Nat /\ SlabSize[i] > 0
  /\ \A n \in ObjectSize : n \in Nat /\ n > 0
  /\ Word \subseteq Nat
<1>1. NumPages * PageSize \in Nat
  <2>1. PICK a \in Nat, b \in Nat : a = NumPages /\ b = PageSize BY BaseAssumption
  <2> QED BY <2>1, Scaled
<1>2. PICK n \in Nat : Ind = 1..n /\ \A i \in Ind : ClassSize[i] \in Nat \ {0}
  BY BaseAssumption DEF Ind
<1> QED BY <1>1, <1>2, BaseAssumption DEF Word

\* Classes grow.
LEMMA OneClass ==
  ASSUME NEW i \in Ind, NEW j \in Ind
  PROVE  /\ ClassSize[i] = ClassSize[j] => i = j
         /\ ClassSize[i] <= ClassSize[j] <=> i <= j
<1>1. i \in Nat /\ j \in Nat /\ ClassSize[i] \in Nat /\ ClassSize[j] \in Nat BY BaseNumbers
<1>2. i < j => ClassSize[i] < ClassSize[j] BY BaseAssumption
<1>3. j < i => ClassSize[j] < ClassSize[i] BY BaseAssumption
<1> QED BY <1>1, <1>2, <1>3

\* sz_to_ind finds a class where there is one.
LEMMA ClassFound ==
  ASSUME NEW n \in Nat, \E i \in Ind : n <= ClassSize[i]
  PROVE  sz_to_ind(n) \in Ind /\ n <= ClassSize[sz_to_ind(n)]
<1> DEFINE S == { i \in Ind : n <= ClassSize[i] }
<1>1. S \in SUBSET Nat /\ S # {} BY BaseNumbers
<1>2. PICK i \in S : \A j \in S : i <= j BY <1>1, LeastElement
<1>3. \E k \in Ind : n <= ClassSize[k] /\ \A j \in Ind : n <= ClassSize[j] => k <= j BY <1>2
<1> QED BY <1>3 DEF sz_to_ind

\* The class of an object is told by a header that holds the class's size.
LEMMA ClassOfSize ==
  ASSUME NEW i \in Ind
  PROVE  sz_to_ind(ClassSize[i]) = i
<1> DEFINE Least(k) == ClassSize[i] <= ClassSize[k]
                       /\ \A j \in Ind : ClassSize[i] <= ClassSize[j] => k <= j
<1>1. Least(i) BY BaseNumbers, OneClass
<1>2. ASSUME NEW k \in Ind, Least(k) PROVE k = i
  <2>1. k <= i /\ i <= k BY <1>1, <1>2, BaseNumbers
  <2> QED BY <2>1, BaseNumbers
<1> HIDE DEF Least
<1>3. (CHOOSE k \in Ind : Least(k)) = i BY <1>1, <1>2
<1>4. sz_to_ind(ClassSize[i]) = CHOOSE k \in Ind : Least(k) BY DEF sz_to_ind, Least
<1> QED BY <1>3, <1>4

\* The class of an object that is asked for has room for it, for what aligning
\* may take, and for the links of a free node.
LEMMA ObjectClass ==
  ASSUME NEW n \in ObjectSize
  PROVE  LET i == sz_to_ind(WithMeta(n))
         IN  i \in Ind /\ n + CacheLine <= ClassSize[i] /\ CacheLine + Links <= ClassSize[i]
<1>1. n \in Nat /\ n > 0 /\ n + CacheLine \in Nat BY BaseNumbers
<1>2. \E i \in Ind : n + CacheLine <= ClassSize[i] BY BaseAssumption
<1>3. PICK i : i = sz_to_ind(n + CacheLine) OBVIOUS
<1>4. i \in Ind /\ n + CacheLine <= ClassSize[i] BY <1>1, <1>2, <1>3, ClassFound
<1>5. CacheLine < ClassSize[i] BY <1>1, <1>4, BaseNumbers
<1> QED BY <1>3, <1>4, <1>5, BaseAssumption DEF WithMeta

LEMMA Aligned ==
  ASSUME NEW n \in Nat
  PROVE  cacheline_ceil(n) \in Nat /\ n <= cacheline_ceil(n) /\ cacheline_ceil(n) <= n + CacheLine - 1
<1>1. PICK k \in Nat \ {0} : k = CacheLine BY BaseNumbers
<1> QED BY <1>1, RoundedUp DEF cacheline_ceil

\* The header of a node of class size s at p, and what is sure to be the node's
\* own behind it: its slab may have been cut a cache line further on.
Room(p, s) == Words(p - Header, Header + s - CacheLine)

Apart(x, y) == x \cap y = {}

LEMMA WordsAre ==
  ASSUME NEW b \in Nat, NEW s \in Int
  PROVE  \A q : q \in Words(b, s) <=> q \in Nat /\ b <= q /\ q < b + s
BY DEF Words

LEMMA RoomIs ==
  ASSUME NEW p \in Nat, p > 0, NEW s \in Nat
  PROVE  \A q : q \in Room(p, s) <=> q \in Nat /\ p <= q + 1 /\ q + CacheLine < p + s
<1>1. PICK L \in Nat : L = CacheLine BY BaseNumbers
<1>2. Room(p, s) = (p - 1)..(p - 1 + (1 + s - L) - 1) BY <1>1 DEF Room, Words, Header
<1> QED BY <1>1, <1>2

\* Nodes of size s are apart, and inside of M, which begins at base.
CutsWell(nodes, s, base, M) ==
  /\ nodes \in Seq(Word) /\ nodes # <<>>
  /\ \A k \in 1..Len(nodes) : nodes[k] > base /\ Room(nodes[k], s) \subseteq M
  /\ \A k, l \in 1..Len(nodes) :
       k # l => nodes[k] # nodes[l] /\ Apart(Room(nodes[k], s), Room(nodes[l], s))

\* AllocSmallNodes.
LEMMA NodesApart ==
  ASSUME NEW i \in SmallInd, CacheLine + Links <= ClassSize[i],
         NEW base \in Nat, Words(base, SlabSize[i]) \subseteq Word,
         NEW nodes, nodes = Nodes(base, i)
  PROVE  /\ CutsWell(nodes, ClassSize[i], base, Words(base, SlabSize[i]))
         /\ Len(nodes) * ClassSize[i] = SlabSize[i]
<1>1. PICK c \in Nat, z \in Nat, L \in Nat, n \in Nat :
        /\ c = ClassSize[i] /\ z = SlabSize[i] /\ L = CacheLine /\ n = z \div c
        /\ L > 0 /\ L + 2 <= c /\ z > 0 /\ n * c = z
  <2>1. PICK c \in Nat, z \in Nat, L \in Nat :
          /\ c = ClassSize[i] /\ z = SlabSize[i] /\ L = CacheLine
          /\ L > 0 /\ L + 2 <= c /\ z > 0 /\ z % c = 0
    BY BaseNumbers, BaseAssumption DEF Links
  <2>0. c \in Nat \ {0} BY <2>1
  <2>2. z \div c \in Nat /\ z = (z \div c) * c + (z % c) BY ONLY <2>0, z \in Nat, Divided
  <2>3. PICK n \in Nat : n = z \div c BY <2>2
  <2>4. n * c = z BY <2>1, <2>2, <2>3, Scaled
  <2> QED BY <2>1, <2>3, <2>4
<1>2. n > 0 BY <1>1
<1>c. L > 0 /\ L + 2 <= c /\ L = CacheLine /\ c = ClassSize[i] /\ z = SlabSize[i] BY <1>1
<1> DEFINE slot(k) == base + (n - k) * c
<1>3. ASSUME NEW k \in 1..n
      PROVE  slot(k) \in Nat /\ base <= slot(k) /\ slot(k) + c <= base + z
  <2>1. PICK m \in Nat : m = n - k /\ m + 1 <= n BY <1>3
  <2>2. m * c \in Nat /\ (m + 1) * c = m * c + c /\ (m + 1) * c <= n * c BY <2>1, Scaled
  <2> QED BY <1>1, <2>1, <2>2
<1>4. ASSUME NEW k \in 1..n, NEW l \in 1..n, k < l PROVE slot(l) + c <= slot(k)
  <2>1. PICK a \in Nat, b \in Nat : a = n - k /\ b = n - l /\ b + 1 <= a BY <1>4
  <2>2. (b + 1) * c <= a * c /\ (b + 1) * c = b * c + c /\ a * c \in Nat /\ b * c \in Nat
    BY <2>1, Scaled
  <2> QED BY <2>1, <2>2
<1>5. nodes = [k \in 1..n |-> cacheline_ceil(slot(k) + 1)] BY <1>1 DEF Nodes, Header
<1> HIDE DEF slot
<1>6. ASSUME NEW k \in 1..n
      PROVE  /\ nodes[k] \in Nat /\ slot(k) + 1 <= nodes[k] /\ nodes[k] <= slot(k) + L
             /\ slot(k) \in Nat /\ base <= slot(k) /\ slot(k) + c <= base + z
  <2>1. PICK b \in Nat : b = slot(k) + 1 BY <1>3
  <2>2. slot(k) \in Nat /\ base <= slot(k) /\ slot(k) + c <= base + z BY <1>3
  <2>3. nodes[k] = cacheline_ceil(b) BY <1>5, <2>1
  <2>4. nodes[k] \in Nat /\ b <= nodes[k] /\ nodes[k] <= b + L - 1 BY <1>c, <2>3, Aligned
  <2> QED BY <2>1, <2>2, <2>4
<1>7. \A q : q \in Words(base, z) <=> q \in Nat /\ base <= q /\ q < base + z BY WordsAre
<1>8. \A k \in 1..n : nodes[k] \in Words(base, z) BY <1>c, <1>6, <1>7
<1>9. nodes \in Seq(Word) /\ Len(nodes) = n /\ nodes # <<>>
  <2>1. nodes \in [1..n -> Word] BY <1>c, <1>5, <1>8
  <2> QED BY <1>2, <2>1
<1>10. ASSUME NEW k \in 1..n, NEW q \in Room(nodes[k], c)
       PROVE  q \in Nat /\ slot(k) <= q /\ q < slot(k) + c
  <2>1. PICK p \in Nat, b \in Nat : p = nodes[k] /\ b = slot(k) /\ b + 1 <= p /\ p <= b + L
    BY <1>6
  <2>2. q \in Nat /\ p <= q + 1 /\ q + L < p + c BY <1>c, <1>10, <2>1, RoomIs
  <2> QED BY <2>1, <2>2
<1>11. ASSUME NEW k \in 1..n
       PROVE  nodes[k] > base /\ Room(nodes[k], c) \subseteq Words(base, z)
  <2>1. nodes[k] > base BY <1>6
  <2>2. ASSUME NEW q \in Room(nodes[k], c) PROVE q \in Words(base, z)
    BY <1>6, <1>7, <1>10
  <2> QED BY <2>1, <2>2
<1>12. ASSUME NEW k \in 1..n, NEW l \in 1..n, k < l
       PROVE  nodes[k] # nodes[l] /\ Apart(Room(nodes[k], c), Room(nodes[l], c))
  <2>1. slot(l) + c <= slot(k) BY <1>4, <1>12
  <2>2. nodes[k] # nodes[l] BY <1>c, <1>6, <2>1
  <2>3. ASSUME NEW q \in Room(nodes[k], c), q \in Room(nodes[l], c) PROVE FALSE
    BY <1>6, <1>10, <2>1, <2>3
  <2> QED BY <2>2, <2>3 DEF Apart
<1>13. \A k, l \in 1..n : k # l => nodes[k] # nodes[l] /\ Apart(Room(nodes[k], c), Room(nodes[l], c))
  BY <1>12 DEF Apart
<1>14. Len(nodes) * ClassSize[i] = SlabSize[i] BY <1>1, <1>9
<1> QED BY <1>c, <1>9, <1>11, <1>13, <1>14 DEF CutsWell

\* An object with a mapping of its own begins in the mapping's first page.
LEMMA LargePlace ==
  ASSUME NEW base \in Nat, base % PageSize = 0,
         NEW p, p = cacheline_ceil(base + Header)
  PROVE  p \in Nat /\ base < p /\ p <= base + CacheLine /\ PageOf(p) = base
<1>1. PICK k \in Nat \ {0}, L \in Nat : k = PageSize /\ L = CacheLine /\ L < k BY BaseNumbers
<1>2. PICK n \in Nat : n = base + 1 OBVIOUS
<1>3. p \in Nat /\ n <= p /\ p <= n + L - 1 BY <1>1, <1>2, Aligned DEF Header
<1>4. PICK d \in Nat : d = p - base /\ d < k /\ p = base + d BY <1>1, <1>2, <1>3
<1>5. ((base + d) \div k) * k = base BY <1>1, <1>4, RoundedDown
<1> QED BY <1>1, <1>2, <1>3, <1>4, <1>5 DEF PageOf

LEMMA PageOfNat ==
  ASSUME NEW p \in Word
  PROVE  PageOf(p) \in Nat
<1>1. PICK k \in Nat \ {0}, n \in Nat : k = PageSize /\ n = p BY BaseNumbers
<1>2. n \div k \in Nat BY Divided
<1>3. (n \div k) * k \in Nat BY <1>1, <1>2, Scaled
<1> QED BY <1>1, <1>3 DEF PageOf

-----------------------------------------------------------------------------
(* Lists *)

OneEach(list) == \A j, k \in 1..Len(list) : list[j] = list[k] => j = k

LEMMA ElementsAre ==
  ASSUME NEW S, NEW list \in Seq(S)
  PROVE  /\ \A x : x \in Elements(list) <=> \E k \in 1..Len(list) : list[k] = x
         /\ Elements(list) \subseteq S
<1>1. DOMAIN list = 1..Len(list) /\ \A k \in 1..Len(list) : list[k] \in S OBVIOUS
<1> QED BY <1>1 DEF Elements

\* pop: the first element leaves.
LEMMA Popped ==
  ASSUME NEW S, NEW list \in Seq(S), list # <<>>, OneEach(list)
  PROVE  /\ Head(list) \in Elements(list) /\ Tail(list) \in Seq(S) /\ OneEach(Tail(list))
         /\ Elements(Tail(list)) = Elements(list) \ {Head(list)}
<1>1. PICK n \in Nat : n = Len(list) /\ n > 0 OBVIOUS
<1>2. PICK t : t = Tail(list) OBVIOUS
<1>3. t \in Seq(S) /\ Len(t) = n - 1 /\ \A k \in 1..(n - 1) : t[k] = list[k + 1]
  BY <1>1, <1>2, HeadTailProperties
<1>4. Head(list) = list[1] /\ 1 \in 1..n BY <1>1
<1>5. OneEach(t)
  <2> SUFFICES ASSUME NEW j \in 1..(n - 1), NEW k \in 1..(n - 1), t[j] = t[k] PROVE j = k
    BY <1>3 DEF OneEach
  <2>1. list[j + 1] = list[k + 1] /\ j + 1 \in 1..n /\ k + 1 \in 1..n BY <1>1, <1>3
  <2> QED BY <1>1, <2>1 DEF OneEach
<1>6. ASSUME NEW x \in Elements(t) PROVE x \in Elements(list) /\ x # Head(list)
  <2>1. PICK k \in 1..(n - 1) : t[k] = x BY <1>3, <1>6, ElementsAre
  <2>2. list[k + 1] = x /\ k + 1 \in 1..n /\ k + 1 # 1 BY <1>1, <1>3, <2>1
  <2>3. x # list[1] BY <1>1, <1>4, <2>2 DEF OneEach
  <2> QED BY <1>1, <1>4, <2>2, <2>3, ElementsAre
<1>7. ASSUME NEW x \in Elements(list), x # Head(list) PROVE x \in Elements(t)
  <2>1. PICK k \in 1..n : list[k] = x BY <1>1, <1>7, ElementsAre
  <2>2. k # 1 BY <1>4, <1>7, <2>1
  <2>3. PICK j : j = k - 1 OBVIOUS
  <2>4. j \in 1..(n - 1) /\ j + 1 = k BY <2>2, <2>3
  <2>5. t[j] = x BY <1>3, <2>1, <2>4
  <2> QED BY <1>3, <2>4, <2>5, ElementsAre
<1> QED BY <1>1, <1>2, <1>3, <1>4, <1>5, <1>6, <1>7, ElementsAre

\* push: a new first element.
LEMMA Pushed ==
  ASSUME NEW S, NEW list \in Seq(S), OneEach(list), NEW p \in S, p \notin Elements(list)
  PROVE  /\ <<p>> \o list \in Seq(S) /\ OneEach(<<p>> \o list)
         /\ Elements(<<p>> \o list) = Elements(list) \cup {p}
<1>1. PICK n \in Nat : n = Len(list) OBVIOUS
<1>2. PICK t : t = <<p>> \o list OBVIOUS
<1>3. /\ t \in Seq(S) /\ Len(t) = n + 1 /\ t[1] = p
      /\ \A k \in 2..(n + 1) : t[k] = list[k - 1]
  <2>1. <<p>> \in Seq(S) /\ Len(<<p>>) = 1 /\ <<p>>[1] = p OBVIOUS
  <2>2. /\ t \in Seq(S) /\ Len(t) = 1 + n
        /\ \A k \in 1..(1 + n) : t[k] = IF k <= 1 THEN <<p>>[k] ELSE list[k - 1]
    BY <1>1, <1>2, <2>1, ConcatProperties
  <2> QED BY <2>1, <2>2
<1>4. \A k \in 1..n : list[k] # p BY <1>1, ElementsAre
<1>5. OneEach(t)
  <2> SUFFICES ASSUME NEW j \in 1..(n + 1), NEW k \in 1..(n + 1), t[j] = t[k] PROVE j = k
    BY <1>3 DEF OneEach
  <2>1. CASE j = 1 /\ k = 1 BY <2>1
  <2>2. CASE j # 1 /\ k = 1
    <3>1. j - 1 \in 1..n /\ t[j] = list[j - 1] BY <1>3, <2>2
    <3> QED BY <1>3, <1>4, <2>2, <3>1
  <2>3. CASE j = 1 /\ k # 1
    <3>1. k - 1 \in 1..n /\ t[k] = list[k - 1] BY <1>3, <2>3
    <3> QED BY <1>3, <1>4, <2>3, <3>1
  <2>4. CASE j # 1 /\ k # 1
    <3>1. j - 1 \in 1..n /\ k - 1 \in 1..n /\ list[j - 1] = list[k - 1] BY <1>3, <2>4
    <3>2. j - 1 = k - 1 BY <1>1, <3>1 DEF OneEach
    <3> QED BY <3>2
  <2> QED BY <2>1, <2>2, <2>3, <2>4
<1>6. \A x : x \in Elements(t) <=> x \in Elements(list) \/ x = p
  <2>1. ASSUME NEW x \in Elements(t), x # p PROVE x \in Elements(list)
    <3>1. PICK k \in 1..(n + 1) : t[k] = x BY <1>3, <2>1, ElementsAre
    <3>2. k - 1 \in 1..n /\ list[k - 1] = x BY <1>3, <2>1, <3>1
    <3> QED BY <1>1, <3>2, ElementsAre
  <2>2. ASSUME NEW x \in Elements(list) PROVE x \in Elements(t)
    <3>1. PICK k \in 1..n : list[k] = x BY <1>1, <2>2, ElementsAre
    <3>2. PICK j : j = k + 1 OBVIOUS
    <3>3. j \in 2..(n + 1) /\ j - 1 = k /\ j \in 1..(n + 1) BY <3>2
    <3>4. t[j] = x BY <1>3, <3>1, <3>3
    <3> QED BY <1>3, <3>3, <3>4, ElementsAre
  <2>3. p \in Elements(t)
    <3>1. 1 \in 1..(n + 1) OBVIOUS
    <3> QED BY <1>3, <3>1, ElementsAre
  <2> QED BY <2>1, <2>2, <2>3
<1> QED BY <1>2, <1>3, <1>5, <1>6

\* A list without repetitions is as long as it has elements.
LEMMA ListLength ==
  ASSUME NEW S, NEW list \in Seq(S), OneEach(list)
  PROVE  Cardinality(Elements(list)) = Len(list) /\ IsFiniteSet(Elements(list))
<1>1. PICK n \in Nat : n = Len(list) OBVIOUS
<1>2. \A x : x \in Elements(list) <=> \E k \in 1..n : list[k] = x BY <1>1, ElementsAre
<1>3. PICK f : f = [k \in 1..n |-> list[k]] OBVIOUS
<1>4. f \in [1..n -> Elements(list)] BY <1>2, <1>3
<1>5. \A j, k \in 1..n : f[j] = f[k] => j = k BY <1>1, <1>3 DEF OneEach
<1>6. \A x \in Elements(list) : \E k \in 1..n : f[k] = x BY <1>2, <1>3
<1>7. f \in Bijection(1..n, Elements(list))
  BY <1>4, <1>5, <1>6 DEF Bijection, Injection, Surjection, IsInjective
<1>8. ExistsBijection(1..n, Elements(list)) BY <1>7 DEF ExistsBijection
<1>9. IsFiniteSet(Elements(list)) BY <1>8, FS_NatBijection
<1> QED BY <1>1, <1>8, <1>9, FS_CountingElements

-----------------------------------------------------------------------------
(* Counting words *)

\* total[i] is the sum of words[1] to words[i].
Adds(total, words, n) ==
  /\ total[0] = 0
  /\ \A i \in 1..n : total[i] = total[i - 1] + words[i]

Sums(total, words, n) == total \in [0..n -> Int] /\ Adds(total, words, n)

\* There is only one such: two would differ at some least i.
LEMMA SumsOnce ==
  ASSUME NEW n \in Nat, NEW words, NEW t, NEW u, Adds(t, words, n), Adds(u, words, n)
  PROVE  t[n] = u[n]
<1> DEFINE S == { i \in 0..n : t[i] # u[i] }
<1> SUFFICES ASSUME S # {} PROVE FALSE OBVIOUS
<1>1. S \in SUBSET Nat OBVIOUS
<1>2. PICK i \in S : \A j \in S : i <= j BY <1>1, LeastElement
<1>3. i \in 0..n /\ t[i] # u[i] OBVIOUS
<1>4. i # 0 BY <1>3 DEF Adds
<1>5. i \in 1..n /\ i - 1 \in 0..n BY <1>3, <1>4
<1>6. t[i - 1] = u[i - 1] BY <1>2, <1>5
<1> QED BY <1>3, <1>5, <1>6 DEF Adds

\* One number of those added changes.
Shifted(words, changed, n, k, d) ==
  /\ \A i \in 1..n : words[i] \in Int
  /\ changed[k] = words[k] + d
  /\ \A i \in 1..n : i # k => changed[i] = words[i]

LEMMA SumsShift ==
  ASSUME NEW n \in Nat, NEW words, NEW changed, NEW k \in 1..n, NEW d \in Int,
         Shifted(words, changed, n, k, d), NEW t, Sums(t, words, n)
  PROVE  \E u : Sums(u, changed, n) /\ u[n] = t[n] + d
<1> USE DEF Shifted
<1> DEFINE u == [i \in 0..n |-> IF i < k THEN t[i] ELSE t[i] + d]
<1>1. \A i \in 0..n : t[i] \in Int BY DEF Sums, Adds
<1>2. u \in [0..n -> Int] /\ u[0] = 0 /\ u[n] = t[n] + d BY <1>1 DEF Sums, Adds
<1>3. ASSUME NEW i \in 1..n PROVE u[i] = u[i - 1] + changed[i]
  <2>1. i \in 0..n /\ i - 1 \in 0..n /\ t[i] = t[i - 1] + words[i] /\ words[i] \in Int
    BY DEF Sums, Adds
  <2>2. CASE i < k BY <1>1, <2>1, <2>2
  <2>3. CASE i = k BY <1>1, <2>1, <2>3
  <2>4. CASE i > k BY <1>1, <2>1, <2>4
  <2> QED BY <2>2, <2>3, <2>4
<1> HIDE DEF u
<1> QED BY <1>2, <1>3 DEF Sums, Adds

OfClass(A, h, i) == { p \in A : h[p] = ClassSize[i] }
ClassSums(A, h) == [i \in Ind |-> ClassSize[i] * Cardinality(OfClass(A, h, i))]

\* The headers h of the nodes A account for as many words as M has.
Accounted(A, h, M) ==
  \E total : /\ Sums(total, ClassSums(A, h), Len(ClassSize))
             /\ Cardinality(M) = total[Len(ClassSize)]

LEMMA IndIs == Len(ClassSize) \in Nat /\ Ind = 1..Len(ClassSize)
BY BaseAssumption DEF Ind

LEMMA ClassSumsAre ==
  ASSUME NEW A, IsFiniteSet(A), NEW h, NEW i \in Ind
  PROVE  /\ IsFiniteSet(OfClass(A, h, i)) /\ Cardinality(OfClass(A, h, i)) \in Nat
         /\ ClassSums(A, h)[i] = ClassSize[i] * Cardinality(OfClass(A, h, i))
         /\ ClassSums(A, h)[i] \in Nat
<1>1. OfClass(A, h, i) \in SUBSET A BY DEF OfClass
<1>2. IsFiniteSet(OfClass(A, h, i)) /\ Cardinality(OfClass(A, h, i)) \in Nat
  BY <1>1, FS_Subset, FS_CardinalityType
<1>3. PICK c \in Nat, k \in Nat : c = ClassSize[i] /\ k = Cardinality(OfClass(A, h, i))
  BY <1>2, BaseNumbers
<1>4. c * k \in Nat BY <1>3, Scaled
<1>5. ClassSums(A, h)[i] = c * k BY <1>3 DEF ClassSums
<1> QED BY <1>2, <1>3, <1>4, <1>5

\* With nodes D of one class come, or go, the words K.
LEMMA ClassSumsMore ==
  ASSUME NEW A, IsFiniteSet(A), NEW D, IsFiniteSet(D), Apart(A, D), NEW h, NEW g, NEW i \in Ind,
         \A p \in A : g[p] = h[p], \A p \in D : g[p] = ClassSize[i]
  PROVE  /\ ClassSums(A \cup D, g)[i] = ClassSums(A, h)[i] + ClassSize[i] * Cardinality(D)
         /\ \A j \in Ind : j # i => ClassSums(A \cup D, g)[j] = ClassSums(A, h)[j]
<1>1. OfClass(A \cup D, g, i) = OfClass(A, h, i) \cup D BY DEF OfClass
<1>2. ASSUME NEW j \in Ind, j # i PROVE OfClass(A \cup D, g, j) = OfClass(A, h, j)
  <2>1. ClassSize[i] # ClassSize[j] BY <1>2, OneClass
  <2> QED BY <2>1 DEF OfClass
<1>3. OfClass(A, h, i) \cap D = {} BY DEF OfClass, Apart
<1>4. IsFiniteSet(OfClass(A, h, i)) BY ClassSumsAre
<1>5. Cardinality({}) = 0 BY FS_EmptySet
<1>6. PICK c \in Nat, a \in Nat, d \in Nat :
        c = ClassSize[i] /\ a = Cardinality(OfClass(A, h, i)) /\ d = Cardinality(D)
  BY <1>4, FS_CardinalityType, BaseNumbers
<1>7. Cardinality(OfClass(A, h, i) \cup D) = a + d BY <1>3, <1>4, <1>5, <1>6, FS_Union
<1>8. c * (a + d) = c * a + c * d OBVIOUS
<1>9. ClassSums(A \cup D, g)[i] = c * (a + d) BY <1>1, <1>6, <1>7 DEF ClassSums
<1>10. ClassSums(A, h)[i] = c * a BY <1>6 DEF ClassSums
<1>11. \A j \in Ind : j # i => ClassSums(A \cup D, g)[j] = ClassSums(A, h)[j]
  BY <1>2 DEF ClassSums
<1> QED BY <1>6, <1>8, <1>9, <1>10, <1>11

\* B, g, L have beyond A, h, M some nodes of one class and as many words.
Grown(A, h, M, B, g, L) ==
  \E D, K : \E i \in Ind :
    /\ IsFiniteSet(D) /\ IsFiniteSet(K) /\ Cardinality(K) = ClassSize[i] * Cardinality(D)
    /\ Apart(A, D) /\ B = A \cup D /\ Apart(M, K) /\ L = M \cup K
    /\ \A p \in A : g[p] = h[p]
    /\ \A p \in D : g[p] = ClassSize[i]

LEMMA AccountedMore ==
  ASSUME NEW A, IsFiniteSet(A), NEW D, IsFiniteSet(D), Apart(A, D), NEW h, NEW g, NEW i \in Ind,
         \A p \in A : g[p] = h[p], \A p \in D : g[p] = ClassSize[i],
         NEW M, IsFiniteSet(M), NEW K, IsFiniteSet(K), Apart(M, K),
         Cardinality(K) = ClassSize[i] * Cardinality(D)
  PROVE  Accounted(A, h, M) <=> Accounted(A \cup D, g, M \cup K)
<1>1. PICK n \in Nat : n = Len(ClassSize) /\ Ind = 1..n BY IndIs
<1>2. PICK few, many : few = ClassSums(A, h) /\ many = ClassSums(A \cup D, g) OBVIOUS
<1>3. PICK d \in Nat : d = Cardinality(K) BY FS_CardinalityType
<1>4. /\ many[i] = few[i] + d
      /\ \A j \in 1..n : j # i => many[j] = few[j]
  <2>1. /\ ClassSums(A \cup D, g)[i] = ClassSums(A, h)[i] + ClassSize[i] * Cardinality(D)
        /\ \A j \in Ind : j # i => ClassSums(A \cup D, g)[j] = ClassSums(A, h)[j]
    BY ClassSumsMore
  <2> QED BY <1>1, <1>2, <1>3, <2>1
<1>5. IsFiniteSet(A \cup D) BY FS_Union
<1>6. \A j \in 1..n : few[j] \in Nat /\ many[j] \in Nat BY <1>1, <1>2, <1>5, ClassSumsAre
<1>k. PICK k \in 1..n : k = i BY <1>1
<1>7. PICK m \in Nat : m = Cardinality(M) BY FS_CardinalityType
<1>8. Cardinality(M \cup K) = m + d
  <2>1. M \cap K = {} BY DEF Apart
  <2>3. Cardinality(M \cap K) = 0 BY <2>1, FS_EmptySet
  <2>2. Cardinality(M \cup K) = Cardinality(M) + Cardinality(K) - Cardinality(M \cap K)
    BY FS_Union
  <2> QED BY <1>3, <1>7, <2>2, <2>3
<1>9. ASSUME Accounted(A, h, M) PROVE Accounted(A \cup D, g, M \cup K)
  <2>1. PICK t : Sums(t, few, n) /\ m = t[n] BY <1>1, <1>2, <1>7, <1>9 DEF Accounted
  <2>2. PICK u : Sums(u, many, n) /\ u[n] = t[n] + d
    <3>1. Shifted(few, many, n, k, d) BY <1>4, <1>6, <1>k DEF Shifted
    <3> QED BY <2>1, <3>1, SumsShift
  <2> QED BY <1>1, <1>2, <1>8, <2>1, <2>2 DEF Accounted
<1>10. ASSUME Accounted(A \cup D, g, M \cup K) PROVE Accounted(A, h, M)
  <2>1. PICK t : Sums(t, many, n) /\ m + d = t[n] BY <1>1, <1>2, <1>8, <1>10 DEF Accounted
  <2>2. PICK e \in Int : e = -d OBVIOUS
  <2>3. Shifted(many, few, n, k, e) BY <1>4, <1>6, <1>k, <2>2 DEF Shifted
  <2>4. PICK u : Sums(u, few, n) /\ u[n] = t[n] + e BY <2>1, <2>3, SumsShift
  <2>5. u[n] = m BY <2>1, <2>2, <2>4
  <2> QED BY <1>1, <1>2, <1>7, <2>4, <2>5 DEF Accounted
<1> QED BY <1>9, <1>10

LEMMA GrownAccounted ==
  ASSUME NEW A, IsFiniteSet(A), NEW M, IsFiniteSet(M), NEW h, NEW g, NEW B, NEW L,
         Grown(A, h, M, B, g, L)
  PROVE  Accounted(A, h, M) <=> Accounted(B, g, L)
<1>1. PICK D, K : \E i \in Ind :
        /\ IsFiniteSet(D) /\ IsFiniteSet(K) /\ Cardinality(K) = ClassSize[i] * Cardinality(D)
        /\ Apart(A, D) /\ B = A \cup D /\ Apart(M, K) /\ L = M \cup K
        /\ \A p \in A : g[p] = h[p]
        /\ \A p \in D : g[p] = ClassSize[i]
  BY DEF Grown
<1> QED BY <1>1, AccountedMore

LEMMA WordsCount ==
  ASSUME NEW b \in Nat, NEW s \in Nat
  PROVE  IsFiniteSet(Words(b, s)) /\ Cardinality(Words(b, s)) = s
<1>1. b + s - 1 \in Int OBVIOUS
<1>2. /\ IsFiniteSet(b..(b + s - 1))
      /\ Cardinality(b..(b + s - 1)) = IF b > b + s - 1 THEN 0 ELSE (b + s - 1) - b + 1
  BY <1>1, FS_Interval
<1> QED BY <1>2 DEF Words

-----------------------------------------------------------------------------
(* The inductive invariant *)

TypeOK ==
  /\ mapped \subseteq Word
  /\ header \in [Word -> Nat]
  /\ free_lists \in [SmallInd -> Seq(Word)]
  /\ held \subseteq [base : Word, size : ObjectSize]

\* The words that are a node's alone: a large object's are its whole mapping.
Owns(p) ==
  IF ClassOf(p) \in SmallInd THEN Room(p, header[p]) ELSE Words(PageOf(p), header[p])

\* A node has a header of a class with room for links; what it may be written
\* to is its own, and mapped.
NodeOK(p) ==
  /\ p \in Word /\ p > 0
  /\ ClassOf(p) \in Ind /\ header[p] = ClassSize[ClassOf(p)]
  /\ CacheLine + Links <= header[p]
  /\ Room(p, header[p]) \subseteq Owns(p) /\ Owns(p) \subseteq mapped

NodesOK ==
  /\ \A p \in AllNodes : NodeOK(p)
  /\ \A p, q \in AllNodes : p # q => Apart(Owns(p), Owns(q))

\* Each list has nodes of its class, none of them twice.
ListsOK ==
  \A i \in SmallInd : /\ OneEach(free_lists[i])
                      /\ \A p \in Elements(free_lists[i]) : header[p] = ClassSize[i]

\* An object in use has the node to itself and fits in it.
HeldOK ==
  /\ \A o \in held : o.base \notin FreeNodes /\ o.size + CacheLine <= header[o.base]
  /\ \A o, u \in held : o.base = u.base => o = u

IInv == TypeOK /\ NodesOK /\ ListsOK /\ HeldOK

LEMMA NodesAre ==
  /\ \A p : p \in FreeNodes <=> \E i \in SmallInd : p \in Elements(free_lists[i])
  /\ \A p : p \in AllNodes <=> p \in FreeNodes \/ \E o \in held : p = o.base
BY DEF FreeNodes, AllNodes

\* A node is a word of its own memory, and so is its header.
LEMMA NodeHasItself ==
  ASSUME NEW p, NodeOK(p)
  PROVE  p \in Nat /\ header[p] \in Nat /\ p \in Owns(p) /\ p \in mapped
<1>1. p \in Nat /\ p > 0 BY BaseNumbers DEF NodeOK
<1>2. PICK s \in Nat, L \in Nat : s = header[p] /\ L = CacheLine /\ L + 2 <= s
  BY BaseNumbers DEF NodeOK, Links
<1>3. p \in Room(p, s) BY <1>1, <1>2, RoomIs
<1> QED BY <1>1, <1>2, <1>3 DEF NodeOK

\* A step counts: it changes no node and no mapping, or brings nodes of one class
\* and the words for them, or takes them away.
StepCounts ==
  \/ AllNodes' = AllNodes /\ header' = header /\ mapped' = mapped
  \/ Grown(AllNodes, header, mapped, AllNodes', header', mapped')
  \/ Grown(AllNodes', header', mapped', AllNodes, header, mapped)

\* What is new is made of words that were not mapped, so what is kept is kept
\* apart from it.
LEMMA NodesStep ==
  ASSUME NodesOK, NEW M, NEW S, Apart(M, mapped),
         \A p \in AllNodes' \ S : p \in AllNodes /\ Owns(p) \subseteq mapped',
         \A p \in mapped : p \in mapped' /\ p \in Word => header'[p] = header[p],
         \A p \in S : NodeOK(p)' /\ Owns(p)' \subseteq M,
         \A p, q \in S : p # q => Apart(Owns(p)', Owns(q)')
  PROVE  NodesOK'
<1>1. ASSUME NEW p \in AllNodes', p \notin S
      PROVE  p \in AllNodes /\ NodeOK(p)' /\ Owns(p)' = Owns(p) /\ Owns(p) \subseteq mapped
  <2>1. NodeOK(p) /\ p \in AllNodes BY <1>1 DEF NodesOK
  <2>2. p \in mapped /\ p \in mapped' BY <1>1, <2>1, NodeHasItself
  <2>3. header'[p] = header[p] BY <2>1, <2>2 DEF NodeOK
  <2>4. ClassOf(p)' = ClassOf(p) BY <2>3 DEF ClassOf
  <2>5. Owns(p)' = Owns(p) BY <2>3, <2>4 DEF Owns
  <2> QED BY <1>1, <2>1, <2>3, <2>4, <2>5 DEF NodeOK
<1>2. ASSUME NEW p \in AllNodes', NEW q \in AllNodes', p # q
      PROVE  Apart(Owns(p)', Owns(q)')
  <2>1. CASE p \notin S /\ q \notin S BY <1>1, <1>2, <2>1 DEF NodesOK
  <2>2. CASE p \in S /\ q \notin S BY <1>1, <2>2 DEF Apart
  <2>3. CASE p \notin S /\ q \in S BY <1>1, <2>3 DEF Apart
  <2>4. CASE p \in S /\ q \in S BY <1>2, <2>4
  <2> QED BY <2>1, <2>2, <2>3, <2>4
<1> QED BY <1>1, <1>2 DEF NodesOK

-----------------------------------------------------------------------------
(* Alloc *)

LEMMA HoldsMore ==
  ASSUME NEW n, NEW p, Hold(p, n), \A o \in held : o.base # p
  PROVE  held' # held
<1>1. [base |-> p, size |-> n] \in held' BY DEF Hold
<1> QED BY <1>1

\* The object handed out is the node p, which is on no list any more.
LEMMA HoldStep ==
  ASSUME TypeOK, HeldOK, NEW n \in ObjectSize, NEW p \in Word, Hold(p, n),
         \A o \in held : o.base # p /\ header'[o.base] = header[o.base],
         \A o \in held : o.base \notin FreeNodes',
         p \notin FreeNodes', n + CacheLine <= header'[p]
  PROVE  HeldOK' /\ held' \subseteq [base : Word, size : ObjectSize]
<1>1. PICK new : new = [base |-> p, size |-> n] OBVIOUS
<1>2. held' = held \cup {new} BY <1>1 DEF Hold
<1>3. new \in [base : Word, size : ObjectSize] /\ new.base = p /\ new.size = n BY <1>1
<1>4. held' \subseteq [base : Word, size : ObjectSize] BY <1>2, <1>3 DEF TypeOK
<1>5. ASSUME NEW o \in held' PROVE o.base \notin FreeNodes' /\ o.size + CacheLine <= header'[o.base]
  BY <1>2, <1>3 DEF HeldOK
<1>6. ASSUME NEW o \in held', NEW u \in held', o.base = u.base PROVE o = u
  BY <1>2, <1>3, <1>6 DEF HeldOK
<1> QED BY <1>4, <1>5, <1>6 DEF HeldOK

LEMMA AllocNodeStep ==
  ASSUME IInv, NEW n \in ObjectSize, NEW i \in SmallInd, i = sz_to_ind(WithMeta(n)),
         AllocNode(i, n)
  PROVE  IInv' /\ held' # held /\ StepCounts
<1> USE DEF IInv
<1>1. PICK p, list : list = free_lists[i] /\ p = Head(list) OBVIOUS
<1>2. /\ list # <<>> /\ Hold(p, n) /\ mapped' = mapped /\ header' = header
      /\ free_lists' = [free_lists EXCEPT ![i] = Tail(list)]
  BY <1>1 DEF AllocNode
<1>3. free_lists \in [SmallInd -> Seq(Word)] /\ list \in Seq(Word) /\ OneEach(list)
  BY <1>1 DEF TypeOK, ListsOK
<1>4. /\ p \in Elements(list) /\ Tail(list) \in Seq(Word) /\ OneEach(Tail(list))
      /\ Elements(Tail(list)) = Elements(list) \ {p}
  BY <1>1, <1>2, <1>3, Popped
<1>5. p \in Word /\ header[p] = ClassSize[i] BY <1>1, <1>3, <1>4, ElementsAre DEF ListsOK
<1>6. /\ free_lists'[i] = Tail(list) /\ free_lists' \in [SmallInd -> Seq(Word)]
      /\ \A j \in SmallInd : j # i => free_lists'[j] = free_lists[j]
  BY <1>2, <1>3, <1>4
<1>7. \A j \in SmallInd : p \in Elements(free_lists[j]) => j = i
  BY <1>5, OneClass, BaseNumbers DEF ListsOK
<1>8. \A j \in SmallInd : Elements(free_lists'[j]) = Elements(free_lists[j]) \ {p}
  BY <1>1, <1>4, <1>6, <1>7
<1>9. p \in FreeNodes /\ \A q : q \in FreeNodes' <=> q \in FreeNodes /\ q # p
  <2>1. \A q : q \in FreeNodes' <=> \E j \in SmallInd : q \in Elements(free_lists'[j])
    BY DEF FreeNodes
  <2>2. p \in FreeNodes BY <1>1, <1>4, NodesAre
  <2>3. \A q : q \in FreeNodes' <=> \E j \in SmallInd : q \in Elements(free_lists[j]) /\ q # p
    BY <1>8, <2>1
  <2> QED BY <2>2, <2>3, NodesAre
<1>10. \A o \in held : o.base # p /\ o.base \notin FreeNodes' BY <1>9 DEF HeldOK
<1>11. n + CacheLine <= header[p] BY <1>5, ObjectClass
<1>12. HeldOK' /\ held' \subseteq [base : Word, size : ObjectSize]
  BY <1>2, <1>5, <1>9, <1>10, <1>11, HoldStep
<1>13. AllNodes' = AllNodes
  <2>1. held' = held \cup {[base |-> p, size |-> n]} BY <1>2 DEF Hold
  <2>2. \A q : q \in AllNodes' <=> q \in FreeNodes' \/ \E o \in held' : q = o.base
    BY DEF AllNodes
  <2>3. [base |-> p, size |-> n].base = p OBVIOUS
  <2>4. \A q : (\E o \in held' : q = o.base) <=> (\E o \in held : q = o.base) \/ q = p
    BY <2>1, <2>3
  <2>5. \A q : q \in AllNodes' <=> q \in AllNodes BY <1>9, <2>2, <2>4, NodesAre
  <2> QED BY <2>5
<1>14. NodesOK'
  <2>1. \A q \in AllNodes : Owns(q) \subseteq mapped BY DEF NodesOK, NodeOK
  <2> QED BY <1>2, <1>13, <2>1, NodesStep DEF Apart
<1>15. ListsOK' BY <1>1, <1>2, <1>4, <1>6, <1>8 DEF ListsOK
<1>16. held' # held BY <1>2, <1>10, HoldsMore
<1>17. StepCounts BY <1>2, <1>13 DEF StepCounts
<1> QED BY <1>2, <1>6, <1>12, <1>14, <1>15, <1>16, <1>17 DEF TypeOK

LEMMA AllocSlabStep ==
  ASSUME IInv, NEW n \in ObjectSize, NEW i \in SmallInd, i = sz_to_ind(WithMeta(n)),
         AllocSlab(i, n)
  PROVE  IInv' /\ held' # held /\ StepCounts
<1> USE DEF IInv
<1>1. free_lists[i] = <<>> BY DEF AllocSlab
<1>b. PICK base \in Unmapped(SlabSize[i]) : \E nodes, M :
        /\ nodes = Nodes(base, i) /\ M = Words(base, SlabSize[i])
        /\ mapped' = mapped \cup M
        /\ header' = [p \in Word |-> IF p \in Elements(nodes) THEN ClassSize[i] ELSE header[p]]
        /\ free_lists' = [free_lists EXCEPT ![i] = Tail(nodes)]
        /\ Hold(Head(nodes), n)
  BY DEF AllocSlab
<1>2. PICK nodes, M :
        /\ nodes = Nodes(base, i) /\ M = Words(base, SlabSize[i])
        /\ mapped' = mapped \cup M
        /\ header' = [p \in Word |-> IF p \in Elements(nodes) THEN ClassSize[i] ELSE header[p]]
        /\ free_lists' = [free_lists EXCEPT ![i] = Tail(nodes)]
        /\ Hold(Head(nodes), n)
  BY <1>b
<1>3. base \in Nat /\ M \subseteq Word /\ Apart(M, mapped)
  BY <1>2, BaseNumbers DEF Unmapped, Apart
<1>4. n + CacheLine <= ClassSize[i] /\ CacheLine + Links <= ClassSize[i] BY ObjectClass
<1>5. /\ nodes \in Seq(Word) /\ nodes # <<>>
      /\ \A k \in 1..Len(nodes) : nodes[k] > base /\ Room(nodes[k], ClassSize[i]) \subseteq M
      /\ \A k, l \in 1..Len(nodes) :
           k # l => /\ nodes[k] # nodes[l]
                    /\ Apart(Room(nodes[k], ClassSize[i]), Room(nodes[l], ClassSize[i]))
      /\ Len(nodes) * ClassSize[i] = SlabSize[i]
  <2>1. base \in Nat /\ Words(base, SlabSize[i]) \subseteq Word BY <1>2, <1>3
  <2>2. nodes = Nodes(base, i) /\ CacheLine + Links <= ClassSize[i] BY <1>2, <1>4
  <2>3. /\ CutsWell(nodes, ClassSize[i], base, Words(base, SlabSize[i]))
        /\ Len(nodes) * ClassSize[i] = SlabSize[i]
    BY ONLY <2>1, <2>2, NodesApart
  <2> QED BY <1>2, <2>3 DEF CutsWell
<1>6. OneEach(nodes) BY <1>5 DEF OneEach
<1>7. PICK p, rest : p = Head(nodes) /\ rest = Tail(nodes) OBVIOUS
<1>8. /\ p \in Elements(nodes) /\ rest \in Seq(Word) /\ OneEach(rest)
      /\ Elements(rest) = Elements(nodes) \ {p}
  BY <1>5, <1>6, <1>7, Popped
<1>9. \A q \in Elements(nodes) : /\ q \in Word /\ header'[q] = ClassSize[i]
                                 /\ q \in Nat /\ q > 0 /\ Room(q, ClassSize[i]) \subseteq M
  <2> SUFFICES ASSUME NEW q \in Elements(nodes)
               PROVE  /\ q \in Word /\ q > 0 /\ Room(q, ClassSize[i]) \subseteq M
    BY <1>2, BaseNumbers
  <2>1. q \in Word /\ \E k \in 1..Len(nodes) : nodes[k] = q BY <1>5, ElementsAre
  <2>2. q > base /\ q \in Nat BY <1>5, <2>1, BaseNumbers
  <2> QED BY <1>3, <1>5, <2>1, <2>2
<1>10. \A q \in Elements(nodes) : /\ ClassOf(q)' = i /\ Owns(q)' = Room(q, ClassSize[i])
                                  /\ q \in M
  <2> SUFFICES ASSUME NEW q \in Elements(nodes)
               PROVE  ClassOf(q)' = i /\ Owns(q)' = Room(q, ClassSize[i]) /\ q \in M
    OBVIOUS
  <2>1. header'[q] = ClassSize[i] /\ i \in Ind BY <1>9, BaseNumbers
  <2>2. ClassOf(q)' = i BY <2>1, ClassOfSize DEF ClassOf
  <2>3. Owns(q)' = Room(q, ClassSize[i]) BY <2>1, <2>2 DEF Owns
  <2>4. PICK s \in Nat, L \in Nat : s = ClassSize[i] /\ L = CacheLine /\ L + 2 <= s
    BY <1>4, <2>1, BaseNumbers DEF Links
  <2>5. q \in Room(q, s) BY <1>9, <2>4, RoomIs
  <2> QED BY <1>9, <2>2, <2>3, <2>4, <2>5
<1>11. /\ free_lists'[i] = rest /\ free_lists' \in [SmallInd -> Seq(Word)]
       /\ \A j \in SmallInd : j # i => free_lists'[j] = free_lists[j]
  BY <1>2, <1>7, <1>8 DEF TypeOK
<1>12. \A q \in AllNodes : q \in mapped /\ q \in Word /\ header'[q] = header[q] /\ q \notin Elements(nodes)
  <2> SUFFICES ASSUME NEW q \in AllNodes
               PROVE  q \in mapped /\ q \in Word /\ header'[q] = header[q] /\ q \notin Elements(nodes)
    OBVIOUS
  <2>1. NodeOK(q) BY DEF NodesOK
  <2>2. q \in mapped /\ q \in Word BY <2>1, NodeHasItself DEF NodeOK
  <2>3. q \notin Elements(nodes) BY <1>3, <1>10, <2>2 DEF Apart
  <2> QED BY <1>2, <2>2, <2>3
<1>13. \A q : q \in FreeNodes' <=> q \in FreeNodes \/ (q \in Elements(nodes) /\ q # p)
  <2>1. \A q : q \in FreeNodes' <=> \E j \in SmallInd : q \in Elements(free_lists'[j])
    BY DEF FreeNodes
  <2>2. Elements(free_lists[i]) = {} BY <1>1 DEF Elements
  <2> QED BY <1>8, <1>11, <2>1, <2>2, NodesAre
<1>14. HeldOK' /\ held' \subseteq [base : Word, size : ObjectSize]
  <2>1. Hold(p, n) /\ p \in Word /\ header'[p] = ClassSize[i] BY <1>2, <1>7, <1>8, <1>9
  <2>2. \A o \in held : o.base \in AllNodes /\ o.base \notin FreeNodes
    BY NodesAre DEF HeldOK
  <2>3. \A o \in held : o.base # p /\ header'[o.base] = header[o.base] /\ o.base \notin FreeNodes'
    BY <1>8, <1>12, <1>13, <2>2
  <2>4. p \notin FreeNodes' BY <1>8, <1>12, <1>13, NodesAre
  <2> QED BY <1>4, <2>1, <2>3, <2>4, HoldStep
<1>15. \A q : q \in AllNodes' <=> q \in AllNodes \/ q \in Elements(nodes)
  <2>1. held' = held \cup {[base |-> p, size |-> n]} BY <1>2, <1>7 DEF Hold
  <2>2. \A q : q \in AllNodes' <=> q \in FreeNodes' \/ \E o \in held' : q = o.base
    BY DEF AllNodes
  <2>3. [base |-> p, size |-> n].base = p OBVIOUS
  <2>4. \A q : (\E o \in held' : q = o.base) <=> (\E o \in held : q = o.base) \/ q = p
    BY <2>1, <2>3
  <2> QED BY <1>8, <1>13, <2>2, <2>4, NodesAre
<1>16. NodesOK'
  <2>1. \A q \in AllNodes' \ Elements(nodes) : q \in AllNodes /\ Owns(q) \subseteq mapped'
    BY <1>2, <1>15 DEF NodesOK, NodeOK
  <2>2. \A q \in mapped : q \in mapped' /\ q \in Word => header'[q] = header[q]
    BY <1>2, <1>3, <1>10 DEF Apart
  <2>3. \A q \in Elements(nodes) : NodeOK(q)' /\ Owns(q)' \subseteq M
    <3> SUFFICES ASSUME NEW q \in Elements(nodes) PROVE NodeOK(q)' /\ Owns(q)' \subseteq M
      OBVIOUS
    <3>1. ClassOf(q)' = i /\ Owns(q)' = Room(q, ClassSize[i]) /\ header'[q] = ClassSize[i]
      BY <1>9, <1>10
    <3>2. Owns(q)' \subseteq M /\ M \subseteq mapped' BY <1>2, <1>9, <3>1
    <3> QED BY <1>4, <1>9, <3>1, <3>2, BaseNumbers DEF NodeOK
  <2>4. \A q, r \in Elements(nodes) : q # r => Apart(Owns(q)', Owns(r)')
    <3> SUFFICES ASSUME NEW q \in Elements(nodes), NEW r \in Elements(nodes), q # r
                 PROVE  Apart(Owns(q)', Owns(r)')
      OBVIOUS
    <3>1. PICK k \in 1..Len(nodes), l \in 1..Len(nodes) : nodes[k] = q /\ nodes[l] = r
      BY <1>5, ElementsAre
    <3>2. Apart(Room(q, ClassSize[i]), Room(r, ClassSize[i])) BY <1>5, <3>1
    <3> QED BY <1>10, <3>2
  <2> QED BY <1>3, <2>1, <2>2, <2>3, <2>4, NodesStep
<1>17. ListsOK'
  <2> SUFFICES ASSUME NEW j \in SmallInd
               PROVE  /\ OneEach(free_lists'[j])
                      /\ \A q \in Elements(free_lists'[j]) : header'[q] = ClassSize[j]
    BY DEF ListsOK
  <2>1. CASE j = i BY <1>8, <1>9, <1>11, <2>1
  <2>2. CASE j # i
    <3>1. free_lists'[j] = free_lists[j] BY <1>11, <2>2
    <3>2. \A q \in Elements(free_lists[j]) : header'[q] = header[q] BY <1>12, NodesAre
    <3> QED BY <3>1, <3>2 DEF ListsOK
  <2> QED BY <2>1, <2>2
<1>18. mapped' \subseteq Word /\ header' \in [Word -> Nat]
  BY <1>2, <1>3, BaseNumbers DEF TypeOK
<1>19. held' # held
  <2>1. \A o \in held : o.base # p BY <1>8, <1>12, NodesAre
  <2> QED BY <1>2, <1>7, <2>1, HoldsMore
<1>20. StepCounts
  <2>0. PICK D : D = Elements(nodes) OBVIOUS
  <2>1. Cardinality(D) = Len(nodes) /\ IsFiniteSet(D)
    BY <1>5, <1>6, <2>0, ListLength
  <2>2. IsFiniteSet(M) /\ Cardinality(M) = SlabSize[i] BY <1>2, <1>3, BaseNumbers, WordsCount
  <2>3. Cardinality(M) = ClassSize[i] * Cardinality(D)
    <3>1. PICK k \in Nat, c \in Nat : k = Len(nodes) /\ c = ClassSize[i] BY <1>5, BaseNumbers
    <3>2. k * c = c * k OBVIOUS
    <3> QED BY <1>5, <2>1, <2>2, <3>1, <3>2
  <2>4. AllNodes' = AllNodes \cup D /\ Apart(AllNodes, D) BY <1>12, <1>15, <2>0 DEF Apart
  <2>5. mapped' = mapped \cup M /\ Apart(mapped, M) BY <1>2, <1>3 DEF Apart
  <2>6. /\ \A q \in AllNodes : header'[q] = header[q]
        /\ \A q \in D : header'[q] = ClassSize[i]
    BY <1>9, <1>12, <2>0
  <2>7. Grown(AllNodes, header, mapped, AllNodes', header', mapped')
    BY <2>1, <2>2, <2>3, <2>4, <2>5, <2>6, BaseNumbers DEF Grown
  <2> QED BY <2>7 DEF StepCounts
<1> QED BY <1>11, <1>14, <1>16, <1>17, <1>18, <1>19, <1>20 DEF TypeOK

LEMMA AllocLargeStep ==
  ASSUME IInv, NEW n \in ObjectSize, NEW i \in Ind \ SmallInd, i = sz_to_ind(WithMeta(n)),
         AllocLarge(i, n)
  PROVE  IInv' /\ held' # held /\ StepCounts
<1> USE DEF IInv
<1>b. PICK base \in Unmapped(ClassSize[i]) : \E p, M :
        /\ p = cacheline_ceil(base + Header) /\ M = Words(base, ClassSize[i])
        /\ mapped' = mapped \cup M
        /\ header' = [header EXCEPT ![p] = ClassSize[i]]
        /\ Hold(p, n)
  BY DEF AllocLarge
<1>1. PICK p, M :
        /\ p = cacheline_ceil(base + Header) /\ M = Words(base, ClassSize[i])
        /\ mapped' = mapped \cup M
        /\ header' = [header EXCEPT ![p] = ClassSize[i]]
        /\ Hold(p, n)
  BY <1>b
<1>2. free_lists' = free_lists BY DEF AllocLarge
<1>3. base \in Nat /\ base % PageSize = 0 /\ M \subseteq Word /\ Apart(M, mapped)
  BY <1>1, BaseNumbers DEF Unmapped, Apart
<1>4. n + CacheLine <= ClassSize[i] /\ CacheLine + Links <= ClassSize[i] BY ObjectClass
<1>5. p \in Nat /\ base < p /\ p <= base + CacheLine /\ PageOf(p) = base
  BY <1>1, <1>3, LargePlace
<1>6. PICK s \in Nat, L \in Nat : s = ClassSize[i] /\ L = CacheLine /\ L + 2 <= s
  BY <1>4, BaseNumbers DEF Links
<1>7. p \in M /\ Room(p, s) \subseteq M
  <2>1. \A q : q \in M <=> q \in Nat /\ base <= q /\ q < base + s BY <1>1, <1>3, <1>6, WordsAre
  <2>2. \A q : q \in Room(p, s) <=> q \in Nat /\ p <= q + 1 /\ q + L < p + s
    BY <1>3, <1>5, <1>6, RoomIs
  <2> QED BY <1>3, <1>5, <1>6, <2>1, <2>2
<1>8. p \in Word /\ p > 0 BY <1>3, <1>5, <1>7
<1>9. header'[p] = s /\ header' \in [Word -> Nat] /\ \A q \in Word : q # p => header'[q] = header[q]
  BY <1>1, <1>6, <1>8 DEF TypeOK
<1>10. ClassOf(p)' = i BY <1>6, <1>9, ClassOfSize DEF ClassOf
<1>11. Owns(p)' = M BY <1>1, <1>5, <1>6, <1>9, <1>10 DEF Owns
<1>12. \A q \in AllNodes : q # p /\ header'[q] = header[q]
  <2> SUFFICES ASSUME NEW q \in AllNodes PROVE q # p /\ q \in Word BY <1>9
  <2>1. NodeOK(q) BY DEF NodesOK
  <2>2. q \in mapped /\ q \in Word BY <2>1, NodeHasItself DEF NodeOK
  <2> QED BY <1>3, <1>7, <2>2 DEF Apart
<1>13. FreeNodes' = FreeNodes BY <1>2 DEF FreeNodes
<1>14. HeldOK' /\ held' \subseteq [base : Word, size : ObjectSize]
  <2>1. \A o \in held : o.base \in AllNodes /\ o.base \notin FreeNodes BY NodesAre DEF HeldOK
  <2>2. p \notin FreeNodes BY <1>12, NodesAre
  <2> QED BY <1>1, <1>4, <1>6, <1>8, <1>9, <1>12, <1>13, <2>1, <2>2, HoldStep
<1>15. \A q : q \in AllNodes' <=> q \in AllNodes \/ q = p
  <2>1. held' = held \cup {[base |-> p, size |-> n]} BY <1>1 DEF Hold
  <2>2. \A q : q \in AllNodes' <=> q \in FreeNodes' \/ \E o \in held' : q = o.base
    BY DEF AllNodes
  <2>3. [base |-> p, size |-> n].base = p OBVIOUS
  <2>4. \A q : (\E o \in held' : q = o.base) <=> (\E o \in held : q = o.base) \/ q = p
    BY <2>1, <2>3
  <2> QED BY <1>13, <2>2, <2>4, NodesAre
<1>16. NodesOK'
  <2>0. PICK S : S = {p} OBVIOUS
  <2>1. \A q \in AllNodes' \ S : q \in AllNodes /\ Owns(q) \subseteq mapped'
    BY <1>1, <1>15, <2>0 DEF NodesOK, NodeOK
  <2>2. \A q \in mapped : q \in mapped' /\ q \in Word => header'[q] = header[q]
    BY <1>3, <1>7, <1>9 DEF Apart
  <2>3. NodeOK(p)' /\ Owns(p)' \subseteq M
    BY <1>1, <1>4, <1>6, <1>7, <1>8, <1>9, <1>10, <1>11 DEF NodeOK
  <2>4. /\ \A q \in S : NodeOK(q)' /\ Owns(q)' \subseteq M
        /\ \A q, r \in S : q # r => Apart(Owns(q)', Owns(r)')
    BY <2>0, <2>3
  <2> QED BY <1>3, <2>1, <2>2, <2>4, NodesStep
<1>17. ListsOK' BY <1>2, <1>12, NodesAre DEF ListsOK
<1>18. held' # held
  <2>1. \A o \in held : o.base # p BY <1>12, NodesAre
  <2> QED BY <1>1, <2>1, HoldsMore
<1>19. StepCounts
  <2>0. PICK D : D = {p} OBVIOUS
  <2>1. IsFiniteSet(D) /\ Cardinality(D) = 1 BY <2>0, FS_Singleton
  <2>2. IsFiniteSet(M) /\ Cardinality(M) = s BY <1>1, <1>3, <1>6, WordsCount
  <2>3. Cardinality(M) = ClassSize[i] * Cardinality(D) BY <1>6, <2>1, <2>2
  <2>4. AllNodes' = AllNodes \cup D /\ Apart(AllNodes, D) BY <2>0, <1>12, <1>15 DEF Apart
  <2>5. mapped' = mapped \cup M /\ Apart(mapped, M) BY <1>1, <1>3 DEF Apart
  <2>6. /\ \A q \in AllNodes : header'[q] = header[q]
        /\ \A q \in D : header'[q] = ClassSize[i]
    BY <1>6, <1>9, <1>12, <2>0
  <2>7. Grown(AllNodes, header, mapped, AllNodes', header', mapped')
    BY <2>1, <2>2, <2>3, <2>4, <2>5, <2>6 DEF Grown
  <2> QED BY <2>7 DEF StepCounts
<1> QED BY <1>1, <1>2, <1>3, <1>9, <1>14, <1>16, <1>17, <1>18, <1>19 DEF TypeOK

-----------------------------------------------------------------------------
(* Dalloc *)

\* The others still fit, and none of them is given the node that was freed.
LEMMA FreeStep ==
  ASSUME TypeOK, HeldOK, NEW o \in held, held' = held \ {o},
         \A u \in held' : u.base \notin FreeNodes' /\ header'[u.base] = header[u.base]
  PROVE  HeldOK' /\ held' \subseteq [base : Word, size : ObjectSize]
BY DEF HeldOK, TypeOK

\* What every Dalloc knows of the object: it fits its node, which no other has.
LEMMA HeldNode ==
  ASSUME IInv, NEW o \in held
  PROVE  /\ o.base \in Word /\ o.base \in AllNodes /\ NodeOK(o.base)
         /\ o.base \notin FreeNodes
         /\ \A u \in held : u # o => u.base # o.base /\ u.base \in AllNodes
<1>1. o.base \in AllNodes /\ \A u \in held : u.base \in AllNodes BY NodesAre
<1>2. NodeOK(o.base) BY <1>1 DEF IInv, NodesOK
<1>3. o.base \in Word BY <1>2 DEF NodeOK
<1> QED BY <1>1, <1>2, <1>3 DEF IInv, HeldOK

LEMMA DallocSmallStep ==
  ASSUME IInv, NEW o \in held, Dalloc(o), ClassOf(o.base) \in SmallInd
  PROVE  IInv' /\ StepCounts
<1> USE DEF IInv
<1>p. PICK p : p = o.base OBVIOUS
<1>i. PICK i \in SmallInd : i = ClassOf(o.base) OBVIOUS
<1>1. p = o.base /\ i = ClassOf(p) BY <1>p, <1>i
<1>2. /\ p \in Word /\ p \in AllNodes /\ NodeOK(p) /\ p \notin FreeNodes
      /\ \A u \in held : u # o => u.base # p
  BY <1>1, HeldNode
<1>3. PICK list, longer : list = free_lists[i] /\ longer = <<p>> \o list OBVIOUS
<1>4. /\ held' = held \ {o} /\ mapped' = mapped /\ header' = header
      /\ free_lists' = [free_lists EXCEPT ![i] = longer]
  BY <1>1, <1>3 DEF Dalloc
<1>5. list \in Seq(Word) /\ OneEach(list) /\ p \notin Elements(list)
  BY <1>2, <1>3, NodesAre DEF TypeOK, ListsOK
<1>6. /\ longer \in Seq(Word) /\ OneEach(longer)
      /\ Elements(longer) = Elements(list) \cup {p}
  BY <1>2, <1>3, <1>5, Pushed
<1>7. /\ free_lists'[i] = longer /\ free_lists' \in [SmallInd -> Seq(Word)]
      /\ \A j \in SmallInd : j # i => free_lists'[j] = free_lists[j]
  BY <1>4, <1>6 DEF TypeOK
<1>8. \A q : q \in FreeNodes' <=> q \in FreeNodes \/ q = p
  <2>1. \A q : q \in FreeNodes' <=> \E j \in SmallInd : q \in Elements(free_lists'[j])
    BY DEF FreeNodes
  <2>2. \A j \in SmallInd : \A q :
          q \in Elements(free_lists'[j]) <=> q \in Elements(free_lists[j]) \/ (j = i /\ q = p)
    BY <1>3, <1>6, <1>7
  <2>3. \A q : q \in FreeNodes <=> \E j \in SmallInd : q \in Elements(free_lists[j])
    BY NodesAre
  <2> QED BY <2>1, <2>2, <2>3
<1>9. HeldOK' /\ held' \subseteq [base : Word, size : ObjectSize]
  <2>1. \A u \in held' : u.base \notin FreeNodes' /\ header'[u.base] = header[u.base]
    BY <1>2, <1>4, <1>8 DEF HeldOK
  <2> QED BY <1>4, <2>1, FreeStep
<1>10. AllNodes' = AllNodes
  <2>1. \A q : q \in AllNodes' <=> q \in FreeNodes' \/ \E u \in held' : q = u.base
    BY DEF AllNodes
  <2>2. \A q : (\E u \in held : q = u.base) <=> (\E u \in held' : q = u.base) \/ q = p
    BY <1>1, <1>4
  <2>3. \A q : q \in AllNodes' <=> q \in AllNodes BY <1>2, <1>8, <2>1, <2>2, NodesAre
  <2> QED BY <2>3
<1>11. NodesOK'
  <2>1. \A q \in AllNodes : Owns(q) \subseteq mapped BY DEF NodesOK, NodeOK
  <2> QED BY <1>4, <1>10, <2>1, NodesStep DEF Apart
<1>12. ListsOK'
  <2>1. header[p] = ClassSize[i] BY <1>1, <1>2 DEF NodeOK
  <2> QED BY <1>3, <1>4, <1>6, <1>7, <2>1 DEF ListsOK
<1>13. StepCounts BY <1>4, <1>10 DEF StepCounts
<1> QED BY <1>4, <1>7, <1>9, <1>11, <1>12, <1>13 DEF TypeOK

LEMMA DallocLargeStep ==
  ASSUME IInv, NEW o \in held, Dalloc(o), ClassOf(o.base) \notin SmallInd
  PROVE  IInv' /\ StepCounts
<1> USE DEF IInv
<1>1. PICK p, gone : p = o.base /\ gone = Words(PageOf(p), header[p]) OBVIOUS
<1>2. /\ held' = held \ {o} /\ mapped' = mapped \ gone
      /\ header' = [q \in Word |-> IF q \in gone THEN 0 ELSE header[q]]
      /\ free_lists' = free_lists
  BY <1>1 DEF Dalloc
<1>3. /\ p \in AllNodes /\ p \notin FreeNodes
      /\ \A u \in held : u # o => u.base # p /\ u.base \in AllNodes
  BY <1>1, HeldNode
<1>4. gone = Owns(p) BY <1>1 DEF Owns
<1>5. \A q \in AllNodes : q # p => Apart(Owns(q), gone) BY <1>3, <1>4 DEF NodesOK
<1>6. FreeNodes' = FreeNodes BY <1>2 DEF FreeNodes
<1>7. \A q : q \in AllNodes' <=> q \in AllNodes /\ q # p
  <2>1. \A q : q \in AllNodes' <=> q \in FreeNodes' \/ \E u \in held' : q = u.base
    BY DEF AllNodes
  <2>2. \A q : (\E u \in held' : q = u.base) <=> (\E u \in held : q = u.base) /\ q # p
    BY <1>1, <1>2, <1>3
  <2> QED BY <1>3, <1>6, <2>1, <2>2, NodesAre
<1>8. \A q \in AllNodes : q # p => q \in Word /\ header'[q] = header[q]
  <2> SUFFICES ASSUME NEW q \in AllNodes, q # p PROVE q \in Word /\ q \notin gone BY <1>2
  <2>1. NodeOK(q) BY DEF NodesOK
  <2>2. q \in Word /\ q \in Owns(q) BY <2>1, NodeHasItself DEF NodeOK
  <2> QED BY <1>5, <2>2 DEF Apart
<1>9. HeldOK' /\ held' \subseteq [base : Word, size : ObjectSize]
  <2>1. \A u \in held' : u.base \notin FreeNodes' /\ header'[u.base] = header[u.base]
    BY <1>2, <1>3, <1>6, <1>8 DEF HeldOK
  <2> QED BY <1>2, <2>1, FreeStep
<1>10. NodesOK'
  <2>1. \A q \in AllNodes' : q \in AllNodes /\ Owns(q) \subseteq mapped'
    BY <1>2, <1>5, <1>7 DEF NodesOK, NodeOK, Apart
  <2>2. ASSUME NEW q \in AllNodes'
        PROVE  /\ NodeOK(q)' /\ Owns(q)' = Owns(q)
    <3>1. q \in AllNodes /\ q # p /\ NodeOK(q) BY <1>7 DEF NodesOK
    <3>2. header'[q] = header[q] BY <1>8, <3>1
    <3>3. ClassOf(q)' = ClassOf(q) BY <3>2 DEF ClassOf
    <3>4. Owns(q)' = Owns(q) BY <3>2, <3>3 DEF Owns
    <3> QED BY <2>1, <3>1, <3>2, <3>3, <3>4 DEF NodeOK
  <2>3. ASSUME NEW q \in AllNodes', NEW r \in AllNodes', q # r
        PROVE  Apart(Owns(q)', Owns(r)')
    BY <2>1, <2>2, <2>3 DEF NodesOK
  <2> QED BY <2>2, <2>3 DEF NodesOK
<1>11. ListsOK'
  <2>1. \A q \in FreeNodes : header'[q] = header[q] BY <1>3, <1>8, NodesAre
  <2> QED BY <1>2, <2>1, NodesAre DEF ListsOK
<1>12. mapped' \subseteq Word /\ header' \in [Word -> Nat] BY <1>2 DEF TypeOK
<1>13. StepCounts
  <2>0. PICK D : D = {p} OBVIOUS
  <2>1. IsFiniteSet(D) /\ Cardinality(D) = 1 BY <2>0, FS_Singleton
  <2>2. NodeOK(p) BY <1>3 DEF NodesOK
  <2>3. PICK i \in Ind : i = ClassOf(p) /\ header[p] = ClassSize[i] BY <2>2 DEF NodeOK
  <2>4. PICK c \in Nat : c = header[p] BY <2>3, BaseNumbers
  <2>5. PageOf(p) \in Nat BY <2>2, PageOfNat DEF NodeOK
  <2>6. IsFiniteSet(gone) /\ Cardinality(gone) = c BY <1>1, <2>4, <2>5, WordsCount
  <2>7. Cardinality(gone) = ClassSize[i] * Cardinality(D) BY <2>1, <2>3, <2>4, <2>6
  <2>8. AllNodes = AllNodes' \cup D /\ Apart(AllNodes', D) BY <2>0, <1>3, <1>7 DEF Apart
  <2>9. gone \subseteq mapped BY <1>4, <2>2 DEF NodeOK
  <2>10. mapped = mapped' \cup gone /\ Apart(mapped', gone) BY <1>2, <2>9 DEF Apart
  <2>11. /\ \A q \in AllNodes' : header[q] = header'[q]
         /\ \A q \in D : header[q] = ClassSize[i]
    BY <1>7, <1>8, <2>0, <2>3
  <2>12. Grown(AllNodes', header', mapped', AllNodes, header, mapped)
    BY <2>1, <2>6, <2>7, <2>8, <2>10, <2>11 DEF Grown
  <2> QED BY <2>12 DEF StepCounts
<1> QED BY <1>2, <1>9, <1>10, <1>11, <1>12, <1>13 DEF TypeOK

-----------------------------------------------------------------------------
(* The theorems *)

LEMMA InitOK ==
  ASSUME Init
  PROVE  IInv
<1>1. FreeNodes = {} /\ AllNodes = {} BY DEF Init, FreeNodes, AllNodes, Elements
<1>2. TypeOK BY DEF Init, TypeOK
<1>3. ListsOK BY DEF Init, ListsOK, OneEach, Elements
<1> QED BY <1>1, <1>2, <1>3 DEF Init, IInv, NodesOK, HeldOK

LEMMA AllocStep ==
  ASSUME IInv, NEW n \in ObjectSize, Alloc(n)
  PROVE  IInv' /\ held' # held /\ StepCounts /\ \E p : Hold(p, n)
<1>1. PICK i \in Ind : i = sz_to_ind(WithMeta(n)) BY ObjectClass
<1>2. CASE AllocNode(i, n) /\ i \in SmallInd
  <2>1. \E p : Hold(p, n) BY <1>2 DEF AllocNode
  <2> QED BY <1>1, <1>2, <2>1, AllocNodeStep
<1>3. CASE AllocSlab(i, n) /\ i \in SmallInd
  <2>1. \E p : Hold(p, n) BY <1>3 DEF AllocSlab
  <2> QED BY <1>1, <1>3, <2>1, AllocSlabStep
<1>4. CASE AllocLarge(i, n) /\ i \notin SmallInd
  <2>1. \E p : Hold(p, n) BY <1>4 DEF AllocLarge
  <2> QED BY <1>1, <1>4, <2>1, AllocLargeStep
<1> QED BY <1>1, <1>2, <1>3, <1>4 DEF Alloc

LEMMA StepOK ==
  ASSUME IInv, [Next]_vars
  PROVE  IInv' /\ StepCounts
<1>1. CASE UNCHANGED vars
  <2>1. mapped' = mapped /\ header' = header /\ free_lists' = free_lists /\ held' = held
    BY <1>1 DEF vars
  <2>2. FreeNodes' = FreeNodes /\ AllNodes' = AllNodes BY <2>1 DEF AllNodes, FreeNodes
  <2>3. NodesOK'
    <3>1. \A p \in AllNodes : Owns(p) \subseteq mapped BY DEF IInv, NodesOK, NodeOK
    <3> QED BY <2>1, <2>2, <3>1, NodesStep DEF IInv, Apart
  <2> QED BY <2>1, <2>2, <2>3 DEF IInv, TypeOK, ListsOK, HeldOK, StepCounts
<1>2. ASSUME NEW n \in ObjectSize, Alloc(n) PROVE IInv' /\ StepCounts BY <1>2, AllocStep
<1>3. ASSUME NEW o \in held, Dalloc(o) PROVE IInv' /\ StepCounts
  BY <1>3, DallocSmallStep, DallocLargeStep
<1> QED BY <1>1, <1>2, <1>3 DEF Next

\* What is proved by induction on the steps: each node is the only one of its
\* words, is on at most one list, and has in use at most one object, that fits.
THEOREM Inductive == Spec => []IInv
<1>1. Init => IInv BY InitOK
<1>2. IInv /\ [Next]_vars => IInv' BY StepOK
<1> QED BY <1>1, <1>2, PTL DEF Spec

\* The variables keep their types.
THEOREM TypeCorrect == Spec => []TypeOK
<1>1. IInv => TypeOK BY DEF IInv
<1> QED BY <1>1, Inductive, PTL

\* A piece of memory that is written is the header of a node, the links of a
\* free one, or the object in one in use.
PieceOf(x, p) ==
  \/ x = Words(p - Header, Header)
  \/ p \in FreeNodes /\ x = Words(p, Links)
  \/ \E o \in held : o.base = p /\ x = Words(p, o.size)

\* Pieces lie in what their node owns, and those of one node do not meet.
LEMMA PieceInNode ==
  ASSUME IInv, NEW x \in Pieces
  PROVE  \E p \in AllNodes : PieceOf(x, p)
<1>1. CASE \E p \in AllNodes : x = Words(p - Header, Header) BY <1>1 DEF PieceOf
<1>2. CASE \E p \in FreeNodes : x = Words(p, Links) BY <1>2, NodesAre DEF PieceOf
<1>3. CASE \E o \in held : x = Words(o.base, o.size) BY <1>3, HeldNode DEF PieceOf
<1> QED BY <1>1, <1>2, <1>3 DEF Pieces

LEMMA PieceOwned ==
  ASSUME IInv, NEW p \in AllNodes, NEW x, PieceOf(x, p)
  PROVE  x \subseteq Owns(p)
<1>1. NodeOK(p) BY DEF IInv, NodesOK
<1>2. PICK b \in Nat, s \in Nat, L \in Nat :
        b = p /\ b > 0 /\ s = header[p] /\ L = CacheLine /\ L > 0 /\ L + 2 <= s
  BY <1>1, NodeHasItself, BaseNumbers DEF NodeOK, Links
<1>3. Room(p, s) \subseteq Owns(p) BY <1>1, <1>2 DEF NodeOK
<1>4. \A q : q \in Room(p, s) <=> q \in Nat /\ b <= q + 1 /\ q + L < b + s BY <1>2, RoomIs
<1>5. CASE x = Words(p - Header, Header)
  <2>1. \A q \in x : q = b - 1 BY <1>2, <1>5 DEF Words, Header
  <2> QED BY <1>2, <1>3, <1>4, <2>1
<1>6. CASE x = Words(p, Links)
  <2>1. \A q \in x : q \in Nat /\ b <= q /\ q < b + 2 BY <1>2, <1>6, WordsAre DEF Links
  <2> QED BY <1>2, <1>3, <1>4, <2>1
<1>7. ASSUME NEW o \in held, o.base = p, x = Words(p, o.size) PROVE x \subseteq Owns(p)
  <2>1. o.size \in Nat /\ o.size + CacheLine <= header[p]
    BY <1>7, BaseNumbers DEF IInv, TypeOK, HeldOK
  <2>2. PICK z \in Nat : z = o.size /\ z + L <= s BY <1>2, <2>1
  <2>3. \A q \in x : q \in Nat /\ b <= q /\ q < b + z BY <1>2, <1>7, <2>2, WordsAre
  <2> QED BY <1>2, <1>3, <1>4, <2>2, <2>3
<1> QED BY <1>5, <1>6, <1>7 DEF PieceOf

LEMMA PiecesOfOne ==
  ASSUME IInv, NEW p \in AllNodes, NEW x, NEW y, PieceOf(x, p), PieceOf(y, p), x # y
  PROVE  x \cap y = {}
<1>1. PICK b \in Nat : b = p /\ b > 0
  <2>1. NodeOK(p) BY DEF IInv, NodesOK
  <2> QED BY <2>1, NodeHasItself DEF NodeOK
<1> DEFINE head == Words(p - Header, Header)
           InBody(z) == \A q \in z : q \in Nat /\ b <= q
<1>2. \A q \in head : q = b - 1 BY <1>1 DEF Words, Header
<1>3. ASSUME NEW z, PieceOf(z, p), z # head PROVE InBody(z)
  <2>1. CASE z = Words(p, Links) BY <1>1, <2>1, WordsAre DEF Links
  <2>2. CASE \E o \in held : o.base = p /\ z = Words(p, o.size)
    <3>1. PICK o \in held : o.base = p /\ z = Words(p, o.size) BY <2>2
    <3>2. o.size \in Int BY BaseNumbers DEF IInv, TypeOK
    <3> QED BY <1>1, <3>1, <3>2, WordsAre
  <2> QED BY <1>3, <2>1, <2>2 DEF PieceOf
<1>4. x # head /\ y # head => x = y BY HeldNode, NodesAre DEF PieceOf, IInv, HeldOK
<1>5. CASE x = head
  <2>1. InBody(y) BY <1>3, <1>5
  <2> QED BY <1>1, <1>2, <1>5, <2>1
<1>6. CASE y = head
  <2>1. InBody(x) BY <1>3, <1>6
  <2> QED BY <1>1, <1>2, <1>6, <2>1
<1> QED BY <1>4, <1>5, <1>6

\* Headers, links of the free lists and objects in use never overlap, and are in
\* mapped memory: so a list of AllocSmallNodes, threaded through the nodes it
\* cut, is never written to by the user of an object, nor the other way round.
THEOREM MemoryAlwaysApart == Spec => []MemoryApart
<1>1. IInv => MemoryApart
  <2> SUFFICES ASSUME IInv, NEW x \in Pieces, NEW y \in Pieces
               PROVE  x \subseteq mapped /\ (x # y => x \cap y = {})
    BY DEF MemoryApart
  <2>1. PICK p \in AllNodes : PieceOf(x, p) BY PieceInNode
  <2>2. PICK q \in AllNodes : PieceOf(y, q) BY PieceInNode
  <2>3. x \subseteq Owns(p) /\ y \subseteq Owns(q) BY <2>1, <2>2, PieceOwned
  <2>4. Owns(p) \subseteq mapped BY DEF IInv, NodesOK, NodeOK
  <2>5. p # q => Owns(p) \cap Owns(q) = {} BY DEF IInv, NodesOK, Apart
  <2>6. p = q /\ x # y => x \cap y = {} BY <2>1, <2>2, PiecesOfOne
  <2> QED BY <2>3, <2>4, <2>5, <2>6
<1> QED BY <1>1, Inductive, PTL

\* A freed object is found again once, under the class its header tells Dalloc,
\* and Alloc never hands out an object that is in use.
THEOREM ListsAlwaysExact == Spec => []ListsExact
<1>1. IInv => ListsExact
  <2>1. ASSUME IInv, NEW i \in SmallInd
        PROVE  Cardinality(Elements(free_lists[i])) = Len(free_lists[i])
    <3>1. PICK list : list = free_lists[i] /\ list \in Seq(Word) /\ OneEach(list)
      BY <2>1 DEF IInv, TypeOK, ListsOK
    <3> QED BY <3>1, ListLength
  <2> QED BY <2>1 DEF IInv, ListsOK, HeldOK, ListsExact
<1> QED BY <1>1, Inductive, PTL

\* The state's own sums.
WordsCounted == Accounted(AllNodes, header, mapped)

LEMMA StepKeepsCount ==
  ASSUME IInv, IInv', StepCounts, WordsCounted
  PROVE  WordsCounted'
<1>1. IsFiniteSet(Word)
  <2>1. PICK m \in Nat : m = NumPages * PageSize BY BaseNumbers
  <2>2. m - 1 \in Int OBVIOUS
  <2>3. IsFiniteSet(0..(m - 1)) BY <2>2, FS_Interval
  <2> QED BY <2>1, <2>3 DEF Word
<1>2. IsFiniteSet(AllNodes) /\ IsFiniteSet(mapped)
  <2>1. AllNodes \in SUBSET Word /\ mapped \in SUBSET Word BY DEF IInv, TypeOK, NodesOK, NodeOK
  <2> QED BY <1>1, <2>1, FS_Subset
<1>3. IsFiniteSet(AllNodes') /\ IsFiniteSet(mapped')
  <2>1. AllNodes' \in SUBSET Word /\ mapped' \in SUBSET Word
    BY DEF IInv, TypeOK, NodesOK, NodeOK
  <2> QED BY <1>1, <2>1, FS_Subset
<1>4. CASE AllNodes' = AllNodes /\ header' = header /\ mapped' = mapped
  BY <1>4 DEF WordsCounted
<1>5. CASE Grown(AllNodes, header, mapped, AllNodes', header', mapped')
  BY <1>2, <1>5, GrownAccounted DEF WordsCounted
<1>6. CASE Grown(AllNodes', header', mapped', AllNodes, header, mapped)
  BY <1>3, <1>6, GrownAccounted DEF WordsCounted
<1> QED BY <1>4, <1>5, <1>6 DEF StepCounts

LEMMA CountedAtFirst ==
  ASSUME Init
  PROVE  WordsCounted
<1>1. AllNodes = {} /\ mapped = {} BY DEF Init, AllNodes, FreeNodes, Elements
<1>2. PICK n \in Nat : n = Len(ClassSize) /\ Ind = 1..n BY IndIs
<1>3. PICK words : words = ClassSums(AllNodes, header) OBVIOUS
<1>4. \A i \in 1..n : words[i] = 0
  <2> SUFFICES ASSUME NEW i \in Ind PROVE words[i] = 0 BY <1>2
  <2>1. OfClass(AllNodes, header, i) = {} BY <1>1 DEF OfClass
  <2>2. Cardinality(OfClass(AllNodes, header, i)) = 0 BY <2>1, FS_EmptySet
  <2>3. words[i] = ClassSize[i] * 0 BY <1>3, <2>2 DEF ClassSums
  <2> QED BY <2>3, BaseNumbers
<1>5. PICK total : total = [i \in 0..n |-> 0] OBVIOUS
<1>6. total \in [0..n -> Int] /\ total[0] = 0 /\ total[n] = 0 BY <1>5
<1>7. ASSUME NEW i \in 1..n PROVE total[i] = total[i - 1] + words[i]
  <2>1. i \in 0..n /\ i - 1 \in 0..n OBVIOUS
  <2> QED BY <1>4, <1>5, <2>1
<1>8. Sums(total, words, n) BY <1>6, <1>7 DEF Sums, Adds
<1>9. Cardinality(mapped) = 0 BY <1>1, FS_EmptySet
<1> QED BY <1>2, <1>3, <1>6, <1>8, <1>9 DEF WordsCounted, Accounted

\* WordsUpTo is defined by a recursion that some function satisfies, so it does.
LEMMA WordsUpToSums ==
  ASSUME NEW total, Sums(total, ClassSums(AllNodes, header), Len(ClassSize))
  PROVE  Adds(WordsUpTo, ClassSums(AllNodes, header), Len(ClassSize))
<1>1. PICK n \in Nat : n = Len(ClassSize) /\ Ind = 1..n BY IndIs
<1>2. PICK words : words = ClassSums(AllNodes, header) OBVIOUS
<1>3. \A i \in 1..n : words[i] = ClassWords(i) BY <1>1, <1>2 DEF ClassSums, ClassWords, OfClass
<1> DEFINE Step(f) == [i \in 0..n |-> IF i = 0 THEN 0 ELSE f[i - 1] + ClassWords(i)]
<1>4. total = Step(total)
  <2>1. total \in [0..n -> Int] /\ total[0] = 0 BY <1>1 DEF Sums, Adds
  <2>2. \A i \in 0..n : total[i] = IF i = 0 THEN 0 ELSE total[i - 1] + ClassWords(i)
    BY <1>1, <1>2, <1>3, <2>1 DEF Sums, Adds
  <2> QED BY <2>1, <2>2
<1>5. WordsUpTo = CHOOSE f : f = Step(f) BY <1>1 DEF WordsUpTo
<1>6. WordsUpTo = Step(WordsUpTo)
  <2> HIDE DEF Step
  <2> QED BY <1>4, <1>5
<1>7. \A i \in 0..n : WordsUpTo[i] = IF i = 0 THEN 0 ELSE WordsUpTo[i - 1] + ClassWords(i)
  BY <1>6
<1> QED BY <1>1, <1>2, <1>3, <1>7 DEF Adds

\* What is mapped is what the headers account for: no mapping is lost or given
\* back in part, whatever mixture of small and large objects comes and goes.
THEOREM MappedAlwaysExact == Spec => []MappedExact
<1>1. Init => WordsCounted BY CountedAtFirst
<1>2. IInv /\ WordsCounted /\ [Next]_vars => WordsCounted' BY StepOK, StepKeepsCount
<1>3. IInv /\ WordsCounted => MappedExact
  <2> SUFFICES ASSUME WordsCounted PROVE MappedExact OBVIOUS
  <2>1. PICK total : /\ Sums(total, ClassSums(AllNodes, header), Len(ClassSize))
                     /\ Cardinality(mapped) = total[Len(ClassSize)]
    BY DEF WordsCounted, Accounted
  <2>2. WordsUpTo[Len(ClassSize)] = total[Len(ClassSize)]
    BY <2>1, WordsUpToSums, SumsOnce, IndIs DEF Sums
  <2> QED BY <2>1, <2>2 DEF MappedExact
<1> QED BY <1>1, <1>2, <1>3, Inductive, PTL DEF Spec

\* Objects in use are pieces.
ObjectsApart == \A o, u \in held : o # u => Words(o.base, o.size) \cap Words(u.base, u.size) = {}

LEMMA ObjectsStayApart == IInv => ObjectsApart
<1> SUFFICES ASSUME IInv, NEW o \in held, NEW u \in held, o # u
             PROVE  Words(o.base, o.size) \cap Words(u.base, u.size) = {}
  BY DEF ObjectsApart
<1>1. o.base \in AllNodes /\ u.base \in AllNodes /\ o.base # u.base BY HeldNode
<1>2. PieceOf(Words(o.base, o.size), o.base) /\ PieceOf(Words(u.base, u.size), u.base)
  BY DEF PieceOf
<1>3. /\ Words(o.base, o.size) \subseteq Owns(o.base)
      /\ Words(u.base, u.size) \subseteq Owns(u.base)
  BY <1>1, <1>2, PieceOwned
<1>4. Apart(Owns(o.base), Owns(u.base)) BY <1>1 DEF IInv, NodesOK
<1> QED BY <1>3, <1>4 DEF Apart

\* Alloc hands out what meets no object in use, Dalloc takes what is in use.
LEMMA StepIsHeapStep ==
  ASSUME IInv, Next, held' \subseteq [base : Word, size : ObjectSize], ObjectsApart'
  PROVE  ObjectHeap!Next
<1> DEFINE Extent == [base : Word, size : ObjectSize]
           Span   == [e \in Extent |-> Words(e.base, e.size)]
<1>1. held \subseteq Extent BY DEF IInv, TypeOK
<1>2. ASSUME NEW n \in ObjectSize, Alloc(n) PROVE ObjectHeap!Next
  <2>1. PICK p : Hold(p, n) BY <1>2, AllocStep
  <2>2. PICK e : e = [base |-> p, size |-> n] OBVIOUS
  <2>3. held' = held \cup {e} BY <2>1, <2>2 DEF Hold
  <2>4. e \in Extent /\ e \notin held BY <1>2, <2>3, AllocStep
  <2>5. \A f \in held : Words(e.base, e.size) \cap Words(f.base, f.size) = {}
    BY <2>3, <2>4 DEF ObjectsApart
  <2>6. \A f \in held : Span[e] \cap Span[f] = {} BY <1>1, <2>4, <2>5
  <2>7. ObjectHeap!Alloc(e) BY <2>3, <2>6 DEF ObjectHeap!Alloc, ObjectHeap!Apart
  <2> QED BY <2>4, <2>7 DEF ObjectHeap!Next
<1>3. ASSUME NEW o \in held, Dalloc(o) PROVE ObjectHeap!Next
  <2>1. ObjectHeap!Free(o) BY <1>3 DEF Dalloc, ObjectHeap!Free
  <2> QED BY <1>1, <2>1 DEF ObjectHeap!Next
<1> QED BY <1>2, <1>3 DEF Next

\* Chunks, arenas and cache bins are given memory nobody else has, whatever the
\* sizes of their classes, and keep it until they are deleted.
THEOREM ObjectHeapImplemented == Spec => ImplementsObjectHeap
<1> DEFINE Heap == ObjectHeap!Next
           Typed == held \subseteq [base : Word, size : ObjectSize]
<1>1. Init => held = {} BY DEF Init
<1>2. IInv => ObjectsApart /\ Typed BY ObjectsStayApart DEF IInv, TypeOK
<1>3. IInv /\ ObjectsApart' /\ Typed' /\ [Next]_vars => [Heap]_held
  <2>1. UNCHANGED vars => held' = held BY DEF vars
  <2> QED BY <2>1, StepIsHeapStep
<1>4. ImplementsObjectHeap <=> held = {} /\ [][Heap]_held
  BY DEF ImplementsObjectHeap, ObjectHeap!Spec, ObjectHeap!Init
<1> HIDE DEF Heap, Typed
<1> QED BY <1>1, <1>2, <1>3, <1>4, Inductive, PTL DEF Spec

=============================================================================
