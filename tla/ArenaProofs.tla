----------------------------- MODULE ArenaProofs -----------------------------
(***************************************************************************)
(* Proofs about the arena, for any number of threads and pages, any small  *)
(* classes and sizes of slabs: that the regions of a slab are conserved,   *)
(* that its lists and statistics are exact, and that the arena implements  *)
(* a heap of cells.                                                        *)
(*                                                                         *)
(* The four hold each other up.  A region that is handed out is nobody's   *)
(* because the bitmap is exact (BitmapsExact); that the first slab of the  *)
(* list has one takes exact lists (ListsOK); that a slab is released with  *)
(* nobody in it takes both, and that no two threads return one region      *)
(* (Exclusive); the statistics (StatsOK) stay above zero for what they     *)
(* count is there.  That pieces of two chunks are apart is arithmetic of   *)
(* cells and pages, and comes first.                                       *)
(***************************************************************************)
EXTENDS Arena, FiniteSetTheorems, SequenceTheorems, WellFoundedInduction, TLAPS

-----------------------------------------------------------------------------
(* Numbers *)

\* A nonempty set of numbers has a least element.
LEMMA LeastElement ==
  ASSUME NEW S \in SUBSET Nat, S # {}
  PROVE  \E i \in S : \A j \in S : i <= j
<1> DEFINE less == { p \in Nat \X Nat : p[1] < p[2] }
<1>1. IsWellFoundedOn(less, Nat) BY NatLessThanWellFounded DEF OpToRel
<1>2. PICK i \in S : \A j \in S : <<j, i>> \notin less
  <2> HIDE DEF less
  <2> QED BY <1>1, WFMin
<1>3. \A j \in S : ~(j < i) BY <1>2
<1> QED BY <1>3

\* Multiplying by a size that is a constant of the model: the provers need it
\* said of plain numbers.
LEMMA Scaled ==
  ASSUME NEW a \in Nat, NEW b \in Nat, NEW k \in Nat
  PROVE  /\ a * k \in Nat /\ (a + b) * k = a * k + b * k /\ (a + 1) * k = a * k + k
         /\ a <= b => a * k <= b * k
         /\ k > 0 => a <= a * k /\ (a * k) \div k = a
OBVIOUS

LEMMA ArenaNumbers ==
  /\ PageCells \in Nat /\ PageCells > 0 /\ NumPages \in Nat /\ NumCells \in Nat
  /\ NumCells = NumPages * PageCells
  /\ \A s \in Sind : /\ RegionCells[s] \in Nat /\ RegionCells[s] > 0
                     /\ SlabPages[s] \in Nat /\ SlabPages[s] > 0
                     /\ SlabRegions(s) \in Nat
                     /\ SlabRegions(s) * RegionCells[s] = SlabPages[s] * PageCells
<1>1. PageCells \in Nat /\ PageCells > 0 /\ NumPages \in Nat BY ArenaAssumption
<1>2. NumCells \in Nat /\ NumCells = NumPages * PageCells BY <1>1 DEF NumCells
<1>3. ASSUME NEW s \in Sind
      PROVE  /\ RegionCells[s] \in Nat /\ RegionCells[s] > 0
             /\ SlabPages[s] \in Nat /\ SlabPages[s] > 0
             /\ SlabRegions(s) \in Nat
             /\ SlabRegions(s) * RegionCells[s] = SlabPages[s] * PageCells
  <2>1. /\ RegionCells[s] \in Nat /\ RegionCells[s] > 0
        /\ SlabPages[s] \in Nat /\ SlabPages[s] > 0
        /\ SlabRegions(s) * RegionCells[s] = SlabPages[s] * PageCells
    BY ArenaAssumption
  <2>2. PICK a \in Nat, r \in Nat : a = SlabPages[s] * PageCells /\ r = RegionCells[s] /\ r > 0
    BY <1>1, <2>1
  <2>3. a \div r \in Nat BY <2>2
  <2> QED BY <2>1, <2>2, <2>3 DEF SlabRegions
<1> QED BY <1>1, <1>2, <1>3

LEMMA FirstCells ==
  ASSUME NEW p \in Nat, p > 0, NEW n \in Nat
  PROVE  /\ FirstCell(p) \in Nat /\ FirstCell(p) > 0
         /\ FirstCell(p + n) = FirstCell(p) + n * PageCells
<1>1. PICK q \in Nat : p = q + 1
  <2>1. p - 1 \in Nat /\ p = (p - 1) + 1 OBVIOUS
  <2> QED BY <2>1
<1>2. PICK k \in Nat : k = PageCells BY ArenaNumbers
<1>3. FirstCell(p) = q * k + 1 /\ FirstCell(p + n) = (q + n) * k + 1
  BY <1>1, <1>2 DEF FirstCell
<1>4. (q + n) * k = q * k + n * k /\ q * k \in Nat /\ n * k \in Nat BY Scaled
<1> QED BY <1>2, <1>3, <1>4

LEMMA PageExtentFacts ==
  ASSUME NEW c \in PageExtent
  PROVE  /\ c.base \in Page /\ c.base \in Nat /\ c.base > 0 /\ c.size \in Nat /\ c.size > 0
         /\ c.base + c.size <= NumPages + 1
         /\ FirstCell(c.base) \in Nat /\ FirstCell(c.base) > 0
         /\ FirstCell(c.base + c.size) = FirstCell(c.base) + c.size * PageCells
         /\ FirstCell(c.base + c.size) <= NumCells + 1
         /\ c.size * PageCells \in Nat /\ c.size * PageCells > 0
<1>1. /\ c.base \in Page /\ c.base \in Nat /\ c.base > 0 /\ c.size \in Nat /\ c.size > 0
      /\ c.base + c.size <= NumPages + 1 /\ c.size \in Page
  BY ArenaNumbers DEF PageExtent, Page
<1>2. /\ FirstCell(c.base) \in Nat /\ FirstCell(c.base) > 0
      /\ FirstCell(c.base + c.size) = FirstCell(c.base) + c.size * PageCells
  BY <1>1, FirstCells
<1>3. PICK n \in Nat : n = NumPages + 1 - (c.base + c.size)
  <2>1. NumPages + 1 - (c.base + c.size) \in Nat BY <1>1, ArenaNumbers
  <2> QED BY <2>1
<1>4. FirstCell(NumPages + 1) = FirstCell(c.base + c.size) + n * PageCells /\ n * PageCells \in Nat
  <2>1. NumPages + 1 = (c.base + c.size) + n /\ c.base + c.size \in Nat /\ c.base + c.size > 0
    BY <1>1, <1>3, ArenaNumbers
  <2>2. PICK m \in Nat : m = c.base + c.size BY <2>1
  <2>3. FirstCell(m + n) = FirstCell(m) + n * PageCells BY <2>1, <2>2, FirstCells
  <2> QED BY <2>1, <2>2, <2>3, ArenaNumbers, Scaled
<1>5. FirstCell(NumPages + 1) = NumCells + 1 BY ArenaNumbers DEF FirstCell
<1>6. c.size * PageCells \in Nat /\ c.size * PageCells > 0
  <2>1. PICK a \in Nat, k \in Nat : a = c.size /\ k = PageCells /\ a > 0 /\ k > 0
    BY <1>1, ArenaNumbers
  <2>2. a * k \in Nat /\ a <= a * k BY <2>1, Scaled
  <2> QED BY <2>1, <2>2
<1>7. FirstCell(c.base + c.size) \in Nat BY <1>2, <1>6
<1> QED BY <1>1, <1>2, <1>4, <1>5, <1>6, <1>7, ArenaNumbers

\* An extent of cells in the pages of a chunk.
Inside(c, e) == FirstCell(c.base) <= e.base /\ e.base + e.size <= FirstCell(c.base + c.size)

CellsApart(e, f) == e.base + e.size <= f.base \/ f.base + f.size <= e.base

LEMMA RegionInside ==
  ASSUME NEW c \in PageExtent, NEW s \in Sind, c.size = SlabPages[s], NEW i \in AllRegions(s)
  PROVE  /\ RegionAt(c.base, s, i) \in CellExtent /\ Inside(c, RegionAt(c.base, s, i))
         /\ i \in 0..(NumCells - 1)
         /\ (RegionAt(c.base, s, i).base - FirstCell(c.base)) \div RegionCells[s] = i
<1>1. PICK a \in Nat, r \in Nat, n \in Nat, f \in Nat, z \in Nat :
        /\ a = i /\ r = RegionCells[s] /\ r > 0 /\ n = SlabRegions(s) /\ a + 1 <= n
        /\ f = FirstCell(c.base) /\ f > 0 /\ z = c.size * PageCells /\ n * r = z
        /\ f + z <= NumCells + 1
  <2>1. PICK f \in Nat, z \in Nat : /\ f = FirstCell(c.base) /\ f > 0 /\ z = c.size * PageCells
                                    /\ f + z <= NumCells + 1
    BY PageExtentFacts
  <2>2. PICK r \in Nat, n \in Nat : /\ r = RegionCells[s] /\ r > 0 /\ n = SlabRegions(s)
                                    /\ n * r = SlabPages[s] * PageCells
    BY ArenaNumbers
  <2>3. i \in Nat /\ i + 1 <= n BY <2>2 DEF AllRegions
  <2>4. n * r = z BY <2>1, <2>2
  <2> QED BY <2>1, <2>2, <2>3, <2>4
<1>2. a * r \in Nat /\ a * r + r <= z
  <2>1. (a + 1) * r <= n * r BY <1>1, Scaled
  <2>2. (a + 1) * r = a * r + r /\ a * r \in Nat BY Scaled
  <2> QED BY <1>1, <2>1, <2>2
<1>3. (a * r) \div r = a /\ a <= a * r BY <1>1, Scaled
<1>4. PICK e : e = RegionAt(c.base, s, i) OBVIOUS
<1>5. e.base = f + a * r /\ e.size = r /\ e = [base |-> f + a * r, size |-> r]
  BY <1>1, <1>4 DEF RegionAt
<1>6. PICK b \in Nat : b = f + a * r BY <1>2
<1>7. b \in 1..NumCells /\ r \in 1..NumCells /\ b + r <= f + z /\ f <= b
  BY <1>1, <1>2, <1>6, ArenaNumbers
<1>8. e \in CellExtent BY <1>5, <1>6, <1>7 DEF CellExtent
<1>9. Inside(c, e) BY <1>1, <1>5, <1>6, <1>7, PageExtentFacts DEF Inside
<1>10. i \in 0..(NumCells - 1) BY <1>1, <1>2, <1>3, ArenaNumbers
<1>11. e.base - FirstCell(c.base) = a * r BY <1>1, <1>2, <1>5
<1> QED BY <1>1, <1>3, <1>4, <1>8, <1>9, <1>10, <1>11

LEMMA RegionsApart ==
  ASSUME NEW p \in Page, NEW s \in Sind, NEW i \in Nat, NEW j \in Nat, i # j
  PROVE  CellsApart(RegionAt(p, s, i), RegionAt(p, s, j))
<1>1. PICK r \in Nat, f \in Nat : r = RegionCells[s] /\ f = FirstCell(p)
  <2>1. p \in Nat /\ p > 0 BY DEF Page
  <2> QED BY <2>1, FirstCells, ArenaNumbers
<1>2. /\ RegionAt(p, s, i).base = f + i * r /\ RegionAt(p, s, i).size = r
      /\ RegionAt(p, s, j).base = f + j * r /\ RegionAt(p, s, j).size = r
  BY <1>1 DEF RegionAt
<1>3. i * r \in Nat /\ j * r \in Nat BY Scaled
<1>4. CASE i < j
  <2>1. (i + 1) * r <= j * r /\ (i + 1) * r = i * r + r BY <1>4, Scaled
  <2> QED BY <1>2, <1>3, <2>1 DEF CellsApart
<1>5. CASE j < i
  <2>1. (j + 1) * r <= i * r /\ (j + 1) * r = j * r + r BY <1>5, Scaled
  <2> QED BY <1>2, <1>3, <2>1 DEF CellsApart
<1> QED BY <1>4, <1>5

LEMMA LargeInside ==
  ASSUME NEW c \in PageExtent
  PROVE  LargeAt(c) \in CellExtent /\ Inside(c, LargeAt(c))
<1>1. PICK f \in Nat, z \in Nat : /\ f = FirstCell(c.base) /\ f > 0
                                  /\ z = c.size * PageCells /\ z > 0 /\ f + z <= NumCells + 1
                                  /\ FirstCell(c.base + c.size) = f + z
  BY PageExtentFacts
<1>2. LargeAt(c) = [base |-> f, size |-> z] BY <1>1 DEF LargeAt
<1>3. f \in 1..NumCells /\ z \in 1..NumCells BY <1>1, ArenaNumbers
<1>4. LargeAt(c).base = f /\ LargeAt(c).size = z BY <1>2
<1> QED BY <1>1, <1>2, <1>3, <1>4 DEF CellExtent, Inside

-----------------------------------------------------------------------------
(* Lists *)

OneEach(list) == \A j, k \in 1..Len(list) : list[j] = list[k] => j = k

LEMMA ElementsIs ==
  ASSUME NEW S, NEW list \in Seq(S)
  PROVE  /\ \A x : x \in Elements(list) <=> \E k \in 1..Len(list) : list[k] = x
         /\ Elements(list) \subseteq S
<1>1. DOMAIN list = 1..Len(list) /\ \A k \in 1..Len(list) : list[k] \in S OBVIOUS
<1> QED BY <1>1 DEF Elements

LEMMA HeadIsElement ==
  ASSUME NEW S, NEW list \in Seq(S), list # <<>>
  PROVE  Head(list) \in Elements(list) /\ Head(list) \in S
<1>1. 1 \in 1..Len(list) /\ Head(list) = list[1] OBVIOUS
<1> QED BY <1>1, ElementsIs

LEMMA Joined ==
  ASSUME NEW S, NEW a \in Seq(S), NEW b \in Seq(S)
  PROVE  /\ a \o b \in Seq(S) /\ Len(a \o b) = Len(a) + Len(b)
         /\ \A j \in 1..Len(a) : (a \o b)[j] = a[j]
         /\ \A j \in 1..Len(b) : (a \o b)[Len(a) + j] = b[j]
<1>1. /\ a \o b \in Seq(S) /\ Len(a \o b) = Len(a) + Len(b)
      /\ \A i \in 1..(Len(a) + Len(b)) : (a \o b)[i] = IF i <= Len(a) THEN a[i] ELSE b[i - Len(a)]
  BY ConcatProperties
<1>c. PICK c : c = a \o b OBVIOUS
<1>n. PICK m \in Nat, n \in Nat : m = Len(a) /\ n = Len(b)
  <2>1. Len(a) \in Nat /\ Len(b) \in Nat OBVIOUS
  <2> QED BY <2>1
<1>2. m = Len(a) /\ n = Len(b) /\ c = a \o b BY <1>c, <1>n
<1>3. \A i \in 1..(m + n) : c[i] = IF i <= m THEN a[i] ELSE b[i - m] BY <1>1, <1>2
<1>4. ASSUME NEW j \in 1..m PROVE c[j] = a[j] BY <1>3
<1>5. ASSUME NEW j \in 1..n PROVE c[m + j] = b[j]
  <2>1. m + j \in 1..(m + n) /\ ~(m + j <= m) /\ (m + j) - m = j OBVIOUS
  <2>2. c[m + j] = b[(m + j) - m] BY <1>3, <2>1
  <2> QED BY <2>1, <2>2
<1> QED BY <1>1, <1>2, <1>4, <1>5

LEMMA PushFacts ==
  ASSUME NEW S, NEW list \in Seq(S), NEW p \in S, OneEach(list), p \notin Elements(list)
  PROVE  /\ Push(list, p) \in Seq(S) /\ OneEach(Push(list, p)) /\ Push(list, p) # <<>>
         /\ Elements(Push(list, p)) = Elements(list) \cup {p}
<1>1. PICK q : q = Push(list, p) OBVIOUS
<1>2. PICK n \in Nat : n = Len(list) OBVIOUS
<1>3. /\ q \in Seq(S) /\ Len(q) = n + 1 /\ q[1] = p
      /\ \A j \in 1..n : q[1 + j] = list[j]
  <2>1. <<p>> \in Seq(S) /\ Len(<<p>>) = 1 /\ <<p>>[1] = p OBVIOUS
  <2>2. PICK one : one = <<p>> OBVIOUS
  <2>3. one \in Seq(S) /\ Len(one) = 1 /\ one[1] = p BY <2>1, <2>2
  <2>4. q = one \o list BY <1>1, <2>2 DEF Push
  <2>5. /\ q \in Seq(S) /\ Len(q) = Len(one) + Len(list)
        /\ \A j \in 1..Len(one) : q[j] = one[j]
        /\ \A j \in 1..Len(list) : q[Len(one) + j] = list[j]
    <3>1. /\ one \o list \in Seq(S) /\ Len(one \o list) = Len(one) + Len(list)
          /\ \A j \in 1..Len(one) : (one \o list)[j] = one[j]
          /\ \A j \in 1..Len(list) : (one \o list)[Len(one) + j] = list[j]
      BY <2>3, Joined
    <3> QED BY <2>4, <3>1, Zenon
  <2>6. Len(q) = 1 + n /\ \A j \in 1..n : q[1 + j] = list[j] BY <1>2, <2>3, <2>5
  <2>7. q[1] = p BY <2>3, <2>5
  <2>8. Len(q) = n + 1 BY <2>6
  <2> QED BY <2>5, <2>6, <2>7, <2>8, Zenon
<1>4. \A k \in 1..(n + 1) : k # 1 => k - 1 \in 1..n /\ q[k] = list[k - 1] /\ q[k] # p
  <2> SUFFICES ASSUME NEW k \in 1..(n + 1), k # 1
               PROVE  k - 1 \in 1..n /\ q[k] = list[k - 1] /\ q[k] # p
    OBVIOUS
  <2>1. k - 1 \in 1..n /\ 1 + (k - 1) = k OBVIOUS
  <2>2. q[1 + (k - 1)] = list[k - 1] BY <1>3, <2>1
  <2>3. list[k - 1] # p BY <1>2, <2>1, ElementsIs
  <2> QED BY <2>1, <2>2, <2>3
<1>5. 1 \in 1..(n + 1) OBVIOUS
<1>6. OneEach(q)
  <2> SUFFICES ASSUME NEW j \in 1..(n + 1), NEW k \in 1..(n + 1), q[j] = q[k] PROVE j = k
    BY <1>3 DEF OneEach
  <2>1. CASE j = 1 \/ k = 1 BY <1>3, <1>4, <2>1
  <2>2. CASE j # 1 /\ k # 1
    <3>1. j - 1 \in 1..n /\ k - 1 \in 1..n /\ list[j - 1] = list[k - 1] BY <1>4, <2>2
    <3>2. j - 1 = k - 1 BY <1>2, <3>1 DEF OneEach
    <3> QED BY <3>2
  <2> QED BY <2>1, <2>2
<1>7. ASSUME NEW x \in Elements(q) PROVE x \in Elements(list) \cup {p}
  <2>1. PICK k \in 1..(n + 1) : q[k] = x BY <1>3, <1>7, ElementsIs
  <2>2. CASE k = 1 BY <1>3, <2>1, <2>2
  <2>3. CASE k # 1
    <3>1. k - 1 \in 1..n /\ list[k - 1] = x BY <1>4, <2>1, <2>3
    <3> QED BY <1>2, <3>1, ElementsIs
  <2> QED BY <2>2, <2>3
<1>8. ASSUME NEW x \in Elements(list) \cup {p} PROVE x \in Elements(q)
  <2>1. CASE x = p BY <1>3, <1>5, <2>1, ElementsIs
  <2>2. CASE x \in Elements(list)
    <3>1. PICK j \in 1..n : list[j] = x BY <1>2, <2>2, ElementsIs
    <3>2. 1 + j \in 1..(n + 1) /\ q[1 + j] = x BY <1>3, <3>1
    <3> QED BY <1>3, <3>2, ElementsIs
  <2> QED BY <1>8, <2>1, <2>2
<1>9. q # <<>> BY <1>3
<1> QED BY <1>1, <1>3, <1>6, <1>7, <1>8, <1>9

LEMMA EraseFacts ==
  ASSUME NEW S, NEW list \in Seq(S), NEW p \in Elements(list), OneEach(list)
  PROVE  /\ Erase(list, p) \in Seq(S) /\ OneEach(Erase(list, p))
         /\ Elements(Erase(list, p)) = Elements(list) \ {p}
<1>1. PICK k \in 1..Len(list) : k = CHOOSE j \in DOMAIN list : list[j] = p
  <2>1. DOMAIN list = 1..Len(list) OBVIOUS
  <2>2. \E j \in 1..Len(list) : list[j] = p BY ElementsIs
  <2> QED BY <2>1, <2>2
<1>2. list[k] = p
  <2>1. DOMAIN list = 1..Len(list) OBVIOUS
  <2>2. \E j \in 1..Len(list) : list[j] = p BY ElementsIs
  <2> QED BY <1>1, <2>1, <2>2
<1>3. PICK n \in Nat : n = Len(list) OBVIOUS
<1>4. PICK m \in Nat : m = k - 1 /\ m + 1 = k /\ m + 1 <= n BY <1>3
<1>5. PICK a : /\ a = SubSeq(list, 1, m) /\ a \in Seq(S) /\ Len(a) = m
               /\ \A j \in 1..m : a[j] = list[j]
  <2>1. m \in 0..Len(list) BY <1>3, <1>4
  <2>2. PICK a : a = SubSeq(list, 1, m) OBVIOUS
  <2>3. a \in Seq(S) /\ Len(a) = m /\ \A j \in 1..m : a[j] = list[j] BY <2>1, <2>2
  <2> QED BY <2>2, <2>3
<1>6. PICK b : /\ b = SubSeq(list, k + 1, n) /\ b \in Seq(S) /\ Len(b) = n - k
               /\ \A j \in 1..(n - k) : b[j] = list[k + j]
  <2>1. PICK b : b = SubSeq(list, k + 1, n) OBVIOUS
  <2>2. b \in Seq(S) /\ Len(b) = n - k /\ \A j \in 1..(n - k) : b[j] = list[k + j]
    BY <1>3, <1>4, <2>1
  <2> QED BY <2>1, <2>2
<1>7. PICK q : q = a \o b OBVIOUS
<1>8. /\ q \in Seq(S) /\ Len(q) = n - 1
      /\ \A j \in 1..m : q[j] = list[j]
      /\ \A j \in 1..(n - k) : q[m + j] = list[k + j]
  <2>1. /\ q \in Seq(S) /\ Len(q) = Len(a) + Len(b)
        /\ \A j \in 1..Len(a) : q[j] = a[j]
        /\ \A j \in 1..Len(b) : q[Len(a) + j] = b[j]
    BY <1>5, <1>6, <1>7, Joined
  <2>2. Len(q) = n - 1 BY <1>3, <1>4, <1>5, <1>6, <2>1
  <2>3. \A j \in 1..m : q[j] = list[j] BY <1>5, <2>1
  <2>4. \A j \in 1..(n - k) : q[m + j] = list[k + j] BY <1>5, <1>6, <2>1
  <2> QED BY <2>1, <2>2, <2>3, <2>4
<1>9. Erase(list, p) = q BY <1>1, <1>3, <1>4, <1>5, <1>6, <1>7 DEF Erase
<1>10. \A j \in 1..(n - 1) : \/ j \in 1..m /\ q[j] = list[j]
                             \/ j > m /\ q[j] = list[j + 1] /\ j + 1 \in 1..n
  <2> SUFFICES ASSUME NEW j \in 1..(n - 1), j \notin 1..m
               PROVE  j > m /\ q[j] = list[j + 1] /\ j + 1 \in 1..n
    BY <1>8
  <2>1. j > m /\ j - m \in 1..(n - k) /\ m + (j - m) = j /\ k + (j - m) = j + 1 /\ j + 1 \in 1..n
    BY <1>4
  <2> QED BY <1>8, <2>1
<1>11. OneEach(q)
  <2> SUFFICES ASSUME NEW i \in 1..(n - 1), NEW j \in 1..(n - 1), q[i] = q[j] PROVE i = j
    BY <1>8 DEF OneEach
  <2>1. 1..m \subseteq 1..n BY <1>4
  <2>2. PICK x \in 1..n : q[i] = list[x] /\ ((x = i /\ i <= m) \/ (x = i + 1 /\ i > m)) BY <1>10, <2>1
  <2>3. PICK y \in 1..n : q[j] = list[y] /\ ((y = j /\ j <= m) \/ (y = j + 1 /\ j > m)) BY <1>10, <2>1
  <2>4. x = y BY <1>3, <2>2, <2>3 DEF OneEach
  <2> QED BY <2>2, <2>3, <2>4
<1>12. ASSUME NEW x \in Elements(q) PROVE x \in Elements(list) /\ x # p
  <2>1. PICK j \in 1..(n - 1) : q[j] = x BY <1>8, <1>12, ElementsIs
  <2>2. PICK i \in 1..n : list[i] = x /\ i # k
    <3>1. CASE j \in 1..m /\ q[j] = list[j] BY <1>4, <2>1, <3>1
    <3>2. CASE j > m /\ q[j] = list[j + 1] /\ j + 1 \in 1..n BY <1>4, <2>1, <3>2
    <3> QED BY <1>10, <3>1, <3>2
  <2> QED BY <1>2, <1>3, <2>2, ElementsIs DEF OneEach
<1>13. ASSUME NEW x \in Elements(list), x # p PROVE x \in Elements(q)
  <2>1. PICK i \in 1..n : list[i] = x /\ i # k BY <1>2, <1>3, <1>13, ElementsIs
  <2>2. CASE i < k
    <3>1. i \in 1..m /\ i \in 1..(n - 1) BY <1>4, <2>2
    <3> QED BY <1>8, <2>1, <3>1, ElementsIs
  <2>3. CASE i > k
    <3>1. i - k \in 1..(n - k) /\ k + (i - k) = i /\ m + (i - k) \in 1..(n - 1)
      BY <1>4, <2>3
    <3>2. q[m + (i - k)] = list[k + (i - k)] BY <1>8, <3>1
    <3>3. q[m + (i - k)] = x BY <2>1, <3>1, <3>2
    <3> QED BY <1>8, <3>1, <3>3, ElementsIs
  <2> QED BY <1>3, <2>1, <2>2, <2>3
<1> QED BY <1>8, <1>9, <1>11, <1>12, <1>13

-----------------------------------------------------------------------------
(* The inductive invariant *)

\* The extent e is what the chunk c, or one of its regions, is to a caller.
Piece(c, e) ==
  IF region_size[c.base] = NonSlab THEN e = LargeAt(c)
  ELSE \E i \in AllRegions(region_size[c.base]) : e = RegionAt(c.base, region_size[c.base], i)

Before(c, d) == c.base + c.size <= d.base

ChunksApart == \A c, d \in chunks : c # d => Before(c, d) \/ Before(d, c)

\* A slab has the size and the bitmap of its class.
SlabsFit == \A c \in chunks : region_size[c.base] # NonSlab =>
  /\ c.size = SlabPages[region_size[c.base]]
  /\ bitmap[c.base] \subseteq AllRegions(region_size[c.base])

\* What a call under way counts on, whatever the other threads do.
CallShape(t) ==
  /\ op[t].step \in {"alloc", "slab", "take", "free"} => op[t].sind \in Sind
  /\ op[t].step \in {"slab", "take"} => slab_mutex[op[t].sind] = t
  /\ At(t, "take") => nonempty_slab[op[t].sind] # <<>>
  /\ At(t, "free") => /\ op[t].index \in AllRegions(op[t].sind)
                      /\ \E c \in Slabs(op[t].sind) : c.base = op[t].page
                      /\ RegionAt(op[t].page, op[t].sind, op[t].index) \notin held
  /\ At(t, "release") => \E c \in chunks : c.base = op[t].page

CallsShaped == \A t \in Thread : CallShape(t)

\* No two threads return one region or release one chunk.
Exclusive == \A t, u \in Thread : t # u =>
  /\ At(t, "free") /\ At(u, "free") =>
       <<op[t].page, op[t].index>> # <<op[u].page, op[u].index>>
  /\ At(t, "release") /\ At(u, "release") => op[t].page # op[u].page

HeldPlaced == \A e \in held : \E c \in chunks : ~Releasing(c.base) /\ Piece(c, e)

BitmapsExact ==
  \A s \in Sind : \A c \in Slabs(s) : \A i \in AllRegions(s) :
    i \in bitmap[c.base] <=> RegionAt(c.base, s, i) \notin held \cup Returning

\* list has each slab of class s that has free regions (if free) or none, once.
ListOf(list, s, free) ==
  /\ list \in Seq(Page)
  /\ OneEach(list)
  /\ \A p : p \in Elements(list) <=>
           \E c \in Slabs(s) : c.base = p /\ (bitmap[p] # {} <=> free)

ListsOK == \A s \in Sind : ListOf(nonempty_slab[s], s, TRUE) /\ ListOf(empty_slab[s], s, FALSE)

InUse(s) == UNION { { RegionAt(c.base, s, i) : i \in AllRegions(s) \ bitmap[c.base] } :
                      c \in Slabs(s) }

PagesOf(C) == UNION { c.base..(c.base + c.size - 1) : c \in C }

Large == { c \in chunks : region_size[c.base] = NonSlab }

StatsOK ==
  /\ \A s \in Sind : /\ IsFiniteSet(InUse(s))
                     /\ request[s] = Cardinality(InUse(s)) * RegionCells[s]
                     /\ hold[s] = Cardinality(PagesOf(Slabs(s)))
  /\ large_request = Cardinality(PagesOf(Large))

IInv == /\ TypeOK /\ ChunksApart /\ SlabsFit /\ CallsShaped /\ Exclusive /\ HeldPlaced
        /\ BitmapsExact /\ ListsOK /\ StatsOK

-----------------------------------------------------------------------------
(* Chunks and their pieces *)

\* The lemmas of this part need only that much of the state.
ChunksOK == TypeOK /\ ChunksApart /\ SlabsFit

LEMMA InsideApart ==
  ASSUME NEW c \in PageExtent, NEW d \in PageExtent, Before(c, d),
         NEW e \in CellExtent, NEW f \in CellExtent, Inside(c, e), Inside(d, f)
  PROVE  e.base + e.size <= f.base
<1>1. PICK n \in Nat : d.base = (c.base + c.size) + n
  <2>1. c.base + c.size \in Nat /\ d.base \in Nat /\ c.base + c.size <= d.base
    BY PageExtentFacts DEF Before
  <2>2. PICK x \in Nat, y \in Nat : x = c.base + c.size /\ y = d.base /\ x <= y BY <2>1
  <2>3. y - x \in Nat /\ y = x + (y - x) BY <2>2
  <2> QED BY <2>2, <2>3
<1>2. PICK m \in Nat : m = c.base + c.size /\ m > 0 BY PageExtentFacts
<1>3. FirstCell(m + n) = FirstCell(m) + n * PageCells /\ FirstCell(m) \in Nat BY <1>2, FirstCells
<1>4. n * PageCells \in Nat BY ArenaNumbers, Scaled
<1>5. PICK x \in Nat, k \in Nat : x = FirstCell(m) /\ k = n * PageCells BY <1>3, <1>4
<1>6. e.base + e.size <= x /\ x + k <= f.base BY <1>1, <1>2, <1>3, <1>5 DEF Inside
<1>7. e.base \in Nat /\ e.size \in Nat /\ f.base \in Nat BY ArenaNumbers DEF CellExtent
<1> QED BY <1>6, <1>7

LEMMA PieceFacts ==
  ASSUME ChunksOK, NEW c \in chunks, NEW e, Piece(c, e)
  PROVE  c \in PageExtent /\ e \in CellExtent /\ Inside(c, e)
<1>1. c \in PageExtent /\ region_size[c.base] \in Sind \cup {NonSlab}
  BY PageExtentFacts DEF ChunksOK, TypeOK
<1>2. CASE region_size[c.base] = NonSlab BY <1>1, <1>2, LargeInside DEF Piece
<1>3. CASE region_size[c.base] # NonSlab
  <2>1. PICK s \in Sind : s = region_size[c.base] BY <1>1, <1>3
  <2>2. c.size = SlabPages[s] BY <1>3, <2>1 DEF ChunksOK, SlabsFit
  <2>3. PICK i \in AllRegions(s) : e = RegionAt(c.base, s, i) BY <1>3, <2>1 DEF Piece
  <2> QED BY <1>1, <2>2, <2>3, RegionInside
<1> QED BY <1>2, <1>3

\* Two pieces are of one chunk, or share no cell.
LEMMA ChunkOfPiece ==
  ASSUME ChunksOK, NEW c \in chunks, NEW d \in chunks, c # d, NEW e, NEW f, Piece(c, e), Piece(d, f)
  PROVE  CellsApart(e, f) /\ e # f
<1>1. c \in PageExtent /\ e \in CellExtent /\ Inside(c, e) BY PieceFacts
<1>2. d \in PageExtent /\ f \in CellExtent /\ Inside(d, f) BY PieceFacts
<1>3. CASE Before(c, d)
  <2>1. e.base + e.size <= f.base BY <1>1, <1>2, <1>3, InsideApart
  <2> QED BY <1>1, <1>2, <2>1, ArenaNumbers DEF CellsApart, CellExtent
<1>4. CASE Before(d, c)
  <2>1. f.base + f.size <= e.base BY <1>1, <1>2, <1>4, InsideApart
  <2> QED BY <1>1, <1>2, <2>1, ArenaNumbers DEF CellsApart, CellExtent
<1> QED BY <1>3, <1>4 DEF ChunksOK, ChunksApart

LEMMA PiecesApart ==
  ASSUME ChunksOK, NEW c \in chunks, NEW d \in chunks, NEW e, NEW f, Piece(c, e), Piece(d, f), e # f
  PROVE  CellsApart(e, f)
<1>1. CASE c # d BY <1>1, ChunkOfPiece
<1>2. CASE c = d
  <2>1. c \in PageExtent /\ c.base \in Page /\ region_size[c.base] \in Sind \cup {NonSlab}
    BY PageExtentFacts DEF ChunksOK, TypeOK
  <2>2. region_size[c.base] # NonSlab BY <1>2 DEF Piece
  <2>3. PICK s \in Sind : s = region_size[c.base] BY <2>1, <2>2
  <2>4. PICK i \in AllRegions(s) : e = RegionAt(c.base, s, i) BY <2>2, <2>3 DEF Piece
  <2>5. PICK j \in AllRegions(s) : f = RegionAt(c.base, s, j) BY <1>2, <2>2, <2>3 DEF Piece
  <2>6. i \in Nat /\ j \in Nat BY ArenaNumbers DEF AllRegions
  <2>7. i # j BY <2>4, <2>5
  <2> QED BY <2>1, <2>4, <2>5, <2>6, <2>7, RegionsApart
<1> QED BY <1>1, <1>2

LEMMA RegionIndex ==
  ASSUME NEW c \in PageExtent, NEW s \in Sind, c.size = SlabPages[s],
         NEW i \in AllRegions(s), NEW j \in AllRegions(s), RegionAt(c.base, s, i) = RegionAt(c.base, s, j)
  PROVE  i = j
BY RegionInside

LEMMA SpansApart ==
  ASSUME NEW e \in CellExtent, NEW f \in CellExtent, CellsApart(e, f)
  PROVE  (e.base..(e.base + e.size - 1)) \cap (f.base..(f.base + f.size - 1)) = {}
BY ArenaNumbers DEF CellsApart, CellExtent

LEMMA OneChunkAt ==
  ASSUME ChunksOK, NEW c \in chunks, NEW d \in chunks, c.base = d.base
  PROVE  c = d
<1>1. c \in PageExtent /\ d \in PageExtent BY DEF ChunksOK, TypeOK
<1>2. ~Before(c, d) /\ ~Before(d, c) BY <1>1, PageExtentFacts DEF Before
<1> QED BY <1>2 DEF ChunksOK, ChunksApart

LEMMA ChunkAtIs ==
  ASSUME ChunksOK, NEW c \in chunks
  PROVE  ChunkAt(c.base) = c
BY OneChunkAt DEF ChunkAt

LEMMA LookUpIs ==
  ASSUME ChunksOK, NEW c \in chunks, NEW e, Piece(c, e)
  PROVE  LookUp(e) = c
<1> DEFINE Has(d) == FirstCell(d.base) <= e.base /\ e.base < FirstCell(d.base + d.size)
<1>1. c \in PageExtent /\ e \in CellExtent /\ Inside(c, e) BY PieceFacts
<1>2. e.base \in Nat /\ e.size \in Nat /\ e.size > 0 BY <1>1, ArenaNumbers DEF CellExtent
<1>3. ASSUME NEW d \in chunks PROVE /\ d \in PageExtent
                                    /\ FirstCell(d.base) \in Nat
                                    /\ FirstCell(d.base + d.size) \in Nat
  <2>1. d \in PageExtent BY DEF ChunksOK, TypeOK
  <2> QED BY <2>1, PageExtentFacts
<1>4. Has(c) BY <1>1, <1>2, <1>3 DEF Inside
<1>5. ASSUME NEW d \in chunks, Has(d), d # c PROVE FALSE
  <2>1. PICK n : n = [base |-> e.base, size |-> 1] OBVIOUS
  <2>2. n \in CellExtent /\ n.base = e.base /\ n.size = 1
    BY <1>1, <2>1, ArenaNumbers DEF CellExtent
  <2>3. Inside(d, n) BY <1>2, <1>3, <1>5, <2>2 DEF Inside
  <2>4. Before(c, d) \/ Before(d, c) BY <1>5 DEF ChunksOK, ChunksApart
  <2>5. CASE Before(c, d)
    <3>1. e.base + e.size <= n.base BY <1>1, <1>3, <2>2, <2>3, <2>5, InsideApart
    <3> QED BY <1>2, <2>2, <3>1
  <2>6. CASE Before(d, c)
    <3>1. n.base + n.size <= e.base BY <1>1, <1>3, <2>2, <2>3, <2>6, InsideApart
    <3> QED BY <1>2, <2>2, <3>1
  <2> QED BY <2>4, <2>5, <2>6
<1> QED BY <1>4, <1>5 DEF LookUp

\* A chunk the page heap hands out shares no page with those in use.
LEMMA Fresh ==
  ASSUME TypeOK, NEW c \in PageExtent, PageHeap!Alloc(c)
  PROVE  chunks' = chunks \cup {c} /\ \A d \in chunks : Before(c, d) \/ Before(d, c)
<1>1. chunks' = chunks \cup {c} BY DEF PageHeap!Alloc
<1>2. ASSUME NEW d \in chunks, ~Before(c, d), ~Before(d, c) PROVE FALSE
  <2>1. d \in PageExtent BY DEF TypeOK
  <2>2. (c.base..(c.base + c.size - 1)) \cap (d.base..(d.base + d.size - 1)) = {}
    BY <2>1 DEF PageHeap!Alloc, PageHeap!Apart
  <2>3. PICK a \in Nat, m \in Nat, b \in Nat, n \in Nat :
          a = c.base /\ m = c.size /\ b = d.base /\ n = d.size /\ m > 0 /\ n > 0
    BY <2>1, PageExtentFacts
  <2>4. a + m > b /\ b + n > a BY <1>2, <2>3 DEF Before
  <2>5. CASE a <= b
    <3>1. b \in a..(a + m - 1) /\ b \in b..(b + n - 1) BY <2>3, <2>4, <2>5
    <3> QED BY <2>2, <2>3, <3>1
  <2>6. CASE b <= a
    <3>1. a \in a..(a + m - 1) /\ a \in b..(b + n - 1) BY <2>3, <2>4, <2>6
    <3> QED BY <2>2, <2>3, <3>1
  <2> QED BY <2>3, <2>5, <2>6
<1> QED BY <1>1, <1>2

LEMMA SlabFacts ==
  ASSUME ChunksOK, NEW s \in Sind, NEW c \in Slabs(s)
  PROVE  /\ c \in chunks /\ c \in PageExtent /\ c.base \in Page /\ s # NonSlab
         /\ region_size[c.base] = s /\ ~Releasing(c.base)
         /\ c.size = SlabPages[s] /\ bitmap[c.base] \subseteq AllRegions(s)
         /\ \A i \in AllRegions(s) : Piece(c, RegionAt(c.base, s, i))
<1>1. c \in chunks /\ region_size[c.base] = s /\ ~Releasing(c.base) BY DEF Slabs
<1>2. c \in PageExtent /\ c.base \in Page BY <1>1, PageExtentFacts DEF ChunksOK, TypeOK
<1>3. s # NonSlab BY ArenaAssumption
<1>4. c.size = SlabPages[s] /\ bitmap[c.base] \subseteq AllRegions(s)
  BY <1>1, <1>3 DEF ChunksOK, SlabsFit
<1>5. \A i \in AllRegions(s) : Piece(c, RegionAt(c.base, s, i)) BY <1>1, <1>3 DEF Piece
<1> QED BY <1>1, <1>2, <1>3, <1>4, <1>5

\* A free under way is of a region of a slab of its class.
LEMMA FreeFacts ==
  ASSUME ChunksOK, NEW t \in Thread, CallShape(t), At(t, "free")
  PROVE  /\ op[t].sind \in Sind /\ op[t].index \in AllRegions(op[t].sind)
         /\ \E c \in Slabs(op[t].sind) :
              /\ c.base = op[t].page
              /\ Piece(c, RegionAt(op[t].page, op[t].sind, op[t].index))
         /\ RegionAt(op[t].page, op[t].sind, op[t].index) \notin held
         /\ RegionAt(op[t].page, op[t].sind, op[t].index) \in Returning
<1>1. /\ op[t].sind \in Sind /\ op[t].index \in AllRegions(op[t].sind)
      /\ RegionAt(op[t].page, op[t].sind, op[t].index) \notin held
  BY DEF CallShape, At
<1>2. PICK c \in Slabs(op[t].sind) : c.base = op[t].page BY DEF CallShape
<1>3. Piece(c, RegionAt(op[t].page, op[t].sind, op[t].index)) BY <1>1, <1>2, SlabFacts
<1>4. RegionAt(op[t].page, op[t].sind, op[t].index) \in Returning BY DEF Returning
<1> QED BY <1>1, <1>2, <1>3, <1>4

\* Two frees under way are of two regions.
LEMMA FreesApart ==
  ASSUME ChunksOK, CallsShaped, Exclusive,
         NEW t \in Thread, NEW u \in Thread, t # u, At(t, "free"), At(u, "free")
  PROVE  RegionAt(op[t].page, op[t].sind, op[t].index) # RegionAt(op[u].page, op[u].sind, op[u].index)
<1> SUFFICES ASSUME RegionAt(op[t].page, op[t].sind, op[t].index)
                      = RegionAt(op[u].page, op[u].sind, op[u].index)
             PROVE  FALSE
  OBVIOUS
<1>1. CallShape(t) /\ CallShape(u) BY DEF CallsShaped
<1>s. PICK s \in Sind, z \in Sind : s = op[t].sind /\ z = op[u].sind BY <1>1, FreeFacts
<1>2. PICK i, c :
        /\ i \in AllRegions(s) /\ c \in Slabs(s) /\ s = op[t].sind /\ i = op[t].index /\ c.base = op[t].page
        /\ Piece(c, RegionAt(op[t].page, op[t].sind, op[t].index))
  BY <1>s, <1>1, FreeFacts
<1>3. PICK j, d :
        /\ j \in AllRegions(z) /\ d \in Slabs(z) /\ z = op[u].sind /\ j = op[u].index /\ d.base = op[u].page
        /\ Piece(d, RegionAt(op[u].page, op[u].sind, op[u].index))
  BY <1>s, <1>1, FreeFacts
<1>4. c \in chunks /\ d \in chunks /\ region_size[c.base] = s /\ region_size[d.base] = z
  BY <1>2, <1>3, SlabFacts
<1>5. c = d BY <1>2, <1>3, <1>4, ChunkOfPiece
<1>6. s = z BY <1>4, <1>5
<1>7. c \in PageExtent /\ c.size = SlabPages[s] BY <1>2, SlabFacts
<1>8. i = j BY <1>2, <1>3, <1>5, <1>6, <1>7, RegionIndex
<1> QED BY <1>2, <1>3, <1>5, <1>8 DEF Exclusive

-----------------------------------------------------------------------------
(* What a step changes *)

LEMMA Moves ==
  ASSUME TypeOK, NEW t \in Thread, NEW o, Goto(t, o)
  PROVE  op'[t] = o /\ \A u \in Thread : u # t => op'[u] = op[u]
BY DEF Goto, TypeOK

\* Unless a call ends or begins a release, the same chunks are being released.
LEMMA ReleasingKept ==
  ASSUME TypeOK, NEW t \in Thread, NEW o, Goto(t, o), ~At(t, "release"), o.step # "release", NEW p
  PROVE  Releasing(p)' = Releasing(p)
BY Moves DEF Releasing, At

LEMMA ReleasingMore ==
  ASSUME TypeOK, NEW t \in Thread, NEW o, Goto(t, o), ~At(t, "release"), o.step = "release", NEW p
  PROVE  Releasing(p)' <=> Releasing(p) \/ p = o.page
BY Moves DEF Releasing, At

LEMMA ReturningKept ==
  ASSUME TypeOK, NEW t \in Thread, NEW o, Goto(t, o), ~At(t, "free"), o.step # "free"
  PROVE  Returning' = Returning
BY Moves DEF Returning, At

LEMMA ReturningMore ==
  ASSUME TypeOK, NEW t \in Thread, NEW o, Goto(t, o), ~At(t, "free"), o.step = "free"
  PROVE  Returning' = Returning \cup {RegionAt(o.page, o.sind, o.index)}
BY Moves DEF Returning, At

LEMMA ReturningLess ==
  ASSUME ChunksOK, CallsShaped, Exclusive, NEW t \in Thread, NEW o, Goto(t, o),
         At(t, "free"), o.step # "free"
  PROVE  Returning' = Returning \ {RegionAt(op[t].page, op[t].sind, op[t].index)}
<1>1. op'[t] = o /\ \A u \in Thread : u # t => op'[u] = op[u] BY Moves DEF ChunksOK
<1>2. \A u \in Thread : u # t /\ At(u, "free") =>
        RegionAt(op[t].page, op[t].sind, op[t].index) # RegionAt(op[u].page, op[u].sind, op[u].index)
  BY FreesApart
<1> QED BY <1>1, <1>2 DEF Returning, At

LEMMA ListKept ==
  ASSUME NEW s \in Sind, NEW list, NEW free \in BOOLEAN, ListOf(list, s, free), Slabs(s)' = Slabs(s),
         \A c \in Slabs(s) : bitmap'[c.base] = {} <=> bitmap[c.base] = {}
  PROVE  ListOf(list, s, free)'
<1>1. \A p : (\E c \in Slabs(s) : c.base = p /\ (bitmap[p] # {} <=> free))
            <=> (\E c \in Slabs(s)' : c.base = p /\ (bitmap'[p] # {} <=> free))
  OBVIOUS
<1> QED BY <1>1 DEF ListOf

LEMMA ListsKept ==
  ASSUME ListsOK, UNCHANGED <<nonempty_slab, empty_slab>>,
         \A s \in Sind : Slabs(s)' = Slabs(s) /\ \A c \in Slabs(s) : bitmap'[c.base] = bitmap[c.base]
  PROVE  ListsOK'
<1>1. nonempty_slab' = nonempty_slab /\ empty_slab' = empty_slab OBVIOUS
<1>2. ASSUME NEW s \in Sind
      PROVE  ListOf(nonempty_slab[s], s, TRUE)' /\ ListOf(empty_slab[s], s, FALSE)'
  <2>1. PICK ne, em : ne = nonempty_slab[s] /\ em = empty_slab[s] OBVIOUS
  <2>2. ListOf(ne, s, TRUE) /\ ListOf(em, s, FALSE) BY <2>1 DEF ListsOK
  <2>3. ListOf(ne, s, TRUE)' /\ ListOf(em, s, FALSE)' BY <2>2, ListKept
  <2> QED BY <1>1, <2>1, <2>3 DEF ListOf
<1> QED BY <1>2 DEF ListsOK

LEMMA StatsKept ==
  ASSUME StatsOK, UNCHANGED stats, Large' = Large,
         \A s \in Sind : Slabs(s)' = Slabs(s) /\ \A c \in Slabs(s) : bitmap'[c.base] = bitmap[c.base]
  PROVE  StatsOK'
<1>1. ASSUME NEW s \in Sind PROVE InUse(s)' = InUse(s) /\ PagesOf(Slabs(s))' = PagesOf(Slabs(s))
  BY DEF InUse, PagesOf
<1>2. PagesOf(Large)' = PagesOf(Large) BY DEF PagesOf
<1>3. request' = request /\ hold' = hold /\ large_request' = large_request BY DEF stats
<1> QED BY <1>1, <1>2, <1>3 DEF StatsOK

LEMMA SlabsKept ==
  ASSUME TypeOK, UNCHANGED <<chunks, region_size>>,
         NEW t \in Thread, NEW o, Goto(t, o), ~At(t, "release"), o.step # "release"
  PROVE  (\A s \in Sind : Slabs(s)' = Slabs(s)) /\ Large' = Large
<1>1. \A p : Releasing(p)' = Releasing(p) BY ReleasingKept
<1> QED BY <1>1 DEF Slabs, Large

LEMMA CallKept ==
  ASSUME NEW u \in Thread, CallShape(u), NEW w, op[u] = w, op'[u] = w,
         w.step \in {"slab", "take"} => slab_mutex'[w.sind] = slab_mutex[w.sind],
         w.step = "take" => nonempty_slab'[w.sind] # <<>>,
         w.step = "free" =>
           /\ \A c \in Slabs(w.sind) : c.base = w.page => c \in Slabs(w.sind)'
           /\ RegionAt(w.page, w.sind, w.index) \notin held',
         w.step = "release" => \A c \in chunks : c.base = w.page => c \in chunks'
  PROVE  CallShape(u)'
<1>1. /\ w.step \in {"alloc", "slab", "take", "free"} => w.sind \in Sind
      /\ w.step \in {"slab", "take"} => slab_mutex'[w.sind] = u
      /\ w.step = "take" => nonempty_slab'[w.sind] # <<>>
  BY DEF CallShape, At
<1>2. w.step = "free" => /\ w.index \in AllRegions(w.sind)
                         /\ \E c \in Slabs(w.sind)' : c.base = w.page
                         /\ RegionAt(w.page, w.sind, w.index) \notin held'
  BY DEF CallShape, At
<1>3. w.step = "release" => \E c \in chunks' : c.base = w.page
  BY DEF CallShape, At
<1> QED BY <1>1, <1>2, <1>3 DEF CallShape, At

LEMMA QuietStep ==
  ASSUME IInv, NEW t \in Thread, NEW o \in OpType, Goto(t, o),
         op[t].step \notin {"free", "release"}, o.step \notin {"take", "free", "release"},
         UNCHANGED <<chunks, slabs, stats, held>>,
         slab_mutex' \in [Sind -> Thread \cup {Nobody}],
         \A z \in Sind : slab_mutex[z] \in Thread => slab_mutex'[z] = slab_mutex[z],
         o.step \in {"alloc", "slab"} => o.sind \in Sind,
         o.step = "slab" => slab_mutex'[o.sind] = t
  PROVE  IInv'
<1>1. TypeOK /\ ChunksOK BY DEF IInv, ChunksOK
<1>2. op'[t] = o /\ \A u \in Thread : u # t => op'[u] = op[u] BY <1>1, Moves
<1>3. /\ chunks' = chunks /\ held' = held /\ region_size' = region_size /\ bitmap' = bitmap
      /\ nonempty_slab' = nonempty_slab /\ empty_slab' = empty_slab
      /\ request' = request /\ hold' = hold /\ large_request' = large_request
  BY DEF slabs, stats
<1>4. ~At(t, "release") /\ ~At(t, "free") BY DEF At
<1>5. (\A s \in Sind : Slabs(s)' = Slabs(s)) /\ Large' = Large BY <1>1, <1>3, <1>4, SlabsKept
<1>6. Returning' = Returning /\ \A p : Releasing(p)' = Releasing(p)
  BY <1>1, <1>4, ReturningKept, ReleasingKept
<1>7. TypeOK'
  <2>1. op' \in [Thread -> OpType] BY <1>1 DEF TypeOK, Goto
  <2> QED BY <1>1, <1>3, <2>1 DEF TypeOK
<1>8. ChunksApart' /\ SlabsFit' BY <1>3 DEF IInv, ChunksApart, SlabsFit
<1>9. CallsShaped'
  <2> SUFFICES ASSUME NEW u \in Thread PROVE CallShape(u)' BY DEF CallsShaped
  <2>1. CASE u = t BY <1>2, <2>1 DEF CallShape, At
  <2>2. CASE u # t
    <3>1. CallShape(u) BY DEF IInv, CallsShaped
    <3>2. PICK w : w = op[u] OBVIOUS
    <3>3. w.step \in {"slab", "take"} => slab_mutex'[w.sind] = slab_mutex[w.sind]
      BY <3>1, <3>2 DEF CallShape
    <3>4. w.step = "take" => nonempty_slab'[w.sind] # <<>> BY <1>3, <3>1, <3>2 DEF CallShape, At
    <3>5. w.step = "free" => /\ w.sind \in Sind
                             /\ RegionAt(w.page, w.sind, w.index) \notin held'
      BY <1>3, <3>1, <3>2 DEF CallShape, At
    <3>6. w.step = "free" => \A c \in Slabs(w.sind) : c.base = w.page => c \in Slabs(w.sind)'
      BY <1>5, <3>5
    <3>7. op'[u] = w BY <1>2, <2>2, <3>2
    <3> QED BY <1>3, <3>1, <3>2, <3>3, <3>4, <3>5, <3>6, <3>7, CallKept
  <2> QED BY <2>1, <2>2
<1>10. Exclusive' BY <1>2 DEF IInv, Exclusive, At
<1>11. HeldPlaced' BY <1>3, <1>6 DEF IInv, HeldPlaced, Piece
<1>12. BitmapsExact'
  <2>1. \A s \in Sind : \A c \in Slabs(s)' : \A i \in AllRegions(s) :
          i \in bitmap'[c.base] <=> RegionAt(c.base, s, i) \notin held' \cup Returning'
    BY <1>3, <1>5, <1>6 DEF IInv, BitmapsExact
  <2> QED BY <2>1 DEF BitmapsExact
<1>13. ListsOK' BY <1>3, <1>5, ListsKept DEF IInv
<1>14. StatsOK' BY <1>3, <1>5, StatsKept DEF IInv
<1> QED BY <1>7, <1>8, <1>9, <1>10, <1>11, <1>12, <1>13, <1>14 DEF IInv

-----------------------------------------------------------------------------
(* A region is taken *)

\* The slab SmallAlloc takes first has a free region, and takes the first of
\* them: assert(-1 != index).
LEMMA FirstRegion ==
  ASSUME ChunksOK, ListsOK, BitmapsExact, NEW s \in Sind, nonempty_slab[s] # <<>>,
         NEW p, p = Head(nonempty_slab[s]), NEW i, i = ffs(bitmap[p])
  PROVE  /\ i \in bitmap[p] /\ i \in AllRegions(s) /\ p \in Elements(nonempty_slab[s])
         /\ \E c \in Slabs(s) : c.base = p
         /\ RegionAt(p, s, i) \notin held \cup Returning
<1>1. ListOf(nonempty_slab[s], s, TRUE) BY DEF ListsOK
<1>2. p \in Elements(nonempty_slab[s]) BY <1>1, HeadIsElement DEF ListOf
<1>3. PICK c \in Slabs(s) : c.base = p /\ bitmap[p] # {} BY <1>1, <1>2 DEF ListOf
<1>4. bitmap[p] \subseteq AllRegions(s) BY <1>3, SlabFacts
<1>5. bitmap[p] \in SUBSET Nat BY <1>4, ArenaNumbers DEF AllRegions
<1>6. i \in bitmap[p] BY <1>3, <1>5, LeastElement DEF ffs
<1>7. RegionAt(p, s, i) \notin held \cup Returning BY <1>3, <1>4, <1>6 DEF BitmapsExact
<1> QED BY <1>2, <1>3, <1>4, <1>6, <1>7

\* The regions of a slab that are not free, and no others, are in use.
LEMMA NotInUse ==
  ASSUME ChunksOK, NEW s \in Sind, NEW c \in Slabs(s), NEW i \in AllRegions(s)
  PROVE  RegionAt(c.base, s, i) \in InUse(s) <=> i \notin bitmap[c.base]
<1>1. ASSUME i \notin bitmap[c.base] PROVE RegionAt(c.base, s, i) \in InUse(s)
  BY <1>1 DEF InUse
<1>2. ASSUME RegionAt(c.base, s, i) \in InUse(s) PROVE i \notin bitmap[c.base]
  <2>1. PICK d \in Slabs(s) : \E j \in AllRegions(s) \ bitmap[d.base] :
          RegionAt(c.base, s, i) = RegionAt(d.base, s, j)
    BY <1>2 DEF InUse
  <2>2. PICK j \in AllRegions(s) \ bitmap[d.base] :
          RegionAt(c.base, s, i) = RegionAt(d.base, s, j)
    BY <2>1
  <2>3. /\ c \in chunks /\ d \in chunks /\ c \in PageExtent /\ c.size = SlabPages[s]
        /\ Piece(c, RegionAt(c.base, s, i)) /\ Piece(d, RegionAt(d.base, s, j))
    BY SlabFacts
  <2>4. c = d BY <2>2, <2>3, ChunkOfPiece
  <2>5. i = j BY <2>2, <2>3, <2>4, RegionIndex
  <2> QED BY <2>2, <2>4, <2>5
<1> QED BY <1>1, <1>2

LEMMA TakeStep ==
  ASSUME IInv, NEW t \in Thread, NEW s \in Sind, nonempty_slab[s] # <<>>, TakeRegion(t, s),
         op[t].step \notin {"free", "release"},
         slab_mutex' \in [Sind -> Thread \cup {Nobody}],
         \A z \in Sind : z # s => slab_mutex'[z] = slab_mutex[z],
         \A u \in Thread : u # t => slab_mutex[s] # u
  PROVE  IInv'
<1>1. TypeOK /\ ChunksOK /\ ListsOK /\ BitmapsExact BY DEF IInv, ChunksOK
<1>2. PICK p, i : p = Head(nonempty_slab[s]) /\ i = ffs(bitmap[p]) OBVIOUS
<1>3. /\ i \in bitmap[p] /\ i \in AllRegions(s) /\ p \in Elements(nonempty_slab[s])
      /\ RegionAt(p, s, i) \notin held \cup Returning
  BY <1>1, <1>2, FirstRegion
<1>4. PICK c \in Slabs(s) : c.base = p BY <1>1, <1>2, FirstRegion
<1>5. /\ c \in chunks /\ c \in PageExtent /\ p \in Page /\ s # NonSlab /\ region_size[p] = s
      /\ ~Releasing(p) /\ bitmap[p] \subseteq AllRegions(s) /\ c.size = SlabPages[s]
      /\ \A j \in AllRegions(s) : Piece(c, RegionAt(p, s, j))
  BY <1>1, <1>4, SlabFacts
<1>6. PICK e, left : e = RegionAt(p, s, i) /\ left = bitmap[p] \ {i} OBVIOUS
<1>7. /\ bitmap' = [bitmap EXCEPT ![p] = left] /\ held' = held \cup {e}
      /\ request' = [request EXCEPT ![s] = @ + RegionCells[s]] /\ Goto(t, Idle)
      /\ chunks' = chunks /\ region_size' = region_size /\ hold' = hold
      /\ large_request' = large_request
  BY <1>2, <1>6 DEF TakeRegion
<1>8. /\ bitmap'[p] = left /\ \A q \in Page : q # p => bitmap'[q] = bitmap[q]
      /\ DOMAIN bitmap' = Page
  BY <1>1, <1>5, <1>7 DEF TypeOK
<1>9. IF left = {}
      THEN /\ nonempty_slab' = [nonempty_slab EXCEPT ![s] = Erase(@, p)]
           /\ empty_slab' = [empty_slab EXCEPT ![s] = Push(@, p)]
      ELSE nonempty_slab' = nonempty_slab /\ empty_slab' = empty_slab
  BY <1>2, <1>6 DEF TakeRegion
<1>10. Idle \in OpType /\ Idle.step = "idle"
  BY ArenaNumbers DEF Idle, OpType
<1>11. op'[t] = Idle /\ \A u \in Thread : u # t => op'[u] = op[u] BY <1>1, <1>7, Moves
<1>12. ~At(t, "release") /\ ~At(t, "free") BY DEF At
<1>13. (\A z \in Sind : Slabs(z)' = Slabs(z)) /\ Large' = Large
  BY <1>1, <1>7, <1>10, <1>12, SlabsKept
<1>14. Returning' = Returning /\ \A q : Releasing(q)' = Releasing(q)
  BY <1>1, <1>7, <1>10, <1>12, ReturningKept, ReleasingKept
\* What the other classes and slabs have is as it was.
<1>15. ASSUME NEW z \in Sind, NEW d \in Slabs(z), d # c PROVE d.base # p /\ d.base \in Page
  <2>1. d \in chunks /\ d.base \in Page BY <1>1, SlabFacts
  <2>2. d.base # c.base BY <1>1, <1>5, <1>15, <2>1, OneChunkAt
  <2> QED BY <1>4, <2>1, <2>2
<1>16. ASSUME NEW z \in Sind, z # s, NEW d \in Slabs(z) PROVE bitmap'[d.base] = bitmap[d.base]
  <2>1. d # c BY <1>1, <1>5, <1>4, <1>16, SlabFacts
  <2> QED BY <1>8, <1>15, <2>1
<1>17. SlabsFit'
  <2>1. \A q \in Page : bitmap'[q] \subseteq bitmap[q] BY <1>6, <1>8
  <2>2. \A d \in chunks : d.base \in Page BY <1>1, PageExtentFacts DEF TypeOK
  <2> QED BY <1>7, <2>1, <2>2 DEF IInv, SlabsFit
<1>18. ListsOK'
  <2>1. ListOf(nonempty_slab[s], s, TRUE) /\ ListOf(empty_slab[s], s, FALSE) BY <1>1 DEF ListsOK
  <2>2. ListOf(nonempty_slab[s], s, TRUE)' /\ ListOf(empty_slab[s], s, FALSE)'
    <3>1. CASE left # {}
      <4>1. \A d \in Slabs(s) : bitmap'[d.base] = {} <=> bitmap[d.base] = {}
        BY <1>3, <1>4, <1>8, <1>15, <3>1
      <4>2. nonempty_slab'[s] = nonempty_slab[s] /\ empty_slab'[s] = empty_slab[s] BY <1>9, <3>1
      <4>3. PICK ne, em : ne = nonempty_slab[s] /\ em = empty_slab[s] OBVIOUS
      <4>4. ListOf(ne, s, TRUE)' /\ ListOf(em, s, FALSE)'
        BY <1>13, <2>1, <4>1, <4>3, ListKept
      <4> QED BY <4>2, <4>3, <4>4 DEF ListOf
    <3>2. CASE left = {}
      <4>1. PICK ne, em : /\ ne = nonempty_slab[s] /\ em = empty_slab[s]
                          /\ ListOf(ne, s, TRUE) /\ ListOf(em, s, FALSE)
        BY <2>1
      <4>2. p \in Elements(ne) /\ p \notin Elements(em) BY <1>3, <4>1 DEF ListOf
      <4>3. PICK n2, e2 : n2 = Erase(ne, p) /\ e2 = Push(em, p) OBVIOUS
      <4>4. nonempty_slab'[s] = n2 /\ empty_slab'[s] = e2
        BY <1>1, <1>9, <3>2, <4>1, <4>3 DEF TypeOK
      <4>5. n2 \in Seq(Page) /\ OneEach(n2) /\ Elements(n2) = Elements(ne) \ {p}
        BY <4>1, <4>2, <4>3, EraseFacts DEF ListOf
      <4>6. e2 \in Seq(Page) /\ OneEach(e2) /\ Elements(e2) = Elements(em) \cup {p}
        BY <1>5, <4>1, <4>2, <4>3, PushFacts DEF ListOf
      <4>7. \A q : q \in Elements(n2) <=> \E d \in Slabs(s)' : d.base = q /\ bitmap'[q] # {}
        BY <1>4, <1>8, <1>13, <1>15, <3>2, <4>1, <4>5 DEF ListOf
      <4>8. \A q : q \in Elements(e2) <=> \E d \in Slabs(s)' : d.base = q /\ bitmap'[q] = {}
        BY <1>4, <1>8, <1>13, <1>15, <3>2, <4>1, <4>6 DEF ListOf
      <4> QED BY <4>4, <4>5, <4>6, <4>7, <4>8 DEF ListOf
    <3> QED BY <3>1, <3>2
  <2>3. ASSUME NEW z \in Sind, z # s
        PROVE  ListOf(nonempty_slab[z], z, TRUE)' /\ ListOf(empty_slab[z], z, FALSE)'
    <3>1. nonempty_slab'[z] = nonempty_slab[z] /\ empty_slab'[z] = empty_slab[z]
      BY <1>1, <1>9, <2>3 DEF TypeOK
    <3>2. PICK ne, em : ne = nonempty_slab[z] /\ em = empty_slab[z] OBVIOUS
    <3>3. ListOf(ne, z, TRUE) /\ ListOf(em, z, FALSE) BY <1>1, <3>2 DEF ListsOK
    <3>4. ListOf(ne, z, TRUE)' /\ ListOf(em, z, FALSE)'
      BY <1>13, <1>16, <2>3, <3>3, ListKept
    <3> QED BY <3>1, <3>2, <3>4 DEF ListOf
  <2> QED BY <2>2, <2>3 DEF ListsOK
<1>19. BitmapsExact'
  <2> SUFFICES ASSUME NEW z \in Sind, NEW d \in Slabs(z), NEW j \in AllRegions(z)
               PROVE  j \in bitmap'[d.base] <=> RegionAt(d.base, z, j) \notin held' \cup Returning'
    BY <1>13 DEF BitmapsExact
  <2>1. j \in bitmap[d.base] <=> RegionAt(d.base, z, j) \notin held \cup Returning
    BY <1>1 DEF BitmapsExact
  <2>2. CASE d = c
    <3>1. z = s BY <1>1, <1>5, <1>4, <2>2, SlabFacts
    <3>2. RegionAt(d.base, z, j) = e <=> j = i BY <1>3, <1>4, <1>5, <1>6, <2>2, <3>1, RegionIndex
    <3> QED BY <1>4, <1>6, <1>7, <1>8, <1>14, <2>1, <2>2, <3>2
  <2>3. CASE d # c
    <3>1. d \in chunks /\ Piece(d, RegionAt(d.base, z, j)) BY <1>1, SlabFacts
    <3>2. Piece(c, e) BY <1>3, <1>5, <1>6
    <3>3. RegionAt(d.base, z, j) # e BY <1>1, <1>5, <2>3, <3>1, <3>2, ChunkOfPiece
    <3>4. bitmap'[d.base] = bitmap[d.base] BY <1>8, <1>15, <2>3
    <3> QED BY <1>7, <1>14, <2>1, <3>3, <3>4
  <2> QED BY <2>2, <2>3
<1>20. StatsOK'
  <2>1. InUse(s)' = InUse(s) \cup {e}
    <3>1. ASSUME NEW x \in InUse(s)' PROVE x \in InUse(s) \cup {e}
      <4>1. PICK d \in Slabs(s) : \E j \in AllRegions(s) \ bitmap'[d.base] : x = RegionAt(d.base, s, j)
        BY <1>13, <3>1 DEF InUse
      <4>2. PICK j \in AllRegions(s) \ bitmap'[d.base] : x = RegionAt(d.base, s, j) BY <4>1
      <4>3. CASE j \notin bitmap[d.base] BY <4>2, <4>3 DEF InUse
      <4>4. CASE j \in bitmap[d.base] BY <1>4, <1>6, <1>8, <1>15, <4>2, <4>4
      <4> QED BY <4>3, <4>4
    <3>2. ASSUME NEW x \in InUse(s) PROVE x \in InUse(s)'
      <4>1. PICK d \in Slabs(s) : \E j \in AllRegions(s) \ bitmap[d.base] : x = RegionAt(d.base, s, j)
        BY <3>2 DEF InUse
      <4>2. PICK j \in AllRegions(s) \ bitmap[d.base] : x = RegionAt(d.base, s, j) BY <4>1
      <4>3. j \notin bitmap'[d.base] BY <1>4, <1>6, <1>8, <1>15, <4>2
      <4> QED BY <1>13, <4>2, <4>3 DEF InUse
    <3>3. e \in InUse(s)'
      <4>1. i \notin bitmap'[c.base] BY <1>4, <1>6, <1>8
      <4> QED BY <1>3, <1>4, <1>6, <1>13, <4>1 DEF InUse
    <3> QED BY <3>1, <3>2, <3>3
  <2>2. e \notin InUse(s) BY <1>1, <1>3, <1>4, <1>6, NotInUse
  <2>3. /\ IsFiniteSet(InUse(s)) /\ request[s] = Cardinality(InUse(s)) * RegionCells[s]
        /\ hold[s] = Cardinality(PagesOf(Slabs(s)))
    BY DEF IInv, StatsOK
  <2>4. /\ IsFiniteSet(InUse(s)') /\ Cardinality(InUse(s)') = Cardinality(InUse(s)) + 1
        /\ Cardinality(InUse(s)) \in Nat
    BY <2>1, <2>2, <2>3, FS_AddElement, FS_CardinalityType
  <2>5. request'[s] = Cardinality(InUse(s)') * RegionCells[s]
    <3>1. request'[s] = request[s] + RegionCells[s] BY <1>1, <1>7 DEF TypeOK
    <3>2. PICK n \in Nat, r \in Nat : n = Cardinality(InUse(s)) /\ r = RegionCells[s]
      BY <2>4, ArenaNumbers
    <3>3. (n + 1) * r = n * r + r BY Scaled
    <3> QED BY <2>3, <2>4, <3>1, <3>2, <3>3
  <2>6. PagesOf(Slabs(s))' = PagesOf(Slabs(s)) BY <1>13 DEF PagesOf
  <2>7. ASSUME NEW z \in Sind, z # s
        PROVE  /\ IsFiniteSet(InUse(z)') /\ request'[z] = Cardinality(InUse(z)') * RegionCells[z]
               /\ hold'[z] = Cardinality(PagesOf(Slabs(z)))'
    <3>1. InUse(z)' = InUse(z) BY <1>13, <1>16, <2>7 DEF InUse
    <3>2. PagesOf(Slabs(z))' = PagesOf(Slabs(z)) BY <1>13 DEF PagesOf
    <3>3. request'[z] = request[z] BY <1>1, <1>7, <2>7 DEF TypeOK
    <3> QED BY <1>7, <3>1, <3>2, <3>3 DEF IInv, StatsOK
  <2>8. large_request' = Cardinality(PagesOf(Large))'
    <3>1. PagesOf(Large)' = PagesOf(Large) BY <1>13 DEF PagesOf
    <3> QED BY <1>7, <3>1 DEF IInv, StatsOK
  <2> QED BY <1>7, <2>3, <2>4, <2>5, <2>6, <2>7, <2>8 DEF StatsOK
<1>21. TypeOK'
  <2>1. op' \in [Thread -> OpType] BY <1>1, <1>7, <1>10 DEF TypeOK, Goto
  <2>2. \A q \in Page : bitmap'[q] \subseteq 0..(NumCells - 1) BY <1>1, <1>6, <1>8 DEF TypeOK
  <2>3. /\ DOMAIN nonempty_slab' = Sind /\ DOMAIN empty_slab' = Sind
    BY <1>1, <1>9 DEF TypeOK
  <2>4. \A z \in Sind : /\ Elements(nonempty_slab'[z]) \subseteq Page
                        /\ Elements(empty_slab'[z]) \subseteq Page
    BY <1>18, ElementsIs DEF ListsOK, ListOf
  <2>5. held' \subseteq CellExtent BY <1>1, <1>3, <1>5, <1>6, <1>7, PieceFacts DEF TypeOK
  <2>6. request' \in [Sind -> Nat]
    BY <1>1, <1>7, ArenaNumbers DEF TypeOK
  <2> QED BY <1>1, <1>7, <1>8, <2>1, <2>2, <2>3, <2>4, <2>5, <2>6 DEF TypeOK
<1>22. CallsShaped'
  <2> SUFFICES ASSUME NEW u \in Thread PROVE CallShape(u)' BY DEF CallsShaped
  <2>1. CASE u = t BY <1>10, <1>11, <2>1 DEF CallShape, At
  <2>2. CASE u # t
    <3>1. CallShape(u) BY DEF IInv, CallsShaped
    <3>2. PICK w : w = op[u] OBVIOUS
    <3>3. w.step \in {"slab", "take"} => w.sind \in Sind /\ w.sind # s
      BY <2>2, <3>1, <3>2 DEF CallShape
    <3>4. w.step \in {"slab", "take"} => slab_mutex'[w.sind] = slab_mutex[w.sind] BY <3>3
    <3>5. w.step = "take" => nonempty_slab'[w.sind] # <<>>
      <4>1. \A z \in Sind : z # s => nonempty_slab'[z] = nonempty_slab[z]
        BY <1>1, <1>9 DEF TypeOK
      <4> QED BY <3>1, <3>2, <3>3, <4>1 DEF CallShape, At
    <3>6. w.step = "free" => /\ w.sind \in Sind
                             /\ RegionAt(w.page, w.sind, w.index) \notin held
                             /\ RegionAt(w.page, w.sind, w.index) \in Returning
      BY <1>1, <3>1, <3>2, FreeFacts DEF At
    <3>7. w.step = "free" => RegionAt(w.page, w.sind, w.index) \notin held'
      BY <1>3, <1>6, <1>7, <3>6
    <3>8. w.step = "free" => \A d \in Slabs(w.sind) : d.base = w.page => d \in Slabs(w.sind)'
      BY <1>13, <3>6
    <3>9. op'[u] = w BY <1>11, <2>2, <3>2
    <3> QED BY <1>7, <3>1, <3>2, <3>4, <3>5, <3>7, <3>8, <3>9, CallKept
  <2> QED BY <2>1, <2>2
<1>23. Exclusive' BY <1>10, <1>11 DEF IInv, Exclusive, At
<1>24. HeldPlaced'
  <2>1. \A d, x : Piece(d, x)' = Piece(d, x) BY <1>7 DEF Piece
  <2> QED BY <1>3, <1>5, <1>4, <1>6, <1>7, <1>14, <2>1 DEF IInv, HeldPlaced
<1>25. ChunksApart' BY <1>7 DEF IInv, ChunksApart
<1> QED BY <1>17, <1>18, <1>19, <1>20, <1>21, <1>22, <1>23, <1>24, <1>25 DEF IInv

-----------------------------------------------------------------------------
(* A chunk is taken *)

LEMMA PagesFinite ==
  ASSUME NEW C \in SUBSET PageExtent
  PROVE  IsFiniteSet(PagesOf(C)) /\ Cardinality(PagesOf(C)) \in Nat
<1>1. PagesOf(C) \subseteq 1..NumPages
  BY ArenaNumbers, PageExtentFacts DEF PagesOf, Page
<1>2. IsFiniteSet(1..NumPages) BY ArenaNumbers, FS_Interval
<1>3. IsFiniteSet(PagesOf(C)) BY <1>1, <1>2, FS_Subset
<1> QED BY <1>3, FS_CardinalityType

LEMMA PagesMore ==
  ASSUME NEW C \in SUBSET PageExtent, NEW c \in PageExtent,
         \A d \in C : Before(c, d) \/ Before(d, c)
  PROVE  Cardinality(PagesOf(C \cup {c})) = Cardinality(PagesOf(C)) + c.size
<1>1. PICK own : own = c.base..(c.base + c.size - 1) OBVIOUS
<1>2. PagesOf(C \cup {c}) = PagesOf(C) \cup own BY <1>1 DEF PagesOf
<1>3. PagesOf(C) \cap own = {}
  <2> SUFFICES ASSUME NEW d \in C, NEW x \in d.base..(d.base + d.size - 1), x \in own PROVE FALSE
    BY DEF PagesOf
  <2>1. c.base \in Nat /\ c.size \in Nat /\ d.base \in Nat /\ d.size \in Nat BY PageExtentFacts
  <2> QED BY <1>1, <2>1 DEF Before
<1>4. IsFiniteSet(own) /\ Cardinality(own) = c.size
  <2>1. PICK a \in Nat, n \in Nat : a = c.base /\ n = c.size /\ n > 0 BY PageExtentFacts
  <2>2. PICK z \in Int : z = a + n - 1 OBVIOUS
  <2>6. a \in Int BY <2>1
  <2>3. IsFiniteSet(a..z) /\ Cardinality(a..z) = IF a > z THEN 0 ELSE z - a + 1
    BY Zenon, FS_Interval, <2>6
  <2>4. Cardinality(a..z) = n BY <2>1, <2>2, <2>3
  <2> QED BY <1>1, <2>1, <2>2, <2>3, <2>4
<1>5. IsFiniteSet(PagesOf(C)) /\ Cardinality(PagesOf(C)) \in Nat BY PagesFinite
<1>6. Cardinality(PagesOf(C) \cup own) =
        Cardinality(PagesOf(C)) + Cardinality(own) - Cardinality(PagesOf(C) \cap own)
  BY <1>4, <1>5, FS_Union
<1>7. Cardinality(PagesOf(C) \cap own) = 0 BY <1>3, FS_EmptySet
<1>8. PICK m \in Nat, n \in Nat : m = Cardinality(PagesOf(C)) /\ n = c.size
  BY <1>5, PageExtentFacts
<1>9. Cardinality(PagesOf(C) \cup own) = m + n - 0 BY <1>4, <1>6, <1>7, <1>8
<1>10. m + n - 0 = m + n OBVIOUS
<1> QED BY <1>2, <1>8, <1>9, <1>10, Zenon

LEMMA OutPlaced ==
  ASSUME IInv, NEW x \in held \cup Returning
  PROVE  \E d \in chunks : ~Releasing(d.base) /\ Piece(d, x)
<1>1. CASE x \in held BY <1>1 DEF IInv, HeldPlaced
<1>2. CASE x \in Returning
  <2>1. PICK t \in Thread : At(t, "free") /\ x = RegionAt(op[t].page, op[t].sind, op[t].index)
    BY <1>2 DEF Returning
  <2>2. ChunksOK /\ CallShape(t) BY DEF IInv, ChunksOK, CallsShaped
  <2>3. PICK d \in Slabs(op[t].sind) : Piece(d, x) BY <2>1, <2>2, FreeFacts
  <2> QED BY <2>3 DEF Slabs
<1> QED BY <1>1, <1>2

\* What the page heap hands out is away from all there is.
LEMMA AddedChunk ==
  ASSUME IInv, NEW c \in PageExtent, PageHeap!Alloc(c), NEW k,
         region_size' = [region_size EXCEPT ![c.base] = k],
         \A p \in Page : p # c.base => bitmap'[p] = bitmap[p],
         \A p : Releasing(p)' = Releasing(p)
  PROVE  /\ chunks' = chunks \cup {c}
         /\ \A d \in chunks : /\ d.base # c.base /\ bitmap'[d.base] = bitmap[d.base]
                              /\ region_size'[d.base] = region_size[d.base]
                              /\ Before(c, d) \/ Before(d, c)
                              /\ \A x : Piece(d, x)' = Piece(d, x)
         /\ region_size'[c.base] = k /\ ~Releasing(c.base)
         /\ ChunksApart'
         /\ \A z \in Sind : Slabs(z)' = Slabs(z) \cup (IF k = z THEN {c} ELSE {})
         /\ Large' = Large \cup (IF k = NonSlab THEN {c} ELSE {})
         /\ \A x \in held \cup Returning : \A y \in CellExtent :
              Inside(c, y) => CellsApart(x, y) /\ x # y
<1>1. TypeOK /\ ChunksOK BY DEF IInv, ChunksOK
<1>2. chunks' = chunks \cup {c} /\ \A d \in chunks : Before(c, d) \/ Before(d, c)
  BY <1>1, Fresh
<1>3. c.base \in Page BY PageExtentFacts
<1>4. ASSUME NEW d \in chunks
      PROVE  /\ d \in PageExtent /\ d.base # c.base /\ bitmap'[d.base] = bitmap[d.base]
             /\ region_size'[d.base] = region_size[d.base]
  <2>1. d \in PageExtent /\ d.base \in Page BY <1>1, PageExtentFacts DEF TypeOK
  <2>2. d.base # c.base BY <1>2, <2>1, PageExtentFacts DEF Before
  <2> QED BY <1>1, <2>1, <2>2 DEF TypeOK
<1>5. region_size'[c.base] = k BY <1>1, <1>3 DEF TypeOK
<1>6. ~Releasing(c.base)
  <2> SUFFICES ASSUME NEW t \in Thread, At(t, "release"), op[t].page = c.base PROVE FALSE
    BY DEF Releasing
  <2>1. PICK d \in chunks : d.base = c.base BY DEF IInv, CallsShaped, CallShape
  <2> QED BY <1>4, <2>1
<1>7. ASSUME NEW d \in chunks, NEW x PROVE Piece(d, x)' = Piece(d, x) BY <1>4 DEF Piece
<1>8. ChunksApart' BY <1>2 DEF IInv, ChunksApart
<1>9. ASSUME NEW z \in Sind PROVE Slabs(z)' = Slabs(z) \cup (IF k = z THEN {c} ELSE {})
  BY <1>2, <1>4, <1>5, <1>6 DEF Slabs
<1>10. Large' = Large \cup (IF k = NonSlab THEN {c} ELSE {})
  BY <1>2, <1>4, <1>5 DEF Large
<1>11. ASSUME NEW x \in held \cup Returning, NEW y \in CellExtent, Inside(c, y)
       PROVE  CellsApart(x, y) /\ x # y
  <2>1. PICK d \in chunks : Piece(d, x) BY OutPlaced
  <2>2. d \in PageExtent /\ x \in CellExtent /\ Inside(d, x) BY <1>1, <2>1, PieceFacts
  <2>3. CASE Before(c, d)
    <3>1. y.base + y.size <= x.base BY <1>11, <2>2, <2>3, InsideApart
    <3> QED BY <2>2, <3>1, ArenaNumbers DEF CellsApart, CellExtent
  <2>4. CASE Before(d, c)
    <3>1. x.base + x.size <= y.base BY <1>11, <2>2, <2>4, InsideApart
    <3> QED BY <2>2, <3>1, ArenaNumbers DEF CellsApart, CellExtent
  <2> QED BY <1>2, <2>3, <2>4
<1> QED BY <1>2, <1>4, <1>5, <1>6, <1>7, <1>8, <1>9, <1>10, <1>11

LEMMA NewSlabStep ==
  ASSUME IInv, NEW t \in Thread, NewSlab(t)
  PROVE  IInv'
<1>1. TypeOK /\ ChunksOK /\ CallShape(t) /\ At(t, "slab")
  BY DEF IInv, ChunksOK, CallsShaped, NewSlab
<1>2. PICK s \in Sind : s = op[t].sind /\ slab_mutex[s] = t BY <1>1 DEF CallShape, At
<1>3. PICK c \in PageExtent :
        /\ c.size = SlabPages[s]
        /\ PageHeap!Alloc(c)
        /\ region_size' = [region_size EXCEPT ![c.base] = s]
        /\ bitmap' = [bitmap EXCEPT ![c.base] = AllRegions(s)]
        /\ nonempty_slab' = [nonempty_slab EXCEPT ![s] = Push(@, c.base)]
  BY <1>2 DEF NewSlab
<1>4. PICK o : o = [op[t] EXCEPT !.step = "take"] OBVIOUS
<1>5. /\ Goto(t, o) /\ hold' = [hold EXCEPT ![s] = @ + SlabPages[s]]
      /\ empty_slab' = empty_slab /\ slab_mutex' = slab_mutex /\ request' = request
      /\ large_request' = large_request /\ held' = held
  BY <1>2, <1>4 DEF NewSlab
<1>6. o \in OpType /\ o.step = "take" /\ o.sind = s
  <2>1. op[t] \in OpType BY <1>1 DEF TypeOK
  <2>2. PICK w : w = op[t] /\ w \in OpType BY <2>1
  <2>3. o = [w EXCEPT !.step = "take"] BY <1>4, <2>2
  <2>4. o \in OpType /\ o.step = "take" /\ o.sind = w.sind BY <2>2, <2>3 DEF OpType
  <2> QED BY <1>2, <2>2, <2>4
<1>7. op'[t] = o /\ \A u \in Thread : u # t => op'[u] = op[u] BY <1>1, <1>5, Moves
<1>8. ~At(t, "release") /\ ~At(t, "free") BY <1>1 DEF At
<1>9. Returning' = Returning /\ \A q : Releasing(q)' = Releasing(q)
  BY <1>1, <1>5, <1>6, <1>8, ReturningKept, ReleasingKept
<1>10. c.base \in Page /\ s # NonSlab BY PageExtentFacts, ArenaAssumption
<1>11. /\ bitmap'[c.base] = AllRegions(s) /\ DOMAIN bitmap' = Page
       /\ \A p \in Page : p # c.base => bitmap'[p] = bitmap[p]
  BY <1>1, <1>3, <1>10 DEF TypeOK
<1>12. /\ chunks' = chunks \cup {c}
       /\ \A d \in chunks : /\ d.base # c.base /\ bitmap'[d.base] = bitmap[d.base]
                            /\ region_size'[d.base] = region_size[d.base]
                            /\ Before(c, d) \/ Before(d, c)
                            /\ \A x : Piece(d, x)' = Piece(d, x)
       /\ region_size'[c.base] = s /\ ~Releasing(c.base)
       /\ ChunksApart'
       /\ \A z \in Sind : Slabs(z)' = Slabs(z) \cup (IF s = z THEN {c} ELSE {})
       /\ Large' = Large \cup (IF s = NonSlab THEN {c} ELSE {})
       /\ \A x \in held \cup Returning : \A y \in CellExtent :
            Inside(c, y) => CellsApart(x, y) /\ x # y
  BY <1>3, <1>9, <1>11, AddedChunk
<1>13. Large' = Large BY <1>10, <1>12
<1>14. Slabs(s)' = Slabs(s) \cup {c} /\ \A z \in Sind : z # s => Slabs(z)' = Slabs(z) BY <1>12
<1>15. ASSUME NEW z \in Sind, NEW d \in Slabs(z)
       PROVE  d \in chunks /\ d.base # c.base /\ bitmap'[d.base] = bitmap[d.base]
  BY <1>12 DEF Slabs
<1>16. \A i \in AllRegions(s) : RegionAt(c.base, s, i) \notin held \cup Returning
  BY <1>3, <1>12, RegionInside
<1>17. SlabsFit'
  BY <1>3, <1>10, <1>11, <1>12 DEF IInv, SlabsFit
<1>18. ListsOK'
  <2>1. PICK ne, em : ne = nonempty_slab[s] /\ em = empty_slab[s] OBVIOUS
  <2>2. ListOf(ne, s, TRUE) /\ ListOf(em, s, FALSE) BY <2>1 DEF IInv, ListsOK
  <2>3. c.base \notin Elements(ne)
    <3>1. ~\E d \in Slabs(s) : d.base = c.base BY <1>15
    <3> QED BY <2>2, <3>1 DEF ListOf
  <2>4. PICK n2 : n2 = Push(ne, c.base) OBVIOUS
  <2>5. nonempty_slab'[s] = n2 BY <1>1, <1>3, <2>1, <2>4 DEF TypeOK
  <2>6. n2 \in Seq(Page) /\ OneEach(n2) /\ Elements(n2) = Elements(ne) \cup {c.base}
    BY <1>10, <2>2, <2>3, <2>4, PushFacts DEF ListOf
  <2>7. AllRegions(s) # {}
    <3>1. SlabRegions(s) \in Nat /\ SlabRegions(s) # 0
      <4>1. PICK n \in Nat, r \in Nat, a \in Nat, k \in Nat :
              /\ n = SlabRegions(s) /\ r = RegionCells[s] /\ a = SlabPages[s] /\ k = PageCells
              /\ a > 0 /\ k > 0 /\ n * r = a * k
        BY ArenaNumbers
      <4>2. a <= a * k BY <4>1, Scaled
      <4>3. n # 0 BY <4>1, <4>2
      <4> QED BY <4>1, <4>3
    <3>2. 0 \in AllRegions(s) BY <3>1 DEF AllRegions
    <3> QED BY <3>2
  <2>8. \A q : q \in Elements(n2) <=> \E d \in Slabs(s)' : d.base = q /\ bitmap'[q] # {}
    BY <1>11, <1>14, <1>15, <2>2, <2>6, <2>7 DEF ListOf
  <2>9. ListOf(nonempty_slab[s], s, TRUE)' BY <2>5, <2>6, <2>8 DEF ListOf
  <2>10. \A q : q \in Elements(em) <=> \E d \in Slabs(s)' : d.base = q /\ bitmap'[q] = {}
    BY <1>11, <1>14, <1>15, <2>2, <2>7 DEF ListOf
  <2>11. ListOf(empty_slab[s], s, FALSE)' BY <1>5, <2>1, <2>2, <2>10 DEF ListOf
  <2>12. ASSUME NEW z \in Sind, z # s
         PROVE  ListOf(nonempty_slab[z], z, TRUE)' /\ ListOf(empty_slab[z], z, FALSE)'
    <3>1. nonempty_slab'[z] = nonempty_slab[z] /\ empty_slab'[z] = empty_slab[z]
      BY <1>1, <1>3, <1>5, <2>12 DEF TypeOK
    <3>2. PICK n, m : n = nonempty_slab[z] /\ m = empty_slab[z] OBVIOUS
    <3>3. ListOf(n, z, TRUE) /\ ListOf(m, z, FALSE) BY <3>2 DEF IInv, ListsOK
    <3>4. ListOf(n, z, TRUE)' /\ ListOf(m, z, FALSE)'
      BY <1>14, <1>15, <2>12, <3>3, ListKept
    <3> QED BY <3>1, <3>2, <3>4 DEF ListOf
  <2> QED BY <2>9, <2>11, <2>12 DEF ListsOK
<1>19. BitmapsExact'
  <2> SUFFICES ASSUME NEW z \in Sind, NEW d \in Slabs(z)', NEW j \in AllRegions(z)
               PROVE  j \in bitmap'[d.base] <=> RegionAt(d.base, z, j) \notin held' \cup Returning'
    BY DEF BitmapsExact
  <2>1. CASE d \in Slabs(z) BY <1>5, <1>9, <1>15, <2>1 DEF IInv, BitmapsExact
  <2>2. CASE d \notin Slabs(z)
    <3>1. d = c /\ z = s BY <1>12, <2>2
    <3> QED BY <1>5, <1>9, <1>11, <1>16, <3>1
  <2> QED BY <2>1, <2>2
<1>20. StatsOK'
  <2>1. InUse(s)' = InUse(s)
    <3>1. { RegionAt(c.base, s, i) : i \in AllRegions(s) \ bitmap'[c.base] } = {} BY <1>11
    <3>2. \A d \in Slabs(s) : { RegionAt(d.base, s, i) : i \in AllRegions(s) \ bitmap'[d.base] }
                             = { RegionAt(d.base, s, i) : i \in AllRegions(s) \ bitmap[d.base] }
      BY <1>15
    <3>3. InUse(s)' = UNION { { RegionAt(d.base, s, i) : i \in AllRegions(s) \ bitmap'[d.base] } :
                                d \in Slabs(s) \cup {c} }
      BY <1>14 DEF InUse
    <3> QED BY <3>1, <3>2, <3>3 DEF InUse
  <2>2. hold'[s] = Cardinality(PagesOf(Slabs(s)'))
    <3>1. Slabs(s) \in SUBSET PageExtent BY <1>1 DEF TypeOK, Slabs
    <3>2. Cardinality(PagesOf(Slabs(s) \cup {c})) = Cardinality(PagesOf(Slabs(s))) + c.size
      BY <1>12, <1>15, <3>1, PagesMore
    <3>3. hold'[s] = hold[s] + SlabPages[s] BY <1>1, <1>5 DEF TypeOK
    <3> QED BY <1>3, <1>14, <3>2, <3>3 DEF IInv, StatsOK
  <2>3. PagesOf(Slabs(s)') = PagesOf(Slabs(s))' BY DEF PagesOf
  <2>4. ASSUME NEW z \in Sind, z # s
        PROVE  /\ InUse(z)' = InUse(z) /\ hold'[z] = Cardinality(PagesOf(Slabs(z)))'
    <3>1. InUse(z)' = InUse(z) BY <1>14, <1>15, <2>4 DEF InUse
    <3>2. PagesOf(Slabs(z))' = PagesOf(Slabs(z)) BY <1>14, <2>4 DEF PagesOf
    <3>3. hold'[z] = hold[z] BY <1>1, <1>5, <2>4 DEF TypeOK
    <3> QED BY <3>1, <3>2, <3>3 DEF IInv, StatsOK
  <2>5. large_request' = Cardinality(PagesOf(Large))'
    <3>1. PagesOf(Large)' = PagesOf(Large) BY <1>13 DEF PagesOf
    <3> QED BY <1>5, <3>1 DEF IInv, StatsOK
  <2> QED BY <1>5, <2>1, <2>2, <2>3, <2>4, <2>5 DEF IInv, StatsOK
<1>21. TypeOK'
  <2>1. op' \in [Thread -> OpType] BY <1>1, <1>5, <1>6 DEF TypeOK, Goto
  <2>2. \A i \in AllRegions(s) : i \in 0..(NumCells - 1) BY <1>3, RegionInside
  <2>3. \A q \in Page : bitmap'[q] \subseteq 0..(NumCells - 1) BY <1>1, <1>11, <2>2 DEF TypeOK
  <2>4. DOMAIN nonempty_slab' = Sind BY <1>1, <1>3 DEF TypeOK
  <2>5. \A z \in Sind : /\ Elements(nonempty_slab'[z]) \subseteq Page
                        /\ Elements(empty_slab'[z]) \subseteq Page
    BY <1>18, ElementsIs DEF ListsOK, ListOf
  <2>6. hold' \in [Sind -> Nat] BY <1>1, <1>5, ArenaNumbers DEF TypeOK
  <2>7. region_size' \in [Page -> Sind \cup {NonSlab}] BY <1>1, <1>3 DEF TypeOK
  <2>8. chunks' \subseteq PageExtent BY <1>1, <1>12 DEF TypeOK
  <2> QED BY <1>1, <1>5, <1>11, <2>1, <2>3, <2>4, <2>5, <2>6, <2>7, <2>8 DEF TypeOK
<1>22. CallsShaped'
  <2> SUFFICES ASSUME NEW u \in Thread PROVE CallShape(u)' BY DEF CallsShaped
  <2>0. nonempty_slab'[s] # <<>> /\ \A z \in Sind : z # s => nonempty_slab'[z] = nonempty_slab[z]
    <3>1. PICK ne : ne = nonempty_slab[s] /\ ListOf(ne, s, TRUE) BY DEF IInv, ListsOK
    <3>2. nonempty_slab'[s] = Push(ne, c.base) BY <1>1, <1>3, <3>1 DEF TypeOK
    <3>3. ~\E d \in Slabs(s) : d.base = c.base BY <1>15
    <3>4. ne \in Seq(Page) /\ OneEach(ne) /\ c.base \notin Elements(ne)
      BY <3>1, <3>3 DEF ListOf
    <3>5. Push(ne, c.base) # <<>> BY <1>10, <3>4, PushFacts
    <3> QED BY <1>1, <1>3, <3>2, <3>5 DEF TypeOK
  <2>1. CASE u = t
    <3>1. op'[t].step = "take" /\ op'[t].sind = s BY <1>6, <1>7
    <3>2. slab_mutex'[s] = t BY <1>2, <1>5
    <3> QED BY <2>0, <2>1, <3>1, <3>2 DEF CallShape, At
  <2>2. CASE u # t
    <3>1. CallShape(u) BY DEF IInv, CallsShaped
    <3>2. PICK w : w = op[u] OBVIOUS
    <3>3. w.step = "take" => nonempty_slab'[w.sind] # <<>>
      BY <2>0, <3>1, <3>2 DEF CallShape, At
    <3>4. w.step = "free" => /\ w.sind \in Sind
                             /\ RegionAt(w.page, w.sind, w.index) \notin held'
      BY <1>5, <3>1, <3>2 DEF CallShape, At
    <3>5. w.step = "free" => \A d \in Slabs(w.sind) : d.base = w.page => d \in Slabs(w.sind)'
      BY <1>12, <3>4
    <3>6. op'[u] = w BY <1>7, <2>2, <3>2
    <3> QED BY <1>5, <1>12, <3>1, <3>2, <3>3, <3>4, <3>5, <3>6, CallKept
  <2> QED BY <2>1, <2>2
<1>23. Exclusive' BY <1>6, <1>7 DEF IInv, Exclusive, At
<1>24. HeldPlaced' BY <1>5, <1>9, <1>12 DEF IInv, HeldPlaced
<1> QED BY <1>12, <1>17, <1>18, <1>19, <1>20, <1>21, <1>22, <1>23, <1>24 DEF IInv

LEMMA LargeStep ==
  ASSUME IInv, NEW t \in Thread, LargeAlloc(t)
  PROVE  IInv'
<1>1. TypeOK /\ ChunksOK BY DEF IInv, ChunksOK
<1>2. PICK c \in PageExtent :
        /\ PageHeap!Alloc(c)
        /\ region_size' = [region_size EXCEPT ![c.base] = NonSlab]
        /\ large_request' = large_request + c.size
        /\ held' = held \cup {LargeAt(c)}
  BY DEF LargeAlloc
<1>3. /\ bitmap' = bitmap /\ nonempty_slab' = nonempty_slab /\ empty_slab' = empty_slab
      /\ slab_mutex' = slab_mutex /\ request' = request /\ hold' = hold /\ op' = op
  BY DEF LargeAlloc
<1>4. Returning' = Returning /\ \A q : Releasing(q)' = Releasing(q)
  BY <1>3 DEF Returning, Releasing, At
<1>5. PICK e : e = LargeAt(c) OBVIOUS
<1>6. e \in CellExtent /\ Inside(c, e) BY <1>5, LargeInside
<1>7. /\ chunks' = chunks \cup {c}
      /\ \A d \in chunks : /\ d.base # c.base /\ bitmap'[d.base] = bitmap[d.base]
                           /\ region_size'[d.base] = region_size[d.base]
                           /\ Before(c, d) \/ Before(d, c)
                           /\ \A x : Piece(d, x)' = Piece(d, x)
      /\ region_size'[c.base] = NonSlab /\ ~Releasing(c.base)
      /\ ChunksApart'
      /\ \A z \in Sind : Slabs(z)' = Slabs(z) \cup (IF NonSlab = z THEN {c} ELSE {})
      /\ Large' = Large \cup (IF NonSlab = NonSlab THEN {c} ELSE {})
      /\ \A x \in held \cup Returning : \A y \in CellExtent :
           Inside(c, y) => CellsApart(x, y) /\ x # y
  BY <1>2, <1>3, <1>4, AddedChunk
<1>8. \A z \in Sind : Slabs(z)' = Slabs(z) BY <1>7, ArenaAssumption
<1>9. Large' = Large \cup {c} BY <1>7
<1>10. e \notin Returning BY <1>6, <1>7
<1>11. \A z \in Sind : \A d \in Slabs(z) : \A j \in AllRegions(z) : RegionAt(d.base, z, j) # e
  <2> SUFFICES ASSUME NEW z \in Sind, NEW d \in Slabs(z), NEW j \in AllRegions(z),
                      RegionAt(d.base, z, j) = e
               PROVE  FALSE
    OBVIOUS
  <2>1. d \in chunks /\ Piece(d, e) BY <1>1, SlabFacts
  <2>2. d \in PageExtent /\ Inside(d, e) BY <1>1, <2>1, PieceFacts
  <2>3. e.base \in Nat /\ e.size \in Nat /\ e.size > 0 BY <1>6, ArenaNumbers DEF CellExtent
  <2>4. CASE Before(c, d)
    <3>1. e.base + e.size <= e.base BY <1>6, <2>2, <2>4, InsideApart
    <3> QED BY <2>3, <3>1
  <2>5. CASE Before(d, c)
    <3>1. e.base + e.size <= e.base BY <1>6, <2>2, <2>5, InsideApart
    <3> QED BY <2>3, <3>1
  <2> QED BY <1>7, <2>1, <2>4, <2>5
<1>12. SlabsFit' BY <1>3, <1>7 DEF IInv, SlabsFit
<1>13. ListsOK'
  <2>1. \A z \in Sind : Slabs(z)' = Slabs(z) /\ \A d \in Slabs(z) : bitmap'[d.base] = bitmap[d.base]
    BY <1>3, <1>8
  <2> QED BY <1>3, <2>1, ListsKept DEF IInv
<1>14. BitmapsExact'
  <2> SUFFICES ASSUME NEW z \in Sind, NEW d \in Slabs(z), NEW j \in AllRegions(z)
               PROVE  j \in bitmap'[d.base] <=> RegionAt(d.base, z, j) \notin held' \cup Returning'
    BY <1>8 DEF BitmapsExact
  <2>1. j \in bitmap[d.base] <=> RegionAt(d.base, z, j) \notin held \cup Returning
    BY DEF IInv, BitmapsExact
  <2> QED BY <1>2, <1>3, <1>4, <1>5, <1>11, <2>1
<1>15. StatsOK'
  <2>1. ASSUME NEW z \in Sind
        PROVE  InUse(z)' = InUse(z) /\ PagesOf(Slabs(z))' = PagesOf(Slabs(z))
    BY <1>3, <1>8 DEF InUse, PagesOf
  <2>2. Cardinality(PagesOf(Large \cup {c})) = Cardinality(PagesOf(Large)) + c.size
    <3>1. Large \in SUBSET PageExtent BY <1>1 DEF TypeOK, Large
    <3>2. \A d \in Large : Before(c, d) \/ Before(d, c) BY <1>7 DEF Large
    <3> QED BY <3>1, <3>2, PagesMore
  <2>3. PagesOf(Large') = PagesOf(Large)' BY DEF PagesOf
  <2>4. large_request' = Cardinality(PagesOf(Large))'
    BY <1>2, <1>9, <2>2, <2>3 DEF IInv, StatsOK
  <2> QED BY <1>3, <2>1, <2>4 DEF IInv, StatsOK
<1>16. TypeOK'
  <2>1. region_size' \in [Page -> Sind \cup {NonSlab}] BY <1>1, <1>2 DEF TypeOK
  <2>2. chunks' \subseteq PageExtent BY <1>1, <1>7 DEF TypeOK
  <2>3. large_request' \in Nat BY <1>1, <1>2, PageExtentFacts DEF TypeOK
  <2>4. held' \subseteq CellExtent BY <1>1, <1>2, <1>5, <1>6 DEF TypeOK
  <2> QED BY <1>1, <1>3, <2>1, <2>2, <2>3, <2>4 DEF TypeOK
<1>17. CallsShaped'
  <2> SUFFICES ASSUME NEW u \in Thread PROVE CallShape(u)' BY DEF CallsShaped
  <2>1. CallShape(u) BY DEF IInv, CallsShaped
  <2>2. PICK w : w = op[u] OBVIOUS
  <2>3. w.step = "take" => nonempty_slab'[w.sind] # <<>> BY <1>3, <2>1, <2>2 DEF CallShape, At
  <2>4. w.step = "free" => /\ w.sind \in Sind
                           /\ RegionAt(w.page, w.sind, w.index) \notin held
                           /\ RegionAt(w.page, w.sind, w.index) \in Returning
    BY <1>1, <2>1, <2>2, FreeFacts DEF At
  <2>5. w.step = "free" => RegionAt(w.page, w.sind, w.index) \notin held'
    BY <1>2, <1>5, <1>10, <2>4
  <2>6. w.step = "free" => \A d \in Slabs(w.sind) : d.base = w.page => d \in Slabs(w.sind)'
    BY <1>8, <2>4
  <2>7. op'[u] = w BY <1>3, <2>2
  <2> QED BY <1>3, <1>7, <2>1, <2>2, <2>3, <2>5, <2>6, <2>7, CallKept
<1>18. Exclusive' BY <1>3 DEF IInv, Exclusive, At
<1>19. HeldPlaced'
  <2> SUFFICES ASSUME NEW x \in held' PROVE \E d \in chunks' : ~Releasing(d.base)' /\ Piece(d, x)'
    BY DEF HeldPlaced
  <2>1. CASE x = e
    <3>1. Piece(c, e)' BY <1>5, <1>7 DEF Piece
    <3> QED BY <1>4, <1>7, <2>1, <3>1
  <2>2. CASE x \in held BY <1>4, <1>7, <2>2 DEF IInv, HeldPlaced
  <2> QED BY <1>2, <1>5, <2>1, <2>2
<1> QED BY <1>7, <1>12, <1>13, <1>14, <1>15, <1>16, <1>17, <1>18, <1>19 DEF IInv

-----------------------------------------------------------------------------
(* What is held is freed *)

LEMMA IdleOp == Idle \in OpType /\ Idle.step = "idle"
BY ArenaNumbers DEF Idle, OpType

LEMMA ReleaseOp ==
  ASSUME NEW p \in Page, NEW o, o = [Idle EXCEPT !.step = "release", !.page = p]
  PROVE  o \in OpType /\ o.step = "release" /\ o.page = p
<1>1. PICK w : w = Idle /\ w \in OpType BY IdleOp
<1>2. p \in 0..NumPages BY ArenaNumbers DEF Page
<1>3. o = [w EXCEPT !.step = "release", !.page = p] BY <1>1
<1> QED BY <1>1, <1>2, <1>3 DEF OpType

\* The chunk a caller's extent lies in is found, and is not on its way out.
LEMMA HeldFacts ==
  ASSUME IInv, NEW e \in held
  PROVE  \E c \in chunks : c = LookUp(e) /\ ~Releasing(c.base) /\ Piece(c, e)
<1>1. PICK c \in chunks : ~Releasing(c.base) /\ Piece(c, e) BY DEF IInv, HeldPlaced
<1>2. LookUp(e) = c BY <1>1, LookUpIs DEF IInv, ChunksOK
<1> QED BY <1>1, <1>2

LEMMA DallocLarge ==
  ASSUME IInv, NEW t \in Thread, NEW e \in held, Dalloc(t, e), region_size[LookUp(e).base] = NonSlab
  PROVE  IInv'
<1>1. TypeOK /\ ChunksOK /\ BitmapsExact BY DEF IInv, ChunksOK
<1>2. PICK c \in chunks : c = LookUp(e) /\ ~Releasing(c.base) /\ Piece(c, e) BY HeldFacts
<1>3. c \in PageExtent /\ c.base \in Page BY <1>1, PageExtentFacts DEF TypeOK
<1>4. PICK o : o = [Idle EXCEPT !.step = "release", !.page = c.base] OBVIOUS
<1>5. o \in OpType /\ o.step = "release" /\ o.page = c.base BY <1>3, <1>4, ReleaseOp
<1>6. /\ At(t, "idle") /\ held' = held \ {e} /\ Goto(t, o)
      /\ chunks' = chunks /\ region_size' = region_size /\ bitmap' = bitmap
      /\ nonempty_slab' = nonempty_slab /\ empty_slab' = empty_slab /\ slab_mutex' = slab_mutex
      /\ request' = request /\ hold' = hold /\ large_request' = large_request
  BY <1>2, <1>4 DEF Dalloc, slabs, stats
<1>7. op'[t] = o /\ \A u \in Thread : u # t => op'[u] = op[u] BY <1>1, <1>6, Moves
<1>8. ~At(t, "release") /\ ~At(t, "free") BY <1>6 DEF At
<1>9. Returning' = Returning BY <1>1, <1>5, <1>6, <1>8, ReturningKept
<1>10. \A q : Releasing(q)' <=> Releasing(q) \/ q = c.base
  BY <1>1, <1>5, <1>6, <1>8, ReleasingMore
<1>11. \A d \in chunks : d # c => d.base # c.base BY <1>1, OneChunkAt
<1>12. region_size[c.base] = NonSlab /\ e = LargeAt(c) BY <1>2 DEF Piece
<1>13. \A z \in Sind : Slabs(z)' = Slabs(z)
  BY <1>6, <1>10, <1>11, <1>12, ArenaAssumption DEF Slabs
<1>14. Large' = Large BY <1>6 DEF Large
<1>15. ListsOK' /\ StatsOK'
  <2>1. \A z \in Sind : Slabs(z)' = Slabs(z) /\ \A d \in Slabs(z) : bitmap'[d.base] = bitmap[d.base]
    BY <1>6, <1>13
  <2> QED BY <1>6, <1>14, <2>1, ListsKept, StatsKept DEF IInv, stats
<1>16. BitmapsExact'
  <2> SUFFICES ASSUME NEW z \in Sind, NEW d \in Slabs(z), NEW j \in AllRegions(z)
               PROVE  j \in bitmap'[d.base] <=> RegionAt(d.base, z, j) \notin held' \cup Returning'
    BY <1>13 DEF BitmapsExact
  <2>1. j \in bitmap[d.base] <=> RegionAt(d.base, z, j) \notin held \cup Returning
    BY <1>1 DEF BitmapsExact
  <2>2. d \in chunks /\ region_size[d.base] # NonSlab /\ Piece(d, RegionAt(d.base, z, j))
    BY <1>1, SlabFacts
  <2>3. RegionAt(d.base, z, j) # e BY <1>1, <1>2, <1>12, <2>2, ChunkOfPiece
  <2> QED BY <1>6, <1>9, <2>1, <2>3
<1>17. CallsShaped'
  <2> SUFFICES ASSUME NEW u \in Thread PROVE CallShape(u)' BY DEF CallsShaped
  <2>1. CASE u = t BY <1>5, <1>6, <1>7, <2>1 DEF CallShape, At
  <2>2. CASE u # t
    <3>1. CallShape(u) BY DEF IInv, CallsShaped
    <3>2. PICK w : w = op[u] OBVIOUS
    <3>3. w.step = "take" => nonempty_slab'[w.sind] # <<>> BY <1>6, <3>1, <3>2 DEF CallShape, At
    <3>4. w.step = "free" => /\ w.sind \in Sind
                             /\ RegionAt(w.page, w.sind, w.index) \notin held'
      BY <1>6, <3>1, <3>2 DEF CallShape, At
    <3>5. w.step = "free" => \A d \in Slabs(w.sind) : d.base = w.page => d \in Slabs(w.sind)'
      BY <1>13, <3>4
    <3>6. op'[u] = w BY <1>7, <2>2, <3>2
    <3> QED BY <1>6, <3>1, <3>2, <3>3, <3>4, <3>5, <3>6, CallKept
  <2> QED BY <2>1, <2>2
<1>18. Exclusive'
  <2>1. \A u \in Thread : At(u, "release") => op[u].page # c.base BY <1>2 DEF Releasing
  <2> QED BY <1>5, <1>7, <2>1 DEF IInv, Exclusive, At
<1>19. HeldPlaced'
  <2> SUFFICES ASSUME NEW x \in held, x # e
               PROVE  \E d \in chunks' : ~Releasing(d.base)' /\ Piece(d, x)'
    BY <1>6 DEF HeldPlaced
  <2>1. PICK d \in chunks : ~Releasing(d.base) /\ Piece(d, x) BY DEF IInv, HeldPlaced
  <2>2. d # c BY <1>12, <2>1 DEF Piece
  <2>3. Piece(d, x)' BY <1>6, <2>1 DEF Piece
  <2> QED BY <1>6, <1>10, <1>11, <2>1, <2>2, <2>3
<1>20. TypeOK'
  <2>1. op' \in [Thread -> OpType] BY <1>1, <1>5, <1>6 DEF TypeOK, Goto
  <2> QED BY <1>1, <1>6, <2>1 DEF TypeOK
<1>21. ChunksApart' /\ SlabsFit' BY <1>6 DEF IInv, ChunksApart, SlabsFit
<1> QED BY <1>15, <1>16, <1>17, <1>18, <1>19, <1>20, <1>21 DEF IInv

LEMMA DallocSmall ==
  ASSUME IInv, NEW t \in Thread, NEW e \in held, Dalloc(t, e), region_size[LookUp(e).base] # NonSlab
  PROVE  IInv'
<1>1. TypeOK /\ ChunksOK /\ BitmapsExact BY DEF IInv, ChunksOK
<1>2. PICK c \in chunks : c = LookUp(e) /\ ~Releasing(c.base) /\ Piece(c, e) BY HeldFacts
<1>3. c \in PageExtent /\ c.base \in Page BY <1>1, PageExtentFacts DEF TypeOK
<1>4. PICK s \in Sind : s = region_size[c.base] BY <1>1, <1>2, <1>3 DEF TypeOK
<1>5. c \in Slabs(s) BY <1>2, <1>4 DEF Slabs
<1>6. c.size = SlabPages[s] BY <1>1, <1>5, SlabFacts
<1>7. PICK i \in AllRegions(s) : e = RegionAt(c.base, s, i) BY <1>2, <1>4 DEF Piece
<1>8. (e.base - FirstCell(c.base)) \div RegionCells[s] = i /\ i \in 0..(NumCells - 1)
  BY <1>3, <1>6, <1>7, RegionInside
<1>9. PICK o : o = [step |-> "free", sind |-> s, page |-> c.base, index |-> i] OBVIOUS
<1>10. /\ o \in OpType /\ o.step = "free" /\ o.sind = s /\ o.page = c.base /\ o.index = i
  BY <1>3, <1>8, <1>9, ArenaNumbers DEF OpType, Page
<1>11. /\ At(t, "idle") /\ held' = held \ {e} /\ Goto(t, o)
       /\ chunks' = chunks /\ region_size' = region_size /\ bitmap' = bitmap
       /\ nonempty_slab' = nonempty_slab /\ empty_slab' = empty_slab /\ slab_mutex' = slab_mutex
       /\ request' = request /\ hold' = hold /\ large_request' = large_request
  BY <1>2, <1>4, <1>8, <1>9 DEF Dalloc, slabs, stats
<1>12. op'[t] = o /\ \A u \in Thread : u # t => op'[u] = op[u] BY <1>1, <1>11, Moves
<1>13. ~At(t, "release") /\ ~At(t, "free") BY <1>11 DEF At
<1>14. Returning' = Returning \cup {e}
  BY <1>1, <1>7, <1>10, <1>11, <1>13, ReturningMore
<1>15. \A q : Releasing(q)' = Releasing(q) BY <1>1, <1>10, <1>11, <1>13, ReleasingKept
<1>16. (\A z \in Sind : Slabs(z)' = Slabs(z)) /\ Large' = Large
  BY <1>1, <1>10, <1>11, <1>13, SlabsKept
<1>17. held' \cup Returning' = held \cup Returning BY <1>11, <1>14
<1>18. ListsOK' /\ StatsOK'
  <2>1. \A z \in Sind : Slabs(z)' = Slabs(z) /\ \A d \in Slabs(z) : bitmap'[d.base] = bitmap[d.base]
    BY <1>11, <1>16
  <2> QED BY <1>11, <1>16, <2>1, ListsKept, StatsKept DEF IInv, stats
<1>19. BitmapsExact'
  <2>1. \A z \in Sind : \A d \in Slabs(z)' : \A j \in AllRegions(z) :
          j \in bitmap'[d.base] <=> RegionAt(d.base, z, j) \notin held' \cup Returning'
    BY <1>1, <1>11, <1>16, <1>17 DEF BitmapsExact
  <2> QED BY <2>1 DEF BitmapsExact
<1>20. CallsShaped'
  <2> SUFFICES ASSUME NEW u \in Thread PROVE CallShape(u)' BY DEF CallsShaped
  <2>1. CASE u = t
    <3>1. c \in Slabs(s)' BY <1>5, <1>16
    <3>2. RegionAt(c.base, s, i) \notin held' BY <1>7, <1>11
    <3> QED BY <1>10, <1>12, <2>1, <3>1, <3>2 DEF CallShape, At
  <2>2. CASE u # t
    <3>1. CallShape(u) BY DEF IInv, CallsShaped
    <3>2. PICK w : w = op[u] OBVIOUS
    <3>3. w.step = "take" => nonempty_slab'[w.sind] # <<>> BY <1>11, <3>1, <3>2 DEF CallShape, At
    <3>4. w.step = "free" => /\ w.sind \in Sind
                             /\ RegionAt(w.page, w.sind, w.index) \notin held'
      BY <1>11, <3>1, <3>2 DEF CallShape, At
    <3>5. w.step = "free" => \A d \in Slabs(w.sind) : d.base = w.page => d \in Slabs(w.sind)'
      BY <1>16, <3>4
    <3>6. op'[u] = w BY <1>12, <2>2, <3>2
    <3> QED BY <1>11, <3>1, <3>2, <3>3, <3>4, <3>5, <3>6, CallKept
  <2> QED BY <2>1, <2>2
<1>21. Exclusive'
  <2>1. ASSUME NEW u \in Thread, At(u, "free"), op[u].page = c.base, op[u].index = i PROVE FALSE
    <3>1. CallShape(u) BY DEF IInv, CallsShaped
    <3>z. PICK z \in Sind : z = op[u].sind BY <1>1, <2>1, <3>1, FreeFacts
    <3>2. PICK d : d \in Slabs(z) /\ z = op[u].sind /\ d.base = op[u].page
      BY <1>1, <2>1, <3>1, <3>z, FreeFacts
    <3>3. RegionAt(op[u].page, op[u].sind, op[u].index) \notin held
      BY <1>1, <2>1, <3>1, FreeFacts
    <3>4. d \in chunks /\ region_size[d.base] = z BY <1>1, <3>2, SlabFacts
    <3>5. z = s BY <1>4, <2>1, <3>2, <3>4
    <3> QED BY <1>7, <2>1, <3>2, <3>3, <3>5
  <2> QED BY <1>10, <1>12, <2>1 DEF IInv, Exclusive, At
<1>22. HeldPlaced'
  <2>1. \A d, x : Piece(d, x)' = Piece(d, x) BY <1>11 DEF Piece
  <2> QED BY <1>11, <1>15, <2>1 DEF IInv, HeldPlaced
<1>23. TypeOK'
  <2>1. op' \in [Thread -> OpType] BY <1>1, <1>10, <1>11 DEF TypeOK, Goto
  <2> QED BY <1>1, <1>11, <2>1 DEF TypeOK
<1>24. ChunksApart' /\ SlabsFit' BY <1>11 DEF IInv, ChunksApart, SlabsFit
<1> QED BY <1>18, <1>19, <1>20, <1>21, <1>22, <1>23, <1>24 DEF IInv

LEMMA DallocStep ==
  ASSUME IInv, NEW t \in Thread, NEW e \in held, Dalloc(t, e)
  PROVE  IInv'
BY DallocLarge, DallocSmall

-----------------------------------------------------------------------------
(* A region goes back to its slab *)

LEMMA ReturnStep ==
  ASSUME IInv, NEW t \in Thread, ReturnRegion(t)
  PROVE  IInv'
<1>1. TypeOK /\ ChunksOK /\ BitmapsExact /\ CallsShaped /\ Exclusive /\ CallShape(t) /\ At(t, "free")
  BY DEF IInv, ChunksOK, CallsShaped, ReturnRegion
<1>s. PICK s \in Sind : s = op[t].sind BY <1>1, FreeFacts
<1>2. PICK p, i, c :
        /\ s = op[t].sind /\ p = op[t].page /\ i = op[t].index /\ i \in AllRegions(s)
        /\ c \in Slabs(s) /\ c.base = p
        /\ RegionAt(p, s, i) \notin held /\ RegionAt(p, s, i) \in Returning
  BY <1>s, <1>1, FreeFacts
<1>3. /\ c \in chunks /\ c \in PageExtent /\ p \in Page /\ s # NonSlab /\ region_size[p] = s
      /\ ~Releasing(p) /\ bitmap[p] \subseteq AllRegions(s) /\ c.size = SlabPages[s]
      /\ \A j \in AllRegions(s) : Piece(c, RegionAt(p, s, j))
  BY <1>1, <1>2, SlabFacts
<1>4. ChunkAt(p) = c BY <1>1, <1>2, <1>3, ChunkAtIs
<1>5. PICK e, bits : e = RegionAt(p, s, i) /\ bits = bitmap[p] \cup {i} OBVIOUS
<1>6. PICK full \in BOOLEAN, done \in BOOLEAN : full = (bitmap[p] = {}) /\ done = AllFree(bits, s)
  BY DEF AllFree
<1>7. PICK back : back = IF full THEN Push(nonempty_slab[s], p) ELSE nonempty_slab[s] OBVIOUS
<1>8. PICK o : o = IF done THEN [Idle EXCEPT !.step = "release", !.page = p] ELSE Idle OBVIOUS
<1>9. /\ slab_mutex[s] = Nobody
      /\ bitmap' = [bitmap EXCEPT ![p] = bits]
      /\ request' = [request EXCEPT ![s] = @ - RegionCells[s]]
      /\ hold' = IF done THEN [hold EXCEPT ![s] = @ - c.size] ELSE hold
      /\ nonempty_slab' = [nonempty_slab EXCEPT ![s] = IF done THEN Erase(back, p) ELSE back]
      /\ empty_slab' = [empty_slab EXCEPT ![s] = IF full THEN Erase(@, p) ELSE @]
      /\ Goto(t, o)
      /\ chunks' = chunks /\ region_size' = region_size /\ slab_mutex' = slab_mutex
      /\ large_request' = large_request /\ held' = held
  BY <1>2, <1>4, <1>5, <1>6, <1>7, <1>8 DEF ReturnRegion
<1>10. /\ o \in OpType /\ o.step \in {"idle", "release"} /\ (o.step = "release" <=> done)
       /\ o.step = "release" => o.page = p
  BY <1>3, <1>8, IdleOp, ReleaseOp
<1>11. op'[t] = o /\ \A u \in Thread : u # t => op'[u] = op[u] BY <1>1, <1>9, Moves
<1>12. ~At(t, "release") BY <1>1 DEF At
<1>13. Returning' = Returning \ {e}
  BY <1>1, <1>2, <1>5, <1>9, <1>10, ReturningLess
<1>14. \A q : Releasing(q)' <=> Releasing(q) \/ (done /\ q = p)
  BY <1>1, <1>9, <1>10, <1>12, ReleasingKept, ReleasingMore
<1>15. /\ bitmap'[p] = bits /\ DOMAIN bitmap' = Page
       /\ \A q \in Page : q # p => bitmap'[q] = bitmap[q]
  BY <1>1, <1>3, <1>9 DEF TypeOK
<1>16. i \notin bitmap[p] BY <1>1, <1>2 DEF BitmapsExact
<1>17. done <=> bits = AllRegions(s) BY <1>6 DEF AllFree
\* The slab that is wholly free is one no more; the others stay.
<1>18. ASSUME NEW d \in chunks, d # c PROVE d.base # p /\ d.base \in Page
  <2>1. d.base \in Page BY <1>1, PageExtentFacts DEF TypeOK
  <2>2. d.base # c.base BY <1>1, <1>3, <1>18, OneChunkAt
  <2> QED BY <1>2, <2>1, <2>2
<1>19. Slabs(s)' = IF done THEN Slabs(s) \ {c} ELSE Slabs(s)
  BY <1>2, <1>9, <1>14, <1>18 DEF Slabs
<1>20. ASSUME NEW z \in Sind, z # s
       PROVE  Slabs(z)' = Slabs(z) /\ \A d \in Slabs(z) : bitmap'[d.base] = bitmap[d.base]
  <2>1. \A d \in Slabs(z) : d \in chunks /\ d # c BY <1>2, <1>3, <1>20 DEF Slabs
  <2>2. Slabs(z)' = Slabs(z) BY <1>2, <1>3, <1>9, <1>14, <1>18, <1>20 DEF Slabs
  <2> QED BY <1>15, <1>18, <2>1, <2>2
<1>21. Large' = Large BY <1>9 DEF Large
<1>22. SlabsFit'
  <2>1. bits \subseteq AllRegions(s) BY <1>2, <1>3, <1>5
  <2> QED BY <1>2, <1>3, <1>9, <1>15, <1>18, <2>1 DEF IInv, SlabsFit
<1>23. ListsOK'
  <2>1. PICK ne, em : /\ ne = nonempty_slab[s] /\ em = empty_slab[s]
                      /\ ListOf(ne, s, TRUE) /\ ListOf(em, s, FALSE)
    BY DEF IInv, ListsOK
  <2>2. /\ \A q : q \in Elements(ne) <=> \E d \in Slabs(s) : d.base = q /\ bitmap[q] # {}
        /\ \A q : q \in Elements(em) <=> \E d \in Slabs(s) : d.base = q /\ bitmap[q] = {}
    BY <2>1 DEF ListOf
  <2>3. /\ back \in Seq(Page) /\ OneEach(back) /\ Elements(back) = Elements(ne) \cup {p}
    <3>1. CASE full
      <4>1. p \notin Elements(ne) BY <1>6, <2>2, <3>1
      <4>2. back = Push(ne, p) BY <1>7, <2>1, <3>1
      <4> QED BY <1>3, <2>1, <4>1, <4>2, PushFacts DEF ListOf
    <3>2. CASE ~full
      <4>1. p \in Elements(ne) BY <1>2, <1>6, <2>2, <3>2
      <4> QED BY <1>7, <2>1, <3>2, <4>1 DEF ListOf
    <3> QED BY <3>1, <3>2
  <2>4. PICK e2 : e2 = IF full THEN Erase(em, p) ELSE em OBVIOUS
  <2>5. /\ e2 \in Seq(Page) /\ OneEach(e2) /\ Elements(e2) = Elements(em) \ {p}
    <3>1. CASE full
      <4>1. p \in Elements(em) BY <1>2, <1>6, <2>2, <3>1
      <4>2. e2 = Erase(em, p) BY <2>4, <3>1
      <4> QED BY <2>1, <4>1, <4>2, EraseFacts DEF ListOf
    <3>2. CASE ~full
      <4>1. p \notin Elements(em) BY <1>6, <2>2, <3>2
      <4> QED BY <2>1, <2>4, <3>2, <4>1 DEF ListOf
    <3> QED BY <3>1, <3>2
  <2>6. PICK n2 : n2 = IF done THEN Erase(back, p) ELSE back OBVIOUS
  <2>7. n2 \in Seq(Page) /\ OneEach(n2)
        /\ Elements(n2) = IF done THEN Elements(ne) \ {p} ELSE Elements(ne) \cup {p}
    <3>1. CASE done
      <4>1. n2 = Erase(back, p) /\ p \in Elements(back) BY <2>3, <2>6, <3>1
      <4>2. n2 \in Seq(Page) /\ OneEach(n2) /\ Elements(n2) = Elements(back) \ {p}
        BY <2>3, <4>1, EraseFacts
      <4> QED BY <2>3, <3>1, <4>2
    <3>2. CASE ~done BY <2>3, <2>6, <3>2
    <3> QED BY <3>1, <3>2
  <2>8. nonempty_slab'[s] = n2 /\ empty_slab'[s] = e2
    BY <1>1, <1>9, <2>1, <2>4, <2>6 DEF TypeOK
  <2>9. ASSUME NEW d \in Slabs(s), d # c PROVE d.base # p /\ bitmap'[d.base] = bitmap[d.base]
    <3>1. d \in chunks BY DEF Slabs
    <3> QED BY <1>15, <1>18, <2>9, <3>1
  <2>10. bitmap'[p] # {} BY <1>5, <1>15
  <2>11. \A q : q \in Elements(n2) <=> \E d \in Slabs(s)' : d.base = q /\ bitmap'[q] # {}
    <3>1. CASE done
      <4>1. Slabs(s)' = Slabs(s) \ {c} /\ Elements(n2) = Elements(ne) \ {p} BY <1>19, <2>7, <3>1
      <4> QED BY <1>2, <2>2, <2>9, <4>1
    <3>2. CASE ~done
      <4>1. Slabs(s)' = Slabs(s) /\ Elements(n2) = Elements(ne) \cup {p} BY <1>19, <2>7, <3>2
      <4> QED BY <1>2, <2>2, <2>9, <2>10, <4>1
    <3> QED BY <3>1, <3>2
  <2>12. \A q : q \in Elements(e2) <=> \E d \in Slabs(s)' : d.base = q /\ bitmap'[q] = {}
    <3>1. Slabs(s)' = Slabs(s) \ {c} \/ Slabs(s)' = Slabs(s) BY <1>19
    <3> QED BY <1>2, <2>2, <2>5, <2>9, <2>10, <3>1
  <2>13. ListOf(nonempty_slab[s], s, TRUE)' BY <2>7, <2>8, <2>11 DEF ListOf
  <2>14. ListOf(empty_slab[s], s, FALSE)' BY <2>5, <2>8, <2>12 DEF ListOf
  <2>15. ASSUME NEW z \in Sind, z # s
         PROVE  ListOf(nonempty_slab[z], z, TRUE)' /\ ListOf(empty_slab[z], z, FALSE)'
    <3>1. nonempty_slab'[z] = nonempty_slab[z] /\ empty_slab'[z] = empty_slab[z]
      BY <1>1, <1>9, <2>15 DEF TypeOK
    <3>2. PICK n, m : n = nonempty_slab[z] /\ m = empty_slab[z] OBVIOUS
    <3>3. ListOf(n, z, TRUE) /\ ListOf(m, z, FALSE) BY <3>2 DEF IInv, ListsOK
    <3>4. ListOf(n, z, TRUE)' /\ ListOf(m, z, FALSE)' BY <1>20, <2>15, <3>3, ListKept
    <3> QED BY <3>1, <3>2, <3>4 DEF ListOf
  <2> QED BY <2>13, <2>14, <2>15 DEF ListsOK
<1>24. ASSUME NEW z \in Sind, NEW d \in Slabs(z), NEW j \in AllRegions(z)
       PROVE  /\ d = c => z = s
              /\ RegionAt(d.base, z, j) = e <=> d = c /\ j = i
  <2>1. d \in chunks /\ region_size[d.base] = z /\ Piece(d, RegionAt(d.base, z, j))
    BY <1>1, SlabFacts
  <2>2. d = c => z = s BY <1>2, <1>3, <2>1
  <2>3. Piece(c, e) BY <1>2, <1>3, <1>5
  <2>4. d # c => RegionAt(d.base, z, j) # e BY <1>1, <1>3, <2>1, <2>3, ChunkOfPiece
  <2>5. d = c => (RegionAt(d.base, z, j) = e <=> j = i)
    BY <1>2, <1>3, <1>5, <2>2, RegionIndex
  <2> QED BY <2>2, <2>4, <2>5
<1>25. BitmapsExact'
  <2> SUFFICES ASSUME NEW z \in Sind, NEW d \in Slabs(z), NEW j \in AllRegions(z)
               PROVE  j \in bitmap'[d.base] <=> RegionAt(d.base, z, j) \notin held' \cup Returning'
    <3>1. \A z \in Sind : Slabs(z)' \subseteq Slabs(z) BY <1>19, <1>20
    <3> QED BY <3>1 DEF BitmapsExact
  <2>1. j \in bitmap[d.base] <=> RegionAt(d.base, z, j) \notin held \cup Returning
    BY <1>1 DEF BitmapsExact
  <2>2. CASE d = c BY <1>2, <1>5, <1>9, <1>13, <1>15, <1>24, <2>1, <2>2
  <2>3. CASE d # c
    <3>1. bitmap'[d.base] = bitmap[d.base]
      <4>1. d \in chunks BY DEF Slabs
      <4> QED BY <1>15, <1>18, <2>3, <4>1
    <3>2. RegionAt(d.base, z, j) # e BY <1>24, <2>3
    <3> QED BY <1>9, <1>13, <2>1, <3>1, <3>2
  <2> QED BY <2>2, <2>3
<1>26. StatsOK'
  <2>1. InUse(s)' = InUse(s) \ {e}
    <3>1. ASSUME NEW x \in InUse(s)' PROVE x \in InUse(s) /\ x # e
      <4>1. PICK d \in Slabs(s)' : \E j \in AllRegions(s) \ bitmap'[d.base] : x = RegionAt(d.base, s, j)
        BY <3>1 DEF InUse
      <4>2. PICK j \in AllRegions(s) \ bitmap'[d.base] : x = RegionAt(d.base, s, j) BY <4>1
      <4>3. d \in Slabs(s) /\ d \in chunks BY <1>19, <4>1 DEF Slabs
      <4>4. j \notin bitmap[d.base] BY <1>2, <1>5, <1>15, <1>18, <4>2, <4>3
      <4>5. ~(d = c /\ j = i) BY <1>2, <1>5, <1>15, <4>2
      <4>6. x # e BY <1>24, <4>2, <4>3, <4>5
      <4> QED BY <4>2, <4>3, <4>4, <4>6 DEF InUse
    <3>2. ASSUME NEW x \in InUse(s), x # e PROVE x \in InUse(s)'
      <4>1. PICK d \in Slabs(s) : \E j \in AllRegions(s) \ bitmap[d.base] : x = RegionAt(d.base, s, j)
        BY <3>2 DEF InUse
      <4>2. PICK j \in AllRegions(s) \ bitmap[d.base] : x = RegionAt(d.base, s, j) BY <4>1
      <4>3. d \in chunks BY DEF Slabs
      <4>4. ~(d = c /\ j = i) BY <1>24, <3>2, <4>2
      <4>5. j \notin bitmap'[d.base] BY <1>2, <1>5, <1>15, <1>18, <4>2, <4>3, <4>4
      <4>6. d = c => ~done BY <1>2, <1>15, <1>17, <4>2, <4>5
      <4>7. d \in Slabs(s)' BY <1>19, <4>6
      <4> QED BY <4>2, <4>5, <4>7 DEF InUse
    <3> QED BY <3>1, <3>2
  <2>2. e \in InUse(s) BY <1>1, <1>2, <1>5, <1>16, NotInUse
  <2>3. /\ IsFiniteSet(InUse(s)) /\ request[s] = Cardinality(InUse(s)) * RegionCells[s]
        /\ hold[s] = Cardinality(PagesOf(Slabs(s)))
    BY DEF IInv, StatsOK
  <2>4. /\ IsFiniteSet(InUse(s)') /\ Cardinality(InUse(s)') = Cardinality(InUse(s)) - 1
        /\ Cardinality(InUse(s)') \in Nat
    BY <2>1, <2>2, <2>3, FS_RemoveElement, FS_CardinalityType
  <2>5. request'[s] = Cardinality(InUse(s)') * RegionCells[s]
    <3>1. request'[s] = request[s] - RegionCells[s] BY <1>1, <1>9 DEF TypeOK
    <3>2. PICK n \in Nat, r \in Nat : n = Cardinality(InUse(s)') /\ r = RegionCells[s]
      BY <2>4, ArenaNumbers
    <3>3. Cardinality(InUse(s)) \in Nat BY <2>3, FS_CardinalityType
    <3>4. Cardinality(InUse(s)) = n + 1 BY <2>4, <3>2, <3>3
    <3>5. (n + 1) * r = n * r + r /\ n * r \in Nat BY Scaled
    <3> QED BY <2>3, <3>1, <3>2, <3>4, <3>5
  <2>6. hold'[s] = Cardinality(PagesOf(Slabs(s)'))
    <3>1. CASE ~done BY <1>9, <1>19, <2>3, <3>1
    <3>2. CASE done
      <4>1. PICK C : C = Slabs(s) \ {c} OBVIOUS
      <4>2. C \in SUBSET PageExtent /\ C \subseteq chunks BY <1>1, <4>1 DEF TypeOK, Slabs
      <4>3. \A d \in C : Before(c, d) \/ Before(d, c)
        BY <1>3, <4>1, <4>2 DEF IInv, ChunksApart
      <4>4. Cardinality(PagesOf(C \cup {c})) = Cardinality(PagesOf(C)) + c.size
        BY <1>3, <4>2, <4>3, PagesMore
      <4>5. C \cup {c} = Slabs(s) /\ Slabs(s)' = C BY <1>2, <1>19, <3>2, <4>1
      <4>6. hold'[s] = hold[s] - c.size BY <1>1, <1>9, <3>2 DEF TypeOK
      <4>7. PICK m \in Nat, n \in Nat : m = Cardinality(PagesOf(C)) /\ n = c.size
        BY <1>3, <4>2, PagesFinite, PageExtentFacts
      <4>8. hold[s] = m + n BY <2>3, <4>4, <4>5, <4>7
      <4> QED BY <4>5, <4>6, <4>7, <4>8
    <3> QED BY <3>1, <3>2
  <2>7. PagesOf(Slabs(s)') = PagesOf(Slabs(s))' BY DEF PagesOf
  <2>8. ASSUME NEW z \in Sind, z # s
        PROVE  /\ IsFiniteSet(InUse(z)') /\ request'[z] = Cardinality(InUse(z)') * RegionCells[z]
               /\ hold'[z] = Cardinality(PagesOf(Slabs(z)))'
    <3>1. InUse(z)' = InUse(z) BY <1>20, <2>8 DEF InUse
    <3>2. PagesOf(Slabs(z))' = PagesOf(Slabs(z)) BY <1>20, <2>8 DEF PagesOf
    <3>3. request'[z] = request[z] /\ hold'[z] = hold[z] BY <1>1, <1>9, <2>8 DEF TypeOK
    <3> QED BY <3>1, <3>2, <3>3 DEF IInv, StatsOK
  <2>9. large_request' = Cardinality(PagesOf(Large))'
    <3>1. PagesOf(Large)' = PagesOf(Large) BY <1>21 DEF PagesOf
    <3> QED BY <1>9, <3>1 DEF IInv, StatsOK
  <2> QED BY <2>4, <2>5, <2>6, <2>7, <2>8, <2>9 DEF StatsOK
<1>27. TypeOK'
  <2>1. op' \in [Thread -> OpType] BY <1>1, <1>9, <1>10 DEF TypeOK, Goto
  <2>2. i \in 0..(NumCells - 1) BY <1>2, <1>3, RegionInside
  <2>3. \A q \in Page : bitmap'[q] \subseteq 0..(NumCells - 1)
    BY <1>1, <1>5, <1>15, <2>2 DEF TypeOK
  <2>4. DOMAIN nonempty_slab' = Sind /\ DOMAIN empty_slab' = Sind BY <1>1, <1>9 DEF TypeOK
  <2>5. \A z \in Sind : /\ Elements(nonempty_slab'[z]) \subseteq Page
                        /\ Elements(empty_slab'[z]) \subseteq Page
    BY <1>23, ElementsIs DEF ListsOK, ListOf
  <2>6. request' \in [Sind -> Nat]
    <3>1. ASSUME NEW z \in Sind PROVE request'[z] \in Nat
      <4>1. IsFiniteSet(InUse(z)') /\ request'[z] = Cardinality(InUse(z)') * RegionCells[z]
        BY <1>26 DEF StatsOK
      <4>2. PICK n \in Nat, r \in Nat : n = Cardinality(InUse(z)') /\ r = RegionCells[z]
        BY <4>1, FS_CardinalityType, ArenaNumbers
      <4>3. n * r \in Nat BY Scaled
      <4> QED BY <4>1, <4>2, <4>3
    <3> QED BY <1>1, <1>9, <3>1 DEF TypeOK
  <2>7. hold' \in [Sind -> Nat]
    <3>1. ASSUME NEW z \in Sind PROVE hold'[z] \in Nat
      <4>1. Slabs(z)' \in SUBSET PageExtent BY <1>1, <1>19, <1>20 DEF TypeOK, Slabs
      <4>2. hold'[z] = Cardinality(PagesOf(Slabs(z)')) BY <1>26 DEF StatsOK, PagesOf
      <4> QED BY <4>1, <4>2, PagesFinite
    <3>2. DOMAIN hold' = Sind /\ hold' = [z \in Sind |-> hold'[z]] BY <1>1, <1>9 DEF TypeOK
    <3> QED BY <3>1, <3>2
  <2> QED BY <1>1, <1>9, <1>15, <2>1, <2>3, <2>4, <2>5, <2>6, <2>7 DEF TypeOK
\* Nobody else counts on the slab when it is wholly free.
<1>28. ASSUME NEW u \in Thread, u # t, At(u, "free"), done
       PROVE  \A d \in Slabs(op[u].sind) : d.base = op[u].page => d # c
  <2> SUFFICES ASSUME c \in Slabs(op[u].sind), c.base = op[u].page PROVE FALSE
    OBVIOUS
  <2>1. CallShape(u) BY <1>1 DEF CallsShaped
  <2>z. PICK z \in Sind : z = op[u].sind BY <1>1, <1>28, <2>1, FreeFacts
  <2>2. PICK j : /\ z = op[u].sind /\ j = op[u].index /\ j \in AllRegions(z)
                 /\ RegionAt(op[u].page, z, j) \in Returning
    BY <1>1, <1>28, <2>1, <2>z, FreeFacts
  <2>3. z = s /\ op[u].page = p BY <1>2, <1>24, <2>2
  <2>4. j \in bits BY <1>17, <1>28, <2>2, <2>3
  <2>5. j \notin bitmap[p] BY <1>1, <1>2, <2>2, <2>3 DEF BitmapsExact
  <2>6. j = i BY <1>5, <2>4, <2>5
  <2> QED BY <1>1, <1>2, <1>28, <2>2, <2>3, <2>6 DEF Exclusive
<1>29. CallsShaped'
  <2> SUFFICES ASSUME NEW u \in Thread PROVE CallShape(u)' BY DEF CallsShaped
  <2>1. CASE u = t
    <3>1. op'[u] = o BY <1>11, <2>1
    <3>2. o.step = "release" => c \in chunks' /\ c.base = o.page BY <1>2, <1>3, <1>9, <1>10
    <3> QED BY <1>10, <3>1, <3>2 DEF CallShape, At
  <2>2. CASE u # t
    <3>1. CallShape(u) BY <1>1 DEF CallsShaped
    <3>2. PICK w : w = op[u] OBVIOUS
    <3>3. w.step = "take" => nonempty_slab'[w.sind] # <<>>
      <4>1. w.step = "take" => w.sind \in Sind /\ slab_mutex[w.sind] = u
        BY <3>1, <3>2 DEF CallShape
      <4>2. w.step = "take" => w.sind # s BY <1>9, <4>1, ArenaAssumption
      <4>3. \A z \in Sind : z # s => nonempty_slab'[z] = nonempty_slab[z] BY <1>1, <1>9 DEF TypeOK
      <4> QED BY <3>1, <3>2, <4>1, <4>2, <4>3 DEF CallShape, At
    <3>4. w.step = "free" => /\ w.sind \in Sind
                             /\ RegionAt(w.page, w.sind, w.index) \notin held'
      BY <1>9, <3>1, <3>2 DEF CallShape, At
    <3>5. w.step = "free" => \A d \in Slabs(w.sind) : d.base = w.page => d \in Slabs(w.sind)'
      BY <1>19, <1>20, <1>28, <2>2, <3>2, <3>4 DEF At
    <3>6. op'[u] = w BY <1>11, <2>2, <3>2
    <3> QED BY <1>9, <3>1, <3>2, <3>3, <3>4, <3>5, <3>6, CallKept
  <2> QED BY <2>1, <2>2
<1>30. Exclusive'
  <2>1. \A u \in Thread : At(u, "release") => op[u].page # p BY <1>3 DEF Releasing
  <2> QED BY <1>1, <1>10, <1>11, <2>1 DEF Exclusive, At
<1>31. HeldPlaced'
  <2> SUFFICES ASSUME NEW x \in held
               PROVE  \E d \in chunks' : ~Releasing(d.base)' /\ Piece(d, x)'
    BY <1>9 DEF HeldPlaced
  <2>1. PICK d \in chunks : ~Releasing(d.base) /\ Piece(d, x) BY DEF IInv, HeldPlaced
  <2>2. Piece(d, x)' BY <1>9, <2>1 DEF Piece
  <2>3. CASE done
    <3>1. ASSUME d = c PROVE FALSE
      <4>1. PICK j \in AllRegions(s) : x = RegionAt(p, s, j)
        BY <1>2, <1>3, <2>1, <3>1 DEF Piece
      <4>2. j \notin bitmap[p] BY <1>1, <1>2, <4>1 DEF BitmapsExact
      <4>3. j = i BY <1>5, <1>17, <2>3, <4>1, <4>2
      <4> QED BY <1>2, <4>1, <4>3
    <3>2. ~Releasing(d.base)' BY <1>14, <1>18, <2>1, <3>1
    <3> QED BY <1>9, <2>2, <3>2
  <2>4. CASE ~done BY <1>9, <1>14, <2>1, <2>2, <2>4
  <2> QED BY <2>3, <2>4
<1>32. ChunksApart' BY <1>9 DEF IInv, ChunksApart
<1> QED BY <1>22, <1>23, <1>25, <1>26, <1>27, <1>29, <1>30, <1>31, <1>32 DEF IInv

-----------------------------------------------------------------------------
(* A chunk is released *)

LEMMA ReleaseStep ==
  ASSUME IInv, NEW t \in Thread, Release(t)
  PROVE  IInv'
<1>1. TypeOK /\ ChunksOK /\ CallShape(t) /\ At(t, "release") /\ Exclusive
  BY DEF IInv, ChunksOK, CallsShaped, Release
<1>p. PICK p : p = op[t].page OBVIOUS
<1>c. PICK c \in chunks : c.base = op[t].page BY <1>1 DEF CallShape
<1>2. p = op[t].page /\ c.base = p BY <1>p, <1>c
<1>3. ChunkAt(p) = c BY <1>1, <1>2, ChunkAtIs
<1>4. /\ chunks' = chunks \ {c}
      /\ large_request' = IF region_size[p] = NonSlab THEN large_request - c.size ELSE large_request
      /\ Goto(t, Idle)
      /\ region_size' = region_size /\ bitmap' = bitmap /\ nonempty_slab' = nonempty_slab
      /\ empty_slab' = empty_slab /\ slab_mutex' = slab_mutex /\ request' = request /\ hold' = hold
      /\ held' = held
  BY <1>2, <1>3 DEF Release, PageHeap!Free, slabs
<1>5. op'[t] = Idle /\ \A u \in Thread : u # t => op'[u] = op[u] BY <1>1, <1>4, Moves
<1>6. ~At(t, "free") BY <1>1 DEF At
<1>7. Returning' = Returning BY <1>1, <1>4, <1>6, IdleOp, ReturningKept
<1>8. \A q : q # p => (Releasing(q)' <=> Releasing(q))
  BY <1>2, <1>5, IdleOp DEF Releasing, At
<1>9. Releasing(p) BY <1>1, <1>2 DEF Releasing
<1>10. \A d \in chunks : d # c => d.base # p BY <1>1, <1>2, OneChunkAt
<1>11. \A z \in Sind : Slabs(z)' = Slabs(z) BY <1>2, <1>4, <1>8, <1>9, <1>10 DEF Slabs
<1>12. Large' = Large \ {c} BY <1>4 DEF Large
<1>13. SlabsFit' /\ ChunksApart' BY <1>4 DEF IInv, SlabsFit, ChunksApart
<1>14. ListsOK'
  <2>1. \A z \in Sind : Slabs(z)' = Slabs(z) /\ \A d \in Slabs(z) : bitmap'[d.base] = bitmap[d.base]
    BY <1>4, <1>11
  <2> QED BY <1>4, <2>1, ListsKept DEF IInv
<1>15. BitmapsExact'
  <2>1. \A z \in Sind : \A d \in Slabs(z)' : \A j \in AllRegions(z) :
          j \in bitmap'[d.base] <=> RegionAt(d.base, z, j) \notin held' \cup Returning'
    BY <1>4, <1>7, <1>11 DEF IInv, BitmapsExact
  <2> QED BY <2>1 DEF BitmapsExact
<1>16. large_request' = Cardinality(PagesOf(Large')) /\ large_request' \in Nat
  <2>1. large_request = Cardinality(PagesOf(Large)) BY DEF IInv, StatsOK
  <2>2. Large \in SUBSET PageExtent /\ Large \subseteq chunks BY <1>1 DEF TypeOK, Large
  <2>3. CASE region_size[p] # NonSlab
    <3>1. Large' = Large BY <1>2, <1>12, <2>3 DEF Large
    <3> QED BY <1>1, <1>4, <2>1, <2>3, <3>1 DEF TypeOK
  <2>4. CASE region_size[p] = NonSlab
    <3>1. PICK C : C = Large \ {c} OBVIOUS
    <3>2. C \in SUBSET PageExtent /\ c \in PageExtent BY <1>1, <1>2, <2>2, <3>1 DEF TypeOK
    <3>3. \A d \in C : Before(c, d) \/ Before(d, c) BY <2>2, <3>1 DEF IInv, ChunksApart
    <3>4. Cardinality(PagesOf(C \cup {c})) = Cardinality(PagesOf(C)) + c.size
      BY <3>2, <3>3, PagesMore
    <3>5. C \cup {c} = Large /\ Large' = C BY <1>2, <1>12, <2>4, <3>1 DEF Large
    <3>6. PICK m \in Nat, n \in Nat : m = Cardinality(PagesOf(C)) /\ n = c.size
      BY <3>2, PagesFinite, PageExtentFacts
    <3>7. large_request = m + n BY <2>1, <3>4, <3>5, <3>6
    <3> QED BY <1>4, <2>4, <3>5, <3>6, <3>7
  <2> QED BY <2>3, <2>4
<1>17. StatsOK'
  <2>1. ASSUME NEW z \in Sind
        PROVE  InUse(z)' = InUse(z) /\ PagesOf(Slabs(z))' = PagesOf(Slabs(z))
    BY <1>4, <1>11 DEF InUse, PagesOf
  <2>2. PagesOf(Large') = PagesOf(Large)' BY DEF PagesOf
  <2> QED BY <1>4, <1>16, <2>1, <2>2 DEF IInv, StatsOK
<1>18. TypeOK'
  <2>1. op' \in [Thread -> OpType] BY <1>1, <1>4, IdleOp DEF TypeOK, Goto
  <2> QED BY <1>1, <1>4, <1>16, <2>1 DEF TypeOK
<1>19. CallsShaped'
  <2> SUFFICES ASSUME NEW u \in Thread PROVE CallShape(u)' BY DEF CallsShaped
  <2>1. CASE u = t BY <1>5, <2>1, IdleOp DEF CallShape, At
  <2>2. CASE u # t
    <3>1. CallShape(u) BY DEF IInv, CallsShaped
    <3>2. PICK w : w = op[u] OBVIOUS
    <3>3. w.step = "take" => nonempty_slab'[w.sind] # <<>> BY <1>4, <3>1, <3>2 DEF CallShape, At
    <3>4. w.step = "free" => /\ w.sind \in Sind
                             /\ RegionAt(w.page, w.sind, w.index) \notin held'
      BY <1>4, <3>1, <3>2 DEF CallShape, At
    <3>5. w.step = "free" => \A d \in Slabs(w.sind) : d.base = w.page => d \in Slabs(w.sind)'
      BY <1>11, <3>4
    <3>6. w.step = "release" => \A d \in chunks : d.base = w.page => d \in chunks'
      BY <1>1, <1>2, <1>4, <2>2, <3>2 DEF Exclusive, At
    <3>7. op'[u] = w BY <1>5, <2>2, <3>2
    <3> QED BY <1>4, <3>1, <3>2, <3>3, <3>4, <3>5, <3>6, <3>7, CallKept
  <2> QED BY <2>1, <2>2
<1>20. Exclusive' BY <1>1, <1>5, IdleOp DEF Exclusive, At
<1>21. HeldPlaced'
  <2> SUFFICES ASSUME NEW x \in held
               PROVE  \E d \in chunks' : ~Releasing(d.base)' /\ Piece(d, x)'
    BY <1>4 DEF HeldPlaced
  <2>1. PICK d \in chunks : ~Releasing(d.base) /\ Piece(d, x) BY DEF IInv, HeldPlaced
  <2>2. d # c BY <1>2, <1>9, <2>1
  <2>3. Piece(d, x)' BY <1>4, <2>1 DEF Piece
  <2> QED BY <1>4, <1>8, <1>10, <2>1, <2>2, <2>3
<1> QED BY <1>13, <1>14, <1>15, <1>17, <1>18, <1>19, <1>20, <1>21 DEF IInv

-----------------------------------------------------------------------------
(* The invariant is inductive *)

LEMMA Initially == Init => IInv
<1> SUFFICES ASSUME Init PROVE IInv
  OBVIOUS
<1>1. chunks = {} /\ held = {} /\ op = [t \in Thread |-> Idle]
  BY DEF Init
<1>2. \A t \in Thread : op[t] = Idle BY <1>1
<1>3. \A s \in Sind : nonempty_slab[s] = <<>> /\ empty_slab[s] = <<>> BY DEF Init
<1>4. PICK none : none = <<>> OBVIOUS
<1>5. none \in Seq(Page) /\ OneEach(none) /\ Elements(none) = {}
  BY <1>4 DEF OneEach, Elements
<1>6. TypeOK
  <2>1. op \in [Thread -> OpType] BY <1>1, IdleOp
  <2>2. \A s \in Sind : Elements(nonempty_slab[s]) = {} /\ Elements(empty_slab[s]) = {}
    BY <1>3, <1>4, <1>5
  <2> QED BY <1>1, <2>1, <2>2 DEF Init, TypeOK
<1>7. ChunksApart /\ SlabsFit /\ HeldPlaced BY <1>1 DEF ChunksApart, SlabsFit, HeldPlaced
<1>8. CallsShaped BY <1>2, IdleOp DEF CallsShaped, CallShape, At
<1>9. Exclusive BY <1>2, IdleOp DEF Exclusive, At
<1>10. \A s \in Sind : Slabs(s) = {} BY <1>1 DEF Slabs
<1>11. BitmapsExact BY <1>10 DEF BitmapsExact
<1>12. ListsOK
  <2>1. \A s \in Sind, b \in BOOLEAN : ListOf(none, s, b) BY <1>5, <1>10 DEF ListOf
  <2> QED BY <1>3, <1>4, <2>1 DEF ListsOK
<1>13. StatsOK
  <2>1. IsFiniteSet({}) /\ Cardinality({}) = 0 BY FS_EmptySet
  <2>2. \A s \in Sind : InUse(s) = {} /\ PagesOf(Slabs(s)) = {} BY <1>10 DEF InUse, PagesOf
  <2>3. PagesOf(Large) = {} BY <1>1 DEF Large, PagesOf
  <2>4. /\ large_request = 0
        /\ \A s \in Sind : request[s] = 0 /\ hold[s] = 0 /\ RegionCells[s] \in Nat
    BY ArenaNumbers DEF Init
  <2> QED BY <2>1, <2>2, <2>3, <2>4 DEF StatsOK
<1> QED BY <1>6, <1>7, <1>8, <1>9, <1>11, <1>12, <1>13 DEF IInv

LEMMA Stutters ==
  ASSUME IInv, UNCHANGED vars
  PROVE  IInv'
<1>1. /\ chunks' = chunks /\ region_size' = region_size /\ bitmap' = bitmap
      /\ nonempty_slab' = nonempty_slab /\ empty_slab' = empty_slab /\ slab_mutex' = slab_mutex
      /\ request' = request /\ hold' = hold /\ large_request' = large_request
      /\ held' = held /\ op' = op
  BY DEF vars, slabs, stats
<1>2. TypeOK' BY <1>1 DEF IInv, TypeOK
<1>3. ChunksApart' /\ SlabsFit' BY <1>1 DEF IInv, ChunksApart, SlabsFit
<1>4. \A s \in Sind : Slabs(s)' = Slabs(s) BY <1>1 DEF Slabs, Releasing, At
<1>5. Returning' = Returning /\ Large' = Large BY <1>1 DEF Returning, At, Large
<1>6. \A s \in Sind : \A c \in Slabs(s) : bitmap'[c.base] = bitmap[c.base] BY <1>1
<1>7. ListsOK' /\ StatsOK' BY <1>1, <1>4, <1>5, <1>6, ListsKept, StatsKept DEF IInv, stats
<1>8. BitmapsExact'
  <2>1. \A s \in Sind : \A c \in Slabs(s)' : \A i \in AllRegions(s) :
          i \in bitmap'[c.base] <=> RegionAt(c.base, s, i) \notin held' \cup Returning'
    BY <1>1, <1>4, <1>5 DEF IInv, BitmapsExact
  <2> QED BY <2>1 DEF BitmapsExact
<1>9. HeldPlaced' BY <1>1 DEF IInv, HeldPlaced, Releasing, At, Piece
<1>10. Exclusive' BY <1>1 DEF IInv, Exclusive, At
<1>11. CallsShaped' BY <1>1 DEF IInv, CallsShaped, CallShape, Slabs, Releasing, At
<1> QED BY <1>2, <1>3, <1>7, <1>8, <1>9, <1>10, <1>11 DEF IInv

\* A thread that waits in SmallAlloc, and one that gets a slab's region.
LEMMA AllocSteps ==
  ASSUME IInv, NEW t \in Thread
  PROVE  /\ \A s \in Sind : SmallAlloc(t, s) => IInv'
         /\ AllocFromSlab(t) \/ LockForSlab(t) \/ NoSlab(t) \/ AllocFromNewSlab(t) => IInv'
<1>1. TypeOK /\ CallShape(t) /\ CallsShaped BY DEF IInv, CallsShaped
<1>2. slab_mutex \in [Sind -> Thread \cup {Nobody}] BY <1>1 DEF TypeOK
<1>3. PICK w \in OpType : w = op[t] BY <1>1 DEF TypeOK
<1>4. ASSUME NEW s \in Sind, SmallAlloc(t, s) PROVE IInv'
  <2>1. PICK i \in OpType : i = Idle BY IdleOp
  <2>2. PICK o : o = [i EXCEPT !.step = "alloc", !.sind = s] OBVIOUS
  <2>3. o \in OpType /\ o.step = "alloc" /\ o.sind = s BY <2>2 DEF OpType
  <2>4. Goto(t, o) BY <1>4, <2>1, <2>2 DEF SmallAlloc
  <2>5. op[t].step = "idle" BY <1>4 DEF SmallAlloc, At
  <2>6. UNCHANGED <<chunks, slabs, stats, held>> /\ slab_mutex' = slab_mutex BY <1>4 DEF SmallAlloc
  <2> QED BY <1>2, <2>3, <2>4, <2>5, <2>6, QuietStep
<1>5. ASSUME LockForSlab(t) PROVE IInv'
  <2>1. PICK s \in Sind : s = op[t].sind BY <1>1, <1>5 DEF LockForSlab, CallShape, At
  <2>2. PICK o : o = [w EXCEPT !.step = "slab"] OBVIOUS
  <2>3. o \in OpType /\ o.step = "slab" /\ o.sind = s BY <1>3, <2>1, <2>2 DEF OpType
  <2>4. Goto(t, o) BY <1>3, <1>5, <2>2 DEF LockForSlab
  <2>5. op[t].step = "alloc" BY <1>5 DEF LockForSlab, At
  <2>6. /\ UNCHANGED <<chunks, slabs, stats, held>> /\ slab_mutex[s] = Nobody
        /\ slab_mutex' = [slab_mutex EXCEPT ![s] = t]
    BY <1>5, <2>1 DEF LockForSlab
  <2>7. /\ slab_mutex' \in [Sind -> Thread \cup {Nobody}] /\ slab_mutex'[s] = t
        /\ \A z \in Sind : slab_mutex[z] \in Thread => slab_mutex'[z] = slab_mutex[z]
    BY <1>2, <2>6, ArenaAssumption
  <2> QED BY <2>3, <2>4, <2>5, <2>6, <2>7, QuietStep
<1>6. ASSUME NoSlab(t) PROVE IInv'
  <2>1. PICK o \in OpType : o = Idle /\ o.step = "idle" BY IdleOp
  <2>2. Goto(t, o) BY <1>6, <2>1 DEF NoSlab
  <2>3. op[t].step = "slab" BY <1>6 DEF NoSlab, At
  <2>4. UNCHANGED <<chunks, slabs, stats, held>> /\ slab_mutex' = slab_mutex BY <1>6 DEF NoSlab
  <2> QED BY <1>2, <2>1, <2>2, <2>3, <2>4, QuietStep
<1>7. ASSUME AllocFromSlab(t) PROVE IInv'
  <2>1. PICK s \in Sind : s = op[t].sind BY <1>1, <1>7 DEF AllocFromSlab, CallShape, At
  <2>2. /\ op[t].step = "alloc" /\ slab_mutex[s] = Nobody /\ nonempty_slab[s] # <<>>
        /\ TakeRegion(t, s) /\ slab_mutex' = slab_mutex
    BY <1>7, <2>1 DEF AllocFromSlab, At
  <2>3. \A u \in Thread : u # t => slab_mutex[s] # u BY <2>2, ArenaAssumption
  <2> QED BY <1>2, <2>2, <2>3, TakeStep
<1>8. ASSUME AllocFromNewSlab(t) PROVE IInv'
  <2>1. PICK s \in Sind : s = op[t].sind BY <1>1, <1>8 DEF AllocFromNewSlab, CallShape, At
  <2>2. /\ op[t].step = "take" /\ slab_mutex[s] = t /\ nonempty_slab[s] # <<>>
        /\ TakeRegion(t, s) /\ slab_mutex' = [slab_mutex EXCEPT ![s] = Nobody]
    BY <1>1, <1>8, <2>1 DEF AllocFromNewSlab, CallShape, At
  <2>3. /\ slab_mutex' \in [Sind -> Thread \cup {Nobody}]
        /\ \A z \in Sind : z # s => slab_mutex'[z] = slab_mutex[z]
    BY <1>2, <2>2
  <2> QED BY <2>2, <2>3, TakeStep
<1> QED BY <1>4, <1>5, <1>6, <1>7, <1>8

LEMMA NextIInv ==
  ASSUME IInv, [Next]_vars
  PROVE  IInv'
<1>1. CASE UNCHANGED vars BY <1>1, Stutters
<1>2. ASSUME NEW t \in Thread, NEW s \in Sind, SmallAlloc(t, s) PROVE IInv' BY <1>2, AllocSteps
<1>3. ASSUME NEW t \in Thread, LargeAlloc(t) PROVE IInv' BY <1>3, LargeStep
<1>4. ASSUME NEW t \in Thread, NEW e \in held, Dalloc(t, e) PROVE IInv' BY <1>4, DallocStep
<1>5. ASSUME NEW t \in Thread, Lock(t) PROVE IInv' BY <1>5, AllocSteps, ReturnStep DEF Lock
<1>6. ASSUME NEW t \in Thread, Run(t) PROVE IInv'
  BY <1>6, AllocSteps, NewSlabStep, ReleaseStep DEF Run
<1> QED BY <1>1, <1>2, <1>3, <1>4, <1>5, <1>6 DEF Next

\* Whatever threads do, IInv stays: every step of arena.cc keeps each of its
\* parts.
THEOREM Inductive == Spec => []IInv
<1>1. IInv /\ [Next]_vars => IInv' BY NextIInv
<1> QED BY <1>1, Initially, PTL DEF Spec

-----------------------------------------------------------------------------
(* What the arena promises *)

\* Every variable of the arena keeps its type; the statistics never drop below 0.
THEOREM TypeCorrect == Spec => []TypeOK
<1>1. IInv => TypeOK BY DEF IInv
<1> QED BY <1>1, Inductive, PTL

\* Of the regions of every slab none is handed out twice, lost, or left without
\* its slab, for any number of threads, classes and pages.
THEOREM RegionsAlwaysPartition == Spec => []RegionsPartition
<1>1. IInv => RegionsPartition
  <2> SUFFICES ASSUME IInv PROVE RegionsPartition
    OBVIOUS
  <2>1. \A e \in held \cup Returning : \E c \in chunks :
          /\ ~Releasing(c.base)
          /\ IF region_size[c.base] = NonSlab THEN e = LargeAt(c)
             ELSE \E i \in AllRegions(region_size[c.base]) :
                    e = RegionAt(c.base, region_size[c.base], i)
    BY OutPlaced DEF Piece
  <2> QED BY <2>1 DEF IInv, BitmapsExact, Exclusive, RegionsPartition
<1> QED BY <1>1, Inductive, PTL

LEMMA ListLength ==
  ASSUME NEW S, NEW list \in Seq(S), OneEach(list)
  PROVE  Cardinality(Elements(list)) = Len(list)
<1>1. PICK n \in Nat : n = Len(list) OBVIOUS
<1>2. \A x : x \in Elements(list) <=> \E k \in 1..n : list[k] = x BY <1>1, ElementsIs
<1>3. PICK f : f = [k \in 1..n |-> list[k]] OBVIOUS
<1>4. f \in [1..n -> Elements(list)] BY <1>2, <1>3
<1>5. \A j, k \in 1..n : f[j] = f[k] => j = k BY <1>1, <1>3 DEF OneEach
<1>6. \A x \in Elements(list) : \E k \in 1..n : f[k] = x BY <1>2, <1>3
<1>7. f \in Bijection(1..n, Elements(list))
  BY <1>4, <1>5, <1>6 DEF Bijection, Injection, Surjection, IsInjective
<1>8. ExistsBijection(1..n, Elements(list)) BY <1>7 DEF ExistsBijection
<1> QED BY <1>1, <1>8, FS_CountingElements

\* Every slab is on the one list that tells whether it has a free region, so the
\* slab SmallAlloc takes first has a region for it.
THEOREM ListsAlwaysExact == Spec => []ListsExact
<1>1. IInv => ListsExact
  <2> SUFFICES ASSUME IInv, NEW s \in Sind
               PROVE  /\ Elements(nonempty_slab[s])
                             = { c.base : c \in { d \in Slabs(s) : bitmap[d.base] # {} } }
                      /\ Elements(empty_slab[s])
                             = { c.base : c \in { d \in Slabs(s) : bitmap[d.base] = {} } }
                      /\ Cardinality(Elements(nonempty_slab[s])) = Len(nonempty_slab[s])
                      /\ Cardinality(Elements(empty_slab[s])) = Len(empty_slab[s])
    BY DEF ListsExact
  <2>1. ListOf(nonempty_slab[s], s, TRUE) /\ ListOf(empty_slab[s], s, FALSE) BY DEF IInv, ListsOK
  <2>2. PICK ne, em : /\ ne = nonempty_slab[s] /\ em = empty_slab[s]
                      /\ ListOf(ne, s, TRUE) /\ ListOf(em, s, FALSE)
    BY <2>1
  <2>3. Elements(ne) = { c.base : c \in { d \in Slabs(s) : bitmap[d.base] # {} } }
    <3>1. \A p : p \in Elements(ne) <=> \E c \in Slabs(s) : c.base = p /\ bitmap[c.base] # {}
      BY <2>2 DEF ListOf
    <3> QED BY <3>1
  <2>4. Elements(em) = { c.base : c \in { d \in Slabs(s) : bitmap[d.base] = {} } }
    BY <2>2 DEF ListOf
  <2>5. Cardinality(Elements(ne)) = Len(ne) /\ Cardinality(Elements(em)) = Len(em)
    BY <2>2, ListLength DEF ListOf
  <2> QED BY <2>2, <2>3, <2>4, <2>5
<1> QED BY <1>1, Inductive, PTL

\* The statistics always tell exactly what is in use.
THEOREM StatsAlwaysExact == Spec => []StatsExact
<1>1. IInv => StatsExact BY DEF IInv, StatsOK, InUse, PagesOf, Large, StatsExact
<1> QED BY <1>1, Inductive, PTL

LEMMA TakesFresh ==
  ASSUME IInv, NEW t \in Thread, NEW s \in Sind, nonempty_slab[s] # <<>>, TakeRegion(t, s)
  PROVE  \E e \in CellExtent : RegionHeap!Alloc(e)
<1>1. TypeOK /\ ChunksOK /\ ListsOK /\ BitmapsExact BY DEF IInv, ChunksOK
<1>2. PICK p, i, e : p = Head(nonempty_slab[s]) /\ i = ffs(bitmap[p]) /\ e = RegionAt(p, s, i)
  OBVIOUS
<1>3. i \in AllRegions(s) /\ e \notin held BY <1>1, <1>2, FirstRegion
<1>4. PICK c \in Slabs(s) : c.base = p BY <1>1, <1>2, FirstRegion
<1>5. c \in chunks /\ Piece(c, e) BY <1>1, <1>2, <1>3, <1>4, SlabFacts
<1>6. e \in CellExtent BY <1>1, <1>5, PieceFacts
<1>7. held' = held \cup {e} BY <1>2 DEF TakeRegion
<1>8. ASSUME NEW x \in held
      PROVE  (e.base..(e.base + e.size - 1)) \cap (x.base..(x.base + x.size - 1)) = {}
  <2>1. PICK d \in chunks : Piece(d, x) BY DEF IInv, HeldPlaced
  <2>2. x \in CellExtent BY <1>1 DEF TypeOK
  <2>3. CellsApart(e, x) BY <1>1, <1>3, <1>5, <2>1, PiecesApart
  <2> QED BY <1>6, <2>2, <2>3, SpansApart
<1>9. \A x \in held : x \in CellExtent BY <1>1 DEF TypeOK
<1>10. RegionHeap!Alloc(e) BY <1>6, <1>7, <1>8, <1>9 DEF RegionHeap!Alloc, RegionHeap!Apart
<1> QED BY <1>6, <1>10

LEMMA LargeTakesFresh ==
  ASSUME IInv, NEW t \in Thread, LargeAlloc(t)
  PROVE  \E e \in CellExtent : RegionHeap!Alloc(e)
<1>1. TypeOK /\ ChunksOK BY DEF IInv, ChunksOK
<1>2. PICK c \in PageExtent : PageHeap!Alloc(c) /\ held' = held \cup {LargeAt(c)} BY DEF LargeAlloc
<1>3. PICK e \in CellExtent : e = LargeAt(c) /\ Inside(c, e) BY LargeInside
<1>4. \A d \in chunks : Before(c, d) \/ Before(d, c) BY <1>1, <1>2, Fresh
<1>5. ASSUME NEW x \in held
      PROVE  (e.base..(e.base + e.size - 1)) \cap (x.base..(x.base + x.size - 1)) = {}
  <2>1. PICK d \in chunks : Piece(d, x) BY DEF IInv, HeldPlaced
  <2>2. d \in PageExtent /\ x \in CellExtent /\ Inside(d, x) BY <1>1, <2>1, PieceFacts
  <2>3. e.base + e.size <= x.base \/ x.base + x.size <= e.base BY <1>3, <1>4, <2>2, InsideApart
  <2> QED BY <2>2, <2>3, SpansApart DEF CellsApart
<1>6. \A x \in held : x \in CellExtent BY <1>1 DEF TypeOK
<1>7. RegionHeap!Alloc(e) BY <1>2, <1>3, <1>5, <1>6 DEF RegionHeap!Alloc, RegionHeap!Apart
<1> QED BY <1>7

LEMMA SmallTakes ==
  ASSUME IInv, NEW t \in Thread, AllocFromSlab(t) \/ AllocFromNewSlab(t)
  PROVE  \E e \in CellExtent : RegionHeap!Alloc(e)
<1>1. CallShape(t) BY DEF IInv, CallsShaped
<1>2. op[t].sind \in Sind /\ nonempty_slab[op[t].sind] # <<>>
  BY <1>1 DEF CallShape, At, AllocFromSlab, AllocFromNewSlab
<1>3. TakeRegion(t, op[t].sind) BY DEF AllocFromSlab, AllocFromNewSlab
<1> QED BY <1>2, <1>3, TakesFresh

LEMMA StepIsHeapStep ==
  ASSUME IInv, Next
  PROVE  held' = held \/ RegionHeap!Next
<1>1. PICK t \in Thread :
        \/ \E s \in Sind : SmallAlloc(t, s)
        \/ LargeAlloc(t)
        \/ \E e \in held : Dalloc(t, e)
        \/ Lock(t) \/ Run(t)
  BY DEF Next
<1>2. ASSUME \E e \in CellExtent : RegionHeap!Alloc(e) PROVE RegionHeap!Next
  BY <1>2 DEF RegionHeap!Next
<1>3. CASE \E s \in Sind : SmallAlloc(t, s) BY <1>3 DEF SmallAlloc
<1>4. CASE LargeAlloc(t) BY <1>2, <1>4, LargeTakesFresh
<1>5. CASE \E e \in held : Dalloc(t, e)
  <2>1. PICK e \in held : held' = held \ {e} BY <1>5 DEF Dalloc
  <2>2. e \in CellExtent BY DEF IInv, TypeOK
  <2>3. RegionHeap!Free(e) BY <2>1 DEF RegionHeap!Free
  <2> QED BY <2>2, <2>3 DEF RegionHeap!Next
<1>6. CASE Lock(t)
  <2>1. CASE AllocFromSlab(t) BY <1>2, <2>1, SmallTakes
  <2>2. CASE LockForSlab(t) BY <2>2 DEF LockForSlab
  <2>3. CASE ReturnRegion(t) BY <2>3 DEF ReturnRegion
  <2> QED BY <1>6, <2>1, <2>2, <2>3 DEF Lock
<1>7. CASE Run(t)
  <2>1. CASE NewSlab(t) BY <2>1 DEF NewSlab
  <2>2. CASE NoSlab(t) BY <2>2 DEF NoSlab
  <2>3. CASE AllocFromNewSlab(t) BY <1>2, <2>3, SmallTakes
  <2>4. CASE Release(t) BY <2>4 DEF Release
  <2> QED BY <1>7, <2>1, <2>2, <2>3, <2>4 DEF Run
<1> QED BY <1>1, <1>3, <1>4, <1>5, <1>6, <1>7

\* On top of the page heap the arena is a heap of cells: what it hands out, of
\* whatever class, to whatever thread, overlaps nothing that is held.
THEOREM RegionHeapImplemented == Spec => ImplementsRegionHeap
<1> DEFINE Takes == \A t \in Thread : AllocFromSlab(t) \/ AllocFromNewSlab(t) =>
                      \E e \in CellExtent : RegionHeap!Alloc(e)
           Heap  == RegionHeap!Next
<1>1. Init => held = {} BY DEF Init
<1>2. IInv /\ [Next]_vars => [Heap]_held
  <2>1. UNCHANGED vars => held' = held BY DEF vars
  <2> QED BY <2>1, StepIsHeapStep
<1>3. IInv /\ [Next]_vars => [Takes]_vars BY SmallTakes
<1>4. ImplementsRegionHeap <=> held = {} /\ [][Heap]_held /\ [][Takes]_vars
  BY DEF ImplementsRegionHeap, RegionHeap!Spec, RegionHeap!Init
<1> HIDE DEF Takes, Heap
<1> QED BY <1>1, <1>2, <1>3, <1>4, Inductive, PTL DEF Spec
=============================================================================
