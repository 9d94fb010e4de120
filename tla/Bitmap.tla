------------------------------- MODULE Bitmap -------------------------------
(***************************************************************************)
(* The bitmap of a slab (bitmap.h): an array of words of which the first   *)
(* num bits tell the free regions.  Slabs of all classes use bitmaps of    *)
(* one size, so that most of them have words, and bits of a word, that do  *)
(* not count; a Chunk is made a slab again and again, of any class.  The   *)
(* code does nothing to a word but by &, |, ~ and shifts of a 1, so a word *)
(* is the set of its bits that are 1.                                      *)
(***************************************************************************)
EXTENDS Integers

CONSTANTS
  kLongBits,   \* bits of a word
  kArraySize   \* words of a bitmap

Words == 0..(kArraySize - 1)
Ones == 0..(kLongBits - 1)

\* The low n bits of a word: & ((1UL << n) - 1), where n is less than kLongBits
LowBits(word, n) == word \cap 0..(n - 1)

last_index(m) == (m.num - 1) \div kLongBits

\* The Chunk() constructor: a bitmap of zeroes and no size.
Zero == [bits |-> [i \in Words |-> {}], num |-> 0]

init(n) ==
  [bits |-> [i \in Words |-> IF n % kLongBits # 0 /\ i = (n - 1) \div kLongBits
                             THEN LowBits(Ones, n % kLongBits) ELSE Ones],
   num |-> n]

test(m, pos) == pos % kLongBits \in m.bits[pos \div kLongBits]

any(m) == \E i \in 0..last_index(m) : m.bits[i] # {}

\* Slip: the last word is compared with a full one in any case.
allWords(m) == \A i \in 0..last_index(m) : m.bits[i] = Ones

all(m) ==
  /\ \A i \in 0..(last_index(m) - 1) : m.bits[i] = Ones
  /\ m.bits[last_index(m)] = IF m.num % kLongBits = 0 THEN Ones
                             ELSE LowBits(Ones, m.num % kLongBits)

\* Slip: the other bits of the word are lost.
set_word(m, pos) == [m EXCEPT !.bits[pos \div kLongBits] = {pos % kLongBits}]

set(m, pos) == [m EXCEPT !.bits[pos \div kLongBits] = @ \cup {pos % kLongBits}]

\* ffs: the first bit of the first word that is not zero; reset clears it.
ffs(m) ==
  LET i == CHOOSE i \in Words : m.bits[i] # {} /\ \A j \in 0..(i - 1) : m.bits[j] = {}
      b == CHOOSE b \in m.bits[i] : \A c \in m.bits[i] : b <= c
  IN  i * kLongBits + b

reset(m, pos) == [m EXCEPT !.bits[pos \div kLongBits] = @ \ {pos % kLongBits}]

\* What the Arena takes a bitmap to be: the set of its free regions.
Free(m) == { pos \in 0..(m.num - 1) : test(m, pos) }
=============================================================================
