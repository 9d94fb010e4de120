-------------------------------- MODULE List --------------------------------
(***************************************************************************)
(* The intrusive lists of list.h: rings through a dummy head, of elements  *)
(* that have the two links in themselves.  An element can be on one list   *)
(* at a time and knows neither which nor whether.  The links of all        *)
(* elements and heads are one record.                                      *)
(***************************************************************************)
EXTENDS Integers

CONSTANTS
  Element,   \* what is put on the lists
  Dummy,     \* the lists, each as its dummy_head_
  Null       \* a link that was never written, or overwritten by others

Node == Element \cup Dummy

\* init, of all lists
init ==
  [prev |-> [n \in Node |-> IF n \in Dummy THEN n ELSE Null],
   next |-> [n \in Node |-> IF n \in Dummy THEN n ELSE Null],
   size |-> [h \in Dummy |-> 0]]

first(l, h) == l.next[h]
empty(l, h) == l.size[h] = 0

push(l, h, n) ==
  LET third == first(l, h)
  IN  [prev |-> [l.prev EXCEPT ![third] = n, ![n] = h],
       next |-> [l.next EXCEPT ![n] = third, ![h] = n],
       size |-> [l.size EXCEPT ![h] = @ + 1]]

\* pop, of the node that first returns
pop(l, h) ==
  LET third == l.next[first(l, h)]
  IN  [prev |-> [l.prev EXCEPT ![third] = h],
       next |-> [l.next EXCEPT ![h] = third],
       size |-> [l.size EXCEPT ![h] = @ - 1]]

\* Slip: the node after the one erased keeps its link to it.
eraseForward(l, h, n) ==
  [l EXCEPT !.next[l.prev[n]] = l.next[n], !.size[h] = @ - 1]

erase(l, h, n) ==
  [prev |-> [l.prev EXCEPT ![l.next[n]] = l.prev[n]],
   next |-> [l.next EXCEPT ![l.prev[n]] = l.next[n]],
   size |-> [l.size EXCEPT ![h] = @ - 1]]

\* The node that k links lead to from the head.
Nth(l, h) ==
  LET nth[k \in 0..(l.size[h] + 1)] ==
        IF k = 0 THEN h ELSE IF nth[k - 1] = Null THEN Null ELSE l.next[nth[k - 1]]
  IN  nth

\* The list is a ring of size_ elements, forwards and backwards, each of them
\* once, as else the links would not lead back to the head; so empty() may trust
\* size_, which it asserts.
Ring(l, h) ==
  LET nth == Nth(l, h)
  IN  /\ l.size[h] \in Nat
      /\ \A k \in 1..l.size[h] : nth[k] \in Element
      /\ nth[l.size[h] + 1] = h
      /\ \A k \in 0..l.size[h] : l.prev[nth[k + 1]] = nth[k]

\* The elements of a list that is a ring, first to last.
SeqOf(l, h) == [k \in 1..l.size[h] |-> Nth(l, h)[k]]
=============================================================================
