------------------------------ MODULE PageMap ------------------------------
(***************************************************************************)
(* What the page map promises: a map from pages to chunks, in which a call *)
(* changes the entry of its own page at once and no other.                 *)
(***************************************************************************)

CONSTANTS Key, Element, Null

VARIABLE map

Init == map = [k \in Key |-> Null]

Insert(k, e) == map' = [map EXCEPT ![k] = e]
Delete(k) == map' = [map EXCEPT ![k] = Null]

Next == \E k \in Key : Delete(k) \/ \E e \in Element : Insert(k, e)

Spec == Init /\ [][Next]_map
=============================================================================
