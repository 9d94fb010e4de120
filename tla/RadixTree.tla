----------------------------- MODULE RadixTree -----------------------------
(***************************************************************************)
(* The page map (radix_tree.h): a tree of three layers that all threads    *)
(* read and write without a lock.  Inner nodes are added when an Insert    *)
(* first needs them, with a compare-and-swap on the empty entry, and stay; *)
(* the loser of that race returns its node to the OS.                      *)
(*                                                                         *)
(* Entries are read and written one at a time, in program order.  Only the *)
(* thread that has a chunk to itself inserts or deletes its pages, so two  *)
(* such calls never meet on one key (ChunkManager!PageMapExact); lookups   *)
(* meet everything.                                                        *)
(*                                                                         *)
(* Left out: NewPermanent failing, whose nullptr the code dereferences.    *)
(***************************************************************************)
EXTENDS Integers

CONSTANTS
  Thread,
  Slot,      \* the indices of a node's entries
  Key,       \* the pages: key3, key2 and key1, the index in each layer
  Element,   \* the chunks
  Node,      \* bound: the nodes the OS has memory for
  Root,      \* root_
  Null       \* nullptr

ASSUME TreeAssumption ==
  /\ Key \subseteq Slot \X Slot \X Slot
  /\ Root \notin Node
  /\ Null \notin Node \cup {Root} \cup Element
  /\ Node \cap Element = {}

VARIABLES
  entry,    \* children or elements of each node
  mapped,   \* the nodes that have memory
  op,       \* the call each thread is in
  seen      \* history: what a lookup's key was mapped to since it began

vars == <<entry, mapped, op, seen>>

NoNode == [s \in Slot |-> Null]

-----------------------------------------------------------------------------
(* The map that the tree represents *)

\* The nodes of layers 2 and 3 on the way to key k, Null where there is none.
Middle(k) == entry[Root][k[1]]
Last(k) == IF Middle(k) = Null THEN Null ELSE entry[Middle(k)][k[2]]

Value(k) == IF Last(k) = Null THEN Null ELSE entry[Last(k)][k[3]]

Map == INSTANCE PageMap WITH map <- [k \in Key |-> Value(k)]

-----------------------------------------------------------------------------
(* Calls *)

Idle == [call |-> "none", step |-> "idle", key |-> Null, element |-> Null,
         node |-> Root, depth |-> 1, temp |-> Null]

At(t, step) == op[t].step = step
Calls(t, calls) == op[t].call \in calls
Goto(t, o) == op' = [op EXCEPT ![t] = o]

\* The entry a call has come to.
Here(t) == entry[op[t].node][op[t].key[op[t].depth]]

Writing(k) == \E t \in Thread : Calls(t, {"Insert", "Delete"}) /\ op[t].key = k

Begin(t, call, k, e) ==
  /\ At(t, "idle")
  /\ Goto(t, [Idle EXCEPT !.call = call, !.step = "read", !.key = k, !.element = e])
  /\ UNCHANGED <<entry, mapped>>

Insert(t, k, e) == ~Writing(k) /\ Begin(t, "Insert", k, e) /\ UNCHANGED seen

\* Delete asserts that the key is there.
Delete(t, k) == ~Writing(k) /\ Value(k) # Null /\ Begin(t, "Delete", k, Null) /\ UNCHANGED seen

LookUp(t, k) == Begin(t, "LookUp", k, Null) /\ seen' = [seen EXCEPT ![t] = {Value(k)}]

\* Down to the next layer.
Descend(t) ==
  /\ At(t, "read") /\ op[t].depth < 3
  /\ Here(t) # Null
  /\ Goto(t, [op[t] EXCEPT !.node = Here(t), !.depth = @ + 1])
  /\ UNCHANGED <<entry, mapped, seen>>

\* Insert finds no node there: NewPermanent maps one, which is all zero.
NewNode(t) ==
  /\ At(t, "read") /\ op[t].depth < 3
  /\ Calls(t, {"Insert"}) /\ Here(t) = Null
  /\ \E n \in Node \ mapped :
       /\ mapped' = mapped \cup {n}
       /\ entry' = [entry EXCEPT ![n] = NoNode]
       /\ Goto(t, [op[t] EXCEPT !.step = "cas", !.temp = n])
  /\ UNCHANGED seen

Store(t, v) == entry' = [entry EXCEPT ![op[t].node] = [@ EXCEPT ![op[t].key[op[t].depth]] = v]]

\* Slip: a plain store in the place of the compare-and-swap.
CasAlways(t) ==
  /\ At(t, "cas")
  /\ Store(t, op[t].temp)
  /\ Goto(t, [op[t] EXCEPT !.step = "read", !.temp = Null])
  /\ UNCHANGED <<mapped, seen>>

\* atomic_cas_simple
Cas(t) ==
  /\ At(t, "cas")
  /\ IF Here(t) = Null
     THEN /\ Store(t, op[t].temp)
          /\ Goto(t, [op[t] EXCEPT !.step = "read", !.temp = Null])
     ELSE /\ Goto(t, [op[t] EXCEPT !.step = "return"])
          /\ UNCHANGED entry
  /\ UNCHANGED <<mapped, seen>>

\* Slip: the node is not returned.
ReturnNodeNot(t) ==
  /\ At(t, "return")
  /\ Goto(t, [op[t] EXCEPT !.step = "read", !.temp = Null])
  /\ UNCHANGED <<entry, mapped, seen>>

\* The loser returns its node and goes on with the winner's.
ReturnNode(t) ==
  /\ At(t, "return")
  /\ mapped' = mapped \ {op[t].temp}
  /\ Goto(t, [op[t] EXCEPT !.step = "read", !.temp = Null])
  /\ UNCHANGED <<entry, seen>>

\* The last layer: Insert stores the element, Delete nullptr.
Write(t) ==
  /\ At(t, "read") /\ op[t].depth = 3
  /\ Calls(t, {"Insert", "Delete"})
  /\ Store(t, op[t].element)
  /\ seen' = [u \in Thread |->
       IF Calls(u, {"LookUp"}) /\ op[u].key = op[t].key
       THEN seen[u] \cup {op[t].element} ELSE seen[u]]
  /\ Goto(t, Idle)
  /\ UNCHANGED mapped

\* LookUp returns what it has come to: an element, or a missing node's nullptr.
Return(t) ==
  /\ At(t, "read")
  /\ Calls(t, {"LookUp"})
  /\ op[t].depth = 3 \/ Here(t) = Null
  /\ Goto(t, Idle)
  /\ seen' = [seen EXCEPT ![t] = {}]
  /\ UNCHANGED <<entry, mapped>>

-----------------------------------------------------------------------------
(* Specification *)

Init ==
  /\ entry = [n \in Node \cup {Root} |-> NoNode]
  /\ mapped = {}
  /\ op = [t \in Thread |-> Idle]
  /\ seen = [t \in Thread |-> {}]

Next == \E t \in Thread :
  \/ \E k \in Key : LookUp(t, k) \/ Delete(t, k) \/ \E e \in Element : Insert(t, k, e)
  \/ Descend(t) \/ NewNode(t) \/ Cas(t) \/ ReturnNode(t) \/ Write(t) \/ Return(t)

Spec == Init /\ [][Next]_vars

-----------------------------------------------------------------------------
(* Properties *)

OpType == [call : {"none", "Insert", "Delete", "LookUp"},
           step : {"idle", "read", "cas", "return"},
           key : Key \cup {Null}, element : Element \cup {Null},
           node : Node \cup {Root}, depth : 1..3, temp : Node \cup {Null}]

\* Every variable has its type.
TypeOK ==
  /\ entry \in [Node \cup {Root} -> [Slot -> Node \cup Element \cup {Null}]]
  /\ mapped \subseteq Node
  /\ op \in [Thread -> OpType]
  /\ seen \in [Thread -> SUBSET (Element \cup {Null})]

InTree == (UNION { {Middle(k), Last(k)} : k \in Key }) \ {Null}
InHand == { op[t].temp : t \in Thread } \ {Null}

\* Every node that has memory is in the tree or in the hands of the one thread
\* that is about to add it: the race to add a node leaks none, and returns none
\* that a thread has come to.  So a Delete finds the nodes it asserts to be
\* there, and the element.
NodesAccounted ==
  /\ TypeOK
  /\ mapped = InTree \cup InHand
  /\ InTree \cap InHand = {}
  /\ \A t, u \in Thread : t # u /\ op[t].temp # Null => op[t].temp # op[u].temp
  /\ \A t \in Thread : op[t].node \in {Root} \cup InTree
  /\ \A t \in Thread : Calls(t, {"Delete"}) => Here(t) # Null

\* A lookup returns what its key was mapped to at some moment during the call,
\* whatever other threads insert, delete and add meanwhile: so a page that
\* stays registered is always found.
LookUpSees == [][\A t \in Thread : Return(t) => Here(t) \in seen[t]]_vars

\* The tree is a map: an Insert or a Delete changes its own key when it writes
\* the element, and nothing else that the threads do changes the map.
ImplementsPageMap ==
  /\ Map!Spec
  /\ [][\A t \in Thread : Write(t) =>
          IF Calls(t, {"Insert"}) THEN Map!Insert(op[t].key, op[t].element)
          ELSE Map!Delete(op[t].key)]_vars
=============================================================================
