---------------------------- MODULE RadixTreeProofs ----------------------------
(***************************************************************************)
(* Proofs about the page map, for any number of threads, pages and nodes:  *)
(* that the nodes are accounted for, that a lookup returns what its key    *)
(* was mapped to during the call, and that the tree is a map.              *)
(*                                                                         *)
(* What makes the lock-free writes safe is that the tree is one: no two    *)
(* paths meet in a node (Paths), and a node that a thread is about to add  *)
(* is empty and nobody else's (FreshNode).  So a compare-and-swap that     *)
(* succeeds changes the value of no key, and a write that of its own.      *)
(***************************************************************************)
EXTENDS RadixTree, TLAPS

-----------------------------------------------------------------------------
(* The inductive invariant *)

\* Entries of the first two layers lead to nodes, those of the last to chunks.
Layers ==
  \A k \in Key : /\ Middle(k) \in Node \cup {Null}
                 /\ Last(k) \in Node \cup {Null}
                 /\ Value(k) \in Element \cup {Null}

\* Each node is reached by one path.
Paths ==
  \A k, l \in Key :
    /\ Middle(k) # Null /\ Middle(k) = Middle(l) => k[1] = l[1]
    /\ Last(k) # Null /\ Last(k) = Last(l) => k[1] = l[1] /\ k[2] = l[2]
    /\ Middle(k) # Null => Middle(k) # Last(l)

\* A call is at the node its depth says, on the path of its key.
Position(t) ==
  LET o == op[t]
  IN  /\ o.step = "idle" <=> o.call = "none"
      /\ o.step = "idle" => o.node = Root
      /\ o.step # "idle" =>
           /\ o.key \in Key
           /\ o.depth = 1 => o.node = Root
           /\ o.depth = 2 => o.node = Middle(o.key) /\ o.node # Null
           /\ o.depth = 3 => o.node = Last(o.key) /\ o.node # Null
      /\ o.step \in {"cas", "return"} => o.call = "Insert" /\ o.depth < 3
      /\ o.step = "return" =>
           (o.depth = 1 => Middle(o.key) # Null) /\ (o.depth = 2 => Last(o.key) # Null)
      /\ o.call = "Insert" => o.element \in Element
      /\ o.call = "Delete" => o.element = Null

\* A node in hand is empty, not in the tree, and in one thread's hand.
FreshNode(t) ==
  LET n == op[t].temp
  IN  /\ n # Null <=> op[t].step \in {"cas", "return"}
      /\ n # Null => /\ n \in mapped
                     /\ entry[n] = NoNode
                     /\ \A k \in Key : n # Middle(k) /\ n # Last(k)
                     /\ \A u \in Thread : u # t => op[u].temp # n

\* Every node that has memory is in the tree or in hand, and the other way round.
MappedExact ==
  /\ \A k \in Key : /\ Middle(k) # Null => Middle(k) \in mapped
                    /\ Last(k) # Null => Last(k) \in mapped
  /\ \A n \in mapped : \/ \E k \in Key : n = Middle(k) \/ n = Last(k)
                       \/ \E t \in Thread : n = op[t].temp

\* What the calls rely on: one writer at a time for a key, a key to delete that
\* is there, and what a lookup may return.
Writes(t) == Calls(t, {"Insert", "Delete"})
CallerKeeps ==
  /\ \A t, u \in Thread : t # u /\ Writes(t) /\ Writes(u) => op[t].key # op[u].key
  /\ \A t \in Thread : Calls(t, {"Delete"}) => Value(op[t].key) # Null
  /\ \A t \in Thread : Calls(t, {"LookUp"}) => Value(op[t].key) \in seen[t]

IInv ==
  /\ TypeOK
  /\ Layers
  /\ Paths
  /\ \A t \in Thread : Position(t)
  /\ \A t \in Thread : FreshNode(t)
  /\ MappedExact
  /\ CallerKeeps


-----------------------------------------------------------------------------
(* The tree and the calls in it *)

LEMMA KeyFacts ==
  ASSUME NEW k \in Key
  PROVE  k[1] \in Slot /\ k[2] \in Slot /\ k[3] \in Slot
BY TreeAssumption

LEMMA KeyIsItsParts ==
  ASSUME NEW k \in Key, NEW l \in Key, k[1] = l[1], k[2] = l[2], k[3] = l[3]
  PROVE  k = l
BY TreeAssumption

\* What a call reads where it stands.
LEMMA HereFacts ==
  ASSUME IInv, NEW t \in Thread, ~At(t, "idle")
  PROVE  /\ op[t].key \in Key
         /\ op[t].depth \in {1, 2, 3}
         /\ op[t].depth = 1 => op[t].node = Root /\ Here(t) = Middle(op[t].key)
         /\ op[t].depth = 2 => op[t].node = Middle(op[t].key) /\ op[t].node # Null
                               /\ Here(t) = Last(op[t].key)
         /\ op[t].depth = 3 => op[t].node = Last(op[t].key) /\ op[t].node # Null
                               /\ Here(t) = Value(op[t].key)
<1>1. Position(t) /\ op[t] \in OpType BY DEF IInv, TypeOK
<1>2. op[t].depth \in {1, 2, 3} /\ op[t].key \in Key
  BY <1>1 DEF OpType, Position, At
<1>3. CASE op[t].depth = 1
  BY <1>1, <1>2, <1>3 DEF Position, At, Here, Middle
<1>4. CASE op[t].depth = 2
  BY <1>1, <1>2, <1>4 DEF Position, At, Here, Middle, Last
<1>5. CASE op[t].depth = 3
  BY <1>1, <1>2, <1>5 DEF Position, At, Here, Last, Value
<1> QED BY <1>2, <1>3, <1>4, <1>5

\* What a step does to the paths: it may add to them, and takes nothing away.
PathsKept == \A k \in Key : Middle(k)' = Middle(k) /\ Last(k)' = Last(k)
PathsGrow == \A k \in Key : /\ Middle(k) # Null => Middle(k)' = Middle(k)
                            /\ Last(k) # Null => Last(k)' = Last(k)
ValuesKept == \A k \in Key : Value(k)' = Value(k)

LEMMA SameEntries ==
  ASSUME entry' = entry
  PROVE  PathsKept /\ PathsGrow /\ ValuesKept
BY DEF PathsKept, PathsGrow, ValuesKept, Middle, Last, Value

\* A call that a step leaves alone keeps its place.
LEMMA PositionKept ==
  ASSUME IInv, PathsGrow, NEW u \in Thread, op'[u] = op[u]
  PROVE  Position(u)'
<1>1. Position(u) BY DEF IInv
<1>2. op[u] \in OpType BY DEF IInv, TypeOK
<1> QED BY <1>1, <1>2 DEF Position, PathsGrow, OpType

LEMMA IdleFacts ==
  /\ Idle \in OpType /\ Idle.call = "none" /\ Idle.step = "idle" /\ Idle.key = Null
  /\ Idle.element = Null /\ Idle.node = Root /\ Idle.depth = 1 /\ Idle.temp = Null
BY DEF Idle, OpType

\* What a step makes of the call of its thread.
OpBecomes(t, o) == op'[t] = o /\ \A u \in Thread : u # t => op'[u] = op[u]

LEMMA OpStep ==
  ASSUME TypeOK, NEW t \in Thread, NEW o \in OpType, Goto(t, o)
  PROVE  OpBecomes(t, o) /\ op' \in [Thread -> OpType]
BY DEF TypeOK, Goto, OpBecomes

\* A step that writes no entry and keeps every node in hand where it is.
LEMMA QuietStep ==
  ASSUME IInv, NEW t \in Thread, NEW o \in OpType, Goto(t, o),
         entry' = entry, mapped' = mapped, o.temp = op[t].temp
  PROVE  /\ Layers' /\ Paths' /\ MappedExact'
         /\ \A u \in Thread : u # t => Position(u)'
         /\ \A u \in Thread : u # t => FreshNode(u)'
         /\ o.step \in {"cas", "return"} <=> op[t].step \in {"cas", "return"} => FreshNode(t)'
<1>1. OpBecomes(t, o) BY OpStep DEF IInv
<1>2. PathsKept /\ PathsGrow /\ ValuesKept BY SameEntries
<1>3. Layers' /\ Paths'
  BY <1>2 DEF IInv, Layers, Paths, PathsKept, ValuesKept
<1>4. \A u \in Thread : op'[u].temp = op[u].temp BY <1>1 DEF OpBecomes
<1>5. MappedExact' BY <1>2, <1>4 DEF IInv, MappedExact, PathsKept
<1>6. \A u \in Thread : u # t => Position(u)'
  BY <1>1, <1>2, PositionKept DEF OpBecomes
<1>7. ASSUME NEW u \in Thread,
             op'[u].step \in {"cas", "return"} <=> op[u].step \in {"cas", "return"}
      PROVE  FreshNode(u)'
  BY <1>2, <1>4, <1>7 DEF IInv, FreshNode, PathsKept, NoNode
<1>8. \A u \in Thread : u # t => FreshNode(u)' BY <1>1, <1>7 DEF OpBecomes
<1> QED BY <1>1, <1>3, <1>5, <1>6, <1>7, <1>8 DEF OpBecomes

\* Insert, Delete and LookUp begin at the root.
LEMMA BeginIInv ==
  ASSUME IInv, NEW t \in Thread, NEW k \in Key,
         \/ LookUp(t, k)
         \/ Delete(t, k)
         \/ \E e \in Element : Insert(t, k, e)
  PROVE  IInv' /\ ValuesKept
<1>1. PICK c \in {"Insert", "Delete", "LookUp"}, e \in Element \cup {Null} :
        /\ Begin(t, c, k, e)
        /\ c = "Insert" => e \in Element
        /\ c = "Delete" => e = Null /\ Value(k) # Null
        /\ c \in {"Insert", "Delete"} => ~Writing(k) /\ seen' = seen
        /\ c = "LookUp" => seen' = [seen EXCEPT ![t] = {Value(k)}]
  BY DEF LookUp, Delete, Insert
<1>o. PICK o : o = [Idle EXCEPT !.call = c, !.step = "read", !.key = k, !.element = e]
  OBVIOUS
<1>2. /\ o \in OpType /\ o.call = c /\ o.step = "read" /\ o.key = k /\ o.element = e
      /\ o.node = Root /\ o.depth = 1 /\ o.temp = Null
  <2>1. o \in OpType BY <1>o, <1>1, IdleFacts DEF OpType
  <2> QED BY <1>o, <2>1, IdleFacts DEF OpType
<1>3. Goto(t, o) /\ entry' = entry /\ mapped' = mapped /\ At(t, "idle") BY <1>o, <1>1 DEF Begin
<1>4. op[t].temp = Null /\ op[t].call = "none" BY <1>3 DEF IInv, FreshNode, Position, At
<1>5. /\ Layers' /\ Paths' /\ MappedExact'
      /\ \A u \in Thread : u # t => Position(u)'
      /\ \A u \in Thread : FreshNode(u)'
  BY <1>2, <1>3, <1>4, QuietStep DEF At
<1>6. ValuesKept BY <1>3, SameEntries
<1>7. OpBecomes(t, o) /\ op' \in [Thread -> OpType] BY <1>2, <1>3, OpStep DEF IInv
<1>8. Position(t)' BY <1>1, <1>2, <1>7 DEF Position, OpBecomes
<1>9. seen' \in [Thread -> SUBSET (Element \cup {Null})] /\ \A u \in Thread : u # t => seen'[u] = seen[u]
  BY <1>1 DEF IInv, TypeOK, Layers
<1>10. CallerKeeps'
  <2>1. ASSUME NEW u \in Thread, op'[u].call # "none"
        PROVE  op'[u].key \in Key /\ (u # t => op[u].call = op'[u].call /\ op'[u].key = op[u].key)
    BY <1>1, <1>2, <1>7, <2>1 DEF IInv, Position, OpBecomes
  <2>2. \A u \in Thread : Calls(u, {"Delete"})' => (Value(op[u].key) # Null)'
    BY <1>1, <1>2, <1>6, <1>7, <2>1 DEF IInv, CallerKeeps, Calls, OpBecomes, ValuesKept
  <2>3. \A u \in Thread : Calls(u, {"LookUp"})' => (Value(op[u].key) \in seen[u])'
    BY <1>1, <1>2, <1>6, <1>7, <1>9, <2>1
    DEF IInv, TypeOK, CallerKeeps, Calls, OpBecomes, ValuesKept
  <2>4. \A u, v \in Thread : u # v /\ Writes(u)' /\ Writes(v)' => op'[u].key # op'[v].key
    BY <1>1, <1>2, <1>7 DEF IInv, CallerKeeps, Calls, Writes, OpBecomes, Writing
  <2> QED BY <2>2, <2>3, <2>4 DEF CallerKeeps
<1>11. TypeOK' BY <1>3, <1>7, <1>9 DEF IInv, TypeOK
<1> QED BY <1>5, <1>6, <1>7, <1>8, <1>10, <1>11 DEF IInv

\* The steps that move calls on or end them, and change no value.
LEMMA CallerKept ==
  ASSUME IInv, ValuesKept,
         \A u \in Thread : \/ op'[u].call = "none"
                           \/ op'[u].call = op[u].call /\ op'[u].key = op[u].key /\ seen'[u] = seen[u]
  PROVE  CallerKeeps'
<1>1. ASSUME NEW u \in Thread, op'[u].call # "none"
      PROVE  /\ op'[u].key \in Key /\ op[u].call = op'[u].call /\ op'[u].key = op[u].key
             /\ seen'[u] = seen[u]
  BY <1>1 DEF IInv, Position
<1>2. \A u \in Thread : Calls(u, {"Delete"})' => (Value(op[u].key) # Null)'
  BY <1>1 DEF IInv, CallerKeeps, Calls, ValuesKept
<1>3. \A u \in Thread : Calls(u, {"LookUp"})' => (Value(op[u].key) \in seen[u])'
  BY <1>1 DEF IInv, CallerKeeps, Calls, ValuesKept
<1>4. \A u, v \in Thread : u # v /\ Writes(u)' /\ Writes(v)' => op'[u].key # op'[v].key
  BY <1>1 DEF IInv, CallerKeeps, Calls, Writes
<1> QED BY <1>2, <1>3, <1>4 DEF CallerKeeps

\* A call goes down on the path of its key.
LEMMA DescendIInv ==
  ASSUME IInv, NEW t \in Thread, Descend(t)
  PROVE  IInv' /\ ValuesKept
<1>o. PICK o : o = [op[t] EXCEPT !.node = Here(t), !.depth = @ + 1] OBVIOUS
<1>1. /\ At(t, "read") /\ op[t].depth < 3 /\ Here(t) # Null
      /\ Goto(t, o) /\ entry' = entry /\ mapped' = mapped /\ seen' = seen
  BY <1>o DEF Descend
<1>2. /\ op[t].key \in Key /\ op[t].depth \in {1, 2}
      /\ op[t].depth = 1 => Here(t) = Middle(op[t].key)
      /\ op[t].depth = 2 => Here(t) = Last(op[t].key)
  BY <1>1, HereFacts DEF At
<1>3. op[t] \in OpType /\ Here(t) \in Node BY <1>1, <1>2 DEF IInv, TypeOK, Layers
<1>4. /\ o \in OpType /\ o.call = op[t].call /\ o.step = op[t].step /\ o.key = op[t].key
      /\ o.element = op[t].element /\ o.node = Here(t) /\ o.depth = op[t].depth + 1
      /\ o.temp = op[t].temp
  <2>1. Here(t) \in Node \cup {Root} /\ op[t].depth + 1 \in 1..3 BY <1>2, <1>3
  <2> QED BY <1>o, <1>3, <2>1 DEF OpType
<1>5. /\ Layers' /\ Paths' /\ MappedExact'
      /\ \A u \in Thread : u # t => Position(u)'
      /\ \A u \in Thread : FreshNode(u)'
  BY <1>1, <1>4, QuietStep
<1>6. OpBecomes(t, o) /\ op' \in [Thread -> OpType] BY <1>1, <1>4, OpStep DEF IInv
<1>7. PathsKept /\ ValuesKept BY <1>1, SameEntries
<1>8. Position(t)'
  <2>1. Position(t) BY DEF IInv
  <2> QED BY <1>1, <1>2, <1>4, <1>6, <1>7, <2>1 DEF Position, OpBecomes, PathsKept, At
<1>9. CallerKeeps' BY <1>1, <1>4, <1>6, <1>7, CallerKept DEF OpBecomes
<1>10. TypeOK' BY <1>1, <1>6 DEF IInv, TypeOK
<1> QED BY <1>5, <1>6, <1>7, <1>8, <1>9, <1>10 DEF IInv

\* A lookup returns.
LEMMA ReturnIInv ==
  ASSUME IInv, NEW t \in Thread, Return(t)
  PROVE  IInv' /\ ValuesKept
<1>1. /\ At(t, "read") /\ Calls(t, {"LookUp"})
      /\ Goto(t, Idle) /\ entry' = entry /\ mapped' = mapped /\ seen' = [seen EXCEPT ![t] = {}]
  BY DEF Return
<1>2. PICK o \in OpType : o = Idle /\ o.call = "none" /\ o.step = "idle" /\ o.temp = Null
                            /\ o.node = Root /\ o.element = Null
  BY IdleFacts
<1>3. op[t].temp = Null BY <1>1 DEF IInv, FreshNode, At
<1>4. /\ Layers' /\ Paths' /\ MappedExact'
      /\ \A u \in Thread : u # t => Position(u)'
      /\ \A u \in Thread : FreshNode(u)'
  <2>1. Goto(t, o) BY <1>1, <1>2
  <2> QED BY <1>1, <1>2, <1>3, <2>1, QuietStep DEF At
<1>5. OpBecomes(t, o) /\ op' \in [Thread -> OpType] BY <1>1, <1>2, OpStep DEF IInv
<1>6. ValuesKept BY <1>1, SameEntries
<1>7. Position(t)' BY <1>2, <1>5 DEF Position, OpBecomes
<1>8. seen' \in [Thread -> SUBSET (Element \cup {Null})] /\ \A u \in Thread : u # t => seen'[u] = seen[u]
  BY <1>1 DEF IInv, TypeOK
<1>9. CallerKeeps' BY <1>2, <1>5, <1>6, <1>8, CallerKept DEF OpBecomes
<1>10. TypeOK' BY <1>1, <1>5, <1>8 DEF IInv, TypeOK
<1> QED BY <1>4, <1>5, <1>6, <1>7, <1>9, <1>10 DEF IInv

\* The node that a call returns to the OS is in nobody's reach.
LEMMA ReturnNodeIInv ==
  ASSUME IInv, NEW t \in Thread, ReturnNode(t)
  PROVE  IInv' /\ ValuesKept
<1>o. PICK o : o = [op[t] EXCEPT !.step = "read", !.temp = Null] OBVIOUS
<1> DEFINE n == op[t].temp
<1>1. /\ At(t, "return") /\ mapped' = mapped \ {n}
      /\ Goto(t, o) /\ entry' = entry /\ seen' = seen
  BY <1>o DEF ReturnNode
<1>2. op[t] \in OpType BY DEF IInv, TypeOK
<1>3. /\ o \in OpType /\ o.call = op[t].call /\ o.step = "read" /\ o.key = op[t].key
      /\ o.element = op[t].element /\ o.node = op[t].node /\ o.depth = op[t].depth
      /\ o.temp = Null
  BY <1>o, <1>2 DEF OpType
<1>4. /\ n # Null
      /\ \A k \in Key : n # Middle(k) /\ n # Last(k)
      /\ \A u \in Thread : u # t => op[u].temp # n
  BY <1>1 DEF IInv, FreshNode, At
<1>5. OpBecomes(t, o) /\ op' \in [Thread -> OpType] BY <1>1, <1>3, OpStep DEF IInv
<1>6. PathsKept /\ PathsGrow /\ ValuesKept BY <1>1, SameEntries
<1>7. Layers' /\ Paths'
  BY <1>6 DEF IInv, Layers, Paths, PathsKept, ValuesKept
<1>8. MappedExact'
  <2>1. \A u \in Thread : u # t => op'[u].temp = op[u].temp BY <1>5 DEF OpBecomes
  <2> QED BY <1>1, <1>4, <1>6, <2>1 DEF IInv, MappedExact, PathsKept
<1>9. \A u \in Thread : FreshNode(u)'
  <2>1. FreshNode(t)' BY <1>3, <1>5 DEF FreshNode, OpBecomes
  <2>2. ASSUME NEW u \in Thread, u # t PROVE FreshNode(u)'
    BY <1>1, <1>3, <1>4, <1>5, <1>6, <2>2 DEF IInv, FreshNode, OpBecomes, PathsKept, NoNode
  <2> QED BY <2>1, <2>2
<1>10. \A u \in Thread : Position(u)'
  <2>1. Position(t)'
    <3>1. Position(t) BY DEF IInv
    <3> QED BY <1>1, <1>3, <1>5, <1>6, <3>1 DEF Position, OpBecomes, PathsKept, At
  <2> QED BY <1>5, <1>6, <2>1, PositionKept DEF OpBecomes
<1>11. CallerKeeps' BY <1>1, <1>3, <1>5, <1>6, CallerKept DEF OpBecomes
<1>12. TypeOK' BY <1>1, <1>5 DEF IInv, TypeOK
<1> QED BY <1>6, <1>7, <1>8, <1>9, <1>10, <1>11, <1>12 DEF IInv

\* A new node is nobody's: no path leads to it and no call is at it.
LEMMA NewNodeIInv ==
  ASSUME IInv, NEW t \in Thread, NewNode(t)
  PROVE  IInv' /\ ValuesKept
<1>1. PICK n \in Node \ mapped :
        /\ mapped' = mapped \cup {n}
        /\ entry' = [entry EXCEPT ![n] = NoNode]
        /\ Goto(t, [op[t] EXCEPT !.step = "cas", !.temp = n])
  BY DEF NewNode
<1>o. PICK o : o = [op[t] EXCEPT !.step = "cas", !.temp = n] OBVIOUS
<1>2. At(t, "read") /\ op[t].depth < 3 /\ Calls(t, {"Insert"}) /\ seen' = seen /\ Goto(t, o)
  BY <1>1, <1>o DEF NewNode
<1>3. op[t] \in OpType BY DEF IInv, TypeOK
<1>4. /\ o \in OpType /\ o.call = op[t].call /\ o.step = "cas" /\ o.key = op[t].key
      /\ o.element = op[t].element /\ o.node = op[t].node /\ o.depth = op[t].depth
      /\ o.temp = n
  BY <1>o, <1>3 DEF OpType
<1>5. /\ n # Null /\ n # Root
      /\ \A k \in Key : n # Middle(k) /\ n # Last(k)
      /\ \A u \in Thread : op[u].temp # n
  BY TreeAssumption DEF IInv, MappedExact, FreshNode
<1>6. /\ \A m \in (Node \cup {Root}) \ {n} : entry'[m] = entry[m]
      /\ entry'[n] = NoNode
      /\ entry' \in [Node \cup {Root} -> [Slot -> Node \cup Element \cup {Null}]]
  BY <1>1 DEF IInv, TypeOK, NoNode
<1>7. PathsKept /\ PathsGrow /\ ValuesKept
  <2>1. ASSUME NEW k \in Key
        PROVE  Middle(k)' = Middle(k) /\ Last(k)' = Last(k) /\ Value(k)' = Value(k)
    <3>1. Middle(k) \in (Node \cup {Null}) \ {n} /\ Last(k) \in (Node \cup {Null}) \ {n}
      BY <1>5 DEF IInv, Layers
    <3>2. Middle(k)' = Middle(k) BY <1>5, <1>6 DEF Middle
    <3>3. Last(k)' = Last(k) BY <1>6, <3>1, <3>2 DEF Last
    <3> QED BY <1>6, <3>1, <3>2, <3>3 DEF Value
  <2> QED BY <2>1 DEF PathsKept, PathsGrow, ValuesKept
<1>8. OpBecomes(t, o) /\ op' \in [Thread -> OpType] BY <1>2, <1>4, OpStep DEF IInv
<1>9. Layers' /\ Paths'
  BY <1>7 DEF IInv, Layers, Paths, PathsKept, ValuesKept
<1>10. MappedExact'
  <2>1. op[t].temp = Null BY <1>2 DEF IInv, FreshNode, At
  <2>2. op'[t].temp = n /\ \A u \in Thread : u # t => op'[u].temp = op[u].temp
    BY <1>4, <1>8 DEF OpBecomes
  <2>3. Null \notin mapped BY TreeAssumption DEF IInv, TypeOK
  <2> QED BY <1>1, <1>7, <2>1, <2>2, <2>3 DEF IInv, MappedExact, PathsKept
<1>11. \A u \in Thread : FreshNode(u)'
  <2>1. FreshNode(t)'
    BY <1>1, <1>4, <1>5, <1>6, <1>7, <1>8 DEF FreshNode, OpBecomes, PathsKept, NoNode
  <2>2. ASSUME NEW u \in Thread, u # t PROVE FreshNode(u)'
    <3>1. FreshNode(u) /\ op[u].temp \in Node \cup {Null} BY DEF IInv, TypeOK, OpType
    <3> QED BY <1>1, <1>4, <1>5, <1>6, <1>7, <1>8, <2>2, <3>1
            DEF FreshNode, OpBecomes, PathsKept, NoNode
  <2> QED BY <2>1, <2>2
<1>12. \A u \in Thread : Position(u)'
  <2>1. Position(t)'
    <3>1. Position(t) BY DEF IInv
    <3> QED BY <1>2, <1>4, <1>7, <1>8, <3>1 DEF Position, OpBecomes, PathsKept, At, Calls
  <2> QED BY <1>7, <1>8, <2>1, PositionKept DEF OpBecomes
<1>13. CallerKeeps' BY <1>2, <1>4, <1>7, <1>8, CallerKept DEF OpBecomes
<1>14. TypeOK' BY <1>1, <1>2, <1>6, <1>8 DEF IInv, TypeOK
<1> QED BY <1>7, <1>9, <1>10, <1>11, <1>12, <1>13, <1>14 DEF IInv

\* A store writes one entry of one node.
LEMMA StoreEntry ==
  ASSUME TypeOK, NEW t \in Thread, NEW v \in Node \cup Element \cup {Null}, Store(t, v),
         op[t].node \in Node \cup {Root}, op[t].key[op[t].depth] \in Slot
  PROVE  /\ entry' \in [Node \cup {Root} -> [Slot -> Node \cup Element \cup {Null}]]
         /\ \A m \in Node \cup {Root}, j \in Slot :
              entry'[m][j] = IF m = op[t].node /\ j = op[t].key[op[t].depth]
                             THEN v ELSE entry[m][j]
<1> DEFINE n == op[t].node
           i == op[t].key[op[t].depth]
<1>1. entry' = [entry EXCEPT ![n] = [@ EXCEPT ![i] = v]] BY DEF Store
<1>2. entry \in [Node \cup {Root} -> [Slot -> Node \cup Element \cup {Null}]] BY DEF TypeOK
<1>3. n \in Node \cup {Root} /\ i \in Slot OBVIOUS
<1> HIDE DEF n, i
<1>4. /\ entry' \in [Node \cup {Root} -> [Slot -> Node \cup Element \cup {Null}]]
      /\ \A m \in Node \cup {Root}, j \in Slot :
           entry'[m][j] = IF m = n /\ j = i THEN v ELSE entry[m][j]
  BY <1>1, <1>2, <1>3
<1> QED BY <1>4 DEF n, i

\* The path to key k after the call of t has added its node at K, its place.
Adds(t, K) ==
  LET n == op[t].temp
  IN  \/ /\ Middle(K) = Null
         /\ \A k \in Key : /\ Middle(k)' = IF k[1] = K[1] THEN n ELSE Middle(k)
                           /\ Last(k)' = Last(k)
      \/ /\ Middle(K) # Null /\ Last(K) = Null
         /\ \A k \in Key : /\ Middle(k)' = Middle(k)
                           /\ Last(k)' = IF k[1] = K[1] /\ k[2] = K[2] THEN n ELSE Last(k)

\* A compare-and-swap that succeeds adds a node where there was none, and an
\* empty one: no key changes its value.
LEMMA CasAdds ==
  ASSUME IInv, NEW t \in Thread, At(t, "cas"), Here(t) = Null, Store(t, op[t].temp)
  PROVE  /\ Adds(t, op[t].key) /\ ValuesKept
         /\ \A m \in Node : m # op[t].node => entry'[m] = entry[m]
         /\ entry' \in [Node \cup {Root} -> [Slot -> Node \cup Element \cup {Null}]]
<1> DEFINE n == op[t].temp
           K == op[t].key
           p == op[t].node
           i == K[op[t].depth]
<1>1. /\ K \in Key /\ op[t].depth \in {1, 2}
      /\ op[t].depth = 1 => p = Root /\ Middle(K) = Null
      /\ op[t].depth = 2 => p = Middle(K) /\ p # Null /\ Last(K) = Null
  <2>1. op[t].depth # 3 BY DEF IInv, Position, At
  <2> QED BY <2>1, HereFacts DEF At
<1>2. /\ n \in Node /\ n # Null /\ entry[n] = NoNode
      /\ \A k \in Key : n # Middle(k) /\ n # Last(k)
  BY DEF IInv, FreshNode, At, TypeOK
<1>3. p \in Node \cup {Root} /\ i \in Slot BY <1>1, KeyFacts DEF IInv, Layers
<1>4. /\ entry' \in [Node \cup {Root} -> [Slot -> Node \cup Element \cup {Null}]]
      /\ \A m \in Node \cup {Root}, j \in Slot :
           entry'[m][j] = IF m = p /\ j = i THEN n ELSE entry[m][j]
  <2>1. Store(t, n) /\ n \in Node \cup Element \cup {Null} BY <1>2
  <2> QED BY <1>3, <2>1, StoreEntry DEF IInv
<1>5. \A m \in Node : m # p => entry'[m] = entry[m] BY <1>4 DEF IInv, TypeOK
<1>6. /\ \A k \in Key : /\ k[1] \in Slot /\ k[2] \in Slot /\ k[3] \in Slot
                        /\ Middle(k) \in Node \cup {Null} /\ Last(k) \in Node \cup {Null}
      /\ Root \notin Node /\ Null \notin Node /\ Null # Root
  BY KeyFacts, TreeAssumption DEF IInv, Layers
<1>7. \A j \in Slot : entry[n][j] = Null BY <1>2 DEF NoNode
<1> HIDE DEF n, K, p, i
<1>8. CASE op[t].depth = 1
  <2>0. p = Root /\ Middle(K) = Null /\ i = K[1] BY <1>1, <1>8 DEF i
  <2>1. ASSUME NEW k \in Key
        PROVE  /\ Middle(k)' = IF k[1] = K[1] THEN n ELSE Middle(k)
               /\ Last(k)' = Last(k) /\ Value(k)' = Value(k)
    <3>1. Middle(k)' = IF k[1] = K[1] THEN n ELSE Middle(k) BY <1>4, <1>6, <2>0 DEF Middle
    <3>2. k[1] = K[1] => Middle(k) = Null BY <2>0 DEF Middle
    <3>3. Last(k)' = Last(k)
      <4>1. CASE k[1] = K[1]
        <5>1. Last(k) = Null BY <3>2, <4>1 DEF Last
        <5>2. entry'[n][k[2]] = Null BY <1>2, <1>4, <1>6, <1>7, <2>0
        <5> QED BY <3>1, <4>1, <5>1, <5>2 DEF Last
      <4>2. CASE k[1] # K[1] BY <1>4, <1>6, <2>0, <3>1, <4>2 DEF Last
      <4> QED BY <4>1, <4>2
    <3>4. Value(k)' = Value(k) BY <1>4, <1>6, <2>0, <3>3 DEF Value
    <3> QED BY <3>1, <3>3, <3>4
  <2> QED BY <1>4, <1>5, <2>0, <2>1 DEF Adds, ValuesKept, n, K, p
<1>9. CASE op[t].depth = 2
  <2>0. p = Middle(K) /\ p # Null /\ Last(K) = Null /\ i = K[2] BY <1>1, <1>9 DEF i
  <2>1. ASSUME NEW k \in Key
        PROVE  /\ Middle(k)' = Middle(k)
               /\ Last(k)' = IF k[1] = K[1] /\ k[2] = K[2] THEN n ELSE Last(k)
               /\ Value(k)' = Value(k)
    <3>1. Middle(k)' = Middle(k) BY <1>4, <1>6, <1>1, <2>0 DEF Middle
    <3>2. Middle(k) = p <=> k[1] = K[1]
      <4>1. k[1] = K[1] => Middle(k) = p BY <2>0 DEF Middle
      <4>2. Middle(k) = p => k[1] = K[1] BY <1>1, <2>0 DEF IInv, Paths, K
      <4> QED BY <4>1, <4>2
    <3>3. Last(k)' = IF k[1] = K[1] /\ k[2] = K[2] THEN n ELSE Last(k)
      <4>1. CASE Middle(k) = Null BY <2>0, <3>1, <3>2, <4>1 DEF Last
      <4>2. CASE Middle(k) # Null
        <5>1. Last(k)' = entry'[Middle(k)][k[2]] BY <3>1, <4>2 DEF Last
        <5> QED BY <1>4, <1>6, <2>0, <3>2, <4>2, <5>1 DEF Last
      <4> QED BY <4>1, <4>2
    <3>4. k[1] = K[1] /\ k[2] = K[2] => Last(k) = Null BY <2>0 DEF Last, Middle
    <3>5. Last(k) # p BY <1>1, <2>0 DEF IInv, Paths, K
    <3>6. Value(k)' = Value(k)
      <4>1. CASE k[1] = K[1] /\ k[2] = K[2]
        <5>1. Value(k) = Null BY <3>4, <4>1 DEF Value
        <5>2. n # p BY <1>1, <1>2, <2>0 DEF K
        <5>3. entry'[n][k[3]] = Null BY <1>2, <1>4, <1>6, <1>7, <5>2 DEF n
        <5> QED BY <3>3, <4>1, <5>1, <5>3 DEF Value
      <4>2. CASE ~(k[1] = K[1] /\ k[2] = K[2])
        BY <1>4, <1>6, <3>3, <3>5, <4>2 DEF Value
      <4> QED BY <4>1, <4>2
    <3> QED BY <3>1, <3>3, <3>6
  <2>2. Middle(K) # Null /\ Last(K) = Null BY <2>0
  <2> QED BY <1>4, <1>5, <2>1, <2>2 DEF Adds, ValuesKept, n, K, p
<1> QED BY <1>1, <1>8, <1>9

\* Adding a node keeps the tree a tree.
LEMMA AddsPaths ==
  ASSUME IInv, NEW t \in Thread, NEW K \in Key, Adds(t, K), ValuesKept,
         op[t].temp \in Node, \A k \in Key : op[t].temp # Middle(k) /\ op[t].temp # Last(k)
  PROVE  Layers' /\ Paths' /\ PathsGrow
<1> DEFINE n == op[t].temp
<1>1. n # Null BY TreeAssumption
<1>2. \A k \in Key : /\ k[1] = K[1] => Middle(k) = Middle(K)
                     /\ k[1] = K[1] /\ k[2] = K[2] => Last(k) = Last(K)
  BY DEF Middle, Last
<1>3. Layers' BY <1>1 DEF IInv, Layers, Adds, ValuesKept
<1>4. PathsGrow BY <1>2 DEF Adds, PathsGrow
<1>5. CASE Middle(K) = Null
  <2>1. \A k \in Key : /\ Middle(k)' = IF k[1] = K[1] THEN n ELSE Middle(k)
                       /\ Last(k)' = Last(k)
    BY <1>5 DEF Adds
  <2> HIDE DEF n
  <2>2. \A k \in Key : n # Middle(k) /\ n # Last(k) BY DEF n
  <2>3. Paths' BY <1>1, <2>1, <2>2 DEF IInv, Paths
  <2> QED BY <1>3, <1>4, <2>3
<1>6. CASE Middle(K) # Null
  <2>1. \A k \in Key : /\ Middle(k)' = Middle(k)
                       /\ Last(k)' = IF k[1] = K[1] /\ k[2] = K[2] THEN n ELSE Last(k)
    BY <1>6 DEF Adds
  <2> HIDE DEF n
  <2>2. \A k \in Key : n # Middle(k) /\ n # Last(k) BY DEF n
  <2>3. Paths' BY <1>1, <2>1, <2>2 DEF IInv, Paths
  <2> QED BY <1>3, <1>4, <2>3
<1> QED BY <1>5, <1>6

\* The compare-and-swap, won or lost.
LEMMA CasIInv ==
  ASSUME IInv, NEW t \in Thread, Cas(t)
  PROVE  IInv' /\ ValuesKept
<1> DEFINE n == op[t].temp
<1>1. op[t] \in OpType BY DEF IInv, TypeOK
<1>2. At(t, "cas") /\ mapped' = mapped /\ seen' = seen BY DEF Cas
<1>3. /\ n \in Node /\ n # Null /\ n \in mapped
      /\ \A k \in Key : n # Middle(k) /\ n # Last(k)
      /\ \A u \in Thread : u # t => op[u].temp # n
  BY <1>1, <1>2 DEF IInv, FreshNode, At, OpType
<1>4. PICK K \in Key : K = op[t].key BY <1>2, HereFacts DEF At
<1>5. CASE Here(t) = Null
  <2>o. PICK o : o = [op[t] EXCEPT !.step = "read", !.temp = Null] OBVIOUS
  <2>1. Store(t, n) /\ Goto(t, o) BY <1>5, <2>o DEF Cas
  <2>2. /\ o \in OpType /\ o.call = op[t].call /\ o.step = "read" /\ o.key = K
        /\ o.element = op[t].element /\ o.node = op[t].node /\ o.depth = op[t].depth
        /\ o.temp = Null
    BY <1>1, <1>4, <2>o DEF OpType
  <2>3. /\ Adds(t, K) /\ ValuesKept
        /\ \A m \in Node : m # op[t].node => entry'[m] = entry[m]
        /\ entry' \in [Node \cup {Root} -> [Slot -> Node \cup Element \cup {Null}]]
    BY <1>2, <1>4, <1>5, <2>1, CasAdds
  <2>4. Layers' /\ Paths' /\ PathsGrow BY <1>3, <1>4, <2>3, AddsPaths
  <2>5. OpBecomes(t, o) /\ op' \in [Thread -> OpType] BY <2>1, <2>2, OpStep DEF IInv
  <2>6. /\ \A k \in Key : /\ Middle(k)' \in {Middle(k), n} /\ Last(k)' \in {Last(k), n}
        /\ Middle(K)' = n \/ Last(K)' = n
    BY <2>3 DEF Adds
  <2>7. MappedExact'
    <3>1. \A u \in Thread : u # t => op'[u].temp = op[u].temp BY <2>5 DEF OpBecomes
    <3>2. \A k \in Key : /\ Middle(k)' # Null => Middle(k)' \in mapped
                         /\ Last(k)' # Null => Last(k)' \in mapped
      BY <1>3, <2>6 DEF IInv, MappedExact
    <3>3. ASSUME NEW m \in mapped
          PROVE  \/ \E k \in Key : m = Middle(k)' \/ m = Last(k)'
                 \/ \E u \in Thread : m = op'[u].temp
      <4>1. CASE m = n BY <1>4, <2>6, <4>1
      <4>2. CASE \E k \in Key : m = Middle(k) \/ m = Last(k)
        <5>1. m # Null BY TreeAssumption DEF IInv, TypeOK
        <5> QED BY <2>4, <4>2, <5>1 DEF PathsGrow
      <4>3. CASE \E u \in Thread : u # t /\ m = op[u].temp BY <3>1, <4>3
      <4> QED BY <4>1, <4>2, <4>3 DEF IInv, MappedExact
    <3> QED BY <1>2, <3>2, <3>3 DEF MappedExact
  <2>8. \A u \in Thread : FreshNode(u)'
    <3>1. FreshNode(t)' BY <2>2, <2>5 DEF FreshNode, OpBecomes
    <3>2. ASSUME NEW u \in Thread, u # t PROVE FreshNode(u)'
      <4>1. FreshNode(u) /\ op[u].temp \in Node \cup {Null} /\ op'[u] = op[u]
        BY <2>5, <3>2 DEF IInv, TypeOK, OpType, OpBecomes
      <4>2. op[u].temp # Null => op[u].temp # op[t].node
        <5>1. op[t].node = Root \/ op[t].node = Middle(K) \/ op[t].node = Last(K)
          BY <1>2, <1>4, HereFacts DEF At
        <5> QED BY <1>4, <4>1, <5>1, TreeAssumption DEF FreshNode
      <4>3. op[u].temp # Null => entry'[op[u].temp] = NoNode BY <2>3, <4>1, <4>2 DEF FreshNode
      <4>4. \A v \in Thread : v # u => op'[v].temp # op[u].temp \/ op[u].temp = Null
        BY <2>2, <2>5, <4>1 DEF FreshNode, OpBecomes
      <4> QED BY <1>2, <1>3, <2>6, <3>2, <4>1, <4>3, <4>4 DEF FreshNode, NoNode
    <3> QED BY <3>1, <3>2
  <2>9. \A u \in Thread : Position(u)'
    <3>1. Position(t)'
      <4>1. Position(t) BY DEF IInv
      <4> QED BY <1>2, <1>4, <2>2, <2>4, <2>5, <4>1 DEF Position, OpBecomes, PathsGrow, At
    <3> QED BY <2>4, <2>5, <3>1, PositionKept DEF OpBecomes
  <2>10. CallerKeeps' BY <1>2, <1>4, <2>2, <2>3, <2>5, CallerKept DEF OpBecomes
  <2>11. TypeOK' BY <1>2, <2>3, <2>5 DEF IInv, TypeOK
  <2> QED BY <2>3, <2>4, <2>7, <2>8, <2>9, <2>10, <2>11 DEF IInv
<1>6. CASE Here(t) # Null
  <2>o. PICK o : o = [op[t] EXCEPT !.step = "return"] OBVIOUS
  <2>1. entry' = entry /\ Goto(t, o) BY <1>6, <2>o DEF Cas
  <2>2. /\ o \in OpType /\ o.call = op[t].call /\ o.step = "return" /\ o.key = K
        /\ o.element = op[t].element /\ o.node = op[t].node /\ o.depth = op[t].depth
        /\ o.temp = n
    BY <1>1, <1>4, <2>o DEF OpType
  <2>3. /\ Layers' /\ Paths' /\ MappedExact'
        /\ \A u \in Thread : u # t => Position(u)'
        /\ \A u \in Thread : FreshNode(u)'
    BY <1>2, <2>1, <2>2, QuietStep DEF At
  <2>4. OpBecomes(t, o) /\ op' \in [Thread -> OpType] BY <2>1, <2>2, OpStep DEF IInv
  <2>5. PathsKept /\ ValuesKept BY <2>1, SameEntries
  <2>6. Position(t)'
    <3>1. Position(t) BY DEF IInv
    <3>2. /\ op[t].depth = 1 => Middle(K) # Null
          /\ op[t].depth = 2 => Last(K) # Null
      BY <1>2, <1>4, <1>6, HereFacts DEF At
    <3> QED BY <1>2, <1>4, <2>2, <2>4, <2>5, <3>1, <3>2 DEF Position, OpBecomes, PathsKept, At
  <2>7. CallerKeeps' BY <1>2, <1>4, <2>2, <2>4, <2>5, CallerKept DEF OpBecomes
  <2>8. TypeOK' BY <1>2, <2>1, <2>4 DEF IInv, TypeOK
  <2> QED BY <2>3, <2>5, <2>6, <2>7, <2>8 DEF IInv
<1> QED BY <1>5, <1>6

\* A write of the last layer: its key is mapped to the element, or to nothing.
LEMMA WriteStores ==
  ASSUME IInv, NEW t \in Thread, Write(t)
  PROVE  /\ PathsKept /\ op[t].key \in Key /\ op[t].element \in Element \cup {Null}
         /\ \A k \in Key : Value(k)' = IF k = op[t].key THEN op[t].element ELSE Value(k)
         /\ \A n \in Node : op[t].node # n => entry'[n] = entry[n]
         /\ entry' \in [Node \cup {Root} -> [Slot -> Node \cup Element \cup {Null}]]
         /\ op[t].node = Last(op[t].key)
<1>1. At(t, "read") /\ op[t].depth = 3 /\ Store(t, op[t].element) BY DEF Write
<1>2. PICK K \in Key : K = op[t].key /\ op[t].node = Last(K) /\ Last(K) # Null
  BY <1>1, HereFacts DEF At
<1>3. PICK p : p = Last(K) OBVIOUS
<1>4. PICK v \in Element \cup {Null} : v = op[t].element BY DEF IInv, TypeOK, OpType
<1>5. p \in Node /\ p = op[t].node /\ K[3] \in Slot /\ op[t].key[op[t].depth] = K[3]
  BY <1>1, <1>2, <1>3, KeyFacts DEF IInv, Layers
<1>6. /\ entry' \in [Node \cup {Root} -> [Slot -> Node \cup Element \cup {Null}]]
      /\ \A m \in Node \cup {Root}, j \in Slot :
           entry'[m][j] = IF m = p /\ j = K[3] THEN v ELSE entry[m][j]
  <2>1. Store(t, v) /\ v \in Node \cup Element \cup {Null} BY <1>1, <1>4
  <2>2. op[t].node \in Node \cup {Root} /\ op[t].key[op[t].depth] \in Slot BY <1>5
  <2>3. /\ entry' \in [Node \cup {Root} -> [Slot -> Node \cup Element \cup {Null}]]
        /\ \A m \in Node \cup {Root}, j \in Slot :
             entry'[m][j] = IF m = op[t].node /\ j = op[t].key[op[t].depth]
                            THEN v ELSE entry[m][j]
    BY <2>1, <2>2, StoreEntry DEF IInv
  <2> QED BY <1>5, <2>3
<1>7. \A m \in Node : m # p => entry'[m] = entry[m] BY <1>6 DEF IInv, TypeOK
<1>8. /\ \A k \in Key : /\ k[1] \in Slot /\ k[2] \in Slot /\ k[3] \in Slot
                        /\ Middle(k) \in Node \cup {Null} /\ Last(k) \in Node \cup {Null}
      /\ Root \notin Node /\ Null \notin Node
  BY KeyFacts, TreeAssumption DEF IInv, Layers
<1>9. ASSUME NEW k \in Key
      PROVE  /\ Middle(k)' = Middle(k) /\ Last(k)' = Last(k)
             /\ Value(k)' = IF k = K THEN v ELSE Value(k)
  <2>1. Middle(k)' = Middle(k) BY <1>5, <1>6, <1>8 DEF Middle
  <2>2. Middle(k) # p
    <3>1. Middle(k) # Null => Middle(k) # Last(K) BY DEF IInv, Paths
    <3> QED BY <1>2, <1>3, <3>1
  <2>3. Last(k)' = Last(k) BY <1>6, <1>8, <2>1, <2>2 DEF Last
  <2>4. Last(k) = p => k[1] = K[1] /\ k[2] = K[2] BY <1>2, <1>3 DEF IInv, Paths
  <2>5. CASE k = K BY <1>2, <1>3, <1>5, <1>6, <2>1, <2>3, <2>5 DEF Value
  <2>6. CASE k # K
    <3>1. Last(k) # p \/ k[3] # K[3] BY <2>4, <2>6, KeyIsItsParts
    <3> QED BY <1>6, <1>8, <2>1, <2>3, <2>6, <3>1 DEF Value
  <2> QED BY <2>1, <2>3, <2>5, <2>6
<1> QED BY <1>2, <1>3, <1>4, <1>6, <1>7, <1>9 DEF PathsKept

LEMMA WriteIInv ==
  ASSUME IInv, NEW t \in Thread, Write(t)
  PROVE  IInv'
<1>1. /\ At(t, "read") /\ Writes(t) /\ mapped' = mapped /\ Goto(t, Idle)
      /\ seen' = [u \in Thread |->
           IF Calls(u, {"LookUp"}) /\ op[u].key = op[t].key
           THEN seen[u] \cup {op[t].element} ELSE seen[u]]
  BY DEF Write, Writes
<1>2. PICK K, v : K = op[t].key /\ v = op[t].element OBVIOUS
<1>3. /\ PathsKept /\ K \in Key /\ v \in Element \cup {Null}
      /\ \A k \in Key : Value(k)' = IF k = K THEN v ELSE Value(k)
      /\ \A n \in Node : Last(K) # n => entry'[n] = entry[n]
      /\ entry' \in [Node \cup {Root} -> [Slot -> Node \cup Element \cup {Null}]]
  BY <1>2, WriteStores
<1>4. PICK o \in OpType : o = Idle /\ o.call = "none" /\ o.step = "idle" /\ o.temp = Null
                            /\ o.node = Root /\ o.element = Null
  BY IdleFacts
<1>5. OpBecomes(t, o) /\ op' \in [Thread -> OpType] BY <1>1, <1>4, OpStep DEF IInv
<1>6. Layers' /\ Paths' /\ PathsGrow
  BY <1>3 DEF IInv, Layers, Paths, PathsKept, PathsGrow
<1>7. op[t].temp = Null BY <1>1 DEF IInv, FreshNode, At
<1>8. \A u \in Thread : op'[u].temp = op[u].temp BY <1>4, <1>5, <1>7 DEF OpBecomes
<1>9. MappedExact' BY <1>1, <1>3, <1>8 DEF IInv, MappedExact, PathsKept
<1>10. \A u \in Thread : Position(u)'
  <2>1. Position(t)' BY <1>4, <1>5 DEF Position, OpBecomes
  <2> QED BY <1>5, <1>6, <2>1, PositionKept DEF OpBecomes
<1>11. \A u \in Thread : FreshNode(u)'
  <2>1. FreshNode(t)' BY <1>4, <1>5 DEF FreshNode, OpBecomes
  <2>2. ASSUME NEW u \in Thread, u # t PROVE FreshNode(u)'
    <3>1. FreshNode(u) /\ op[u].temp \in Node \cup {Null} /\ op'[u] = op[u]
      BY <1>5, <2>2 DEF IInv, TypeOK, OpType, OpBecomes
    <3>2. op[u].temp # Null => entry'[op[u].temp] = NoNode
      BY <1>3, <3>1 DEF FreshNode
    <3> QED BY <1>1, <1>3, <1>8, <3>1, <3>2 DEF FreshNode, PathsKept, NoNode
  <2> QED BY <2>1, <2>2
<1>12. CallerKeeps'
  <2>1. ASSUME NEW u \in Thread, op'[u].call # "none"
        PROVE  u # t /\ op'[u] = op[u] /\ op[u].key \in Key
    BY <1>4, <1>5, <2>1 DEF IInv, Position, OpBecomes
  <2>2. \A u \in Thread : Calls(u, {"Delete"})' => (Value(op[u].key) # Null)'
    BY <1>1, <1>2, <1>3, <2>1 DEF IInv, CallerKeeps, Calls, Writes
  <2>3. \A u \in Thread : Calls(u, {"LookUp"})' => (Value(op[u].key) \in seen[u])'
    BY <1>1, <1>2, <1>3, <2>1 DEF IInv, CallerKeeps, Calls
  <2>4. \A u, w \in Thread : u # w /\ Writes(u)' /\ Writes(w)' => op'[u].key # op'[w].key
    BY <2>1 DEF IInv, CallerKeeps, Calls, Writes
  <2> QED BY <2>2, <2>3, <2>4 DEF CallerKeeps
<1>13. TypeOK'
  <2>1. seen' \in [Thread -> SUBSET (Element \cup {Null})]
    BY <1>1, <1>2, <1>3 DEF IInv, TypeOK
  <2> QED BY <1>1, <1>3, <1>5, <2>1 DEF IInv, TypeOK
<1> QED BY <1>6, <1>9, <1>10, <1>11, <1>12, <1>13 DEF IInv

-----------------------------------------------------------------------------
(* The theorems *)

LEMMA InitIInv == Init => IInv
<1> SUFFICES ASSUME Init PROVE IInv OBVIOUS
<1>1. /\ entry \in [Node \cup {Root} -> [Slot -> {Null}]] /\ mapped = {}
      /\ \A t \in Thread : op[t] = Idle /\ seen[t] = {}
      /\ op \in [Thread -> OpType] /\ seen \in [Thread -> {{}}]
  BY IdleFacts DEF Init, NoNode
<1>2. \A k \in Key : Middle(k) = Null /\ Last(k) = Null /\ Value(k) = Null
  BY <1>1, KeyFacts DEF Middle, Last, Value
<1>3. TypeOK BY <1>1 DEF TypeOK
<1>4. Layers /\ Paths BY <1>2 DEF Layers, Paths
<1>5. \A t \in Thread : Position(t) /\ FreshNode(t)
  BY <1>1, IdleFacts DEF Position, FreshNode
<1>6. MappedExact BY <1>1, <1>2 DEF MappedExact
<1>7. CallerKeeps BY <1>1, IdleFacts DEF CallerKeeps, Writes, Calls
<1> QED BY <1>3, <1>4, <1>5, <1>6, <1>7 DEF IInv

LEMMA NextIInv ==
  ASSUME IInv, [Next]_vars
  PROVE  IInv'
<1>1. ASSUME NEW t \in Thread, NEW k \in Key,
             LookUp(t, k) \/ Delete(t, k) \/ \E e \in Element : Insert(t, k, e)
      PROVE  IInv'
  BY <1>1, BeginIInv
<1>2. ASSUME UNCHANGED vars PROVE IInv'
  <2>1. entry' = entry /\ mapped' = mapped /\ op' = op /\ seen' = seen BY <1>2 DEF vars
  <2>2. PathsKept /\ PathsGrow /\ ValuesKept BY <2>1, SameEntries
  <2>3. Layers' /\ Paths' BY <2>2 DEF IInv, Layers, Paths, PathsKept, ValuesKept
  <2>4. \A t \in Thread : Position(t)' BY <2>1, <2>2, PositionKept
  <2>5. \A t \in Thread : FreshNode(t)'
    BY <2>1, <2>2 DEF IInv, FreshNode, PathsKept, NoNode
  <2>6. MappedExact' BY <2>1, <2>2 DEF IInv, MappedExact, PathsKept
  <2>7. CallerKeeps' BY <2>1, <2>2, CallerKept
  <2>8. TypeOK' BY <2>1 DEF IInv, TypeOK
  <2> QED BY <2>3, <2>4, <2>5, <2>6, <2>7, <2>8 DEF IInv
<1> QED BY <1>1, <1>2, DescendIInv, NewNodeIInv, CasIInv, ReturnNodeIInv, WriteIInv,
        ReturnIInv DEF Next

\* The invariant the theorems rest on: whatever entry is read or written next,
\* by whichever thread, it holds.
THEOREM Inductive == Spec => []IInv
<1>1. IInv /\ [Next]_vars => IInv' BY NextIInv
<1> QED BY <1>1, InitIInv, PTL DEF Spec

\* The race of threads to add an inner node leaks none and returns none that a
\* path leads to, for every number of threads, pages and nodes; and Delete
\* finds the nodes and the element that its assertions ask for.
THEOREM NodesAlwaysAccounted == Spec => []NodesAccounted
<1>1. ASSUME IInv PROVE NodesAccounted
  <2>1. \A n : n \in InTree <=> n # Null /\ \E k \in Key : n = Middle(k) \/ n = Last(k)
    BY DEF InTree
  <2>2. \A n : n \in InHand <=> n # Null /\ \E t \in Thread : n = op[t].temp
    BY DEF InHand
  <2>3. Null \notin mapped BY <1>1, TreeAssumption DEF IInv, TypeOK
  <2>4. mapped = InTree \cup InHand
    <3>1. ASSUME NEW n \in mapped PROVE n \in InTree \cup InHand
      BY <1>1, <2>1, <2>2, <2>3 DEF IInv, MappedExact
    <3>2. ASSUME NEW n \in InTree \cup InHand PROVE n \in mapped
      BY <1>1, <2>1, <2>2, <3>2 DEF IInv, MappedExact, FreshNode
    <3> QED BY <3>1, <3>2
  <2>5. InTree \cap InHand = {}
    <3>1. ASSUME NEW n \in InTree, n \in InHand PROVE FALSE
      BY <1>1, <2>1, <2>2, <3>1 DEF IInv, FreshNode
    <3> QED BY <3>1
  <2>6. \A t, u \in Thread : t # u /\ op[t].temp # Null => op[t].temp # op[u].temp
    BY <1>1 DEF IInv, FreshNode
  <2>7. \A t \in Thread : op[t].node \in {Root} \cup InTree
    <3>1. ASSUME NEW t \in Thread, ~At(t, "idle") PROVE op[t].node \in {Root} \cup InTree
      BY <1>1, <2>1, <3>1, HereFacts
    <3>2. ASSUME NEW t \in Thread, At(t, "idle") PROVE op[t].node = Root
      BY <1>1, <3>2 DEF IInv, Position, At
    <3> QED BY <3>1, <3>2
  <2>8. ASSUME NEW t \in Thread, Calls(t, {"Delete"}) PROVE Here(t) # Null
    <3>1. ~At(t, "idle") BY <1>1, <2>8 DEF IInv, Position, At, Calls
    <3>2. Value(op[t].key) # Null BY <1>1, <2>8 DEF IInv, CallerKeeps
    <3>3. Last(op[t].key) # Null /\ Middle(op[t].key) # Null BY <3>2 DEF Value, Last
    <3> QED BY <1>1, <3>1, <3>2, <3>3, HereFacts
  <2> QED BY <1>1, <2>4, <2>5, <2>6, <2>7, <2>8 DEF NodesAccounted, IInv
<1> QED BY <1>1, Inductive, PTL

\* A lookup that goes down while other threads add nodes and write elements
\* returns what its key was mapped to at some moment of the call.
THEOREM LookUpAlwaysSees == Spec => LookUpSees
<1> DEFINE Sees == \A t \in Thread : Return(t) => Here(t) \in seen[t]
<1>1. ASSUME IInv PROVE Sees
  <2> SUFFICES ASSUME NEW t \in Thread, Return(t) PROVE Here(t) \in seen[t] OBVIOUS
  <2>1. /\ ~At(t, "idle") /\ Calls(t, {"LookUp"})
        /\ op[t].depth = 3 \/ Here(t) = Null
    BY DEF Return, At
  <2>2. Value(op[t].key) \in seen[t] BY <1>1, <2>1 DEF IInv, CallerKeeps
  <2>3. Here(t) = Value(op[t].key)
    <3>1. op[t].depth = 3 => Here(t) = Value(op[t].key) BY <1>1, <2>1, HereFacts
    <3>2. op[t].depth # 3 => Here(t) = Null /\ Value(op[t].key) = Null
      BY <1>1, <2>1, HereFacts DEF Value, Last
    <3> QED BY <3>1, <3>2
  <2> QED BY <2>2, <2>3
<1>2. IInv => [Sees]_vars BY <1>1
<1>3. [][Sees]_vars <=> LookUpSees BY DEF LookUpSees
<1> QED BY <1>2, <1>3, Inductive, PTL DEF Spec

\* What the tree says of every page, as the map of PageMap.
MapOfTree == [k \in Key |-> Value(k)]

LEMMA WriteRefines ==
  ASSUME IInv, NEW t \in Thread, Write(t)
  PROVE  /\ Calls(t, {"Insert"}) => op[t].key \in Key /\ op[t].element \in Element
                                    /\ Map!Insert(op[t].key, op[t].element)
         /\ ~Calls(t, {"Insert"}) => op[t].key \in Key /\ Map!Delete(op[t].key)
<1>1. PICK K \in Key, v \in Element \cup {Null} :
        /\ K = op[t].key /\ v = op[t].element
        /\ \A k \in Key : Value(k)' = IF k = K THEN v ELSE Value(k)
  BY WriteStores
<1>2. MapOfTree' = [MapOfTree EXCEPT ![K] = v] BY <1>1 DEF MapOfTree
<1>3. Calls(t, {"Insert"}) => v \in Element BY <1>1 DEF IInv, Position, Calls
<1>4. ~Calls(t, {"Insert"}) => v = Null
  <2>1. Calls(t, {"Insert", "Delete"}) BY DEF Write
  <2> QED BY <1>1, <2>1 DEF IInv, Position, Calls
<1> QED BY <1>1, <1>2, <1>3, <1>4 DEF Map!Insert, Map!Delete, MapOfTree

LEMMA StepRefines ==
  ASSUME IInv, [Next]_vars
  PROVE  Map!Next \/ MapOfTree' = MapOfTree
<1>1. ValuesKept => MapOfTree' = MapOfTree BY DEF ValuesKept, MapOfTree
<1>2. ASSUME NEW t \in Thread, NEW k \in Key,
             LookUp(t, k) \/ Delete(t, k) \/ \E e \in Element : Insert(t, k, e)
      PROVE  ValuesKept
  BY <1>2, BeginIInv
<1>3. ASSUME NEW t \in Thread, Write(t) PROVE Map!Next
  BY <1>3, WriteRefines DEF Map!Next
<1>4. UNCHANGED vars => ValuesKept BY SameEntries DEF vars
<1> QED BY <1>1, <1>2, <1>3, <1>4, DescendIInv, NewNodeIInv, CasIInv, ReturnNodeIInv,
        ReturnIInv DEF Next

\* Insert, Delete and LookUp, lock-free as they are, implement a map that each
\* write changes at once and for its own page alone; inner nodes that are added
\* on the way, in whatever race, change the page of nobody.
THEOREM PageMapImplemented == Spec => ImplementsPageMap
<1> DEFINE Stores == \A t \in Thread : Write(t) =>
             IF Calls(t, {"Insert"}) THEN Map!Insert(op[t].key, op[t].element)
             ELSE Map!Delete(op[t].key)
<1>1. Init => Map!Init
  <2>1. ASSUME Init, NEW k \in Key PROVE Value(k) = Null
    BY <2>1, KeyFacts DEF Init, NoNode, Middle, Last, Value
  <2> QED BY <2>1 DEF Map!Init
<1>2. IInv /\ [Next]_vars => [Map!Next]_MapOfTree BY StepRefines
<1>3. IInv => [Stores]_vars BY WriteRefines
<1>4. [][Stores]_vars /\ Map!Spec <=> ImplementsPageMap BY DEF ImplementsPageMap
<1>5. Map!Init /\ [][Map!Next]_MapOfTree <=> Map!Spec BY DEF Map!Spec, MapOfTree
<1> QED BY <1>1, <1>2, <1>3, <1>4, <1>5, Inductive, PTL DEF Spec
=============================================================================
