------------------------------ MODULE SlabBins ------------------------------
(***************************************************************************)
(* The lists and bitmaps of an Arena as the code has them: Chunk objects   *)
(* that are linked into nonempty_slab_, empty_slab_ and dirty_chunk_, with *)
(* bitmaps of words in them, one life after the other.  Arena.tla has      *)
(* sequences and sets in their place, and ChunkManager.tla the collection  *)
(* without its walk through the list of dirty chunks.                      *)
(*                                                                         *)
(* The slabs are all of one size, so that one bin of dirty_chunk_ is       *)
(* enough; other requests take chunks from it and put tails on it.  The    *)
(* critical section of a list is one step; a collection goes on, one chunk *)
(* a step, while slabs are taken from and returned to.                     *)
(***************************************************************************)
EXTENDS Integers, Sequences

CONSTANTS
  Chunk, Null,
  Sind, Num,              \* the size classes and the regions of their slabs
  kLongBits, kArraySize,  \* see Bitmap
  EpochLimit              \* UINT8_MAX: epoch_ wraps to 0 when it reaches this

VARIABLES
  links,    \* the lists
  bitmap,   \* slab_bitmap_ of each chunk
  sind,     \* slab_region_size_ of each chunk, as its class
  state,    \* state_; "out": neither a slab nor in this bin, or there is none
  epoch,    \* epoch_ of each chunk
  epoch_,   \* epoch_ of the ChunkManager
  curr      \* where the collection is in dirty_chunk_; Null when there is none

vars == <<links, bitmap, sind, state, epoch, epoch_, curr>>

NonEmpty(s) == <<"nonempty", s>>
Empty(s) == <<"empty", s>>
Dirty == <<"dirty", 0>>

ListHead == { NonEmpty(s) : s \in Sind } \cup { Empty(s) : s \in Sind } \cup {Dirty}

\* A slab has regions, and its bitmap has room for them; chunks and heads are
\* objects of their own, and not at address 0.
ASSUME SlabAssumption ==
  /\ kLongBits \in Nat \ {0} /\ kArraySize \in Nat \ {0}
  /\ \A s \in Sind : Num[s] \in 1..(kLongBits * kArraySize)
  /\ EpochLimit \in Nat \ {0}
  /\ Chunk \cap ListHead = {} /\ Null \notin Chunk \cup ListHead

L == INSTANCE List WITH Element <- Chunk, Dummy <- ListHead

B == INSTANCE Bitmap

-----------------------------------------------------------------------------
(* Arena: SmallAlloc and SmallDalloc *)

\* AllocChunk and DallocChunk end with Event, which may begin a collection.
Event == curr' \in {Null, L!first(links, Dirty)'}

\* SmallAlloc after it made sure of a slab: chunk c is the first of list l and
\* has bitmap m.
Take(s, c, l, m) ==
  LET rest == B!reset(m, B!ffs(m))
  IN  /\ bitmap' = [bitmap EXCEPT ![c] = rest]
      /\ links' = IF B!any(rest) THEN l
                  ELSE L!push(L!erase(l, NonEmpty(s), c), Empty(s), c)

SmallAlloc(s) ==
  /\ ~L!empty(links, NonEmpty(s))
  /\ LET c == L!first(links, NonEmpty(s)) IN Take(s, c, links, bitmap[c])
  /\ UNCHANGED <<sind, state, epoch, epoch_, curr>>

\* Chunk c is used as st.  What SplitChunk cuts off it, t, has the epoch e that
\* the whole had and goes on the bin of its size, which may be this one.
Tails == { t \in Chunk : state[t] = "out" } \cup {Null}
PushTail(l, t) == IF t = Null THEN l ELSE L!push(l, Dirty, t)

HandOut(c, st, t, e) ==
  /\ state' = [d \in Chunk |-> IF d = c THEN st ELSE IF d = t THEN "dirty" ELSE state[d]]
  /\ epoch' = [d \in Chunk |-> IF d = c THEN epoch_ ELSE IF d = t THEN e ELSE epoch[d]]
  /\ epoch_' = epoch_

\* The epochs of new memory and of dirty chunks in other bins (DirtyIsRecent, in
\* ChunkManager); epoch_ = 0 stands for the first time and for those after a wrap.
DirtyEpochs == {epoch_, epoch_ - 1, EpochLimit - 1} \cap 0..(EpochLimit - 1)

\* The slab is a dirty chunk or, for want of one, cut from another;
\* set_slab_region_size makes its bitmap, push its links, whatever they were.
SmallAllocNewSlab(s) ==
  /\ L!empty(links, NonEmpty(s))
  /\ curr = Null
  /\ \E c \in Chunk, t \in Tails, e \in DirtyEpochs :
       /\ t # c
       /\ IF L!empty(links, Dirty) THEN state[c] = "out"
          ELSE c = L!first(links, Dirty) /\ t = Null
       /\ LET l == IF L!empty(links, Dirty) THEN PushTail(links, t) ELSE L!pop(links, Dirty)
          IN  Take(s, c, L!push(l, NonEmpty(s), c), B!init(Num[s]))
       /\ sind' = [sind EXCEPT ![c] = s]
       /\ HandOut(c, "active", t, e)
  /\ Event

\* A chunk whose last region was returned is on no list until DallocChunk.
SmallDalloc(c, i) ==
  LET s    == sind[c]
      m    == B!set(bitmap[c], i)
      back == IF B!any(bitmap[c]) THEN links
              ELSE L!push(L!erase(links, Empty(s), c), NonEmpty(s), c)
  IN  /\ state[c] = "active"
      /\ i < bitmap[c].num /\ ~B!test(bitmap[c], i)
      /\ bitmap' = [bitmap EXCEPT ![c] = m]
      /\ links' = IF B!all(m) THEN L!erase(back, NonEmpty(s), c) ELSE back
      /\ UNCHANGED <<sind, state, epoch, epoch_, curr>>

-----------------------------------------------------------------------------
(* ChunkManager: AllocChunk, DallocChunk and TriggerGC *)

\* For any other request: of the first of the bin, or of another chunk (Null).
AllocChunk ==
  /\ curr = Null
  /\ \E c \in Chunk \cup {Null}, t \in Tails, e \in 0..(EpochLimit - 1) :
       /\ \/ c = Null /\ e \in DirtyEpochs /\ links' = PushTail(links, t)
          \/ /\ ~L!empty(links, Dirty)
             /\ c = L!first(links, Dirty) /\ e = epoch[c]
             /\ links' = PushTail(L!pop(links, Dirty), t)
       /\ HandOut(c, "out", t, e)
  /\ Event
  /\ UNCHANGED <<bitmap, sind>>

\* A slab all of whose regions are free, or a chunk from another request.
DallocChunk(c) ==
  /\ \/ state[c] = "active" /\ B!Free(bitmap[c]) = 0..(bitmap[c].num - 1)
     \/ state[c] = "out"
  /\ curr = Null
  /\ links' = L!push(links, Dirty, c)
  /\ state' = [state EXCEPT ![c] = "dirty"]
  /\ epoch' = [epoch EXCEPT ![c] = epoch_]
  /\ Event
  /\ UNCHANGED <<bitmap, sind, epoch_>>

Old(c) == epoch[c] < epoch_

\* PushCleanChunk puts the chunk on another list, or joins it to another chunk
\* and deletes it: its links are overwritten.
Gone(l, c) == [l EXCEPT !.prev[c] = Null, !.next[c] = Null]

\* Slip: the next chunk is looked up when this one has gone.
VisitLate ==
  /\ curr \in Chunk
  /\ Old(curr)
  /\ links' = Gone(L!erase(links, Dirty, curr), curr)
  /\ state' = [state EXCEPT ![curr] = "out"]
  /\ curr' = links'.next[curr]
  /\ UNCHANGED <<bitmap, sind, epoch, epoch_>>

\* One turn of the loop, for a chunk to release ...
VisitOld ==
  /\ curr \in Chunk
  /\ Old(curr)
  /\ curr' = links.next[curr]
  /\ links' = Gone(L!erase(links, Dirty, curr), curr)
  /\ state' = [state EXCEPT ![curr] = "out"]
  /\ UNCHANGED <<bitmap, sind, epoch, epoch_>>

\* ... or to leave.
VisitYoung ==
  /\ curr \in Chunk
  /\ ~Old(curr)
  /\ curr' = links.next[curr]
  /\ UNCHANGED <<links, bitmap, sind, state, epoch, epoch_>>

EndGC ==
  /\ curr = Dirty
  /\ epoch_' = IF epoch_ + 1 = EpochLimit THEN 0 ELSE epoch_ + 1
  /\ curr' = Null
  /\ UNCHANGED <<links, bitmap, sind, state, epoch>>

-----------------------------------------------------------------------------
(* Specification *)

Init ==
  /\ links = L!init
  /\ bitmap = [c \in Chunk |-> B!Zero]
  /\ sind = [c \in Chunk |-> Null]
  /\ state = [c \in Chunk |-> "out"]
  /\ epoch = [c \in Chunk |-> 0]
  /\ epoch_ = 0
  /\ curr = Null

Next ==
  \/ \E s \in Sind : SmallAlloc(s) \/ SmallAllocNewSlab(s)
  \/ \E c \in Chunk : DallocChunk(c) \/ \E i \in 0..(bitmap[c].num - 1) : SmallDalloc(c, i)
  \/ AllocChunk \/ VisitOld \/ VisitYoung \/ EndGC

Spec == Init /\ [][Next]_vars

-----------------------------------------------------------------------------
(* Properties *)

Free(c) == B!Free(bitmap[c])
List(h) == L!SeqOf(links, h)
On(h) == { List(h)[k] : k \in DOMAIN List(h) }

Without(q, c) ==
  IF \E i \in 1..Len(q) : q[i] = c
  THEN LET i == CHOOSE i \in 1..Len(q) : q[i] = c
       IN  [k \in 1..(Len(q) - 1) |-> IF k < i THEN q[k] ELSE q[k + 1]]
  ELSE q

\* Whatever the life of a Chunk so far, every list is a ring of the right size
\* with just the chunks that belong there: slabs with a free region, full ones,
\* dirty chunks.  So erase() is never called on another list than the one the
\* chunk is on, and empty()'s assertion holds.
RingsExact ==
  /\ \A s \in Sind : L!Ring(links, NonEmpty(s)) /\ L!Ring(links, Empty(s))
  /\ L!Ring(links, Dirty)
  /\ \A c \in Chunk :
       LET slab(s) == state[c] = "active" /\ sind[c] = s
       IN  /\ \A s \in Sind :
                /\ c \in On(NonEmpty(s)) <=> slab(s) /\ Free(c) \notin {{}, 0..(Num[s] - 1)}
                /\ c \in On(Empty(s)) <=> slab(s) /\ Free(c) = {}
           /\ c \in On(Dirty) <=> state[c] = "dirty"

\* any() and all() are right whatever the number of regions, in the last word,
\* which may count in part, and with words behind it that do not count.
AnyAndAllExact ==
  \A c \in Chunk : bitmap[c].num > 0 =>
    /\ B!any(bitmap[c]) <=> Free(c) # {}
    /\ B!all(bitmap[c]) <=> Free(c) = 0..(bitmap[c].num - 1)

AllocExact(s, c) ==
  LET new   == List(NonEmpty(s)) = <<>>
      slabs == IF new THEN <<c>> ELSE List(NonEmpty(s))
      bits  == IF new THEN 0..(Num[s] - 1) ELSE Free(c)
      left  == { i \in bits : \E j \in bits : j < i }
  IN  /\ c = slabs[1]
      /\ \A d \in Chunk : Free(d)' = IF d = c THEN left ELSE Free(d)
      /\ List(NonEmpty(s))' = IF left = {} THEN Tail(slabs) ELSE slabs
      /\ List(Empty(s))' = IF left = {} THEN <<c>> \o List(Empty(s)) ELSE List(Empty(s))

DallocExact(c, i) ==
  LET s    == sind[c]
      bits == Free(c) \cup {i}
      back == IF Free(c) = {} THEN <<c>> \o List(NonEmpty(s)) ELSE List(NonEmpty(s))
  IN  /\ \A d \in Chunk : Free(d)' = IF d = c THEN bits ELSE Free(d)
      /\ List(Empty(s))' = Without(List(Empty(s)), c)
      /\ List(NonEmpty(s))' = IF bits = 0..(Num[s] - 1) THEN Without(back, c) ELSE back

\* Pointers and words do what sequences and sets do in Arena.tla: SmallAlloc
\* takes the least free region of the first slab, slabs that become full or
\* cease to be move to the front of the other list, and nothing else moves.
StepsExact ==
  [][/\ \A s \in Sind :
          SmallAlloc(s) \/ SmallAllocNewSlab(s) => \E c \in Chunk : AllocExact(s, c)
     /\ \A c \in Chunk, i \in 0..(kLongBits * kArraySize - 1) :
          SmallDalloc(c, i) => DallocExact(c, i)]_vars

WalkStep ==
  LET q == List(Dirty)
  IN  curr # Null =>
        /\ List(Dirty)' = IF curr' # curr /\ curr # Dirty /\ Old(curr) THEN Without(q, curr) ELSE q
        /\ \A k \in DOMAIN q : q[k] = curr /\ curr' # curr =>
             curr' = IF k = Len(q) THEN Dirty ELSE q[k + 1]
        /\ curr' = Null => curr = Dirty /\ \A c \in On(Dirty) : ~Old(c)

\* The collection takes chunks off the list it walks, and yet visits them all,
\* one after the other: it releases the old ones and no others, wherever they
\* are among the young, and ends when none is left.
WalkMeetsAll == [][WalkStep]_vars
=============================================================================
