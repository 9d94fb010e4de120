------------------------------- MODULE Static -------------------------------
(***************************************************************************)
(* The start of a thread (static.cc): its first call of the API makes it a *)
(* ThreadAllocator on one of num_arenas_ arenas, dealt out in turn by an   *)
(* atomic counter.  The first thread to come to an arena makes it; threads *)
(* that race for that are decided by a compare-and-swap.                   *)
(*                                                                         *)
(* Left out: Init, which the loader runs before there are threads; a new   *)
(* num_arenas_ while threads start, which only the tests set; a nullptr    *)
(* from root_alloc(), which the code dereferences; the end of a thread,    *)
(* which leaves everything as it is.                                       *)
(***************************************************************************)
EXTENDS Integers

CONSTANTS
  Thread,
  NumArenas,   \* num_arenas_
  Arena,       \* bound: the Arena objects root_alloc() can make
  Null,        \* nullptr
  IndexLimit   \* arena_index_ is an unsigned long: it wraps to 0 at this

ASSUME StaticAssumption ==
  /\ NumArenas \in Nat \ {0}
  /\ IndexLimit \in Nat \ {0}
  /\ Null \notin Arena

Index == 0..(NumArenas - 1)

VARIABLES
  arena_index,   \* arena_index_
  arenas,        \* arenas_
  made,          \* the Arena objects that exist
  thread_alloc,  \* thread_alloc_ of each thread: the arena it works on
  op             \* where each thread is in its first call

vars == <<arena_index, arenas, made, thread_alloc, op>>

-----------------------------------------------------------------------------

Idle == [step |-> "idle", curr |-> 0, temp |-> Null]
At(t, step) == op[t].step = step
Goto(t, o) == op' = [op EXCEPT ![t] = o]

\* thread_alloc() of a thread that has none: next_arena draws an index.
Draw(t) ==
  /\ At(t, "idle") /\ thread_alloc[t] = Null
  /\ arena_index' = (arena_index + 1) % IndexLimit
  /\ Goto(t, [Idle EXCEPT !.step = "look", !.curr = arena_index % NumArenas])
  /\ UNCHANGED <<arenas, made, thread_alloc>>

\* No arena there yet: New<Arena>.
MakeArena(t) ==
  /\ At(t, "look")
  /\ arenas[op[t].curr] = Null
  /\ \E a \in Arena \ made :
       /\ made' = made \cup {a}
       /\ Goto(t, [op[t] EXCEPT !.step = "cas", !.temp = a])
  /\ UNCHANGED <<arena_index, arenas, thread_alloc>>

\* Slip: the last to come wins.
CasAlways(t) ==
  /\ At(t, "cas")
  /\ arenas' = [arenas EXCEPT ![op[t].curr] = op[t].temp]
  /\ Goto(t, [op[t] EXCEPT !.step = "look", !.temp = Null])
  /\ UNCHANGED <<arena_index, made, thread_alloc>>

\* atomic_cas_simple, and Delete of the arena that came too late.
Cas(t) ==
  /\ At(t, "cas")
  /\ IF arenas[op[t].curr] = Null
     THEN /\ arenas' = [arenas EXCEPT ![op[t].curr] = op[t].temp]
          /\ UNCHANGED made
     ELSE /\ made' = made \ {op[t].temp}
          /\ UNCHANGED arenas
  /\ Goto(t, [op[t] EXCEPT !.step = "look", !.temp = Null])
  /\ UNCHANGED <<arena_index, thread_alloc>>

\* create_thread_allocator: New<ThreadAllocator> on what arenas_ has now.
MakeAllocator(t) ==
  /\ At(t, "look")
  /\ arenas[op[t].curr] # Null
  /\ thread_alloc' = [thread_alloc EXCEPT ![t] = arenas[op[t].curr]]
  /\ Goto(t, [op[t] EXCEPT !.step = "idle"])
  /\ UNCHANGED <<arena_index, arenas, made>>

Init ==
  /\ arena_index = 0
  /\ arenas = [i \in Index |-> Null]
  /\ made = {}
  /\ thread_alloc = [t \in Thread |-> Null]
  /\ op = [t \in Thread |-> Idle]

Next == \E t \in Thread :
  Draw(t) \/ MakeArena(t) \/ Cas(t) \/ MakeAllocator(t)

Spec == Init /\ [][Next]_vars

-----------------------------------------------------------------------------
(* Properties *)

TypeOK ==
  /\ arena_index \in 0..(IndexLimit - 1)
  /\ arenas \in [Index -> Arena \cup {Null}]
  /\ made \subseteq Arena
  /\ thread_alloc \in [Thread -> Arena \cup {Null}]
  /\ op \in [Thread -> [step : {"idle", "look", "cas"}, curr : Index,
                        temp : Arena \cup {Null}]]

\* Each Arena object is in one entry of arenas_, or one thread is about to put
\* it there; the losers' are gone.  So threads that drew the same index share
\* an arena, no thread works on an arena that was deleted or that others do
\* not see, and none is leaked.
ArenasAccounted ==
  /\ made = ({ arenas[i] : i \in Index } \cup { op[t].temp : t \in Thread }) \ {Null}
  /\ \A i, j \in Index : i # j /\ arenas[i] # Null => arenas[i] # arenas[j]
  /\ \A t \in Thread, i \in Index : op[t].temp # Null => arenas[i] # op[t].temp
  /\ \A t, u \in Thread : t # u /\ op[t].temp # Null => op[t].temp # op[u].temp
  /\ \A t \in Thread : thread_alloc[t] # Null => thread_alloc[t] = arenas[op[t].curr]
=============================================================================
