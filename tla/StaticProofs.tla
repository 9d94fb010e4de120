---------------------------- MODULE StaticProofs ----------------------------
(***************************************************************************)
(* That threads which race to make arenas account for every Arena object,  *)
(* for any number of threads, arenas and objects.                          *)
(***************************************************************************)
EXTENDS Static, TLAPS

\* A thread has an arena to put into arenas_ exactly when it is about to.
TempAtCas == \A t \in Thread : op[t].temp # Null <=> At(t, "cas")

IInv == TypeOK /\ TempAtCas /\ ArenasAccounted

LEMMA InitIInv == Init => IInv
<1> SUFFICES ASSUME Init PROVE IInv OBVIOUS
<1> USE StaticAssumption DEF Init
<1>1. TypeOK BY DEF TypeOK, Index, Idle
<1>2. TempAtCas BY DEF TempAtCas, At, Idle
<1>3. ArenasAccounted BY DEF ArenasAccounted, Idle
<1> QED BY <1>1, <1>2, <1>3 DEF IInv

\* A thread that draws an index has no arena yet and puts none anywhere.
LEMMA DrawIInv ==
  ASSUME IInv, NEW t \in Thread, Draw(t)
  PROVE  IInv'
<1> DEFINE o == [Idle EXCEPT !.step = "look", !.curr = arena_index % NumArenas]
<1> USE StaticAssumption DEF IInv
<1>1. /\ o.step = "look" /\ o.curr \in Index /\ o.temp = Null
      /\ o \in [step : {"idle", "look", "cas"}, curr : Index, temp : Arena \cup {Null}]
  <2>1. arena_index % NumArenas \in Index BY DEF TypeOK, Index
  <2> QED BY <2>1 DEF Idle
<1>2. op' = [op EXCEPT ![t] = o] BY DEF Draw, Goto
<1> HIDE DEF o
<1>3. op'[t] = o /\ \A u \in Thread : u # t => op'[u] = op[u] BY <1>2 DEF TypeOK
<1>4. TypeOK' BY <1>1, <1>2 DEF TypeOK, Draw
<1>5. \A u \in Thread : op'[u].temp = op[u].temp
  <2>1. op[t].temp = Null BY DEF TempAtCas, Draw, At
  <2> QED BY <1>1, <1>3, <2>1
<1>6. TempAtCas' BY <1>1, <1>3 DEF TempAtCas, At
<1>7. ArenasAccounted'
  <2>1. \A u \in Thread : thread_alloc[u] # Null => op'[u].curr = op[u].curr
    BY <1>3 DEF Draw
  <2> QED BY <1>5, <2>1 DEF ArenasAccounted, Draw
<1> QED BY <1>4, <1>6, <1>7

\* A new Arena object is not one of those that exist.
LEMMA MakeArenaIInv ==
  ASSUME IInv, NEW t \in Thread, MakeArena(t)
  PROVE  IInv'
<1> USE StaticAssumption DEF IInv
<1>1. PICK a \in Arena \ made :
        made' = made \cup {a} /\ Goto(t, [op[t] EXCEPT !.step = "cas", !.temp = a])
  BY DEF MakeArena
<1>2. /\ op'[t].step = "cas" /\ op'[t].temp = a /\ op'[t].curr = op[t].curr
      /\ \A u \in Thread : u # t => op'[u] = op[u]
      /\ op' \in [Thread -> [step : {"idle", "look", "cas"}, curr : Index,
                             temp : Arena \cup {Null}]]
  BY <1>1 DEF TypeOK, Goto
<1>3. a # Null /\ op[t].temp = Null BY DEF TempAtCas, MakeArena, At
<1>4. /\ \A i \in Index : arenas[i] # a
      /\ \A u \in Thread : op[u].temp # a
  BY <1>1, <1>3 DEF ArenasAccounted
<1>5. TypeOK' BY <1>1, <1>2 DEF TypeOK, MakeArena
<1>6. TempAtCas' BY <1>2, <1>3 DEF TempAtCas, At
<1>7. ArenasAccounted'
  <2>1. { op'[u].temp : u \in Thread } \ {Null}
          = ({ op[u].temp : u \in Thread } \ {Null}) \cup {a}
    BY <1>2, <1>3
  <2>2. (made = ({ arenas[i] : i \in Index } \cup { op[u].temp : u \in Thread }) \ {Null})'
    BY <1>1, <1>3, <2>1 DEF ArenasAccounted, MakeArena
  <2> QED BY <1>2, <1>3, <1>4, <2>2 DEF ArenasAccounted, MakeArena
<1> QED BY <1>5, <1>6, <1>7

\* The compare-and-swap moves the object into arenas_, or it is deleted.
LEMMA CasIInv ==
  ASSUME IInv, NEW t \in Thread, Cas(t)
  PROVE  IInv'
<1> DEFINE i == op[t].curr
           a == op[t].temp
<1> USE StaticAssumption DEF IInv
<1>1. /\ op'[t].step = "look" /\ op'[t].temp = Null /\ op'[t].curr = i
      /\ \A u \in Thread : u # t => op'[u] = op[u]
      /\ op' \in [Thread -> [step : {"idle", "look", "cas"}, curr : Index,
                             temp : Arena \cup {Null}]]
  BY DEF TypeOK, Cas, Goto
<1>2. i \in Index /\ a \in Arena /\ a # Null BY DEF TypeOK, TempAtCas, Cas, At
<1>3. TempAtCas' BY <1>1 DEF TempAtCas, At
<1>4. /\ a \in made
      /\ \A j \in Index : arenas[j] # a
      /\ \A u \in Thread : u # t => op[u].temp # a
  BY <1>2 DEF ArenasAccounted
<1>5. { op[u].temp : u \in Thread } \ {Null}
        = ({ op'[u].temp : u \in Thread } \ {Null}) \cup {a}
  BY <1>1, <1>2
<1>6. a \notin { op'[u].temp : u \in Thread } BY <1>1, <1>2, <1>4
<1>7. CASE arenas[i] = Null
  <2>1. arenas' = [arenas EXCEPT ![i] = a] /\ made' = made BY <1>7 DEF Cas
  <2>2. TypeOK' BY <1>1, <1>2, <2>1 DEF TypeOK, Cas
  <2>3. arenas'[i] = a /\ \A j \in Index : j # i => arenas'[j] = arenas[j]
    BY <1>2, <2>1 DEF TypeOK
  <2>4. { arenas'[j] : j \in Index } \ {Null}
          = ({ arenas[j] : j \in Index } \ {Null}) \cup {a}
    BY <1>2, <1>7, <2>3
  <2>5. (made = ({ arenas[j] : j \in Index } \cup { op[u].temp : u \in Thread }) \ {Null})'
    BY <1>2, <1>5, <2>1, <2>4 DEF ArenasAccounted
  <2>6. \A u \in Thread : thread_alloc'[u] # Null => thread_alloc'[u] = arenas'[op'[u].curr]
    BY <1>1, <1>7, <2>3 DEF ArenasAccounted, Cas, TypeOK
  <2>7. \A j, k \in Index : j # k /\ arenas'[j] # Null => arenas'[j] # arenas'[k]
    BY <1>2, <1>4, <2>3 DEF ArenasAccounted
  <2>8. \A u \in Thread, j \in Index : op'[u].temp # Null => arenas'[j] # op'[u].temp
    BY <1>1, <1>4, <2>3 DEF ArenasAccounted
  <2>9. \A u, v \in Thread : u # v /\ op'[u].temp # Null => op'[u].temp # op'[v].temp
    BY <1>1 DEF ArenasAccounted
  <2> QED BY <1>3, <2>2, <2>5, <2>6, <2>7, <2>8, <2>9 DEF ArenasAccounted
<1>8. CASE arenas[i] # Null
  <2>1. arenas' = arenas /\ made' = made \ {a} BY <1>8 DEF Cas
  <2>2. TypeOK' BY <1>1, <2>1 DEF TypeOK, Cas
  <2>3. (made = ({ arenas[j] : j \in Index } \cup { op[u].temp : u \in Thread }) \ {Null})'
    BY <1>2, <1>4, <1>5, <1>6, <2>1 DEF ArenasAccounted
  <2> QED BY <1>1, <1>3, <2>1, <2>2, <2>3 DEF ArenasAccounted, Cas
<1> QED BY <1>7, <1>8

\* The thread's allocator works on what is in arenas_ for good.
LEMMA MakeAllocatorIInv ==
  ASSUME IInv, NEW t \in Thread, MakeAllocator(t)
  PROVE  IInv'
<1> USE StaticAssumption DEF IInv
<1>1. /\ op'[t].step = "idle" /\ op'[t].temp = op[t].temp /\ op'[t].curr = op[t].curr
      /\ \A u \in Thread : u # t => op'[u] = op[u]
      /\ op' \in [Thread -> [step : {"idle", "look", "cas"}, curr : Index,
                             temp : Arena \cup {Null}]]
  BY DEF TypeOK, MakeAllocator, Goto
<1>2. \A u \in Thread : op'[u].temp = op[u].temp /\ op'[u].curr = op[u].curr BY <1>1
<1>3. TypeOK' BY <1>1 DEF TypeOK, MakeAllocator
<1>4. TempAtCas' BY <1>1 DEF TempAtCas, At, MakeAllocator
<1>5. ArenasAccounted'
  <2>1. \A u \in Thread : thread_alloc'[u] # Null => thread_alloc'[u] = arenas'[op'[u].curr]
    BY <1>2 DEF ArenasAccounted, MakeAllocator, TypeOK
  <2> QED BY <1>2, <2>1 DEF ArenasAccounted, MakeAllocator
<1> QED BY <1>3, <1>4, <1>5

LEMMA InductiveIInv == Spec => []IInv
<1>1. IInv /\ [Next]_vars => IInv'
  <2> SUFFICES ASSUME IInv, [Next]_vars PROVE IInv' OBVIOUS
  <2>1. CASE UNCHANGED vars
    BY <2>1 DEF vars, IInv, TypeOK, TempAtCas, ArenasAccounted, At
  <2>2. CASE Next
    BY <2>2, DrawIInv, MakeArenaIInv, CasIInv, MakeAllocatorIInv DEF Next
  <2> QED BY <2>1, <2>2
<1> QED BY InitIInv, <1>1, PTL DEF Spec

\* Every entry of arenas_, every thread's allocator and every index drawn from
\* the counter stays in its type (Static::next_arena).
THEOREM TypeCorrect == Spec => []TypeOK
<1>1. IInv => TypeOK BY DEF IInv
<1> QED BY <1>1, InductiveIInv, PTL

\* Whatever threads race to make arenas: each Arena object is in one entry of
\* arenas_ or about to be put there, the losers' are deleted, and every thread
\* works on the arena that all threads see at its index (Static::next_arena).
THEOREM AccountedAlways == Spec => []ArenasAccounted
<1>1. IInv => ArenasAccounted BY DEF IInv
<1> QED BY <1>1, InductiveIInv, PTL
=============================================================================
