------------------------------ MODULE SvsemPool ------------------------------
(***************************************************************************)
(* pool.c with bitset.c, the pools of semaphores of svsem.c, and           *)
(* svcond_create and svcond_destroy, which take three semaphores of one.   *)
(* A pool is used under a lock or by one thread: it has none of its own.   *)
(* Element n of the pool is semaphore n of the set.                        *)
(***************************************************************************)
EXTENDS Integers, Sequences, FiniteSets, FiniteSetsExt

CONSTANTS
  PoolMax,    \* max_size
  InitVal,    \* the value semaphores start with: 1 where conditions use it
  Cond,       \* the condition variables of the client
  MaxVal      \* bound: a client posts a semaphore no higher

VARIABLES
  stk,        \* p->stk: for each element made, 0 .. made - 1, [val, undo]
  used,       \* p->bitset
  unused,     \* p->unused
  given,      \* the elements the client holds itself
  cond,       \* for each condition variable [blocked, queue, unblock]
  wasUnblock, \* elements that have been some condition's unblock_lock
  poolAnswers

poolVars == <<stk, used, unused, given, cond, wasUnblock, poolAnswers>>

None == -1
NoCond == [blocked |-> None, queue |-> None, unblock |-> None]
Made == DOMAIN stk
InConds == {cond[c][f] : c \in Cond, f \in {"blocked", "queue", "unblock"}} \ {None}

Init == /\ stk = <<>> /\ used = {} /\ unused = 0 /\ given = {}
        /\ cond = [c \in Cond |-> NoCond] /\ wasUnblock = {} /\ poolAnswers = TRUE

(* bitset_find_first(0), over the bytes of the bitset *)
FirstUnset(b) == Min((0 .. PoolMax + 7) \ b)
Full(p) == p.unused = 0 /\ Cardinality(DOMAIN p.stk) = PoolMax

(* _svs_new: a semaphore made for the first time, with the pool's flags *)
New(s, n) == [m \in DOMAIN s \cup {n} |-> IF m = n THEN [val |-> InitVal, undo |-> FALSE] ELSE s[m]]
(* _svs_rst sets the value of one used before and leaves its flags alone *)
Rst(s, n) == [s EXCEPT ![n].val = InitVal]

(* pool_get of the first unused element: [stk, used, unused] after it *)
\* mutant: an element used before is not reset
Handed_Kept(p, n) ==
  IF n \in DOMAIN p.stk
  THEN [p EXCEPT !.used = @ \cup {n}, !.unused = @ - 1]
  ELSE [stk |-> New(p.stk, n), used |-> p.used \cup {n}, unused |-> p.unused]
Handed(p, n) ==
  IF n \in DOMAIN p.stk
  THEN [stk |-> Rst(p.stk, n), used |-> p.used \cup {n}, unused |-> p.unused - 1]
  ELSE [stk |-> New(p.stk, n), used |-> p.used \cup {n}, unused |-> p.unused]

(* pool_release *)
Released(p, n) == [p EXCEPT !.used = @ \ {n}, !.unused = @ + 1]

Pool == [stk |-> stk, used |-> used, unused |-> unused]
Becomes(p) == stk' = p.stk /\ used' = p.used /\ unused' = p.unused

(* what a client may rely on in a semaphore it gets: nobody has it, it has *)
(* the pool's value, and the pool's flags unless it was an unblock_lock    *)
GoodElement(n, p) == /\ n \notin given \cup InConds
                     /\ p.stk[n].val = InitVal
                     /\ n \in 0 .. PoolMax - 1
                     /\ p.stk[n].undo => n \in wasUnblock
AnyLeft == Cardinality(given \cup InConds) < PoolMax

Get == LET n == FirstUnset(used)
       IN IF Full(Pool)
          THEN poolAnswers' = ~AnyLeft /\ UNCHANGED <<stk, used, unused, given, cond, wasUnblock>>
          ELSE /\ Becomes(Handed(Pool, n)) /\ given' = given \cup {n}
               /\ poolAnswers' = GoodElement(n, Handed(Pool, n))
               /\ UNCHANGED <<cond, wasUnblock>>
(* the memory or the value of the element cannot be had *)
GetFails == /\ ~Full(Pool) /\ UNCHANGED poolVars

Release(n) == /\ n \in given /\ Becomes(Released(Pool, n)) /\ given' = given \ {n}
              /\ UNCHANGED <<cond, wasUnblock, poolAnswers>>
(* an element the pool does not have: EINVAL *)
ReleaseOther == UNCHANGED poolVars

(* svsem_post, svsem_wait, svsem_trywait and svsem_setvalue of an element, *)
(* also through a condition variable                                       *)
Use(n, v) == /\ n \in given \cup InConds /\ stk' = [stk EXCEPT ![n].val = v]
             /\ UNCHANGED <<used, unused, given, cond, wasUnblock, poolAnswers>>

(* svcond_create, as far as k pool_get calls succeed: the memset of line   *)
(* 65 sets nothing, its size and value are exchanged                       *)
Taken(g) == LET n == FirstUnset(g.p.used)
            IN [p |-> Handed(g.p, n), got |-> Append(g.got, n)]
Got(k) == LET none == [p |-> Pool, got |-> <<>>]
          IN CASE k = 0 -> none
               [] k = 1 -> Taken(none)
               [] k = 2 -> Taken(Taken(none))
               [] k = 3 -> Taken(Taken(Taken(none)))
(* how many calls can succeed before the pool is empty *)
Room == Min({3, unused + PoolMax - Cardinality(Made)})

CondCreate(c) ==
  LET g == Got(3)
  IN /\ cond[c] = NoCond /\ Room = 3
     /\ Becomes([g.p EXCEPT !.stk[g.got[3]].undo = TRUE, !.stk[g.got[2]].val = 0])
     /\ cond' = [cond EXCEPT ![c] = [blocked |-> g.got[1], queue |-> g.got[2], unblock |-> g.got[3]]]
     /\ wasUnblock' = wasUnblock \cup {g.got[3]}
     /\ poolAnswers' = \A i \in 1 .. 3 : GoodElement(g.got[i], g.p)
     /\ UNCHANGED given

(* pool_get fails after k calls, or svsem_setvalue after the flag is set:  *)
(* svcond_destroy releases what was got                                    *)
\* mutant: the first semaphore got is not released
Returned_Leak(g, k) == LET two == Released(g.p, g.got[2])
                       IN CASE k \in {0, 1} -> g.p
                            [] k = 2 -> two
                            [] k = 3 -> Released(two, g.got[3])
Returned(g, k) == LET one == Released(g.p, g.got[1])
                      two == Released(one, g.got[2])
                  IN CASE k = 0 -> g.p
                       [] k = 1 -> one
                       [] k = 2 -> two
                       [] k = 3 -> Released(two, g.got[3])
CondCreateFails(c, k) ==
  LET g == Got(k)
      p == Returned(g, k)
  IN /\ cond[c] = NoCond /\ k <= Room
     /\ Becomes(IF k = 3 THEN [p EXCEPT !.stk[g.got[3]].undo = TRUE] ELSE p)
     /\ wasUnblock' = IF k = 3 THEN wasUnblock \cup {g.got[3]} ELSE wasUnblock
     /\ UNCHANGED <<given, cond, poolAnswers>>

(* svcond_destroy; SEM_UNDO stays in the flags of the unblock_lock *)
CondDestroy(c) ==
  /\ cond[c] # NoCond
  /\ Becomes(Released(Released(Released(Pool, cond[c].blocked), cond[c].queue), cond[c].unblock))
  /\ cond' = [cond EXCEPT ![c] = NoCond]
  /\ UNCHANGED <<given, wasUnblock, poolAnswers>>

(* svsem_pool_destroy and svsem_pool_create, when nothing is in use.  The  *)
(* first frees the elements' memory before pool_destroy's _svs_del writes  *)
(* to it.                                                                  *)
Recreate == /\ given = {} /\ InConds = {}
            /\ stk' = <<>> /\ used' = {} /\ unused' = 0 /\ wasUnblock' = {}
            /\ UNCHANGED <<given, cond, poolAnswers>>

Next == \/ Get \/ GetFails \/ ReleaseOther \/ Recreate
        \/ \E n \in Made : Release(n) \/ \E v \in 0 .. MaxVal : Use(n, v)
        \/ \E c \in Cond : \/ CondCreate(c) \/ CondDestroy(c)
                           \/ \E k \in 0 .. 3 : CondCreateFails(c, k)

(* The bit set, the unused count and the holders of the elements agree,    *)
(* however calls failed in between, and every semaphore handed out is new  *)
(* to its user.                                                            *)
Sound == /\ used = given \cup InConds
         /\ given \cap InConds = {}
         /\ Cardinality(InConds) = 3 * Cardinality({c \in Cond : cond[c] # NoCond})
         /\ Made = 0 .. Cardinality(Made) - 1
         /\ Cardinality(Made) <= PoolMax
         /\ used \subseteq Made
         /\ unused = Cardinality(Made) - Cardinality(used)
         /\ poolAnswers
=============================================================================
