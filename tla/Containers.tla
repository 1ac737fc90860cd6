------------------------------ MODULE Containers ------------------------------
(***************************************************************************)
(* The containers, allocators and message tables of libmba: each is a      *)
(* sequential component of its own, and a behaviour exercises the one that *)
(* which names.                                                            *)
(***************************************************************************)
EXTENDS Integers, Sequences, FiniteSets

CONSTANTS
  Elem, Chunk, StackMax, MaxItems,                 \* Stack
  Node, Datum, ListMax, CacheSize,                 \* LinkedList
  Key, Value, Hash, TableSizes, High, Low,         \* HashMap
  Written, InitSize, Bins,                         \* Varray
  Hdr, MemSize, POff, MinCell, Request,            \* Suba
  PoolMax, InitVal, Cond, MaxVal,                  \* SvsemPool
  MsgList, NumLists, CodeHigh                      \* Msgno

ASSUME StackAssumption == Chunk \in Nat \ {0} /\ StackMax \in Nat \ {0}
ASSUME ListAssumption == /\ Node \subseteq Nat \ {0} /\ Datum \subseteq Int
                         /\ ListMax \in Nat /\ CacheSize \in Nat
(* the table sizes are primes that at most quadruple, and a table shrinks  *)
(* only when it is filled to less than a quarter                           *)
ASSUME MapAssumption ==
  /\ Hash \in [Key -> Nat]
  /\ TableSizes \in Seq(Nat) /\ TableSizes # <<>>
  /\ \A i \in 1 .. Len(TableSizes) : TableSizes[i] >= 3
                                    /\ \A d \in 2 .. TableSizes[i] - 1 : TableSizes[i] % d # 0
  /\ \A i \in 1 .. Len(TableSizes) - 1 : /\ TableSizes[i] < TableSizes[i + 1]
                                        /\ TableSizes[i + 1] <= 4 * TableSizes[i]
  /\ High \in Nat /\ Low \in 0 .. 25
ASSUME VarrayAssumption == InitSize \in Nat \ {0} /\ Bins \in Nat \ {0}
(* a header and the least cell are of an even size, and a header fits into *)
(* the least cell, which holds the link besides                            *)
ASSUME SubaAssumption ==
  /\ Hdr \in Nat \ {0} /\ POff \in Nat \ {0} /\ POff % 2 = 0
  /\ MinCell \in Nat /\ MinCell % 2 = 0 /\ POff <= MinCell
  /\ MemSize \in Nat /\ MemSize > Hdr + POff
  /\ Request \subseteq Nat \ {0}
ASSUME PoolAssumption == PoolMax \in Nat /\ IsFiniteSet(Cond)
(* the numbers of the messages of a list stay below 2 ^ 16 *)
ASSUME MsgnoAssumption ==
  /\ NumLists \in Nat \ {0} /\ CodeHigh \in Nat \ {0}
  /\ "none" \notin DOMAIN MsgList
  /\ \A l \in DOMAIN MsgList :
       /\ MsgList[l] \in Seq(Nat) /\ Len(MsgList[l]) <= CodeHigh
       /\ \A k \in 1 .. Len(MsgList[l]) :
            MsgList[l][k] < CodeHigh => MsgList[l][k] + Len(MsgList[l]) < CodeHigh

VARIABLES
  which,
  array, sp, at, lost, items, right,                                        \* Stack
  ptr, data, first, last, size, cache, content, answers, headTaken,         \* LinkedList
  tableSizeIndex, table, entries, map, fine, doubled,                       \* HashMap
  bins, i1, i2, pos, past, arr, kept,                                       \* Varray
  heap, asked, balance, overlap,                                            \* Suba
  stk, used, unused, given, cond, wasUnblock, poolAnswers,                  \* SvsemPool
  codes, tbl, nextIdx, broken                                               \* Msgno

stackVars == <<array, sp, at, lost, items, right>>
listVars == <<ptr, data, first, last, size, cache, content, answers, headTaken>>
mapVars == <<tableSizeIndex, table, entries, map, fine, doubled>>
varrayVars == <<bins, i1, i2, pos, past, arr, kept>>
subaVars == <<heap, asked, balance, overlap>>
poolVars == <<stk, used, unused, given, cond, wasUnblock, poolAnswers>>
msgVars == <<codes, tbl, nextIdx, broken>>
vars == <<which, stackVars, listVars, mapVars, varrayVars, subaVars, poolVars, msgVars>>

Stack == INSTANCE Stack
List == INSTANCE LinkedList
Map == INSTANCE HashMap
Varray == INSTANCE Varray
Suba == INSTANCE Suba
Pool == INSTANCE SvsemPool
Msgno == INSTANCE Msgno

Init == /\ which \in {"stack", "list", "map", "varray", "suba", "pool", "msgno"}
        /\ Stack!Init /\ List!Init /\ Map!Init /\ Varray!Init /\ Suba!Init /\ Pool!Init
        /\ Msgno!Init
Next ==
  /\ UNCHANGED which
  /\ \/ /\ which = "stack" /\ Stack!Next
        /\ UNCHANGED <<listVars, mapVars, varrayVars, subaVars, poolVars, msgVars>>
     \/ /\ which = "list" /\ List!Next
        /\ UNCHANGED <<stackVars, mapVars, varrayVars, subaVars, poolVars, msgVars>>
     \/ /\ which = "map" /\ Map!Next
        /\ UNCHANGED <<stackVars, listVars, varrayVars, subaVars, poolVars, msgVars>>
     \/ /\ which = "varray" /\ Varray!Next
        /\ UNCHANGED <<stackVars, listVars, mapVars, subaVars, poolVars, msgVars>>
     \/ /\ which = "suba" /\ Suba!Next
        /\ UNCHANGED <<stackVars, listVars, mapVars, varrayVars, poolVars, msgVars>>
     \/ /\ which = "pool" /\ Pool!Next
        /\ UNCHANGED <<stackVars, listVars, mapVars, varrayVars, subaVars, msgVars>>
     \/ /\ which = "msgno" /\ Msgno!Next
        /\ UNCHANGED <<stackVars, listVars, mapVars, varrayVars, subaVars, poolVars>>
Spec == Init /\ [][Next]_vars

(* stack.c: the array holds what was pushed and not popped, in order,      *)
(* whatever was grown, halved, cleaned or refused between, and every call  *)
(* answers as a stack would.                                               *)
StackFaithful == which = "stack" => Stack!Faithful

(* linkedlist.c: the links lead through the elements in order, whatever    *)
(* was inserted and removed where; the cached positions are of elements    *)
(* still there and are not off, unless linkedlist_remove_data took the     *)
(* first element, and linkedlist_get answers right as long as they are.    *)
ListFaithful == which = "list" => List!Faithful

(* hashmap.c: the table is the client's map, no entry is lost to the       *)
(* search by removals and resizes, and the answers are right, unless       *)
(* hashmap_put stored a key for a second time.                             *)
MapFaithful == which = "map" => Map!Faithful

(* varray.c: no two indexes share an element, none is lost when higher     *)
(* ones are released, a fresh one is clear, and an iteration passes every  *)
(* element in order.                                                       *)
VarrayFaithful == which = "varray" => Varray!Faithful

(* suba.c: the cells tile the memory, the free ones are those not in use,  *)
(* in an ascending circle and merged, every request got room enough, and   *)
(* the totals agree, after any sequence of alloc, realloc and free.        *)
SubaSound == which = "suba" => Suba!Sound

(* svsem.c and svcond.c on pool.c: the bit set, the unused count and the   *)
(* holders of the elements agree, however a creation failed half way, and  *)
(* a semaphore comes out of the pool with its initial value.               *)
PoolSound == which = "pool" => Pool!Sound

(* msgno.c: the codes of all lists differ, each leads to its own message   *)
(* (but those of the list the table takes last), and the counts are right  *)
(* unless a list was refused half way.                                     *)
MsgnoUnique == which = "msgno" => Msgno!Unique
=============================================================================
