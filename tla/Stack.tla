-------------------------------- MODULE Stack --------------------------------
(***************************************************************************)
(* stack.c: a stack in an array that doubles when it is full and is cut in *)
(* half when less than a quarter of it is used.  The allocator may refuse  *)
(* at any time.  items is the stack a client believes in; right says that  *)
(* every call returned what that stack would have.                         *)
(***************************************************************************)
EXTENDS Integers, Sequences, SequencesExt

CONSTANTS
  Elem,       \* what is pushed
  Chunk,      \* the first size of the array: 32 in the code
  StackMax,   \* max_size: INT_MAX where 0 was asked for
  MaxItems    \* bound: how much is pushed

VARIABLES
  array,      \* s->array: its length is s->size
  sp,
  at,         \* iter->i1 of an iteration
  lost,       \* stack_clean freed the array and s still points to it
  items, right

stackVars == <<array, sp, at, lost, items, right>>

Null == "NULL"
Junk == "junk"          \* what fresh memory holds
Error == "error"
Ok == "ok"

Init == /\ array = <<>> /\ sp = 0 /\ at = 0 /\ lost = FALSE
        /\ items = <<>> /\ right = TRUE

Answer(got, want) == right' = (got = want)

(* allocator_realloc: what fits is kept *)
Realloc(size) == [i \in 1 .. size |-> IF i <= Len(array) THEN array[i] ELSE Junk]

(* line 167-173 *)
NewSize == IF Len(array) * 2 > StackMax THEN StackMax
           ELSE IF Len(array) = 0 THEN Chunk ELSE Len(array) * 2

(* stack_push.  With StackMax < Chunk the array outgrows StackMax the      *)
(* first time and is cut to it, below sp, the second: the assertion of     *)
(* line 183 ends the program.                                              *)
Push(x) ==
  LET room == IF sp = Len(array) THEN Realloc(NewSize) ELSE array
  IN /\ ~lost /\ Len(items) < MaxItems
     /\ sp = Len(array) => Len(array) # StackMax
     /\ sp <= Len(room)
     /\ array' = [room EXCEPT ![sp + 1] = x]
     /\ sp' = sp + 1
     /\ items' = Append(items, x) /\ Answer(Ok, Ok)
     /\ UNCHANGED <<at, lost>>

PushFull == /\ ~lost /\ sp = Len(array) /\ Len(array) = StackMax
            /\ Answer(Error, IF Len(items) = StackMax THEN Error ELSE Ok)
            /\ UNCHANGED <<array, sp, at, lost, items>>

ShrunkSize == Len(array) \div 2
\* mutant: the division by 4 is forgotten
Sparse_Any == sp < Len(array) /\ Len(array) > Chunk
Sparse == sp < Len(array) \div 4 /\ Len(array) > Chunk

(* stack_pop *)
Pop == /\ ~lost /\ sp > 0
       /\ array' = IF Sparse THEN Realloc(ShrunkSize) ELSE array
       /\ sp' = sp - 1
       /\ Answer(array[sp], Last(items)) /\ items' = Front(items)
       /\ UNCHANGED <<at, lost>>

(* an array that cannot be reallocated: the call fails, the stack is as it *)
(* was; stack_pop returns NULL although there are elements                 *)
NoMemory == /\ ~lost
            /\ \/ sp = Len(array) /\ Len(array) # StackMax /\ Answer(Error, Error)
               \/ sp > 0 /\ Sparse /\ Answer(Null, Null)
               \/ sp > 0 /\ Len(array) > sp /\ Answer(Error, Error)
            /\ UNCHANGED <<array, sp, at, lost, items>>

(* stack_peek, stack_get, stack_is_empty and stack_size *)
Peek == /\ ~lost
        /\ Answer(IF sp > 0 THEN array[sp] ELSE Null,
                  IF items # <<>> THEN Last(items) ELSE Null)
        /\ UNCHANGED <<array, sp, at, lost, items>>
Get(i) == /\ ~lost
          /\ Answer(IF sp = 0 \/ i >= sp THEN Null ELSE array[i + 1],
                    IF i < Len(items) THEN items[i + 1] ELSE Null)
          /\ UNCHANGED <<array, sp, at, lost, items>>
Size == /\ ~lost /\ Answer(sp, Len(items))
        /\ UNCHANGED <<array, sp, at, lost, items>>

(* stack_iterate, stack_next *)
Iterate == /\ at' = 0 /\ UNCHANGED <<array, sp, lost, items, right>>
IterNext == /\ ~lost
            /\ at' = IF at < sp THEN at + 1 ELSE at
            /\ Answer(IF at < sp THEN array[at + 1] ELSE Null,
                      IF at < Len(items) THEN items[at + 1] ELSE Null)
            /\ UNCHANGED <<array, sp, lost, items>>

(* stack_clear with a data_del (without one it does nothing) *)
Clear == /\ ~lost /\ sp' = 0 /\ items' = <<>> /\ Answer(Ok, Ok)
         /\ UNCHANGED <<array, at, lost>>

(* stack_clean.  Reallocating to size 0 frees the array and returns NULL,  *)
(* which is taken for a failure: s->array is left dangling.                *)
Clean == /\ ~lost /\ Len(array) > sp /\ sp > 0
         /\ array' = Realloc(sp) /\ Answer(Len(array) - sp, Len(array) - Len(items))
         /\ UNCHANGED <<sp, at, lost, items>>
CleanEmpty == /\ ~lost /\ Len(array) > 0 /\ sp = 0
              /\ lost' = TRUE /\ array' = <<>> /\ Answer(Error, Error)
              /\ UNCHANGED <<sp, at, items>>

(* stack_deinit and stack_init, or stack_del and stack_new *)
Reinit == /\ array' = <<>> /\ sp' = 0 /\ lost' = FALSE /\ ~lost
          /\ items' = <<>> /\ Answer(Ok, Ok) /\ UNCHANGED at

Next == \/ \E x \in Elem : Push(x)
        \/ PushFull \/ Pop \/ NoMemory \/ Peek \/ Size \/ Iterate \/ IterNext
        \/ \E i \in 0 .. MaxItems : Get(i)
        \/ Clear \/ Clean \/ CleanEmpty \/ Reinit

(* The array always holds the elements pushed and not popped, in order,    *)
(* whatever was grown, cut, cleaned or refused, and every call answers as  *)
(* a stack of at most StackMax elements would, if Chunk is no more.        *)
Faithful == /\ sp <= Len(array) \/ lost
            /\ sp = Len(items)
            /\ ~lost => SubSeq(array, 1, sp) = items
            /\ Chunk <= StackMax => sp <= StackMax
            /\ right
=============================================================================
