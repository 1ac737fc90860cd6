--------------------------- MODULE ContainersProofs ---------------------------
(***************************************************************************)
(* Proofs about the components of Containers, for any values of the        *)
(* constants: the stack, the pool of semaphores, the array of bins, the    *)
(* linked list, the hash map, the message table and the sub-allocator.     *)
(***************************************************************************)
EXTENDS Containers, Lemmas, FiniteSetTheorems, SequenceTheorems

(***************************************************************************)
(* The stack, for any first size of the array, any max_size and any        *)
(* allocator.                                                              *)
(***************************************************************************)

Slots == Elem \cup {Stack!Junk}

(* Below sp the array is the client's stack; above it, anything.           *)
StackInv ==
  /\ array \in Seq(Slots) /\ items \in Seq(Slots)
  /\ sp \in Nat /\ at \in Nat /\ lost \in BOOLEAN
  /\ sp = Len(items)
  /\ ~lost => /\ sp <= Len(array)
              /\ \A i \in 1 .. sp : array[i] = items[i]
              /\ Chunk <= StackMax => Len(array) <= StackMax
  /\ lost => sp = 0
  /\ right = TRUE

LEMMA ReallocKeeps ==
  ASSUME StackInv, NEW n \in Nat
  PROVE  /\ Stack!Realloc(n) \in Seq(Slots) /\ Len(Stack!Realloc(n)) = n
         /\ \A i \in 1 .. n : i <= Len(array) => Stack!Realloc(n)[i] = array[i]
BY DEF StackInv, Stack!Realloc, Slots

LEMMA StackInit == Stack!Init => StackInv
<1> SUFFICES ASSUME Stack!Init PROVE StackInv
  OBVIOUS
<1>1. array \in Seq(Slots) /\ items \in Seq(Slots)
  BY EmptySeq DEF Stack!Init
<1>2. sp \in Nat /\ at \in Nat /\ lost \in BOOLEAN /\ right = TRUE
  BY EmptySeq DEF Stack!Init
<1>3. sp = Len(items) /\ sp <= Len(array) /\ Len(array) = 0 /\ sp = 0
  BY EmptySeq DEF Stack!Init
<1>4. Chunk <= StackMax => Len(array) <= StackMax
  BY StackAssumption, <1>3
<1> QED
  BY <1>1, <1>2, <1>3, <1>4 DEF StackInv

LEMMA StackPush ==
  ASSUME StackInv, NEW x \in Elem, Stack!Push(x)
  PROVE  StackInv'
<1> USE StackAssumption
<1> DEFINE room == IF sp = Len(array) THEN Stack!Realloc(Stack!NewSize) ELSE array
<1>1. /\ ~lost /\ lost' = FALSE /\ sp' = sp + 1 /\ items' = Append(items, x) /\ right' = TRUE /\ at' = at
      /\ sp = Len(array) => Len(array) # StackMax
      /\ sp <= Len(room) /\ array' = [room EXCEPT ![sp + 1] = x]
  BY DEF Stack!Push, Stack!Answer, StackInv
<1>2. /\ sp \in Nat /\ sp <= Len(array) /\ Len(array) \in Nat /\ sp = Len(items)
      /\ x \in Slots /\ array \in Seq(Slots) /\ items \in Seq(Slots)
  BY <1>1 DEF StackInv, Slots
<1>3. Stack!NewSize \in Nat
  BY <1>2 DEF Stack!NewSize
<1>4. /\ room \in Seq(Slots) /\ sp < Len(room)
      /\ \A i \in 1 .. sp : room[i] = array[i]
      /\ Chunk <= StackMax => Len(room) <= StackMax
  <2>1. CASE sp = Len(array)
    <3>1. room = Stack!Realloc(Stack!NewSize)
      BY <2>1
    <3>2. Len(room) = Stack!NewSize /\ room \in Seq(Slots)
          /\ \A i \in 1 .. Len(room) : i <= Len(array) => room[i] = array[i]
      BY <1>3, <3>1, ReallocKeeps
    <3>3. Stack!NewSize # sp /\ (Chunk <= StackMax => Stack!NewSize <= StackMax)
      BY <1>1, <1>2, <2>1 DEF Stack!NewSize, StackInv
    <3> HIDE DEF room
    <3> QED
      BY <1>1, <1>2, <1>3, <2>1, <3>2, <3>3
  <2>2. CASE sp # Len(array)
    BY <1>1, <1>2, <2>2 DEF StackInv
  <2> QED
    BY <2>1, <2>2
<1> HIDE DEF room
<1>5. /\ array' \in Seq(Slots) /\ Len(array') = Len(room) /\ array'[sp + 1] = x
      /\ \A i \in 1 .. sp : array'[i] = room[i]
  <2>1. sp + 1 \in 1 .. Len(room)
    BY <1>2, <1>4
  <2> QED
    BY <1>1, <1>2, <1>4, <2>1, ExceptSeq
<1>6. /\ items' \in Seq(Slots) /\ Len(items') = sp + 1 /\ items'[sp + 1] = x
      /\ \A i \in 1 .. sp : items'[i] = items[i]
  BY <1>1, <1>2, AppendProperties
<1>7. \A i \in 1 .. sp : array'[i] = items'[i]
  BY <1>1, <1>2, <1>4, <1>5, <1>6 DEF StackInv
<1>8. \A i \in 1 .. sp' : array'[i] = items'[i]
  BY <1>1, <1>2, <1>5, <1>6, <1>7
<1>9. /\ array' \in Seq(Slots) /\ items' \in Seq(Slots)
      /\ sp' \in Nat /\ at' \in Nat /\ lost' = FALSE /\ right' = TRUE
  BY <1>1, <1>2, <1>5, <1>6 DEF StackInv
<1>10. /\ sp' = Len(items') /\ sp' <= Len(array')
       /\ Chunk <= StackMax => Len(array') <= StackMax
  BY <1>1, <1>2, <1>4, <1>5, <1>6
<1> QED
  BY <1>8, <1>9, <1>10 DEF StackInv

LEMMA StackPop ==
  ASSUME StackInv, Stack!Pop
  PROVE  StackInv'
<1> USE StackAssumption
<1>1. /\ ~lost /\ lost' = FALSE /\ sp > 0 /\ sp' = sp - 1 /\ at' = at /\ items' = Stack!Front(items)
      /\ array' = IF Stack!Sparse THEN Stack!Realloc(Stack!ShrunkSize) ELSE array
      /\ right' = (array[sp] = Stack!Last(items))
  BY DEF Stack!Pop, Stack!Answer, StackInv
<1>2. /\ sp \in Nat /\ sp <= Len(array) /\ Len(array) \in Nat /\ sp = Len(items)
      /\ array \in Seq(Slots) /\ items \in Seq(Slots)
      /\ \A i \in 1 .. sp : array[i] = items[i]
  BY <1>1 DEF StackInv
<1>3. /\ items' \in Seq(Slots) /\ Len(items') = sp - 1
      /\ \A i \in 1 .. sp - 1 : items'[i] = items[i]
  <2>1. items' = SubSeq(items, 1, sp - 1)
    BY <1>1, <1>2 DEF Stack!Front
  <2> QED
    BY <1>1, <1>2, <2>1, SubSeqProperties
<1>4. right' = TRUE
  <2>1. sp \in 1 .. sp /\ Stack!Last(items) = items[sp]
    BY <1>1, <1>2 DEF Stack!Last
  <2>2. array[sp] = Stack!Last(items)
    BY <1>2, <2>1
  <2> QED
    BY <1>1, <2>2
<1>5. /\ array' \in Seq(Slots) /\ sp - 1 <= Len(array') /\ Len(array') <= Len(array)
      /\ \A i \in 1 .. sp - 1 : array'[i] = array[i]
  <2>1. CASE Stack!Sparse
    <3>1. Stack!ShrunkSize \in Nat /\ sp <= Stack!ShrunkSize /\ Stack!ShrunkSize <= Len(array)
      BY <1>2, <2>1 DEF Stack!Sparse, Stack!ShrunkSize
    <3>2. /\ array' \in Seq(Slots) /\ Len(array') = Stack!ShrunkSize
          /\ \A i \in 1 .. Stack!ShrunkSize : i <= Len(array) => array'[i] = array[i]
      BY <1>1, <2>1, <3>1, ReallocKeeps
    <3> HIDE DEF Stack!ShrunkSize
    <3> QED
      BY <1>2, <3>1, <3>2
  <2>2. CASE ~Stack!Sparse
    BY <1>1, <1>2, <2>2
  <2> QED
    BY <2>1, <2>2
<1>6. /\ array' \in Seq(Slots) /\ items' \in Seq(Slots)
      /\ sp' \in Nat /\ at' \in Nat /\ lost' = FALSE /\ right' = TRUE
  BY <1>1, <1>2, <1>3, <1>4, <1>5 DEF StackInv
<1>7. /\ sp' = Len(items') /\ sp' <= Len(array')
      /\ \A i \in 1 .. sp' : array'[i] = items'[i]
  BY <1>1, <1>2, <1>3, <1>5
<1>8. Chunk <= StackMax => Len(array') <= StackMax
  <2>1. Len(array') \in Nat /\ Len(array') <= Len(array)
    BY <1>5
  <2> QED
    BY <1>1, <1>2, <2>1 DEF StackInv
<1> QED
  BY <1>6, <1>7, <1>8 DEF StackInv

(* The calls that ask: the answers are the client's.                       *)
LEMMA StackAsk ==
  ASSUME StackInv,
         Stack!PushFull \/ Stack!NoMemory \/ Stack!Peek \/ Stack!Size \/ \E i \in Nat : Stack!Get(i)
  PROVE  StackInv'
<1> USE StackAssumption
<1>1. /\ ~lost /\ UNCHANGED <<array, sp, at, lost, items>>
  BY DEF Stack!PushFull, Stack!NoMemory, Stack!Peek, Stack!Size, Stack!Get
<1>2. /\ sp \in Nat /\ sp <= Len(array) /\ Len(array) \in Nat /\ sp = Len(items)
      /\ array \in Seq(Slots) /\ items \in Seq(Slots)
      /\ \A i \in 1 .. sp : array[i] = items[i]
  BY <1>1 DEF StackInv
<1>3. right' = TRUE
  <2>1. CASE Stack!PushFull
    BY <1>2, <2>1 DEF Stack!PushFull, Stack!Answer
  <2>2. CASE Stack!NoMemory
    BY <2>2 DEF Stack!NoMemory, Stack!Answer
  <2>3. CASE Stack!Peek
    <3>1. sp > 0 => items # <<>> /\ Stack!Last(items) = array[sp]
      BY <1>2, EmptySeq DEF Stack!Last
    <3>2. sp = 0 => items = <<>>
      BY <1>2, EmptySeq
    <3>3. right' = ((IF sp > 0 THEN array[sp] ELSE Stack!Null)
                     = (IF items # <<>> THEN Stack!Last(items) ELSE Stack!Null))
      BY <2>3 DEF Stack!Peek, Stack!Answer
    <3>4. CASE sp > 0
      BY <3>1, <3>3, <3>4
    <3>5. CASE sp = 0
      <4>1. ~ (sp > 0) /\ ~ (items # <<>>)
        BY <3>2, <3>5
      <4> QED
        BY <3>3, <4>1, Zenon
    <3>6. sp > 0 \/ sp = 0
      BY <1>2
    <3> QED
      BY <3>4, <3>5, <3>6, Zenon
  <2>4. CASE Stack!Size
    BY <1>2, <2>4 DEF Stack!Size, Stack!Answer
  <2>5. ASSUME NEW i \in Nat, Stack!Get(i)
        PROVE  right' = TRUE
    <3>1. right' = ((IF sp = 0 \/ i >= sp THEN Stack!Null ELSE array[i + 1])
                     = (IF i < Len(items) THEN items[i + 1] ELSE Stack!Null))
      BY <2>5 DEF Stack!Get, Stack!Answer
    <3>2. CASE i < sp
      <4>1. array[i + 1] = items[i + 1] /\ ~(sp = 0 \/ i >= sp) /\ i < Len(items)
        BY <1>2, <3>2
      <4> QED
        BY <3>1, <4>1
    <3>3. CASE i >= sp
      <4>1. ~(i < Len(items))
        BY <1>2, <3>3
      <4> QED
        BY <3>1, <3>3, <4>1
    <3>4. i < sp \/ i >= sp
      BY <1>2
    <3> QED
      BY <3>2, <3>3, <3>4, Zenon
  <2> QED
    BY <2>1, <2>2, <2>3, <2>4, <2>5
<1> QED
  BY <1>1, <1>3 DEF StackInv

LEMMA StackWalk ==
  ASSUME StackInv, Stack!Iterate \/ Stack!IterNext
  PROVE  StackInv'
<1>1. CASE Stack!Iterate
  BY <1>1 DEF StackInv, Stack!Iterate
<1>2. CASE Stack!IterNext
  <2>1. /\ ~lost /\ sp \in Nat /\ at \in Nat /\ sp = Len(items)
        /\ \A i \in 1 .. sp : array[i] = items[i]
    BY <1>2 DEF StackInv, Stack!IterNext
  <2>2. right' = ((IF at < sp THEN array[at + 1] ELSE Stack!Null)
                   = (IF at < Len(items) THEN items[at + 1] ELSE Stack!Null))
    BY <1>2 DEF Stack!IterNext, Stack!Answer
  <2>3. at < sp => array[at + 1] = items[at + 1]
    BY <2>1
  <2>4. right' = TRUE
    BY <2>1, <2>2, <2>3
  <2>5. at' \in Nat /\ UNCHANGED <<array, sp, lost, items>>
    BY <1>2, <2>1 DEF Stack!IterNext
  <2> QED
    BY <2>4, <2>5 DEF StackInv
<1> QED
  BY <1>1, <1>2

LEMMA StackEmptied ==
  ASSUME StackInv, Stack!Clear \/ Stack!Clean \/ Stack!CleanEmpty \/ Stack!Reinit
  PROVE  StackInv'
<1> USE StackAssumption
<1>1. CASE Stack!Clear
  <2>1. /\ items' = <<>> /\ sp' = 0 /\ right' = TRUE /\ UNCHANGED <<array, at, lost>>
    BY <1>1 DEF Stack!Clear, Stack!Answer
  <2>2. items' \in Seq(Slots) /\ Len(items') = 0
    BY <2>1, EmptySeq
  <2>3. ~lost => Len(array) \in Nat
    BY DEF StackInv
  <2> QED
    BY <2>1, <2>2, <2>3 DEF StackInv
<1>2. CASE Stack!Clean
  <2>1. /\ sp \in Nat /\ Len(array) \in Nat /\ sp < Len(array) /\ sp = Len(items) /\ ~lost
        /\ UNCHANGED <<sp, at, lost, items>>
        /\ array' = Stack!Realloc(sp)
        /\ right' = (Len(array) - sp = Len(array) - Len(items))
    BY <1>2 DEF StackInv, Stack!Clean, Stack!Answer
  <2>2. /\ array' \in Seq(Slots) /\ Len(array') = sp
        /\ \A i \in 1 .. sp : array'[i] = array[i]
    BY <2>1, ReallocKeeps
  <2>3. Chunk <= StackMax => Len(array') <= StackMax
    BY <2>1, <2>2 DEF StackInv
  <2>4. /\ right' = TRUE /\ array' \in Seq(Slots) /\ sp' <= Len(array')
        /\ \A i \in 1 .. sp' : array'[i] = items'[i]
    <3>1. \A i \in 1 .. sp : array'[i] = array[i] /\ array[i] = items[i]
      BY <2>1, <2>2 DEF StackInv
    <3>2. right' = TRUE
      BY <2>1
    <3> QED
      BY <2>1, <2>2, <3>1, <3>2
  <2> QED
    BY <2>1, <2>3, <2>4 DEF StackInv
<1>3. CASE Stack!CleanEmpty
  BY <1>3, EmptySeq DEF StackInv, Stack!CleanEmpty, Stack!Answer
<1>4. CASE Stack!Reinit
  <2>1. /\ items' = <<>> /\ array' = <<>> /\ sp' = 0 /\ right' = TRUE /\ lost' = FALSE /\ at' = at
    BY <1>4 DEF Stack!Reinit, Stack!Answer
  <2>2. /\ items' \in Seq(Slots) /\ Len(items') = 0
        /\ array' \in Seq(Slots) /\ Len(array') = 0
    BY <2>1, EmptySeq
  <2>3. Chunk <= StackMax => Len(array') <= StackMax
    BY <2>2
  <2>4. /\ at' \in Nat /\ sp' \in Nat /\ sp' = Len(items') /\ sp' <= Len(array')
        /\ \A i \in 1 .. sp' : array'[i] = items'[i]
    BY <2>1, <2>2 DEF StackInv
  <2> QED
    BY <2>1, <2>2, <2>3, <2>4 DEF StackInv
<1> QED
  BY <1>1, <1>2, <1>3, <1>4

LEMMA StackStep == StackInv /\ [Stack!Next]_stackVars => StackInv'
<1> SUFFICES ASSUME StackInv, [Stack!Next]_stackVars
             PROVE  StackInv'
  OBVIOUS
<1>1. ASSUME NEW x \in Elem, Stack!Push(x)
      PROVE  StackInv'
  BY <1>1, StackPush
<1>2. CASE Stack!Pop
  BY <1>2, StackPop
<1>3. CASE Stack!PushFull \/ Stack!NoMemory \/ Stack!Peek \/ Stack!Size
  BY <1>3, StackAsk
<1>4. ASSUME NEW i \in 0 .. MaxItems, Stack!Get(i)
      PROVE  StackInv'
  <2>1. i \in Nat
    OBVIOUS
  <2> QED
    BY <1>4, <2>1, StackAsk
<1>5. CASE Stack!Iterate \/ Stack!IterNext
  BY <1>5, StackWalk
<1>6. CASE Stack!Clear \/ Stack!Clean \/ Stack!CleanEmpty \/ Stack!Reinit
  BY <1>6, StackEmptied
<1>7. CASE UNCHANGED stackVars
  BY <1>7 DEF StackInv, stackVars
<1> QED
  BY <1>1, <1>2, <1>3, <1>4, <1>5, <1>6, <1>7 DEF Stack!Next

(* The array is the client's stack and every call answers as that stack    *)
(* would, through any growing, halving, cleaning and failing allocation,   *)
(* for any max_size and first size (stack.c, all of it).                   *)
THEOREM StackIsFaithful == Spec => []StackFaithful
<1>1. Init => StackInv
  BY StackInit DEF Init
<1>2. StackInv /\ [Next]_vars => StackInv'
  <2> SUFFICES ASSUME StackInv, [Next]_vars
               PROVE  StackInv'
    OBVIOUS
  <2>1. [Stack!Next]_stackVars
    BY DEF Next, vars
  <2> QED
    BY <2>1, StackStep
<1>3. StackInv => StackFaithful
  <2> SUFFICES ASSUME StackInv
               PROVE  Stack!Faithful
    BY DEF StackFaithful
  <2>1. ~lost => SubSeq(array, 1, sp) = items
    <3> SUFFICES ASSUME ~lost PROVE SubSeq(array, 1, sp) = items
      OBVIOUS
    <3>1. /\ array \in Seq(Slots) /\ items \in Seq(Slots) /\ sp = Len(items) /\ sp \in Nat
          /\ sp <= Len(array) /\ \A i \in 1 .. sp : array[i] = items[i]
      BY DEF StackInv
    <3>2. \A i \in 1 .. sp : array[i] \in Slots
      BY <3>1
    <3>3. /\ SubSeq(array, 1, sp) \in Seq(Slots) /\ Len(SubSeq(array, 1, sp)) = sp
          /\ \A i \in 1 .. sp : SubSeq(array, 1, sp)[i] = array[i]
      BY <3>1, <3>2, SubSeqProperties
    <3> QED
      BY <3>1, <3>3, SeqEqual
  <2>2. Chunk <= StackMax => sp <= StackMax
    <3>1. CASE lost
      BY <3>1, StackAssumption DEF StackInv
    <3>2. CASE ~lost
      <4>1. array \in Seq(Slots) /\ sp \in Nat /\ sp <= Len(array)
            /\ (Chunk <= StackMax => Len(array) <= StackMax)
        BY <3>2 DEF StackInv
      <4>2. Len(array) \in Nat
        BY <4>1, LenProperties
      <4> QED
        BY <4>1, <4>2, StackAssumption
    <3> QED
      BY <3>1, <3>2
  <2> QED
    BY <2>1, <2>2 DEF StackInv, Stack!Faithful
<1> QED
  BY <1>1, <1>2, <1>3, PTL DEF Spec
(***************************************************************************)
(* The pool of semaphores, for any size, any number of condition variables *)
(* and any failures of their creation.                                     *)
(***************************************************************************)

(* The instance brings operators of FiniteSets and FiniteSetsExt with it.  *)
LEMMA PoolCounts == \A S : Pool!Cardinality(S) = Cardinality(S)
BY Zenon DEF Pool!Cardinality, Cardinality

LEMMA PoolMins == \A S : Pool!Min(S) = Min(S)
BY Zenon DEF Pool!Min, Min

Semaphore == [val : {InitVal, 0} \cup 0 .. MaxVal, undo : BOOLEAN]
Field == {"blocked", "queue", "unblock"}

(* What holds of a pool in the middle of a call too, m elements made and   *)
(* flagged the elements SEM_UNDO may be set on.                            *)
Kept(p, m, flagged) ==
  /\ p = [stk |-> p.stk, used |-> p.used, unused |-> p.unused]
  /\ m \in 0 .. PoolMax
  /\ p.stk \in [0 .. m - 1 -> Semaphore]
  /\ p.used \subseteq 0 .. m - 1
  /\ p.unused = m - Cardinality(p.used)
  /\ \A n \in 0 .. m - 1 : p.stk[n].undo => n \in flagged

Triple == [blocked : Int, queue : Int, unblock : Int]
Held(cd) == {cd[c][f] : c \in Cond, f \in Field} \ {Pool!None}

(* Whoever is a condition variable has three elements, all its own.        *)
Apart(cd) ==
  /\ cd \in [Cond -> Triple]
  /\ \A c \in Cond : cd[c] # Pool!NoCond => \A f \in Field : cd[c][f] \in Nat
  /\ \A c, d \in Cond, f, g \in Field :
       cd[c][f] = cd[d][g] /\ cd[c][f] # Pool!None => c = d /\ f = g
  /\ IsFiniteSet(Held(cd))
  /\ Cardinality(Held(cd)) = 3 * Cardinality({c \in Cond : cd[c] # Pool!NoCond})

PoolInv ==
  /\ \E m \in 0 .. PoolMax : Kept(Pool!Pool, m, wasUnblock)
  /\ Apart(cond)
  /\ used = given \cup Held(cond)
  /\ given \cap Held(cond) = {}
  /\ poolAnswers = TRUE

(* How many elements a pool of m made ones can still hand out.             *)
Left(p, m) == p.unused + PoolMax - m

LEMMA UsedFinite ==
  ASSUME NEW p, NEW m, NEW flagged, Kept(p, m, flagged)
  PROVE  /\ m \in Nat /\ m <= PoolMax /\ PoolMax \in Nat
         /\ IsFiniteSet(p.used) /\ Cardinality(p.used) \in 0 .. m /\ p.unused \in 0 .. m
         /\ Cardinality(p.used) = m => p.used = 0 .. m - 1
         /\ DOMAIN p.stk = 0 .. m - 1 /\ Cardinality(DOMAIN p.stk) = m
         /\ Left(p, m) = PoolMax - Cardinality(p.used)
<1>1. m \in Nat /\ m <= PoolMax /\ PoolMax \in Nat
  BY PoolAssumption DEF Kept
<1>2. IsFiniteSet(0 .. m - 1) /\ Cardinality(0 .. m - 1) = m
  BY <1>1, FS_Interval
<1>3. /\ IsFiniteSet(p.used) /\ Cardinality(p.used) <= m
      /\ Cardinality(p.used) = m => p.used = 0 .. m - 1
  BY <1>2, FS_Subset DEF Kept
<1>4. Cardinality(p.used) \in Nat
  BY <1>3, FS_CardinalityType
<1>5. DOMAIN p.stk = 0 .. m - 1
  BY DEF Kept
<1>6. p.unused = m - Cardinality(p.used)
  BY DEF Kept
<1> QED
  BY <1>1, <1>2, <1>3, <1>4, <1>5, <1>6 DEF Left

(* bitset_find_first finds an element nobody holds, the next one to be     *)
(* made at the latest.                                                     *)
LEMMA FirstUnsetIs ==
  ASSUME NEW p, NEW m, NEW flagged, Kept(p, m, flagged)
  PROVE  /\ Pool!FirstUnset(p.used) \in 0 .. m
         /\ Pool!FirstUnset(p.used) \notin p.used
         /\ Pool!FirstUnset(p.used) = m => p.used = 0 .. m - 1
<1> DEFINE S == (0 .. PoolMax + 7) \ p.used
           n == Pool!FirstUnset(p.used)
<1>1. m \in Nat /\ m <= PoolMax /\ PoolMax \in Nat /\ p.used \subseteq 0 .. m - 1
  BY UsedFinite DEF Kept
<1>2. m \in S /\ S \in SUBSET Nat
  BY <1>1
<1>3. n = Min(S)
  BY PoolMins, Zenon DEF Pool!FirstUnset
<1>4. n \in S /\ \A y \in S : n <= y
  BY <1>2, <1>3, MinIsLeast
<1>5. \A y \in 0 .. n - 1 : y \in p.used
  <2> SUFFICES ASSUME NEW y \in 0 .. n - 1 PROVE y \in p.used
    OBVIOUS
  <2>1. y \in 0 .. PoolMax + 7 /\ ~ (n <= y)
    BY <1>1, <1>4
  <2> QED
    BY <1>4, <2>1
<1> HIDE DEF n
<1>6. n \in 0 .. m /\ n \notin p.used
  BY <1>1, <1>2, <1>4
<1>7. n = m => p.used = 0 .. m - 1
  BY <1>1, <1>5
<1> QED
  BY <1>6, <1>7 DEF n

(* pool_get, of a pool that is not empty. *)
LEMMA HandedKeeps ==
  ASSUME NEW p, NEW m, NEW flagged, Kept(p, m, flagged), Left(p, m) > 0,
         NEW n, n = Pool!FirstUnset(p.used), NEW q, q = Pool!Handed(p, n)
  PROVE  \E k \in m .. PoolMax :
           /\ Kept(q, k, flagged)
           /\ Left(q, k) = Left(p, m) - 1
           /\ n \in 0 .. k - 1 /\ n \notin p.used /\ n \in 0 .. PoolMax - 1
           /\ q.used = p.used \cup {n}
           /\ q.stk[n].val = InitVal
           /\ \A i \in 0 .. m - 1 : i # n => q.stk[i] = p.stk[i]
<1>0. q = [stk |-> q.stk, used |-> q.used, unused |-> q.unused]
  <2>1. \E a, b, c : q = [stk |-> a, used |-> b, unused |-> c]
    BY DEF Pool!Handed
  <2>2. PICK a, b, c : q = [stk |-> a, used |-> b, unused |-> c]
    BY <2>1
  <2>3. q.stk = a /\ q.used = b /\ q.unused = c
    BY <2>2
  <2> QED
    BY <2>2, <2>3
<1>1. /\ m \in Nat /\ m <= PoolMax /\ PoolMax \in Nat
      /\ IsFiniteSet(p.used) /\ Cardinality(p.used) \in 0 .. m /\ p.unused = m - Cardinality(p.used)
      /\ DOMAIN p.stk = 0 .. m - 1 /\ p.used \subseteq 0 .. m - 1
      /\ Cardinality(p.used) < PoolMax
      /\ p.stk \in [0 .. m - 1 -> Semaphore]
      /\ \A i \in 0 .. m - 1 : p.stk[i].undo => i \in flagged
  <2>1. /\ m \in Nat /\ m <= PoolMax /\ PoolMax \in Nat
        /\ IsFiniteSet(p.used) /\ Cardinality(p.used) \in 0 .. m
        /\ DOMAIN p.stk = 0 .. m - 1 /\ Left(p, m) = PoolMax - Cardinality(p.used)
    BY UsedFinite
  <2>2. Cardinality(p.used) < PoolMax
    BY <2>1
  <2> QED
    BY <2>1, <2>2 DEF Kept
<1>2. n \in 0 .. m /\ n \notin p.used /\ (n = m => p.used = 0 .. m - 1)
  BY FirstUnsetIs
<1>3. Cardinality(p.used \cup {n}) = Cardinality(p.used) + 1
  BY <1>1, <1>2, FS_AddElement
<1>4. CASE n < m
  <2>1. /\ q.stk = [p.stk EXCEPT ![n].val = InitVal]
        /\ q.used = p.used \cup {n} /\ q.unused = p.unused - 1
    BY <1>1, <1>2, <1>4 DEF Pool!Handed, Pool!Rst
  <2>2. /\ q.stk \in [0 .. m - 1 -> Semaphore] /\ q.stk[n].val = InitVal
        /\ q.stk[n].undo = p.stk[n].undo
        /\ \A i \in 0 .. m - 1 : i # n => q.stk[i] = p.stk[i]
    BY <1>1, <1>2, <1>4, <2>1 DEF Semaphore
  <2>3. \A i \in 0 .. m - 1 : q.stk[i].undo => i \in flagged
    BY <1>1, <2>2
  <2>4. Kept(q, m, flagged)
    BY <1>0, <1>1, <1>2, <1>3, <1>4, <2>1, <2>2, <2>3 DEF Kept
  <2> QED
    BY <1>1, <1>2, <1>4, <2>1, <2>2, <2>4 DEF Left
<1>5. CASE n = m
  <2>1. Cardinality(p.used) = m
    BY <1>1, <1>2, <1>5, FS_Interval
  <2>2. m < PoolMax /\ p.unused = 0
    BY <1>1, <2>1
  <2>3. /\ q.stk = Pool!New(p.stk, n)
        /\ q.used = p.used \cup {n} /\ q.unused = p.unused
    BY <1>1, <1>5 DEF Pool!Handed
  <2>4. 0 .. m - 1 \cup {n} = 0 .. (m + 1) - 1
    BY <1>1, <1>5
  <2>5. q.stk = [i \in 0 .. (m + 1) - 1 |-> IF i = n THEN [val |-> InitVal, undo |-> FALSE] ELSE p.stk[i]]
    BY <1>1, <2>3, <2>4 DEF Pool!New
  <2>6. /\ q.stk \in [0 .. (m + 1) - 1 -> Semaphore] /\ q.stk[n].val = InitVal
        /\ q.stk[n].undo = FALSE
        /\ \A i \in 0 .. m - 1 : i # n => q.stk[i] = p.stk[i]
    <3>1. [val |-> InitVal, undo |-> FALSE] \in Semaphore
      BY DEF Semaphore
    <3>2. q.stk \in [0 .. (m + 1) - 1 -> Semaphore]
      <4>1. \A i \in 0 .. (m + 1) - 1 : i # n => i \in 0 .. m - 1
        BY <1>1, <1>5
      <4>2. \A i \in 0 .. (m + 1) - 1 :
              (IF i = n THEN [val |-> InitVal, undo |-> FALSE] ELSE p.stk[i]) \in Semaphore
        BY <1>1, <3>1, <4>1
      <4> QED
        BY <2>5, <4>2
    <3>3. n \in 0 .. (m + 1) - 1 /\ \A i \in 0 .. m - 1 : i \in 0 .. (m + 1) - 1
      BY <1>1, <1>5
    <3>4. q.stk[n] = [val |-> InitVal, undo |-> FALSE]
      BY <2>5, <3>3
    <3>5. \A i \in 0 .. m - 1 : i # n => q.stk[i] = p.stk[i]
      BY <2>5, <3>3
    <3> QED
      BY <3>2, <3>4, <3>5
  <2>7. \A i \in 0 .. (m + 1) - 1 : q.stk[i].undo => i \in flagged
    <3>1. \A i \in 0 .. (m + 1) - 1 : i # n => i \in 0 .. m - 1
      BY <1>1, <1>5
    <3> QED
      BY <1>1, <2>6, <3>1
  <2> DEFINE k == m + 1
  <2>8. /\ k \in m .. PoolMax /\ k \in 0 .. PoolMax /\ n \in 0 .. k - 1 /\ n \in 0 .. PoolMax - 1
        /\ p.used \cup {n} \subseteq 0 .. k - 1
        /\ q.unused = k - Cardinality(p.used \cup {n})
        /\ q.unused + PoolMax - k = p.unused + PoolMax - m - 1
    BY <1>1, <1>3, <1>5, <2>1, <2>2, <2>3
  <2>9. Kept(q, k, flagged)
    BY <1>0, <2>3, <2>6, <2>7, <2>8 DEF Kept
  <2>10. Left(q, k) = Left(p, m) - 1
    BY <1>1, <2>3, <2>8 DEF Left
  <2> HIDE DEF k
  <2> QED
    BY <1>2, <2>3, <2>6, <2>8, <2>9, <2>10
<1> QED
  BY <1>1, <1>2, <1>4, <1>5

(* pool_release of an element in use. *)
LEMMA ReleasedKeeps ==
  ASSUME NEW p, NEW m, NEW flagged, Kept(p, m, flagged), NEW n \in p.used,
         NEW q, q = Pool!Released(p, n)
  PROVE  Kept(q, m, flagged) /\ q.used = p.used \ {n} /\ q.stk = p.stk
<1>1. q = [stk |-> p.stk, used |-> p.used \ {n}, unused |-> p.unused + 1]
  <2> DEFINE a == p.stk
             b == p.used
             c == p.unused
  <2>1. p = [stk |-> a, used |-> b, unused |-> c]
    BY DEF Kept
  <2> HIDE DEF a, b, c
  <2>2. q = [stk |-> a, used |-> b \ {n}, unused |-> c + 1]
    BY <2>1 DEF Pool!Released
  <2> QED
    BY <2>2 DEF a, b, c
<1>2. IsFiniteSet(p.used) /\ m \in Nat /\ Cardinality(p.used) \in Nat
  BY UsedFinite
<1>3. Cardinality(p.used \ {n}) = Cardinality(p.used) - 1
  BY <1>2, FS_RemoveElement
<1> QED
  BY <1>1, <1>2, <1>3 DEF Kept

LEMMA ThreeFields ==
  ASSUME NEW t
  PROVE  {t[f] : f \in Field} = {t.blocked, t.queue, t.unblock}
BY DEF Field

(* The conditions once c has the elements a, b and u. *)
With(cd, c, a, b, u) == [cd EXCEPT ![c] = [blocked |-> a, queue |-> b, unblock |-> u]]

(* svcond_create takes three elements nobody has. *)
LEMMA HeldGrows ==
  ASSUME NEW cd, Apart(cd), NEW c \in Cond, cd[c] = Pool!NoCond,
         NEW a \in Nat, NEW b \in Nat, NEW u \in Nat
  PROVE  Held(With(cd, c, a, b, u)) = Held(cd) \cup {a, b, u}
<1> DEFINE t == [blocked |-> a, queue |-> b, unblock |-> u]
           new == With(cd, c, a, b, u)
<1>1. new[c] = t /\ \A d \in Cond : d # c => new[d] = cd[d]
  BY DEF Apart, Triple, With
<1> HIDE DEF new
<1>2. /\ t["blocked"] = a /\ t["queue"] = b /\ t["unblock"] = u
      /\ \A f \in Field : cd[c][f] = Pool!None
  BY DEF Field, Pool!NoCond
<1> QED
  <2>1. Held(new) = Held(cd) \cup {a, b, u}
    BY <1>1, <1>2 DEF Held, Field, Pool!None
  <2> QED
    BY <2>1 DEF new

LEMMA ApartCreate ==
  ASSUME NEW cd, Apart(cd), NEW c \in Cond, cd[c] = Pool!NoCond,
         NEW a \in Nat, NEW b \in Nat, NEW u \in Nat, a # b, a # u, b # u,
         a \notin Held(cd), b \notin Held(cd), u \notin Held(cd)
  PROVE  Apart(With(cd, c, a, b, u))
<1> DEFINE t == [blocked |-> a, queue |-> b, unblock |-> u]
           new == With(cd, c, a, b, u)
<1>1. /\ new \in [Cond -> Triple] /\ new[c] = t /\ t \in Triple
      /\ \A d \in Cond : d # c => new[d] = cd[d]
  BY DEF Apart, Triple, With
<1>2. /\ t["blocked"] = a /\ t["queue"] = b /\ t["unblock"] = u
      /\ \A f \in Field : cd[c][f] = Pool!None
  BY DEF Field, Pool!NoCond
<1>3. Held(new) = Held(cd) \cup {a, b, u}
  BY HeldGrows
<1> HIDE DEF new
<1>4. t # Pool!NoCond /\ \A f \in Field : t[f] \in Nat /\ t[f] \in {a, b, u}
  BY <1>2 DEF Pool!NoCond, Pool!None, Field
<1>5. \A d \in Cond : new[d] # Pool!NoCond => \A f \in Field : new[d][f] \in Nat
  BY <1>1, <1>4 DEF Apart
<1>6. \A d, e \in Cond, f, g \in Field :
        new[d][f] = new[e][g] /\ new[d][f] # Pool!None => d = e /\ f = g
  <2>1. \A d \in Cond, f \in Field : d # c /\ cd[d][f] # Pool!None => cd[d][f] \notin {a, b, u}
    BY DEF Held
  <2>2. \A f, g \in Field : t[f] = t[g] => f = g
    BY <1>2 DEF Field
  <2> QED
    BY <1>1, <1>4, <2>1, <2>2 DEF Apart
<1>7. /\ IsFiniteSet(Held(new))
      /\ Cardinality(Held(new)) = Cardinality(Held(cd)) + 3
  <2> DEFINE A == Held(cd) \cup {a}
             B == A \cup {b}
  <2>1. Held(new) = B \cup {u} /\ a \notin Held(cd) /\ b \notin A /\ u \notin B
    BY <1>3
  <2>2. IsFiniteSet(Held(cd)) /\ Cardinality(Held(cd)) \in Nat
    BY FS_CardinalityType DEF Apart
  <2>3. IsFiniteSet(A) /\ Cardinality(A) = Cardinality(Held(cd)) + 1
    BY <2>1, <2>2, FS_AddElement
  <2> HIDE DEF A
  <2>4. IsFiniteSet(B) /\ Cardinality(B) = Cardinality(A) + 1
    BY <2>1, <2>3, FS_AddElement
  <2> HIDE DEF B
  <2>5. IsFiniteSet(Held(new)) /\ Cardinality(Held(new)) = Cardinality(B) + 1
    BY <2>1, <2>4, FS_AddElement
  <2> QED
    BY <2>2, <2>3, <2>4, <2>5
<1>8. Cardinality({d \in Cond : new[d] # Pool!NoCond}) = Cardinality({d \in Cond : cd[d] # Pool!NoCond}) + 1
  <2> DEFINE A == {d \in Cond : cd[d] # Pool!NoCond}
  <2>1. {d \in Cond : new[d] # Pool!NoCond} = A \cup {c} /\ c \notin A
    BY <1>1, <1>4
  <2>2. IsFiniteSet(A)
    BY PoolAssumption, FS_Subset
  <2> HIDE DEF A
  <2> QED
    BY <2>1, <2>2, FS_AddElement DEF A
<1>9. Cardinality(Held(new)) = 3 * Cardinality({d \in Cond : new[d] # Pool!NoCond})
  <2>1. Cardinality({d \in Cond : cd[d] # Pool!NoCond}) \in Nat
    BY PoolAssumption, FS_Subset, FS_CardinalityType
  <2> QED
    BY <1>7, <1>8, <2>1 DEF Apart
<1>10. Apart(new)
  BY <1>1, <1>3, <1>5, <1>6, <1>7, <1>9 DEF Apart
<1> QED
  BY <1>10 DEF new

(* svcond_destroy gives all three back. *)
LEMMA HeldDestroy ==
  ASSUME NEW cd, Apart(cd), NEW c \in Cond, cd[c] # Pool!NoCond,
         NEW new, new = [cd EXCEPT ![c] = Pool!NoCond]
  PROVE  /\ Apart(new)
         /\ Held(new) = Held(cd) \ {cd[c].blocked, cd[c].queue, cd[c].unblock}
         /\ {cd[c].blocked, cd[c].queue, cd[c].unblock} \subseteq Held(cd)
         /\ cd[c].blocked # cd[c].queue /\ cd[c].blocked # cd[c].unblock /\ cd[c].queue # cd[c].unblock
<1> DEFINE t == cd[c]
           gone == {t.blocked, t.queue, t.unblock}
<1>1. /\ new \in [Cond -> Triple] /\ new[c] = Pool!NoCond
      /\ \A d \in Cond : d # c => new[d] = cd[d]
  BY DEF Apart, Triple, Pool!NoCond, Pool!None
<1>2. /\ \A f \in Field : Pool!NoCond[f] = Pool!None /\ t[f] \in Nat /\ t[f] # Pool!None
      /\ t["blocked"] = t.blocked /\ t["queue"] = t.queue /\ t["unblock"] = t.unblock
  BY DEF Field, Pool!NoCond, Pool!None, Apart
<1>3. gone = {t[f] : f \in Field}
  BY ThreeFields
<1>4. gone \subseteq Held(cd)
  <2>1. \A f \in Field : cd[c][f] \in Held(cd)
    BY <1>2 DEF Held
  <2> QED
    BY <1>3, <2>1
<1>5. t.blocked # t.queue /\ t.blocked # t.unblock /\ t.queue # t.unblock
  BY <1>2 DEF Apart, Field
<1>6. \A d \in Cond, f, g \in Field : d # c /\ cd[d][f] # Pool!None => cd[d][f] # t[g]
  BY DEF Apart
<1>7. Held(new) = Held(cd) \ gone
  <2>1. ASSUME NEW x \in Held(new) PROVE x \in Held(cd) \ gone
    <3>1. PICK d \in Cond, f \in Field : x = new[d][f] /\ x # Pool!None
      BY <2>1 DEF Held
    <3>2. d # c /\ x = cd[d][f]
      BY <1>1, <1>2, <3>1
    <3> QED
      BY <1>3, <1>6, <3>1, <3>2 DEF Held
  <2>2. ASSUME NEW x \in Held(cd) \ gone PROVE x \in Held(new)
    <3>1. PICK d \in Cond, f \in Field : x = cd[d][f] /\ x # Pool!None
      BY <2>2 DEF Held
    <3>2. d # c
      BY <1>3, <2>2, <3>1
    <3> QED
      BY <1>1, <3>1, <3>2 DEF Held
  <2> QED
    BY <2>1, <2>2
<1>8. \A d \in Cond : new[d] # Pool!NoCond => \A f \in Field : new[d][f] \in Nat
  BY <1>1 DEF Apart
<1>9. \A d, e \in Cond, f, g \in Field :
        new[d][f] = new[e][g] /\ new[d][f] # Pool!None => d = e /\ f = g
  BY <1>1, <1>2 DEF Apart
<1>10. /\ IsFiniteSet(Held(new))
       /\ Cardinality(Held(new)) = Cardinality(Held(cd)) - 3
  <2> DEFINE A == Held(cd) \ {t.blocked}
             B == A \ {t.queue}
  <2>1. Held(new) = B \ {t.unblock} /\ t.blocked \in Held(cd) /\ t.queue \in A /\ t.unblock \in B
    BY <1>4, <1>5, <1>7
  <2>2. IsFiniteSet(Held(cd)) /\ Cardinality(Held(cd)) \in Nat
    BY FS_CardinalityType DEF Apart
  <2>3. IsFiniteSet(A) /\ Cardinality(A) = Cardinality(Held(cd)) - 1
    BY <2>1, <2>2, FS_RemoveElement
  <2> HIDE DEF A
  <2>4. IsFiniteSet(B) /\ Cardinality(B) = Cardinality(A) - 1
    BY <2>1, <2>3, FS_RemoveElement
  <2> HIDE DEF B
  <2>5. IsFiniteSet(Held(new)) /\ Cardinality(Held(new)) = Cardinality(B) - 1
    BY <2>1, <2>4, FS_RemoveElement
  <2> QED
    BY <2>2, <2>3, <2>4, <2>5
<1>11. Cardinality({d \in Cond : new[d] # Pool!NoCond}) = Cardinality({d \in Cond : cd[d] # Pool!NoCond}) - 1
  <2> DEFINE A == {d \in Cond : cd[d] # Pool!NoCond}
  <2>1. {d \in Cond : new[d] # Pool!NoCond} = A \ {c} /\ c \in A
    BY <1>1
  <2>2. IsFiniteSet(A)
    BY PoolAssumption, FS_Subset
  <2> HIDE DEF A
  <2> QED
    BY <2>1, <2>2, FS_RemoveElement DEF A
<1>12. Cardinality(Held(new)) = 3 * Cardinality({d \in Cond : new[d] # Pool!NoCond})
  <2>1. Cardinality({d \in Cond : cd[d] # Pool!NoCond}) \in Nat
    BY PoolAssumption, FS_Subset, FS_CardinalityType
  <2> QED
    BY <1>10, <1>11, <2>1 DEF Apart
<1> QED
  BY <1>1, <1>4, <1>5, <1>7, <1>8, <1>9, <1>10, <1>12 DEF Apart

(* k elements of the pool p have been got, j elements are made by now.     *)
Holding(g, k, p, j, flagged) ==
  /\ Kept(g.p, j, flagged)
  /\ g.got \in Seq(0 .. j - 1) /\ Len(g.got) = k
  /\ \A i \in 1 .. k : /\ g.got[i] \notin p.used /\ g.got[i] \in 0 .. PoolMax - 1
                       /\ g.p.stk[g.got[i]].val = InitVal
  /\ \A h, i \in 1 .. k : g.got[h] = g.got[i] => h = i
  /\ g.p.used = p.used \cup {g.got[i] : i \in 1 .. k}

LEMMA TakenHolds ==
  ASSUME NEW g, NEW k \in Nat, NEW p, NEW j, NEW flagged,
         Holding(g, k, p, j, flagged), Left(g.p, j) > 0
  PROVE  \E l \in j .. PoolMax : /\ Holding(Pool!Taken(g), k + 1, p, l, flagged)
                                 /\ Left(Pool!Taken(g).p, l) = Left(g.p, j) - 1
<1> DEFINE n == Pool!FirstUnset(g.p.used)
           q == Pool!Handed(g.p, n)
           new == Pool!Taken(g)
<1>1. new.p = q /\ new.got = Append(g.got, n)
  BY DEF Pool!Taken
<1>2. Kept(g.p, j, flagged) /\ g.got \in Seq(0 .. j - 1) /\ Len(g.got) = k /\ j \in Nat
  BY UsedFinite DEF Holding
<1>3. PICK l \in j .. PoolMax :
           /\ Kept(q, l, flagged)
           /\ Left(q, l) = Left(g.p, j) - 1
           /\ n \in 0 .. l - 1 /\ n \notin g.p.used /\ n \in 0 .. PoolMax - 1
           /\ q.used = g.p.used \cup {n}
           /\ q.stk[n].val = InitVal
           /\ \A i \in 0 .. j - 1 : i # n => q.stk[i] = g.p.stk[i]
  BY SMTT(30), <1>2, HandedKeeps
<1> HIDE DEF n, q, new
<1>4. /\ new.got \in Seq(0 .. l - 1) /\ Len(new.got) = k + 1 /\ new.got[k + 1] = n
      /\ \A i \in 1 .. k : new.got[i] = g.got[i] /\ g.got[i] \in 0 .. j - 1
  <2>1. g.got \in Seq(0 .. l - 1)
    <3>1. 0 .. j - 1 \subseteq 0 .. l - 1
      BY <1>2, <1>3
    <3> QED
      BY <1>2, <3>1, SeqMonotonic
  <2>2. n \in 0 .. l - 1
    BY <1>3
  <2>3. /\ Append(g.got, n) \in Seq(0 .. l - 1) /\ Len(Append(g.got, n)) = Len(g.got) + 1
        /\ \A i \in 1 .. Len(g.got) + 1 :
             Append(g.got, n)[i] = IF i <= Len(g.got) THEN g.got[i] ELSE n
    BY <2>1, <2>2, AppendProperties
  <2>4. \A i \in 1 .. k : g.got[i] \in 0 .. j - 1
    BY <1>2, ElementOfSeq
  <2>5. k + 1 \in 1 .. k + 1 /\ ~(k + 1 <= k) /\ \A i \in 1 .. k : i \in 1 .. k + 1 /\ i <= k
    OBVIOUS
  <2>6. new.got[k + 1] = n /\ \A i \in 1 .. k : new.got[i] = g.got[i]
    BY <1>1, <1>2, <2>3, <2>5
  <2> QED
    BY <1>1, <1>2, <2>3, <2>4, <2>6
<1>5. \A i \in 1 .. k : g.got[i] \in g.p.used /\ g.got[i] # n
  BY <1>3 DEF Holding
<1>6. \A i \in 1 .. k + 1 : i = k + 1 \/ i \in 1 .. k
  OBVIOUS
<1>7. n \notin p.used
  BY <1>3 DEF Holding
<1>8. \A i \in 1 .. k + 1 : /\ new.got[i] \notin p.used /\ new.got[i] \in 0 .. PoolMax - 1
                           /\ new.p.stk[new.got[i]].val = InitVal
  <2> SUFFICES ASSUME NEW i \in 1 .. k + 1
               PROVE  /\ new.got[i] \notin p.used /\ new.got[i] \in 0 .. PoolMax - 1
                      /\ new.p.stk[new.got[i]].val = InitVal
    OBVIOUS
  <2>1. CASE i = k + 1
    BY <1>1, <1>3, <1>4, <1>7, <2>1
  <2>2. CASE i \in 1 .. k
    <3>1. new.got[i] = g.got[i] /\ g.got[i] # n /\ g.got[i] \in 0 .. j - 1
      BY <1>4, <1>5, <2>2
    <3>2. /\ g.got[i] \notin p.used /\ g.got[i] \in 0 .. PoolMax - 1
          /\ g.p.stk[g.got[i]].val = InitVal
      BY <2>2 DEF Holding
    <3> QED
      BY <1>1, <1>3, <3>1, <3>2
  <2> QED
    BY <1>6, <2>1, <2>2
<1>9. \A h, i \in 1 .. k + 1 : new.got[h] = new.got[i] => h = i
  <2>1. \A h, i \in 1 .. k : g.got[h] = g.got[i] => h = i
    BY DEF Holding
  <2>2. \A i \in 1 .. k : new.got[i] = g.got[i] /\ new.got[i] # new.got[k + 1]
    BY <1>4, <1>5
  <2> QED
    BY <1>6, <2>1, <2>2
<1>10. new.p.used = p.used \cup {new.got[i] : i \in 1 .. k + 1}
  <2>1. {new.got[i] : i \in 1 .. k + 1} = {g.got[i] : i \in 1 .. k} \cup {n}
    <3>1. \A i \in 1 .. k : i \in 1 .. k + 1 /\ new.got[i] = g.got[i]
      BY <1>4
    <3>2. k + 1 \in 1 .. k + 1 /\ new.got[k + 1] = n
      BY <1>4
    <3> QED
      BY <1>6, <3>1, <3>2
  <2>2. g.p.used = p.used \cup {g.got[i] : i \in 1 .. k}
    BY DEF Holding
  <2> QED
    BY <1>1, <1>3, <2>1, <2>2
<1>11. Holding(new, k + 1, p, l, flagged)
  BY <1>1, <1>3, <1>4, <1>8, <1>9, <1>10 DEF Holding
<1> QED
  BY <1>1, <1>3, <1>11 DEF new

LEMMA GotHolds ==
  ASSUME NEW m, NEW flagged, Kept(Pool!Pool, m, flagged),
         NEW k \in 0 .. 3, Left(Pool!Pool, m) >= k
  PROVE  \E l \in m .. PoolMax : Holding(Pool!Got(k), k, Pool!Pool, l, flagged)
<1> DEFINE p == Pool!Pool
           g0 == [p |-> p, got |-> <<>>]
           g1 == Pool!Taken(g0)
           g2 == Pool!Taken(g1)
           g3 == Pool!Taken(g2)
<1>1. /\ Pool!Got(0) = g0 /\ Pool!Got(1) = g1 /\ Pool!Got(2) = g2 /\ Pool!Got(3) = g3
  BY DEF Pool!Got
<1>2. m \in Nat /\ m <= PoolMax /\ PoolMax \in Nat /\ Left(p, m) \in Nat
  <2>1. m \in Nat /\ m <= PoolMax /\ PoolMax \in Nat /\ p.unused \in 0 .. m
    BY UsedFinite
  <2> QED
    BY <2>1 DEF Left
<1>3. Holding(g0, 0, p, m, flagged)
  <2>1. g0.p = p /\ g0.got = <<>> /\ g0.got \in Seq(0 .. m - 1) /\ Len(g0.got) = 0
    BY EmptySeq
  <2> QED
    BY <2>1 DEF Holding
<1>4. CASE k = 0
  BY <1>1, <1>2, <1>3, <1>4
<1>5. CASE k >= 1
  <2>1. PICK l1 \in m .. PoolMax : /\ Holding(g1, 1, p, l1, flagged)
                                   /\ Left(g1.p, l1) = Left(p, m) - 1
    <3>1. Left(g0.p, m) > 0 /\ Left(g0.p, m) = Left(p, m)
      BY <1>2, <1>5
    <3> HIDE DEF g0, p
    <3>2. \E l \in m .. PoolMax : /\ Holding(Pool!Taken(g0), 0 + 1, p, l, flagged)
                                  /\ Left(Pool!Taken(g0).p, l) = Left(g0.p, m) - 1
      BY <1>3, <3>1, TakenHolds
    <3> QED
      BY <3>1, <3>2
  <2>2. l1 \in Nat /\ l1 >= m /\ l1 <= PoolMax
    BY <1>2
  <2>3. CASE k = 1
    BY <1>1, <2>1, <2>3
  <2>4. CASE k >= 2
    <3>1. PICK l2 \in l1 .. PoolMax : /\ Holding(g2, 2, p, l2, flagged)
                                      /\ Left(g2.p, l2) = Left(p, m) - 2
      <4>1. Left(g1.p, l1) > 0 /\ Left(g1.p, l1) = Left(p, m) - 1
        BY <1>2, <2>1, <2>4
      <4> HIDE DEF g1, p
      <4>2. \E l \in l1 .. PoolMax : /\ Holding(Pool!Taken(g1), 1 + 1, p, l, flagged)
                                     /\ Left(Pool!Taken(g1).p, l) = Left(g1.p, l1) - 1
        BY <2>1, <4>1, TakenHolds
      <4> QED
        BY <1>2, <4>1, <4>2
    <3>2. l2 \in Nat /\ l2 \in m .. PoolMax /\ l2 >= l1
      BY <1>2, <2>2
    <3>3. CASE k = 2
      BY <1>1, <3>1, <3>2, <3>3
    <3>4. CASE k = 3
      <4>1. PICK l3 \in l2 .. PoolMax : Holding(g3, 3, p, l3, flagged)
        <5>1. Left(g2.p, l2) > 0
          BY <1>2, <3>1, <3>4
        <5> HIDE DEF g2, p
        <5>2. \E l \in l2 .. PoolMax : /\ Holding(Pool!Taken(g2), 2 + 1, p, l, flagged)
                                       /\ Left(Pool!Taken(g2).p, l) = Left(g2.p, l2) - 1
          BY <3>1, <5>1, TakenHolds
        <5> QED
          BY <5>2
      <4>2. l3 \in m .. PoolMax
        BY <1>2, <3>2
      <4> QED
        BY <1>1, <3>4, <4>1, <4>2
    <3> QED
      BY <2>4, <3>3, <3>4
  <2> QED
    BY <1>5, <2>3, <2>4
<1> QED
  BY <1>4, <1>5

LEMMA InCondsHeld == Pool!InConds = Held(cond)
BY DEF Pool!InConds, Held, Field

LEMMA PoolInvStep ==
  ASSUME NEW q, NEW m, Kept(q, m, wasUnblock'), Pool!Becomes(q),
         Apart(cond'), q.used = given' \cup Held(cond'), given' \cap Held(cond') = {},
         poolAnswers' = TRUE
  PROVE  PoolInv'
<1>1. Pool!Pool' = q
  BY DEF Pool!Pool, Pool!Becomes, Kept
<1>2. m \in 0 .. PoolMax /\ Kept(Pool!Pool', m, wasUnblock')
  BY <1>1 DEF Kept
<1>3. used' = q.used
  BY DEF Pool!Becomes
<1> QED
  BY <1>2, <1>3 DEF PoolInv

(* What the calls that get elements start from. *)
LEMMA PoolInvNow ==
  ASSUME PoolInv
  PROVE  /\ \E m \in 0 .. PoolMax : Kept(Pool!Pool, m, wasUnblock)
         /\ Pool!Pool.stk = stk /\ Pool!Pool.used = used /\ Pool!Pool.unused = unused
         /\ Apart(cond) /\ Pool!InConds = Held(cond)
         /\ used = given \cup Held(cond) /\ given \cap Held(cond) = {}
         /\ poolAnswers = TRUE
BY InCondsHeld DEF PoolInv, Pool!Pool

LEMMA PoolInit == Pool!Init => PoolInv
<1> SUFFICES ASSUME Pool!Init PROVE PoolInv
  OBVIOUS
<1>1. /\ stk = <<>> /\ used = {} /\ unused = 0 /\ given = {} /\ wasUnblock = {} /\ poolAnswers = TRUE
      /\ cond = [c \in Cond |-> Pool!NoCond]
  BY DEF Pool!Init
<1>2. PoolMax \in Nat /\ 0 .. 0 - 1 = {}
  BY PoolAssumption
<1>3. Kept(Pool!Pool, 0, wasUnblock) /\ 0 \in 0 .. PoolMax
  BY <1>1, <1>2, FS_EmptySet DEF Kept, Pool!Pool
<1>4. Held(cond) = {} /\ {c \in Cond : cond[c] # Pool!NoCond} = {}
  BY <1>1 DEF Held, Field, Pool!NoCond
<1>5. cond \in [Cond -> Triple] /\ \A c \in Cond, f \in Field : cond[c][f] = Pool!None
  BY <1>1 DEF Triple, Pool!NoCond, Pool!None, Field
<1>6. Cardinality(Held(cond)) = 3 * Cardinality({c \in Cond : cond[c] # Pool!NoCond})
  BY <1>4, FS_EmptySet
<1>7. Apart(cond)
  BY <1>1, <1>4, <1>5, <1>6, FS_EmptySet DEF Apart
<1> QED
  BY <1>1, <1>3, <1>4, <1>7 DEF PoolInv

LEMMA PoolGet ==
  ASSUME PoolInv, Pool!Get
  PROVE  PoolInv'
<1>1. PICK m \in 0 .. PoolMax : Kept(Pool!Pool, m, wasUnblock)
  BY PoolInvNow
<1>2. /\ Pool!Pool.stk = stk /\ Pool!Pool.used = used /\ Pool!Pool.unused = unused
      /\ Apart(cond) /\ Pool!InConds = Held(cond)
      /\ used = given \cup Held(cond) /\ given \cap Held(cond) = {}
  BY PoolInvNow
<1>3. /\ m \in Nat /\ PoolMax \in Nat /\ m <= PoolMax /\ unused \in 0 .. m
      /\ Cardinality(used) \in Nat
      /\ Cardinality(DOMAIN Pool!Pool.stk) = m /\ unused + PoolMax - m = PoolMax - Cardinality(used)
  <2> DEFINE p == Pool!Pool
  <2> HIDE DEF p
  <2>1. /\ m \in Nat /\ m <= PoolMax /\ PoolMax \in Nat
        /\ Cardinality(p.used) \in 0 .. m /\ p.unused \in 0 .. m
        /\ Cardinality(DOMAIN p.stk) = m /\ Left(p, m) = PoolMax - Cardinality(p.used)
    BY <1>1, UsedFinite DEF p
  <2>2. p.unused + PoolMax - m = PoolMax - Cardinality(p.used)
    BY <2>1 DEF Left
  <2>3. p.used = used /\ p.unused = unused
    BY <1>2 DEF p
  <2> QED
    BY <2>1, <2>2, <2>3 DEF p
<1>4. Pool!Full(Pool!Pool) <=> unused = 0 /\ m = PoolMax
  <2>1. Pool!Full(Pool!Pool) <=> Pool!Pool.unused = 0 /\ Cardinality(DOMAIN Pool!Pool.stk) = PoolMax
    BY PoolCounts, Zenon DEF Pool!Full
  <2> QED
    BY <1>2, <1>3, <2>1
<1>5. CASE Pool!Full(Pool!Pool)
  <2>1. ~Pool!AnyLeft
    <3>0. unused = 0 /\ m = PoolMax
      BY <1>4, <1>5, Zenon
    <3>1. Cardinality(used) = PoolMax
      BY <1>3, <3>0
    <3> QED
      BY <1>2, <1>3, <3>1, PoolCounts DEF Pool!AnyLeft
  <2>2. poolAnswers' = TRUE /\ UNCHANGED <<stk, used, unused, given, cond, wasUnblock>>
    BY <1>5, <2>1 DEF Pool!Get
  <2>3. Pool!Becomes(Pool!Pool) /\ Kept(Pool!Pool, m, wasUnblock')
    BY <1>1, <1>2, <2>2 DEF Pool!Becomes
  <2> QED
    BY <1>2, <2>2, <2>3, PoolInvStep
<1>6. CASE ~Pool!Full(Pool!Pool)
  <2> DEFINE n == Pool!FirstUnset(used)
             q == Pool!Handed(Pool!Pool, n)
  <2>1. /\ Pool!Becomes(q) /\ given' = given \cup {n}
        /\ poolAnswers' = Pool!GoodElement(n, q) /\ UNCHANGED <<cond, wasUnblock>>
    BY <1>6 DEF Pool!Get
  <2>2. Left(Pool!Pool, m) > 0
    BY <1>2, <1>3, <1>4, <1>6 DEF Left
  <2>3. PICK k \in m .. PoolMax :
           /\ Kept(q, k, wasUnblock)
           /\ n \in 0 .. k - 1 /\ n \notin used /\ n \in 0 .. PoolMax - 1
           /\ q.used = used \cup {n}
           /\ q.stk[n].val = InitVal
    <3> DEFINE p == Pool!Pool
    <3>1. Kept(p, m, wasUnblock) /\ Left(p, m) > 0 /\ n = Pool!FirstUnset(p.used) /\ q = Pool!Handed(p, n)
      BY <1>1, <1>2, <2>2
    <3>2. p.used = used
      BY <1>2
    <3> HIDE DEF n, q, p
    <3> QED
      BY <3>1, <3>2, HandedKeeps
  <2> HIDE DEF n, q
  <2>4. poolAnswers' = TRUE
    <3>1. q.stk[n].undo => n \in wasUnblock
      BY <2>3 DEF Kept
    <3>2. Pool!GoodElement(n, q)
      BY <1>2, <2>3, <3>1 DEF Pool!GoodElement
    <3> QED
      BY <2>1, <3>2
  <2>5. q.used = given' \cup Held(cond') /\ given' \cap Held(cond') = {}
    BY <1>2, <2>1, <2>3
  <2> QED
    BY <1>2, <2>1, <2>3, <2>4, <2>5, PoolInvStep
<1> QED
  BY <1>5, <1>6

LEMMA PoolRelease ==
  ASSUME PoolInv, NEW n, Pool!Release(n)
  PROVE  PoolInv'
<1>1. PICK m \in 0 .. PoolMax : Kept(Pool!Pool, m, wasUnblock)
  BY PoolInvNow
<1>2. /\ Pool!Pool.used = used /\ Apart(cond) /\ poolAnswers = TRUE
      /\ used = given \cup Held(cond) /\ given \cap Held(cond) = {}
  BY PoolInvNow
<1>3. /\ n \in given /\ Pool!Becomes(Pool!Released(Pool!Pool, n)) /\ given' = given \ {n}
      /\ UNCHANGED <<cond, wasUnblock, poolAnswers>>
  BY DEF Pool!Release
<1>4. /\ Kept(Pool!Released(Pool!Pool, n), m, wasUnblock)
      /\ Pool!Released(Pool!Pool, n).used = used \ {n}
  BY <1>1, <1>2, <1>3, ReleasedKeeps
<1> QED
  BY <1>2, <1>3, <1>4, PoolInvStep

LEMMA PoolUse ==
  ASSUME PoolInv, NEW n \in Pool!Made, NEW v \in 0 .. MaxVal, Pool!Use(n, v)
  PROVE  PoolInv'
<1>1. PICK m \in 0 .. PoolMax : Kept(Pool!Pool, m, wasUnblock)
  BY PoolInvNow
<1>2. /\ Pool!Pool.stk = stk /\ Pool!Pool.used = used /\ Pool!Pool.unused = unused
      /\ Apart(cond) /\ poolAnswers = TRUE
      /\ used = given \cup Held(cond) /\ given \cap Held(cond) = {}
  BY PoolInvNow
<1>3. /\ stk' = [stk EXCEPT ![n].val = v]
      /\ UNCHANGED <<used, unused, given, cond, wasUnblock, poolAnswers>>
  BY DEF Pool!Use
<1> DEFINE q == [stk |-> stk', used |-> used, unused |-> unused]
<1>4. stk \in [0 .. m - 1 -> Semaphore] /\ n \in 0 .. m - 1
  BY <1>1, <1>2 DEF Kept, Pool!Made
<1>5. stk' \in [0 .. m - 1 -> Semaphore] /\ \A i \in 0 .. m - 1 : stk'[i].undo = stk[i].undo
  BY <1>3, <1>4 DEF Semaphore
<1>6. Kept(q, m, wasUnblock')
  BY <1>1, <1>2, <1>3, <1>5 DEF Kept
<1>7. Pool!Becomes(q)
  BY <1>3 DEF Pool!Becomes
<1> QED
  BY <1>2, <1>3, <1>6, <1>7, PoolInvStep

LEMMA RoomIsLeft ==
  ASSUME NEW m, NEW flagged, Kept(Pool!Pool, m, flagged), NEW k \in 0 .. 3, k <= Pool!Room
  PROVE  Left(Pool!Pool, m) >= k
<1> DEFINE p == Pool!Pool
           S == {3, unused + PoolMax - m}
<1>1. p.stk = stk /\ p.unused = unused
  BY DEF Pool!Pool
<1>2. m \in Nat /\ m <= PoolMax /\ PoolMax \in Nat /\ p.unused \in 0 .. m /\ Cardinality(DOMAIN p.stk) = m
  BY UsedFinite
<1> HIDE DEF p
<1>3. Pool!Cardinality(Pool!Made) = m
  BY <1>1, <1>2, PoolCounts DEF Pool!Made
<1>4. Pool!Room = Min(S)
  BY <1>3, PoolMins, Zenon DEF Pool!Room
<1>5. S \in SUBSET Nat /\ 3 \in S /\ unused + PoolMax - m \in S
  BY <1>1, <1>2
<1>6. Min(S) \in S /\ \A y \in S : Min(S) <= y
  BY <1>5, MinIsLeast
<1>7. Pool!Room \in Nat /\ Pool!Room <= unused + PoolMax - m
  BY <1>4, <1>5, <1>6
<1> QED
  BY <1>1, <1>2, <1>7 DEF Left, p

(* svcond_create sets the flag of one of its elements, the value of another. *)
LEMMA FlagKeeps ==
  ASSUME NEW p, NEW m, NEW flagged, Kept(p, m, flagged), NEW u \in 0 .. m - 1,
         NEW q, q = [p EXCEPT !.stk[u].undo = TRUE]
  PROVE  Kept(q, m, flagged \cup {u}) /\ q.used = p.used
<1> DEFINE s == p.stk
           a == p.used
           b == p.unused
           t == [s EXCEPT ![u].undo = TRUE]
<1>1. p = [stk |-> s, used |-> a, unused |-> b] /\ s \in [0 .. m - 1 -> Semaphore]
  BY DEF Kept
<1> HIDE DEF s, a, b
<1>2. q = [stk |-> t, used |-> a, unused |-> b]
  BY <1>1
<1>3. /\ t \in [0 .. m - 1 -> Semaphore]
      /\ \A i \in 0 .. m - 1 : i # u => t[i] = s[i]
  BY <1>1 DEF Semaphore
<1>4. \A n \in 0 .. m - 1 : t[n].undo => n \in flagged \cup {u}
  <2>1. \A n \in 0 .. m - 1 : s[n].undo => n \in flagged
    BY DEF Kept, s
  <2> QED
    BY <1>3, <2>1
<1> HIDE DEF t
<1>5. q.stk = t /\ q.used = a /\ q.unused = b
  BY <1>2
<1> QED
  BY <1>2, <1>3, <1>4, <1>5 DEF Kept, a, b

LEMMA ValueKeeps ==
  ASSUME NEW p, NEW m, NEW flagged, Kept(p, m, flagged), NEW n \in 0 .. m - 1,
         NEW q, q = [p EXCEPT !.stk[n].val = 0]
  PROVE  Kept(q, m, flagged) /\ q.used = p.used
<1> DEFINE s == p.stk
           a == p.used
           b == p.unused
           t == [s EXCEPT ![n].val = 0]
<1>1. p = [stk |-> s, used |-> a, unused |-> b] /\ s \in [0 .. m - 1 -> Semaphore]
  BY DEF Kept
<1> HIDE DEF s, a, b
<1>2. q = [stk |-> t, used |-> a, unused |-> b]
  BY <1>1
<1>3. /\ t \in [0 .. m - 1 -> Semaphore]
      /\ \A i \in 0 .. m - 1 : t[i].undo = s[i].undo
  BY <1>1 DEF Semaphore
<1>4. \A i \in 0 .. m - 1 : t[i].undo => i \in flagged
  <2>1. \A i \in 0 .. m - 1 : s[i].undo => i \in flagged
    BY DEF Kept, s
  <2> QED
    BY <1>3, <2>1
<1> HIDE DEF t
<1>5. q.stk = t /\ q.used = a /\ q.unused = b
  BY <1>2
<1> QED
  BY <1>2, <1>3, <1>4, <1>5 DEF Kept, a, b

LEMMA PoolCreate ==
  ASSUME PoolInv, NEW c \in Cond, Pool!CondCreate(c)
  PROVE  PoolInv'
<1> DEFINE g == Pool!Got(3)
           a == g.got[1]
           b == g.got[2]
           u == g.got[3]
           flag == [g.p EXCEPT !.stk[u].undo = TRUE]
           q == [g.p EXCEPT !.stk[u].undo = TRUE, !.stk[b].val = 0]
<1>1. PICK m \in 0 .. PoolMax : Kept(Pool!Pool, m, wasUnblock)
  BY PoolInvNow
<1>2. /\ Pool!Pool.used = used /\ Apart(cond) /\ Pool!InConds = Held(cond)
      /\ used = given \cup Held(cond) /\ given \cap Held(cond) = {}
  BY PoolInvNow
<1>3. /\ cond[c] = Pool!NoCond /\ Pool!Room = 3 /\ Pool!Becomes(q)
      /\ cond' = [cond EXCEPT ![c] = [blocked |-> a, queue |-> b, unblock |-> u]]
      /\ wasUnblock' = wasUnblock \cup {u}
      /\ poolAnswers' = \A i \in 1 .. 3 : Pool!GoodElement(g.got[i], g.p)
      /\ given' = given
  BY DEF Pool!CondCreate
<1>4. Left(Pool!Pool, m) >= 3
  BY <1>1, <1>3, RoomIsLeft
<1>5. PICK l \in m .. PoolMax : Holding(g, 3, Pool!Pool, l, wasUnblock)
  BY <1>1, <1>4, GotHolds
<1> HIDE DEF g
<1>6. /\ Kept(g.p, l, wasUnblock) /\ l \in Nat /\ 1 \in 1 .. 3 /\ 2 \in 1 .. 3 /\ 3 \in 1 .. 3
      /\ g.got \in Seq(0 .. l - 1) /\ Len(g.got) = 3
      /\ \A i \in 1 .. 3 : /\ g.got[i] \notin used /\ g.got[i] \in 0 .. PoolMax - 1
                           /\ g.p.stk[g.got[i]].val = InitVal
      /\ \A h, i \in 1 .. 3 : g.got[h] = g.got[i] => h = i
      /\ g.p.used = used \cup {g.got[i] : i \in 1 .. 3}
  BY SMTT(30), <1>2, <1>5, UsedFinite DEF Holding
<1>7. \A i \in 1 .. 3 : g.got[i] \in 0 .. l - 1
  BY <1>6, ElementOfSeq
<1>8. /\ a \in 0 .. l - 1 /\ b \in 0 .. l - 1 /\ u \in 0 .. l - 1
      /\ a \notin used /\ b \notin used /\ u \notin used
      /\ a # b /\ a # u /\ b # u
      /\ {g.got[i] : i \in 1 .. 3} = {a, b, u}
  BY <1>6, <1>7
<1>9. Kept(flag, l, wasUnblock') /\ flag.used = g.p.used
  <2>1. u \in 0 .. l - 1 /\ Kept(g.p, l, wasUnblock) /\ wasUnblock' = wasUnblock \cup {u}
    BY <1>3, <1>6, <1>8
  <2>2. flag = [g.p EXCEPT !.stk[u].undo = TRUE]
    OBVIOUS
  <2> HIDE DEF u, flag
  <2> QED
    BY <2>1, <2>2, FlagKeeps
<1>10. Kept(q, l, wasUnblock') /\ q.used = g.p.used
  <2>1. q = [flag EXCEPT !.stk[b].val = 0]
    OBVIOUS
  <2> HIDE DEF flag, q, b
  <2> QED
    BY <1>8, <1>9, <2>1, ValueKeeps
<1> HIDE DEF a, b, u, flag, q
<1>11. Apart(cond') /\ Held(cond') = Held(cond) \cup {a, b, u}
  <2>0. Apart(cond)
    BY <1>2
  <2>1. a \in Nat /\ b \in Nat /\ u \in Nat /\ a # b /\ a # u /\ b # u
    BY <1>6, <1>8
  <2>2. a \notin Held(cond) /\ b \notin Held(cond) /\ u \notin Held(cond)
    BY <1>2, <1>8
  <2>3. cond[c] = Pool!NoCond /\ cond' = With(cond, c, a, b, u)
    BY <1>3 DEF With
  <2>4. Apart(cond')
    BY <2>0, <2>1, <2>2, <2>3, ApartCreate
  <2>5. Held(cond') = Held(cond) \cup {a, b, u}
    BY <2>0, <2>1, <2>3, HeldGrows
  <2> QED
    BY <2>4, <2>5
<1>12. q.used = given' \cup Held(cond') /\ given' \cap Held(cond') = {}
  <2>1. q.used = used \cup {a, b, u}
    BY <1>6, <1>8, <1>10
  <2>2. given \cap {a, b, u} = {} /\ given' = given
    BY <1>2, <1>3, <1>8
  <2> QED
    BY <1>2, <1>11, <2>1, <2>2
<1>13. poolAnswers' = TRUE
  <2>1. \A i \in 1 .. 3 : g.p.stk[g.got[i]].undo => g.got[i] \in wasUnblock
    BY <1>6, <1>7 DEF Kept
  <2>2. \A i \in 1 .. 3 : Pool!GoodElement(g.got[i], g.p)
    BY <1>2, <1>6, <2>1 DEF Pool!GoodElement
  <2> QED
    BY <1>3, <2>2
<1> QED
  BY <1>3, <1>10, <1>11, <1>12, <1>13, PoolInvStep

(* What was got before a failure is given back, all of it. *)
LEMMA ReturnedKeeps ==
  ASSUME NEW p, NEW g, NEW l, NEW flagged, NEW k \in 0 .. 3, Holding(g, k, p, l, flagged)
  PROVE  Kept(Pool!Returned(g, k), l, flagged) /\ Pool!Returned(g, k).used = p.used
<1> DEFINE one == Pool!Released(g.p, g.got[1])
           two == Pool!Released(one, g.got[2])
           three == Pool!Released(two, g.got[3])
           r == Pool!Returned(g, k)
<1>1. /\ k = 0 => r = g.p
      /\ k = 1 => r = one
      /\ k = 2 => r = two
      /\ k = 3 => r = three
  BY DEF Pool!Returned
<1>2. /\ Kept(g.p, l, flagged)
      /\ g.p.used = p.used \cup {g.got[i] : i \in 1 .. k}
      /\ \A i \in 1 .. k : g.got[i] \notin p.used
      /\ \A h, i \in 1 .. k : g.got[h] = g.got[i] => h = i
  BY DEF Holding
<1> HIDE DEF r
<1>3. CASE k = 0
  <2>1. g.p.used = p.used
    BY <1>2, <1>3
  <2> QED
    BY <1>1, <1>2, <1>3, <2>1 DEF r
<1>4. CASE k >= 1
  <2>1. Kept(one, l, flagged) /\ one.used = g.p.used \ {g.got[1]}
    <3>1. g.got[1] \in g.p.used
      BY <1>2, <1>4
    <3> HIDE DEF one
    <3> QED
      BY <1>2, <3>1, ReleasedKeeps DEF one
  <2>2. CASE k = 1
    <3>1. one.used = p.used
      BY <1>2, <2>1, <2>2
    <3> QED
      BY <1>1, <2>1, <2>2, <3>1 DEF r
  <2>3. CASE k >= 2
    <3> HIDE DEF one
    <3>1. Kept(two, l, flagged) /\ two.used = g.p.used \ {g.got[1], g.got[2]}
      <4>1. g.got[2] \in one.used
        BY <1>2, <2>1, <2>3
      <4>2. Kept(two, l, flagged) /\ two.used = one.used \ {g.got[2]}
        BY <2>1, <4>1, ReleasedKeeps
      <4> QED
        BY <2>1, <4>2
    <3>2. CASE k = 2
      <4>1. 1 .. 2 = {1, 2}
        OBVIOUS
      <4>2. two.used = p.used
        BY <1>2, <3>1, <3>2, <4>1
      <4> QED
        BY <1>1, <3>1, <3>2, <4>2 DEF r
    <3>3. CASE k = 3
      <4> HIDE DEF two
      <4>1. g.got[3] \in two.used
        BY <1>2, <3>1, <3>3
      <4>2. Kept(three, l, flagged) /\ three.used = two.used \ {g.got[3]}
        BY <3>1, <4>1, ReleasedKeeps
      <4>3. 1 .. 3 = {1, 2, 3}
        OBVIOUS
      <4>4. three.used = p.used
        BY <1>2, <3>1, <3>3, <4>2, <4>3
      <4> QED
        BY <1>1, <3>3, <4>2, <4>4 DEF r
    <3> QED
      BY <2>3, <3>2, <3>3
  <2> QED
    BY <1>4, <2>2, <2>3
<1> QED
  BY <1>3, <1>4 DEF r

LEMMA PoolCreateFails ==
  ASSUME PoolInv, NEW c \in Cond, NEW k \in 0 .. 3, Pool!CondCreateFails(c, k)
  PROVE  PoolInv'
<1> DEFINE g == Pool!Got(k)
           r == Pool!Returned(g, k)
           u == g.got[3]
<1>1. PICK m \in 0 .. PoolMax : Kept(Pool!Pool, m, wasUnblock)
  BY PoolInvNow
<1>2. /\ Pool!Pool.used = used /\ Apart(cond) /\ poolAnswers = TRUE
      /\ used = given \cup Held(cond) /\ given \cap Held(cond) = {}
  BY PoolInvNow
<1>3. /\ k <= Pool!Room
      /\ Pool!Becomes(IF k = 3 THEN [r EXCEPT !.stk[u].undo = TRUE] ELSE r)
      /\ wasUnblock' = IF k = 3 THEN wasUnblock \cup {u} ELSE wasUnblock
      /\ UNCHANGED <<given, cond, poolAnswers>>
  BY DEF Pool!CondCreateFails
<1>4. PICK l \in m .. PoolMax : Holding(g, k, Pool!Pool, l, wasUnblock)
  <2>1. Left(Pool!Pool, m) >= k
    BY <1>1, <1>3, RoomIsLeft
  <2> QED
    BY <1>1, <2>1, GotHolds
<1> HIDE DEF g
<1>5. Kept(r, l, wasUnblock) /\ r.used = used
  BY <1>2, <1>4, ReturnedKeeps
<1> HIDE DEF r
<1>6. CASE k = 3
  <2> DEFINE q == [r EXCEPT !.stk[u].undo = TRUE]
  <2>1. u \in 0 .. l - 1
    <3>1. g.got \in Seq(0 .. l - 1) /\ Len(g.got) = 3
      BY <1>4, <1>6 DEF Holding
    <3> QED
      BY <3>1, ElementOfSeq
  <2>2. Pool!Becomes(q) /\ wasUnblock' = wasUnblock \cup {u}
    BY <1>3, <1>6
  <2> HIDE DEF u
  <2>3. Kept(q, l, wasUnblock \cup {u}) /\ q.used = used
    BY <1>5, <2>1, FlagKeeps
  <2> HIDE DEF q
  <2> QED
    BY <1>2, <1>3, <2>2, <2>3, PoolInvStep
<1>7. CASE k # 3
  <2>1. Pool!Becomes(r) /\ wasUnblock' = wasUnblock
    BY <1>3, <1>7
  <2> QED
    BY <1>2, <1>3, <1>5, <2>1, PoolInvStep
<1> QED
  BY <1>6, <1>7

LEMMA PoolDestroy ==
  ASSUME PoolInv, NEW c \in Cond, Pool!CondDestroy(c)
  PROVE  PoolInv'
<1> DEFINE p == Pool!Pool
           a == cond[c].blocked
           b == cond[c].queue
           u == cond[c].unblock
           one == Pool!Released(p, a)
           two == Pool!Released(one, b)
           q == Pool!Released(two, u)
<1>1. PICK m \in 0 .. PoolMax : Kept(p, m, wasUnblock)
  BY PoolInvNow
<1>2. /\ p.used = used /\ Apart(cond) /\ poolAnswers = TRUE
      /\ used = given \cup Held(cond) /\ given \cap Held(cond) = {}
  BY PoolInvNow
<1>3. /\ cond[c] # Pool!NoCond /\ Pool!Becomes(q)
      /\ cond' = [cond EXCEPT ![c] = Pool!NoCond]
      /\ UNCHANGED <<given, wasUnblock, poolAnswers>>
  BY DEF Pool!CondDestroy
<1>4. Apart(cond')
  BY <1>2, <1>3, HeldDestroy
<1>5. /\ Held(cond') = Held(cond) \ {a, b, u}
      /\ {a, b, u} \subseteq Held(cond) /\ a # b /\ a # u /\ b # u
  BY <1>2, <1>3, HeldDestroy
<1> HIDE DEF p, a, b, u
<1>6. Kept(one, m, wasUnblock) /\ one.used = used \ {a}
  BY <1>1, <1>2, <1>5, ReleasedKeeps
<1> HIDE DEF one
<1>7. Kept(two, m, wasUnblock) /\ two.used = used \ {a, b}
  <2>1. b \in one.used
    BY <1>2, <1>5, <1>6
  <2>2. Kept(two, m, wasUnblock) /\ two.used = one.used \ {b}
    BY <1>6, <2>1, ReleasedKeeps
  <2> QED
    BY <1>6, <2>2
<1> HIDE DEF two
<1>8. Kept(q, m, wasUnblock) /\ q.used = used \ {a, b, u}
  <2>1. u \in two.used
    BY <1>2, <1>5, <1>7
  <2>2. Kept(q, m, wasUnblock) /\ q.used = two.used \ {u}
    BY <1>7, <2>1, ReleasedKeeps
  <2> QED
    BY <1>7, <2>2
<1> HIDE DEF q
<1>9. q.used = given' \cup Held(cond') /\ given' \cap Held(cond') = {}
  BY <1>2, <1>3, <1>5, <1>8
<1>10. Pool!Becomes(q) /\ Kept(q, m, wasUnblock') /\ poolAnswers' = TRUE
  BY <1>2, <1>3, <1>8
<1> QED
  BY <1>4, <1>9, <1>10, PoolInvStep

LEMMA PoolRecreate ==
  ASSUME PoolInv, Pool!Recreate
  PROVE  PoolInv'
<1>1. /\ Apart(cond) /\ Pool!InConds = Held(cond) /\ poolAnswers = TRUE
      /\ given \cap Held(cond) = {}
  BY PoolInvNow
<1>2. /\ given = {} /\ Held(cond) = {}
      /\ stk' = <<>> /\ used' = {} /\ unused' = 0 /\ wasUnblock' = {}
      /\ UNCHANGED <<given, cond, poolAnswers>>
  BY <1>1 DEF Pool!Recreate
<1> DEFINE q == [stk |-> <<>>, used |-> {}, unused |-> 0]
<1>3. Kept(q, 0, {})
  <2>1. PoolMax \in Nat /\ 0 .. 0 - 1 = {}
    BY PoolAssumption
  <2> QED
    BY <2>1, FS_EmptySet DEF Kept
<1>4. Pool!Becomes(q) /\ q.used = {}
  BY <1>2 DEF Pool!Becomes
<1> HIDE DEF q
<1> QED
  BY <1>1, <1>2, <1>3, <1>4, PoolInvStep

LEMMA PoolStep ==
  ASSUME PoolInv, [Pool!Next]_(Pool!poolVars)
  PROVE  PoolInv'
<1>1. CASE UNCHANGED Pool!poolVars
  <2>1. UNCHANGED <<stk, used, unused, given, cond, wasUnblock, poolAnswers>>
    BY <1>1 DEF Pool!poolVars
  <2> QED
    BY <2>1 DEF PoolInv, Pool!Pool
<1>2. CASE Pool!Get
  BY <1>2, PoolGet
<1>3. CASE Pool!GetFails \/ Pool!ReleaseOther
  BY <1>1, <1>3 DEF Pool!GetFails, Pool!ReleaseOther
<1>4. CASE Pool!Recreate
  BY <1>4, PoolRecreate
<1>5. ASSUME NEW n \in Pool!Made, Pool!Release(n) \/ \E v \in 0 .. MaxVal : Pool!Use(n, v)
      PROVE  PoolInv'
  BY <1>5, PoolRelease, PoolUse
<1>6. ASSUME NEW c \in Cond, \/ Pool!CondCreate(c) \/ Pool!CondDestroy(c)
                            \/ \E k \in 0 .. 3 : Pool!CondCreateFails(c, k)
      PROVE  PoolInv'
  BY <1>6, PoolCreate, PoolDestroy, PoolCreateFails
<1> QED
  BY <1>1, <1>2, <1>3, <1>4, <1>5, <1>6 DEF Pool!Next

(* The bit set, the unused count and the holders of the elements agree and *)
(* what a client gets is nobody's and has the pool's value, for any number *)
(* of semaphores and of condition variables, whichever pool_get or         *)
(* svsem_setvalue failed in between (pool.c, svcond.c:33-91).             *)
THEOREM PoolIsSound == Spec => []PoolSound
<1>1. Init => PoolInv
  BY PoolInit DEF Init
<1>2. PoolInv /\ [Next]_vars => PoolInv'
  <2> SUFFICES ASSUME PoolInv, [Next]_vars
               PROVE  PoolInv'
    OBVIOUS
  <2>1. [Pool!Next]_(Pool!poolVars)
    BY DEF Next, vars, poolVars, Pool!poolVars
  <2> QED
    BY <2>1, PoolStep
<1>3. PoolInv => PoolSound
  <2> SUFFICES ASSUME PoolInv
               PROVE  Pool!Sound
    BY DEF PoolSound
  <2> DEFINE p == Pool!Pool
  <2>1. PICK m \in 0 .. PoolMax : Kept(p, m, wasUnblock)
    BY PoolInvNow
  <2>2. /\ p.stk = stk /\ p.used = used /\ p.unused = unused
        /\ Apart(cond) /\ Pool!InConds = Held(cond)
        /\ used = given \cup Held(cond) /\ given \cap Held(cond) = {}
        /\ poolAnswers = TRUE
    BY PoolInvNow
  <2> HIDE DEF p
  <2>3. /\ m \in Nat /\ m <= PoolMax
        /\ DOMAIN p.stk = 0 .. m - 1 /\ Cardinality(DOMAIN p.stk) = m
    BY <2>1, UsedFinite
  <2>4. p.used \subseteq 0 .. m - 1 /\ p.unused = m - Cardinality(p.used)
    BY <2>1 DEF Kept
  <2>5. Pool!Made = 0 .. m - 1 /\ Pool!Cardinality(Pool!Made) = m /\ Pool!Cardinality(used) = Cardinality(used)
    BY <2>2, <2>3, PoolCounts DEF Pool!Made
  <2>6. Pool!Cardinality(Pool!InConds) = 3 * Pool!Cardinality({c \in Cond : cond[c] # Pool!NoCond})
    BY <2>2, PoolCounts DEF Apart
  <2>7. /\ Pool!Made = 0 .. Pool!Cardinality(Pool!Made) - 1
        /\ Pool!Cardinality(Pool!Made) <= PoolMax
        /\ used \subseteq Pool!Made
        /\ unused = Pool!Cardinality(Pool!Made) - Pool!Cardinality(used)
    BY <2>2, <2>3, <2>4, <2>5
  <2>8. /\ used = given \cup Pool!InConds /\ given \cap Pool!InConds = {}
    BY <2>2
  <2> QED
    BY <2>2, <2>6, <2>7, <2>8 DEF Pool!Sound
<1> QED
  BY <1>1, <1>2, <1>3, PTL DEF Spec

(***************************************************************************)
(* The array of bins, for any size and number of the bins.                 *)
(***************************************************************************)

LEMMA VarrayMins == \A S : Varray!Min(S) = Min(S)
BY Zenon DEF Varray!Min, Min

Doubled(f) == [i \in 0 .. Bins |-> IF i = 0 THEN InitSize ELSE 2 * f[i - 1]]

LEMMA DoubledExists == \E f : f = Doubled(f)
<1> USE VarrayAssumption
<1> DEFINE P(n, f) == /\ f \in [0 .. n -> Nat]
                      /\ \A i \in 0 .. n : f[i] = IF i = 0 THEN InitSize ELSE 2 * f[i - 1]
           T == {n \in Nat : \E f \in [0 .. n -> Nat] : P(n, f)}
<1>1. 0 \in T
  <2> DEFINE f == [i \in 0 .. 0 |-> InitSize]
  <2>1. P(0, f)
    OBVIOUS
  <2> QED
    BY <2>1
<1>2. \A n \in Nat : n \in T => n + 1 \in T
  <2> SUFFICES ASSUME NEW n \in Nat, n \in T PROVE n + 1 \in T
    OBVIOUS
  <2>1. PICK f \in [0 .. n -> Nat] : P(n, f)
    OBVIOUS
  <2> DEFINE g == [i \in 0 .. n + 1 |-> IF i = n + 1 THEN 2 * f[n] ELSE f[i]]
  <2>2. f[n] \in Nat
    BY <2>1
  <2>3. g \in [0 .. n + 1 -> Nat]
    BY <2>1, <2>2
  <2>4. \A i \in 0 .. n + 1 : g[i] = IF i = 0 THEN InitSize ELSE 2 * g[i - 1]
    <3> SUFFICES ASSUME NEW i \in 0 .. n + 1 PROVE g[i] = IF i = 0 THEN InitSize ELSE 2 * g[i - 1]
      OBVIOUS
    <3>1. CASE i = n + 1
      BY <3>1
    <3>2. CASE i \in 0 .. n
      <4>1. i # n + 1 /\ (i # 0 => i - 1 \in 0 .. n + 1 /\ i - 1 # n + 1)
        BY <3>2
      <4>2. f[i] = IF i = 0 THEN InitSize ELSE 2 * f[i - 1]
        BY <2>1, <3>2
      <4> QED
        BY <4>1, <4>2
    <3> QED
      BY <3>1, <3>2
  <2> HIDE DEF g
  <2>5. P(n + 1, g)
    BY <2>3, <2>4
  <2> HIDE DEF P
  <2> QED
    BY <2>3, <2>5
<1> HIDE DEF T
<1>3. Bins \in T
  BY <1>1, <1>2, Induction
<1>4. PICK f \in [0 .. Bins -> Nat] : P(Bins, f)
  BY <1>3 DEF T
<1>5. f = Doubled(f)
  BY <1>4 DEF Doubled
<1> QED
  BY <1>5

LEMMA LimitIs ==
  /\ Varray!Limit \in [0 .. Bins -> Nat \ {0}]
  /\ Varray!Limit[0] = InitSize
  /\ \A i \in 1 .. Bins : Varray!Limit[i] = 2 * Varray!Limit[i - 1]
<1> USE VarrayAssumption
<1> DEFINE L == Varray!Limit
<1>1. PICK f : f = Doubled(f)
  BY DoubledExists
<1>2. L = CHOOSE h : h = Doubled(h)
  BY Zenon DEF Varray!Limit, Doubled
<1>3. L = Doubled(L)
  BY <1>1, <1>2
<1> HIDE DEF L
<1>4. \A i \in 0 .. Bins : L[i] = IF i = 0 THEN InitSize ELSE 2 * L[i - 1]
  BY <1>3, Zenon DEF Doubled
<1> DEFINE T == {n \in Nat : n <= Bins => L[n] \in Nat \ {0}}
<1>5. 0 \in T
  BY <1>4
<1>6. \A n \in Nat : n \in T => n + 1 \in T
  <2> SUFFICES ASSUME NEW n \in Nat, n \in T, n + 1 <= Bins PROVE L[n + 1] \in Nat \ {0}
    OBVIOUS
  <2>1. n + 1 \in 0 .. Bins /\ (n + 1) - 1 = n /\ n + 1 # 0 /\ n <= Bins
    OBVIOUS
  <2>2. L[n + 1] = 2 * L[n] /\ L[n] \in Nat \ {0}
    BY <1>4, <2>1
  <2> QED
    BY <2>2
<1>7. \A n \in 0 .. Bins : L[n] \in Nat \ {0}
  <2> HIDE DEF T
  <2>1. Nat \subseteq T
    BY <1>5, <1>6, Induction
  <2> QED
    BY <2>1 DEF T
<1>8. L = [i \in 0 .. Bins |-> L[i]]
  BY <1>3 DEF Doubled
<1>9. L \in [0 .. Bins -> Nat \ {0}]
  BY <1>7, <1>8
<1>10. L[0] = InitSize /\ \A i \in 1 .. Bins : L[i] = 2 * L[i - 1]
  BY <1>4
<1> QED
  BY <1>9, <1>10 DEF L

LEMMA LimitGrows ==
  \A i, j \in 0 .. Bins : i < j => Varray!Limit[i] < Varray!Limit[j]
<1> DEFINE L == Varray!Limit
<1>1. /\ L \in [0 .. Bins -> Nat \ {0}]
      /\ \A i \in 1 .. Bins : L[i] = 2 * L[i - 1]
  BY LimitIs
<1> HIDE DEF L
<1> SUFFICES ASSUME NEW i \in 0 .. Bins PROVE \A j \in 0 .. Bins : i < j => L[i] < L[j]
  BY DEF L
<1> DEFINE T == {n \in Nat : i < n /\ n <= Bins => L[i] < L[n]}
<1>2. 0 \in T
  OBVIOUS
<1>3. \A n \in Nat : n \in T => n + 1 \in T
  <2> SUFFICES ASSUME NEW n \in Nat, n \in T, i < n + 1, n + 1 <= Bins PROVE L[i] < L[n + 1]
    OBVIOUS
  <2>1. n + 1 \in 1 .. Bins /\ (n + 1) - 1 = n /\ n \in 0 .. Bins
    BY VarrayAssumption
  <2>2. L[n + 1] = 2 * L[n] /\ L[n] \in Nat \ {0} /\ L[i] \in Nat
    BY <1>1, <2>1
  <2>3. CASE i < n
    BY <2>1, <2>2, <2>3
  <2>4. CASE i = n
    BY <2>2, <2>4
  <2> QED
    BY <2>3, <2>4
<1> HIDE DEF T
<1>4. Nat \subseteq T
  BY <1>2, <1>3, Induction
<1> QED
  BY <1>4 DEF T

(* The bins lie one behind the other. *)
LEMMA BinsAre ==
  /\ \A i \in Varray!Bin : /\ i \in Nat /\ i < Bins
                           /\ Varray!Start(i) \in Nat /\ Varray!BinSize(i) \in Nat \ {0}
                           /\ Varray!Limit[i] = Varray!Start(i) + Varray!BinSize(i)
                           /\ Varray!Limit[i] <= Varray!Limit[Bins - 1]
                           /\ i # 0 => Varray!Start(i) = Varray!BinSize(i)
                           /\ i + 1 < Bins => Varray!Start(i + 1) = Varray!Limit[i]
  /\ \A i, j \in Varray!Bin : i < j => Varray!Limit[i] <= Varray!Start(j)
  /\ 0 \in Varray!Bin /\ Varray!Start(0) = 0 /\ Varray!Limit[Bins - 1] \in Nat \ {0}
<1> USE VarrayAssumption
<1> DEFINE L == Varray!Limit
           G(i) == Varray!Start(i)
           N(i) == Varray!BinSize(i)
<1>1. /\ L \in [0 .. Bins -> Nat \ {0}] /\ L[0] = InitSize
      /\ \A i \in 1 .. Bins : L[i] = 2 * L[i - 1]
  BY LimitIs
<1>2. \A i, j \in 0 .. Bins : i < j => L[i] < L[j]
  BY LimitGrows
<1>3. Varray!Bin = 0 .. Bins - 1
  BY DEF Varray!Bin
<1>4. \A i : /\ G(i) = IF i = 0 THEN 0 ELSE L[i - 1]
             /\ N(i) = IF i = 0 THEN InitSize ELSE L[i - 1]
  BY DEF Varray!Start, Varray!BinSize
<1> HIDE DEF L, G, N
<1>5. \A i \in 0 .. Bins : L[i] \in Nat \ {0}
  BY <1>1
<1>6. \A i \in 0 .. Bins - 1 : /\ i \in Nat /\ i < Bins
                               /\ G(i) \in Nat /\ N(i) \in Nat \ {0}
                               /\ L[i] = G(i) + N(i)
                               /\ i # 0 => G(i) = N(i)
  <2> SUFFICES ASSUME NEW i \in 0 .. Bins - 1
               PROVE  /\ G(i) \in Nat /\ N(i) \in Nat \ {0}
                      /\ L[i] = G(i) + N(i) /\ (i # 0 => G(i) = N(i))
    OBVIOUS
  <2>1. CASE i = 0
    BY <1>1, <1>4, <2>1
  <2>2. CASE i # 0
    <3>1. i \in 1 .. Bins /\ i - 1 \in 0 .. Bins
      BY <2>2
    <3>2. L[i] = 2 * L[i - 1] /\ G(i) = L[i - 1] /\ N(i) = L[i - 1] /\ L[i - 1] \in Nat \ {0}
      BY <1>1, <1>4, <1>5, <2>2, <3>1
    <3> QED
      BY <3>2
  <2> QED
    BY <2>1, <2>2
<1>7. \A i \in 0 .. Bins - 1 : L[i] <= L[Bins - 1]
  <2> SUFFICES ASSUME NEW i \in 0 .. Bins - 1 PROVE L[i] <= L[Bins - 1]
    OBVIOUS
  <2>1. i = Bins - 1 \/ i < Bins - 1
    OBVIOUS
  <2>2. i \in 0 .. Bins /\ Bins - 1 \in 0 .. Bins
    OBVIOUS
  <2>3. L[i] \in Nat /\ L[Bins - 1] \in Nat
    BY <1>5, <2>2
  <2> QED
    BY <1>2, <2>1, <2>2, <2>3
<1>8. \A i \in 0 .. Bins - 1 : i + 1 < Bins => G(i + 1) = L[i]
  BY <1>4
<1>9. \A i, j \in 0 .. Bins - 1 : i < j => L[i] <= G(j)
  <2> SUFFICES ASSUME NEW i \in 0 .. Bins - 1, NEW j \in 0 .. Bins - 1, i < j PROVE L[i] <= G(j)
    OBVIOUS
  <2>1. i = j - 1 \/ i < j - 1
    OBVIOUS
  <2>2. i \in 0 .. Bins /\ j - 1 \in 0 .. Bins /\ j # 0
    OBVIOUS
  <2>3. L[i] \in Nat /\ L[j - 1] \in Nat /\ G(j) = L[j - 1]
    BY <1>4, <1>5, <2>2
  <2> QED
    BY <1>2, <2>1, <2>2, <2>3
<1>10. 0 \in 0 .. Bins - 1 /\ G(0) = 0 /\ L[Bins - 1] \in Nat \ {0}
  BY <1>4, <1>5
<1> QED
  BY <1>3, <1>6, <1>7, <1>8, <1>9, <1>10 DEF L, G, N

(* varray_get finds the bin an index lies in. *)
LEMMA BinOfIs ==
  ASSUME NEW x \in Varray!Index
  PROVE  /\ Varray!BinOf(x) \in Varray!Bin
         /\ Varray!Start(Varray!BinOf(x)) <= x /\ x < Varray!Limit[Varray!BinOf(x)]
         /\ Varray!Offset(x, Varray!BinOf(x)) = x - Varray!Start(Varray!BinOf(x))
         /\ Varray!Offset(x, Varray!BinOf(x)) \in 0 .. Varray!BinSize(Varray!BinOf(x)) - 1
         /\ x \in Nat
<1> USE VarrayAssumption
<1> DEFINE L == Varray!Limit
           S == {i \in Varray!Bin : L[i] > x}
           b == Varray!BinOf(x)
<1>1. x \in Nat /\ x < L[Bins - 1]
  BY BinsAre DEF Varray!Index
<1>2. Varray!Bin = 0 .. Bins - 1
  BY DEF Varray!Bin
<1>3. S \in SUBSET Nat /\ Bins - 1 \in S
  <2>1. L[Bins - 1] \in Nat
    BY BinsAre
  <2> QED
    BY <1>1, <1>2, <2>1
<1>4. b = Min(S)
  BY VarrayMins, Zenon DEF Varray!BinOf
<1> HIDE DEF b
<1>5. b \in S /\ \A y \in S : b <= y
  <2> HIDE DEF S
  <2> QED
    BY <1>3, <1>4, MinIsLeast
<1>6. b \in Varray!Bin /\ x < L[b] /\ b \in 0 .. Bins - 1
  <2>1. b \in Varray!Bin /\ L[b] > x
    BY <1>5
  <2>2. L[b] \in Nat
    BY <2>1, BinsAre
  <2> QED
    BY <1>1, <1>2, <2>1, <2>2
<1>7. Varray!Start(b) <= x
  <2>1. CASE b = 0
    BY <1>1, <2>1, BinsAre
  <2>2. CASE b # 0
    <3>1. b - 1 \in Varray!Bin /\ ~ (b <= b - 1) /\ b = (b - 1) + 1 /\ (b - 1) + 1 < Bins
      BY <1>2, <1>6, <2>2
    <3>2. ~ (L[b - 1] > x)
      BY <1>5, <3>1
    <3>3. Varray!Start((b - 1) + 1) = L[b - 1] /\ L[b - 1] \in Nat
      BY <3>1, BinsAre
    <3>4. Varray!Start(b) = L[b - 1]
      BY <3>1, <3>3
    <3> QED
      BY <1>1, <3>2, <3>3, <3>4
  <2> QED
    BY <2>1, <2>2
<1>8. /\ Varray!Start(b) \in Nat /\ Varray!BinSize(b) \in Nat
      /\ L[b] = Varray!Start(b) + Varray!BinSize(b)
      /\ Varray!Offset(x, b) = x - Varray!Start(b)
  <2>1. Varray!Offset(x, b) = IF b = 0 THEN x ELSE x - Varray!BinSize(b)
    BY DEF Varray!Offset
  <2> QED
    BY <1>1, <1>6, <2>1, BinsAre
<1>9. Varray!Offset(x, b) \in 0 .. Varray!BinSize(b) - 1
  BY <1>1, <1>6, <1>7, <1>8
<1> QED
  BY <1>1, <1>6, <1>7, <1>8, <1>9 DEF b

LEMMA BinIs ==
  ASSUME NEW i \in Varray!Bin, NEW x \in Nat,
         Varray!Start(i) <= x, x < Varray!Limit[i]
  PROVE  x \in Varray!Index /\ Varray!BinOf(x) = i
<1> DEFINE b == Varray!BinOf(x)
<1>1. x \in Varray!Index
  BY BinsAre DEF Varray!Index
<1>2. b \in Varray!Bin /\ Varray!Start(b) <= x /\ x < Varray!Limit[b]
  BY <1>1, BinOfIs
<1> HIDE DEF b
<1>3. /\ b < i => Varray!Limit[b] <= Varray!Start(i)
      /\ i < b => Varray!Limit[i] <= Varray!Start(b)
      /\ b \in Nat /\ i \in Nat
      /\ Varray!Start(b) \in Nat /\ Varray!Start(i) \in Nat
      /\ Varray!Limit[i] \in Nat /\ Varray!Limit[b] \in Nat
  BY <1>2, BinsAre
<1>4. b = i
  BY <1>2, <1>3
<1> QED
  BY <1>1, <1>4 DEF b

Cells == Written \cup {Varray!Cleared}

(* What the bins hold is what may be found at each index.                  *)
Stored(bs, ar) ==
  /\ bs = [i \in Varray!Bin |-> bs[i]]
  /\ \A i \in Varray!Bin : bs[i] = <<>> \/ bs[i] \in [0 .. Varray!BinSize(i) - 1 -> Cells]
  /\ ar = [x \in Varray!Index |-> ar[x]]
  /\ \A x \in Varray!Index :
       IF bs[Varray!BinOf(x)] = <<>> THEN Varray!Cleared \in ar[x]
       ELSE bs[Varray!BinOf(x)][Varray!Offset(x, Varray!BinOf(x))] \in ar[x]

(* The iterator stands at pos, within a bin only if the bin is there.      *)
Walking ==
  pos # Varray!Off /\ ~past =>
    /\ i1 \in Varray!Bin /\ i2 \in 0 .. Varray!BinSize(i1)
    /\ pos = Varray!Start(i1) + i2
    /\ i2 # 0 => bins[i1] # <<>>

VarrayInv == /\ Stored(bins, arr) /\ Walking
             /\ kept = TRUE /\ past \in BOOLEAN

LEMMA NoCell ==
  ASSUME NEW i \in Varray!Bin, NEW C, NEW f \in [0 .. Varray!BinSize(i) - 1 -> C]
  PROVE  f # <<>>
<1>1. 0 \in DOMAIN f
  BY BinsAre
<1>2. 0 \notin DOMAIN <<>>
  OBVIOUS
<1> QED
  BY <1>1, <1>2

LEMMA FreshIs ==
  ASSUME NEW i \in Varray!Bin
  PROVE  /\ Varray!Fresh(i) \in [0 .. Varray!BinSize(i) - 1 -> Cells]
         /\ Varray!Fresh(i) # <<>>
         /\ \A o \in 0 .. Varray!BinSize(i) - 1 : Varray!Fresh(i)[o] = Varray!Cleared
<1>1. Varray!Fresh(i) \in [0 .. Varray!BinSize(i) - 1 -> Cells]
  BY DEF Varray!Fresh, Cells
<1>2. Varray!Fresh(i) # <<>>
  BY <1>1, NoCell
<1> QED
  BY <1>1, <1>2 DEF Varray!Fresh

(* A bin allocated when it is first asked for is clear.                    *)
LEMMA ReachedKeeps ==
  ASSUME Stored(bins, arr), NEW i \in Varray!Bin
  PROVE  /\ Stored(Varray!Reached(i), arr)
         /\ Varray!Reached(i)[i] \in [0 .. Varray!BinSize(i) - 1 -> Cells]
         /\ \A j \in Varray!Bin : j # i => Varray!Reached(i)[j] = bins[j]
         /\ bins[i] # <<>> => Varray!Reached(i) = bins
<1> DEFINE r == Varray!Reached(i)
<1>1. r = IF bins[i] = <<>> THEN [bins EXCEPT ![i] = Varray!Fresh(i)] ELSE bins
  BY DEF Varray!Reached
<1>2. bins = [j \in Varray!Bin |-> bins[j]]
  BY DEF Stored
<1> HIDE DEF r
<1>3. /\ r = [j \in Varray!Bin |-> r[j]]
      /\ \A j \in Varray!Bin : j # i => r[j] = bins[j]
      /\ r[i] = IF bins[i] = <<>> THEN Varray!Fresh(i) ELSE bins[i]
  BY <1>1, <1>2, Zenon
<1>4. r[i] \in [0 .. Varray!BinSize(i) - 1 -> Cells]
  BY <1>3, FreshIs DEF Stored
<1>5. \A j \in Varray!Bin : r[j] = <<>> \/ r[j] \in [0 .. Varray!BinSize(j) - 1 -> Cells]
  BY <1>3, <1>4 DEF Stored
<1>6. ASSUME NEW x \in Varray!Index
      PROVE  IF r[Varray!BinOf(x)] = <<>> THEN Varray!Cleared \in arr[x]
             ELSE r[Varray!BinOf(x)][Varray!Offset(x, Varray!BinOf(x))] \in arr[x]
  <2> DEFINE b == Varray!BinOf(x)
             o == Varray!Offset(x, b)
  <2>1. b \in Varray!Bin /\ o \in 0 .. Varray!BinSize(b) - 1
    BY BinOfIs
  <2>2. IF bins[b] = <<>> THEN Varray!Cleared \in arr[x] ELSE bins[b][o] \in arr[x]
    BY DEF Stored
  <2> HIDE DEF b, o
  <2>3. IF r[b] = <<>> THEN Varray!Cleared \in arr[x] ELSE r[b][o] \in arr[x]
    <3>1. CASE b # i \/ bins[i] # <<>>
      BY <1>3, <2>1, <2>2, <3>1
    <3>2. CASE b = i /\ bins[i] = <<>>
      BY <1>3, <2>1, <2>2, <3>2, FreshIs
    <3> QED
      BY <3>1, <3>2
  <2> QED
    BY <2>3 DEF b, o
<1>7. Stored(r, arr)
  BY <1>3, <1>5, <1>6 DEF Stored
<1> QED
  BY <1>1, <1>3, <1>4, <1>7 DEF r

LEMMA VarrayInit == Varray!Init => VarrayInv
<1> SUFFICES ASSUME Varray!Init PROVE VarrayInv
  OBVIOUS
<1>1. /\ bins = [i \in Varray!Bin |-> <<>>] /\ arr = [x \in Varray!Index |-> {Varray!Cleared}]
      /\ i1 = 0 /\ i2 = 0 /\ pos = 0 /\ past = FALSE /\ kept = TRUE
  BY DEF Varray!Init
<1>2. \A x \in Varray!Index : Varray!BinOf(x) \in Varray!Bin
  BY BinOfIs
<1>3. Stored(bins, arr)
  BY <1>1, <1>2 DEF Stored
<1>4. Walking
  BY <1>1, BinsAre DEF Walking
<1> QED
  BY <1>1, <1>3, <1>4 DEF VarrayInv

(* Two indexes of one bin have two places in it.                           *)
LEMMA VarrayRead ==
  ASSUME VarrayInv, NEW x \in Varray!Index, Varray!Read(x)
  PROVE  VarrayInv'
<1> DEFINE b == Varray!BinOf(x)
           o == Varray!Offset(x, b)
<1>1. b \in Varray!Bin
  BY BinOfIs
<1>2. /\ bins' = Varray!Reached(b) /\ arr' = arr
      /\ pos' = IF bins[b] = <<>> THEN Varray!Off ELSE pos
      /\ i1' = i1 /\ i2' = i2 /\ past' = past
      /\ kept' = (bins'[b][o] \in arr[x])
  BY DEF Varray!Read, Varray!Disturb
<1>3. IF bins'[b] = <<>> THEN Varray!Cleared \in arr[x] ELSE bins'[b][o] \in arr[x]
  <2>1. Stored(bins', arr)
    BY <1>1, <1>2, ReachedKeeps DEF VarrayInv
  <2> QED
    BY <2>1 DEF Stored
<1> HIDE DEF b, o
<1>4. Stored(bins', arr') /\ bins'[b] # <<>> /\ (bins[b] # <<>> => bins' = bins)
  BY <1>1, <1>2, ReachedKeeps, NoCell DEF VarrayInv
<1>5. kept' = TRUE
  BY <1>2, <1>3, <1>4
<1>6. Walking'
  BY <1>2, <1>4 DEF VarrayInv, Walking
<1> QED
  BY <1>2, <1>4, <1>5, <1>6 DEF VarrayInv

LEMMA VarrayWrite ==
  ASSUME VarrayInv, NEW x \in Varray!Index, NEW v \in Written, Varray!Write(x, v)
  PROVE  VarrayInv'
<1> DEFINE b == Varray!BinOf(x)
           o == Varray!Offset(x, b)
           r == Varray!Reached(b)
<1>1. b \in Varray!Bin /\ o = x - Varray!Start(b) /\ o \in 0 .. Varray!BinSize(b) - 1
  BY BinOfIs
<1>2. /\ bins' = [r EXCEPT ![b][o] = v] /\ arr' = [arr EXCEPT ![x] = {v}]
      /\ pos' = IF bins[b] = <<>> THEN Varray!Off ELSE pos
      /\ i1' = i1 /\ i2' = i2 /\ past' = past /\ kept' = kept
  BY DEF Varray!Write, Varray!Disturb
<1> HIDE DEF b
<1>3. /\ Stored(r, arr) /\ r[b] \in [0 .. Varray!BinSize(b) - 1 -> Cells]
      /\ bins[b] # <<>> => r = bins
  BY <1>1, ReachedKeeps DEF VarrayInv
<1> HIDE DEF r, o
<1>4. /\ r = [j \in Varray!Bin |-> r[j]] /\ arr = [y \in Varray!Index |-> arr[y]]
  BY <1>3 DEF Stored
<1>5. /\ bins' = [j \in Varray!Bin |-> bins'[j]]
      /\ \A j \in Varray!Bin : j # b => bins'[j] = r[j]
      /\ bins'[b] = [r[b] EXCEPT ![o] = v]
  BY <1>1, <1>2, <1>4, Zenon
<1>6. /\ bins'[b] \in [0 .. Varray!BinSize(b) - 1 -> Cells]
      /\ bins'[b][o] = v
      /\ \A q \in 0 .. Varray!BinSize(b) - 1 : q # o => bins'[b][q] = r[b][q]
  BY <1>1, <1>3, <1>5 DEF Cells
<1>7. /\ arr' = [y \in Varray!Index |-> arr'[y]] /\ arr'[x] = {v}
      /\ \A y \in Varray!Index : y # x => arr'[y] = arr[y]
  BY <1>2, <1>4, Zenon
<1>8. ASSUME NEW y \in Varray!Index
      PROVE  IF bins'[Varray!BinOf(y)] = <<>> THEN Varray!Cleared \in arr'[y]
             ELSE bins'[Varray!BinOf(y)][Varray!Offset(y, Varray!BinOf(y))] \in arr'[y]
  <2> DEFINE c == Varray!BinOf(y)
             q == Varray!Offset(y, c)
  <2>1. /\ c \in Varray!Bin /\ q = y - Varray!Start(c) /\ q \in 0 .. Varray!BinSize(c) - 1
        /\ y \in Nat /\ x \in Nat
    BY BinOfIs
  <2>2. IF r[c] = <<>> THEN Varray!Cleared \in arr[y] ELSE r[c][q] \in arr[y]
    BY <1>3 DEF Stored
  <2> HIDE DEF q
  <2>3. y = x => c = b /\ q = o
    BY DEF c, q, b, o
  <2> HIDE DEF c
  <2>4. c = b /\ q = o => y = x
    <3>1. Varray!Start(b) \in Nat
      BY <1>1, BinsAre
    <3> QED
      BY <1>1, <2>1, <3>1
  <2>5. IF bins'[c] = <<>> THEN Varray!Cleared \in arr'[y] ELSE bins'[c][q] \in arr'[y]
    <3>1. CASE y = x
      <4>1. bins'[b] # <<>>
        BY <1>1, <1>6, NoCell
      <4> QED
        BY <1>6, <1>7, <2>3, <3>1, <4>1
    <3>2. CASE y # x /\ c # b
      BY <1>5, <1>7, <2>1, <2>2, <3>2
    <3>3. CASE y # x /\ c = b
      <4>1. r[b] # <<>> /\ bins'[b] # <<>>
        BY <1>1, <1>3, <1>6, NoCell
      <4>2. bins'[b][q] = r[b][q]
        BY <1>6, <2>1, <2>4, <3>3
      <4> QED
        BY <1>7, <2>2, <3>3, <4>1, <4>2
    <3> QED
      BY <3>1, <3>2, <3>3
  <2> QED
    BY <2>5 DEF c, q
<1>9. \A j \in Varray!Bin : bins'[j] = <<>> \/ bins'[j] \in [0 .. Varray!BinSize(j) - 1 -> Cells]
  BY <1>3, <1>5, <1>6 DEF Stored
<1>10. Stored(bins, arr)'
  BY <1>5, <1>7, <1>8, <1>9 DEF Stored
<1>11. Walking'
  <2>1. bins[b] # <<>> => \A j \in Varray!Bin : bins[j] # <<>> => bins'[j] # <<>>
    BY <1>1, <1>3, <1>5, <1>6, NoCell
  <2> QED
    BY <1>2, <2>1 DEF VarrayInv, Walking
<1> QED
  BY <1>2, <1>10, <1>11 DEF VarrayInv

(* The bins a release frees hold no index below from.                      *)
LEMMA ReleasedIsAbove ==
  ASSUME NEW from \in Varray!Index \cup {Varray!Limit[Bins - 1]},
         NEW x \in Varray!Index, Varray!BinOf(x) >= Varray!FirstReleased(from)
  PROVE  x >= from
<1> USE VarrayAssumption
<1> DEFINE b == Varray!BinOf(x)
           L == Varray!Limit
           S == {i \in 0 .. Bins : from <= L[i]}
           r == Varray!FirstReleased(from)
<1>1. b \in Varray!Bin /\ Varray!Start(b) <= x /\ x \in Nat /\ b \in 0 .. Bins - 1 /\ b >= r
  BY BinOfIs DEF Varray!Bin
<1> HIDE DEF b
<1>2. from \in Nat /\ from <= L[Bins - 1]
  BY BinsAre DEF Varray!Index
<1>3. CASE from = 0
  BY <1>1, <1>3
<1>4. CASE from # 0
  <2>1. Bins - 1 \in S /\ S \in SUBSET Nat
    BY <1>2
  <2>2. r = Min(S) + 1
    BY <1>4, VarrayMins, Zenon DEF Varray!FirstReleased
  <2> HIDE DEF r
  <2>3. Min(S) \in S
    <3> HIDE DEF S
    <3> QED
      BY <2>1, MinIsLeast
  <2> DEFINE m == Min(S)
  <2>4. m \in 0 .. Bins /\ from <= L[m] /\ r = m + 1
    BY <2>2, <2>3
  <2> HIDE DEF m, S
  <2>5. m < b /\ m \in Varray!Bin
    BY <1>1, <2>4 DEF Varray!Bin
  <2>6. L[m] <= Varray!Start(b) /\ L[m] \in Nat /\ Varray!Start(b) \in Nat
    BY <1>1, <2>5, BinsAre
  <2> QED
    BY <1>1, <1>2, <2>4, <2>6
<1> QED
  BY <1>3, <1>4

LEMMA VarrayRelease ==
  ASSUME VarrayInv, NEW from \in Varray!Index \cup {Varray!Limit[Bins - 1]},
         Varray!Release(from)
  PROVE  VarrayInv'
<1> DEFINE gone == {i \in Varray!Bin : i >= Varray!FirstReleased(from) /\ bins[i] # <<>>}
<1>1. /\ bins' = [i \in Varray!Bin |-> IF i \in gone THEN <<>> ELSE bins[i]]
      /\ pos' = IF gone = {} THEN pos ELSE Varray!Off
      /\ arr' = [x \in Varray!Index |-> IF x >= from THEN arr[x] \cup {Varray!Cleared} ELSE arr[x]]
      /\ i1' = i1 /\ i2' = i2 /\ past' = past /\ kept' = kept
  BY DEF Varray!Release
<1>2. \A x \in Varray!Index : Varray!BinOf(x) \in gone => x >= from
  BY ReleasedIsAbove
<1> HIDE DEF gone
<1>3. ASSUME NEW x \in Varray!Index
      PROVE  IF bins'[Varray!BinOf(x)] = <<>> THEN Varray!Cleared \in arr'[x]
             ELSE bins'[Varray!BinOf(x)][Varray!Offset(x, Varray!BinOf(x))] \in arr'[x]
  <2> DEFINE b == Varray!BinOf(x)
             o == Varray!Offset(x, b)
  <2>1. b \in Varray!Bin
    BY BinOfIs
  <2>2. IF bins[b] = <<>> THEN Varray!Cleared \in arr[x] ELSE bins[b][o] \in arr[x]
    BY DEF VarrayInv, Stored
  <2>3. b \in gone => x >= from
    BY <1>2
  <2> HIDE DEF b, o
  <2>4. IF bins'[b] = <<>> THEN Varray!Cleared \in arr'[x] ELSE bins'[b][o] \in arr'[x]
    BY <1>1, <2>1, <2>2, <2>3
  <2> QED
    BY <2>4 DEF b, o
<1>4. Stored(bins, arr)'
  <2>1. /\ bins' = [i \in Varray!Bin |-> bins'[i]] /\ arr' = [x \in Varray!Index |-> arr'[x]]
        /\ \A i \in Varray!Bin : bins'[i] = <<>> \/ bins'[i] \in [0 .. Varray!BinSize(i) - 1 -> Cells]
    BY <1>1 DEF VarrayInv, Stored
  <2> QED
    BY <1>3, <2>1 DEF Stored
<1>5. Walking'
  BY <1>1 DEF VarrayInv, Walking
<1> QED
  BY <1>1, <1>4, <1>5 DEF VarrayInv

LEMMA VarrayReinit ==
  ASSUME VarrayInv, Varray!Reinit
  PROVE  VarrayInv'
<1>1. /\ bins' = [i \in Varray!Bin |-> <<>>] /\ arr' = [x \in Varray!Index |-> {Varray!Cleared}]
      /\ pos' = Varray!Off /\ past' = past /\ kept' = kept
  BY DEF Varray!Reinit
<1>2. \A x \in Varray!Index : Varray!BinOf(x) \in Varray!Bin
  BY BinOfIs
<1>3. Stored(bins, arr)'
  BY <1>1, <1>2 DEF Stored
<1> QED
  BY <1>1, <1>3 DEF VarrayInv, Walking

LEMMA VarrayIterate ==
  ASSUME VarrayInv, Varray!Iterate
  PROVE  VarrayInv'
<1>1. /\ bins' = bins /\ arr' = arr /\ i1' = 0 /\ i2' = 0 /\ pos' = 0
      /\ past' = past /\ kept' = kept
  BY DEF Varray!Iterate
<1>2. Walking'
  BY <1>1, BinsAre DEF Walking
<1> QED
  BY <1>1, <1>2 DEF VarrayInv, Stored

(* The bins between two are passed whole, the element after the last one   *)
(* passed is the next there is.                                            *)
LEMMA VarrayIterNext ==
  ASSUME VarrayInv, Varray!IterNext
  PROVE  VarrayInv'
<1> USE VarrayAssumption
<1> DEFINE over == i2 = Varray!BinSize(i1)
           b == IF over THEN i1 + 1 ELSE i1
           o == IF over THEN 0 ELSE i2
           there == {i \in b .. Bins - 1 : bins[i] # <<>>}
           m == Varray!Min(there)
           got == IF there = {} THEN Varray!End ELSE Varray!Start(m) + o
           P == Varray!Promised
<1>1. /\ bins' = bins /\ arr' = arr /\ ~past
      /\ IF b >= Bins THEN past' = TRUE /\ i1' = i1 /\ i2' = i2 /\ pos' = pos /\ kept' = kept
         ELSE /\ i1' = IF there = {} THEN Bins ELSE m
              /\ i2' = IF there = {} THEN o ELSE o + 1
              /\ kept' = (pos # Varray!Off => IF P = {} THEN got = Varray!End ELSE got = Varray!Min(P))
              /\ pos' = IF pos = Varray!Off \/ there = {} THEN Varray!Off ELSE got + 1
              /\ past' = past
  BY DEF Varray!IterNext
<1>2. Stored(bins, arr)'
  BY <1>1 DEF VarrayInv, Stored
<1> HIDE DEF over, b, o, there, m, got, P
<1>3. CASE b >= Bins
  BY <1>1, <1>2, <1>3 DEF VarrayInv, Walking
<1>4. CASE ~ (b >= Bins) /\ pos = Varray!Off
  BY <1>1, <1>2, <1>4 DEF VarrayInv, Walking
<1>5. CASE ~ (b >= Bins) /\ pos # Varray!Off
  <2>1. /\ i1 \in Varray!Bin /\ i2 \in 0 .. Varray!BinSize(i1)
        /\ pos = Varray!Start(i1) + i2
        /\ i2 # 0 => bins[i1] # <<>>
    BY <1>1, <1>5 DEF VarrayInv, Walking
  <2>2. /\ b \in Varray!Bin /\ o \in 0 .. Varray!BinSize(b) - 1
        /\ pos = Varray!Start(b) + o
        /\ o # 0 => bins[b] # <<>>
    <3>1. CASE over
      <4>1. b = i1 + 1 /\ o = 0 /\ i2 = Varray!BinSize(i1)
        BY <3>1 DEF b, o, over
      <4>2. /\ i1 \in Nat /\ Varray!Limit[i1] = Varray!Start(i1) + Varray!BinSize(i1)
        BY <2>1, BinsAre
      <4>3. i1 + 1 < Bins /\ b \in Varray!Bin
        BY <1>5, <4>1, <4>2 DEF Varray!Bin
      <4>4. Varray!Start(i1 + 1) = Varray!Limit[i1] /\ Varray!Start(b) \in Nat
            /\ Varray!BinSize(b) \in Nat \ {0}
        BY <2>1, <4>3, BinsAre
      <4>5. Varray!Start(b) = Varray!Limit[i1]
        BY <4>1, <4>4
      <4> QED
        BY <2>1, <4>1, <4>2, <4>3, <4>4, <4>5
    <3>2. CASE ~over
      <4>1. b = i1 /\ o = i2 /\ i2 # Varray!BinSize(i1)
        BY <3>2 DEF b, o, over
      <4>2. Varray!BinSize(i1) \in Nat
        BY <2>1, BinsAre
      <4> QED
        BY <2>1, <4>1, <4>2
    <3> QED
      BY <3>1, <3>2
  <2> DEFINE G(i) == Varray!Start(i)
             N(i) == Varray!BinSize(i)
  <2>3. /\ \A i \in Varray!Bin : G(i) \in Nat /\ N(i) \in Nat \ {0} /\ Varray!Limit[i] = G(i) + N(i)
        /\ \A i, j \in Varray!Bin : i < j => Varray!Limit[i] <= G(j)
    BY BinsAre
  <2>4. P = {x \in Varray!Index : x >= pos /\ bins[Varray!BinOf(x)] # <<>>}
    BY DEF P, Varray!Promised
  <2>5. b \in Nat /\ b < Bins /\ Varray!Bin = 0 .. Bins - 1
    BY <2>2, BinsAre DEF Varray!Bin
  <2>6. \A x \in P : /\ Varray!BinOf(x) \in there
                     /\ G(Varray!BinOf(x)) <= x /\ x >= pos /\ x \in Nat
    <3> SUFFICES ASSUME NEW x \in P PROVE /\ Varray!BinOf(x) \in there
                                          /\ G(Varray!BinOf(x)) <= x /\ x >= pos /\ x \in Nat
      OBVIOUS
    <3> DEFINE c == Varray!BinOf(x)
    <3>1. x \in Varray!Index /\ x >= pos /\ bins[c] # <<>>
      BY <2>4
    <3>2. c \in Varray!Bin /\ G(c) <= x /\ x < Varray!Limit[c] /\ x \in Nat
      BY <3>1, BinOfIs
    <3> HIDE DEF c, G, N
    <3>3. ~ (c < b)
      <4>1. c < b => Varray!Limit[c] <= G(b) /\ Varray!Limit[c] \in Nat
        BY <2>2, <2>3, <3>2
      <4>2. pos >= G(b) /\ G(b) \in Nat /\ pos \in Nat
        BY <2>2, <2>3 DEF G
      <4> QED
        BY <2>5, <3>1, <3>2, <4>1, <4>2
    <3>4. c \in b .. Bins - 1
      BY <2>5, <3>2, <3>3
    <3>5. c \in there
      BY <3>1, <3>4 DEF there
    <3> QED
      BY <3>1, <3>2, <3>5 DEF c
  <2>7. CASE there = {}
    <3>1. P = {} /\ got = Varray!End
      BY <2>6, <2>7 DEF got
    <3>2. kept' = TRUE /\ pos' = Varray!Off
      BY <1>1, <1>5, <2>7, <3>1
    <3> QED
      BY <1>1, <1>2, <1>5, <3>2 DEF VarrayInv, Walking
  <2>8. CASE there # {}
    <3>1. there \in SUBSET Nat
      BY <2>5 DEF there
    <3>2. m \in there /\ \A y \in there : m <= y
      BY <2>8, <3>1, MinIsLeast, VarrayMins DEF m
    <3>3. m \in Varray!Bin /\ m >= b /\ bins[m] # <<>> /\ m \in Nat
      BY <2>5, <3>2 DEF there
    <3>4. m # b => o = 0
      <4>1. b \in b .. Bins - 1
        BY <2>5
      <4>2. bins[b] # <<>> => b \in there
        BY <4>1 DEF there
      <4> QED
        BY <2>2, <2>5, <3>2, <3>3, <4>2
    <3>5. got = G(m) + o
      BY <2>8 DEF got
    <3> HIDE DEF G, N
    <3>6. /\ o \in 0 .. N(m) - 1 /\ got \in Nat
      BY <2>2, <2>3, <3>3, <3>4, <3>5 DEF N
    <3>7. got >= pos
      <4>1. CASE m = b
        BY <2>2, <3>5, <4>1 DEF G
      <4>2. CASE m # b
        <5>1. Varray!Limit[b] <= G(m) /\ G(b) <= Varray!Limit[b] /\ Varray!Limit[b] \in Nat
          BY SMTT(30), <2>2, <2>3, <2>5, <3>3, <4>2
        <5>2. pos = G(b) /\ got = G(m) /\ G(b) \in Nat /\ G(m) \in Nat
          BY <2>2, <2>3, <3>3, <3>4, <3>5, <4>2 DEF G
        <5> QED
          BY <5>1, <5>2
      <4> QED
        BY <4>1, <4>2
    <3>8. got \in Varray!Index /\ Varray!BinOf(got) = m
      <4>1. G(m) <= got /\ got < Varray!Limit[m]
        BY <2>3, <3>3, <3>5, <3>6
      <4> QED
        BY <3>3, <3>6, <4>1, BinIs DEF G
    <3>9. got \in P
      BY <2>4, <3>3, <3>7, <3>8
    <3>10. \A x \in P : got <= x
      <4> SUFFICES ASSUME NEW x \in P PROVE got <= x
        OBVIOUS
      <4> DEFINE c == Varray!BinOf(x)
      <4>1. c \in there /\ G(c) <= x /\ x >= pos /\ x \in Nat
        BY <2>6
      <4>2. c \in Varray!Bin /\ c \in Nat /\ m <= c
        BY <2>5, <3>2, <4>1 DEF there
      <4> HIDE DEF c
      <4>3. CASE c = m
        <5>1. CASE m = b
          BY <2>2, <3>5, <4>1, <5>1 DEF G
        <5>2. CASE m # b
          BY <2>3, <3>3, <3>4, <3>5, <4>1, <4>3, <5>2
        <5> QED
          BY <5>1, <5>2
      <4>4. CASE c # m
        <5>1. m < c
          BY <3>3, <4>2, <4>4
        <5>2. Varray!Limit[m] <= G(c) /\ Varray!Limit[m] = G(m) + N(m)
              /\ G(c) \in Nat /\ G(m) \in Nat /\ N(m) \in Nat
          BY <2>3, <3>3, <4>2, <5>1
        <5> QED
          BY <3>5, <3>6, <4>1, <5>2
      <4> QED
        BY <4>3, <4>4
    <3>11. Varray!Min(P) = got
      <4>1. P \in SUBSET Nat /\ P # {}
        BY <2>6, <3>9
      <4>2. Varray!Min(P) \in P /\ \A y \in P : Varray!Min(P) <= y
        BY <4>1, MinIsLeast, VarrayMins
      <4>3. Varray!Min(P) <= got /\ got <= Varray!Min(P) /\ Varray!Min(P) \in Nat
        BY <3>9, <3>10, <4>1, <4>2
      <4> QED
        BY <3>6, <4>3
    <3>12. kept' = TRUE
      BY <1>1, <1>5, <3>9, <3>11
    <3>13. i1' = m /\ i2' = o + 1 /\ pos' = got + 1 /\ past' = past
      BY <1>1, <1>5, <2>8
    <3>14. Walking'
      <4>1. i2' \in 0 .. N(m) /\ pos' = G(m) + i2'
        BY <2>3, <3>3, <3>5, <3>6, <3>13
      <4> QED
        BY <1>1, <3>3, <3>13, <4>1 DEF Walking, G, N
    <3> QED
      BY <1>2, <3>12, <3>13, <3>14 DEF VarrayInv
  <2> QED
    BY <2>7, <2>8
<1> QED
  BY <1>3, <1>4, <1>5

LEMMA VarrayStep == VarrayInv /\ [Varray!Next]_varrayVars => VarrayInv'
<1> SUFFICES ASSUME VarrayInv, [Varray!Next]_varrayVars
             PROVE  VarrayInv'
  OBVIOUS
<1>1. ASSUME UNCHANGED varrayVars
      PROVE  VarrayInv'
  BY <1>1 DEF varrayVars, VarrayInv, Stored, Walking
<1>2. ASSUME NEW x \in Varray!Index, Varray!Read(x) PROVE VarrayInv'
  BY <1>2, VarrayRead
<1>3. ASSUME NEW x \in Varray!Index, NEW v \in Written, Varray!Write(x, v) PROVE VarrayInv'
  BY <1>3, VarrayWrite
<1>4. ASSUME NEW x \in Varray!Index \cup {Varray!Limit[Bins - 1]}, Varray!GetFails(x)
      PROVE  VarrayInv'
  BY <1>1, <1>4 DEF Varray!GetFails, Varray!varrayVars, varrayVars
<1>5. ASSUME NEW from \in Varray!Index \cup {Varray!Limit[Bins - 1]}, Varray!Release(from)
      PROVE  VarrayInv'
  BY <1>5, VarrayRelease
<1>6. ASSUME Varray!Reinit PROVE VarrayInv'
  BY <1>6, VarrayReinit
<1>7. ASSUME Varray!Iterate PROVE VarrayInv'
  BY <1>7, VarrayIterate
<1>8. ASSUME Varray!IterNext PROVE VarrayInv'
  BY <1>8, VarrayIterNext
<1> QED
  BY <1>1, <1>2, <1>3, <1>4, <1>5, <1>6, <1>7, <1>8 DEF Varray!Next

(* varray.c: no two indexes share an element, a release loses none below   *)
(* it, a fresh one is clear, and an iteration passes every element in      *)
(* order, for any size and number of the bins.                             *)
THEOREM VarrayIsFaithful == Spec => []VarrayFaithful
<1>1. Init => VarrayInv
  BY VarrayInit DEF Init
<1>2. VarrayInv /\ [Next]_vars => VarrayInv'
  <2> SUFFICES ASSUME VarrayInv, [Next]_vars
               PROVE  VarrayInv'
    OBVIOUS
  <2>1. [Varray!Next]_varrayVars
    BY DEF Next, vars
  <2> QED
    BY <2>1, VarrayStep
<1>3. VarrayInv => VarrayFaithful
  <2> SUFFICES ASSUME VarrayInv
               PROVE  Varray!Faithful
    BY DEF VarrayFaithful
  <2>1. \A x \in Varray!Index :
          LET b == bins[Varray!BinOf(x)]
          IN IF b = <<>> THEN Varray!Cleared \in arr[x]
             ELSE b[Varray!Offset(x, Varray!BinOf(x))] \in arr[x]
    BY DEF VarrayInv, Stored
  <2>2. pos # Varray!Off /\ ~past => i2 <= Varray!BinSize(i1) /\ (pos = 0 \/ pos = Varray!Start(i1) + i2)
    <3>1. \A n \in Nat : \A k \in 0 .. n : k <= n
      OBVIOUS
    <3> QED
      BY <3>1, BinsAre DEF VarrayInv, Walking
  <2> QED
    BY <2>1, <2>2 DEF VarrayInv, Varray!Faithful
<1> QED
  BY <1>1, <1>2, <1>3, PTL DEF Spec

(***************************************************************************)
(* The linked list, for any addresses, elements, max_size and number of    *)
(* cached positions.                                                       *)
(***************************************************************************)

LEMMA NoNodeIs == List!NoNode \notin Node
BY ListAssumption DEF List!NoNode

(* The nodes in order, and what the link behind the i-th is. *)
Nodes(p) == {p[i] : i \in 1 .. Len(p)}
Link(p, i) == IF i < Len(p) THEN p[i + 1] ELSE List!NoNode

IsPath(p) ==
  /\ p \in Seq(Node) /\ content \in Seq(Datum) /\ Len(content) = Len(p) /\ size = Len(p)
  /\ \A i, j \in 1 .. Len(p) : p[i] = p[j] => i = j
  /\ DOMAIN ptr = Nodes(p) /\ DOMAIN data = Nodes(p)
  /\ first = Link(p, 0) /\ (Len(p) > 0 => last = p[Len(p)])
  /\ \A i \in 1 .. Len(p) : ptr[p[i]] = Link(p, i) /\ data[p[i]] = content[i]

(* A cached position is of a node there is; it is that node's position, or *)
(* whatever it was when linkedlist_remove_data took the first element.     *)
IsCache(c, p, taken) ==
  /\ c \in [1 .. CacheSize -> [idx : Int, ent : Node \cup {List!NoNode}]]
  /\ \A i \in 1 .. CacheSize : c[i].ent # List!NoNode =>
       /\ c[i].ent \in Nodes(p)
       /\ ~taken => c[i].idx \in 0 .. Len(p) - 1 /\ p[c[i].idx + 1] = c[i].ent

ListInv ==
  /\ \E p : IsPath(p) /\ IsCache(cache, p, headTaken)
  /\ headTaken \in BOOLEAN /\ (answers \/ headTaken)

(* The links followed from first. *)
Followed(f) == [k \in Nat |-> IF k = 0 THEN first ELSE List!Follow(f[k - 1])]

LEMMA LinkIs ==
  ASSUME NEW p, IsPath(p)
  PROVE  /\ Len(p) \in Nat
         /\ \A k \in 0 .. Len(p) - 1 : Link(p, k) = p[k + 1] /\ Link(p, k) \in Node
         /\ \A k \in Nat : k >= Len(p) => Link(p, k) = List!NoNode
         /\ \A k \in Nat : List!Follow(Link(p, k)) = Link(p, k + 1)
<1>1. p \in Seq(Node) /\ Len(p) \in Nat
  BY LenProperties DEF IsPath
<1>2. ASSUME NEW k \in 0 .. Len(p) - 1 PROVE Link(p, k) = p[k + 1] /\ Link(p, k) \in Node
  <2>1. k + 1 \in 1 .. Len(p) /\ k < Len(p)
    BY <1>1
  <2> QED
    BY <1>1, <2>1, ElementOfSeq DEF Link
<1>3. ASSUME NEW k \in Nat, k >= Len(p) PROVE Link(p, k) = List!NoNode
  BY <1>1, <1>3 DEF Link
<1>4. ASSUME NEW k \in Nat PROVE List!Follow(Link(p, k)) = Link(p, k + 1)
  <2>1. CASE k < Len(p)
    <3>1. k \in 0 .. Len(p) - 1 /\ k + 1 \in 1 .. Len(p)
      BY <1>1, <2>1
    <3>2. Link(p, k) = p[k + 1] /\ Link(p, k) # List!NoNode
      BY <1>2, <3>1, NoNodeIs
    <3>3. ptr[p[k + 1]] = Link(p, k + 1)
      BY <3>1 DEF IsPath
    <3> QED
      BY <3>2, <3>3 DEF List!Follow
  <2>2. CASE ~ (k < Len(p))
    <3>1. Link(p, k) = List!NoNode /\ Link(p, k + 1) = List!NoNode
      BY <1>1, <1>3, <2>2
    <3> QED
      BY <3>1 DEF List!Follow
  <2> QED
    BY <2>1, <2>2
<1> QED
  BY <1>1, <1>2, <1>3, <1>4

LEMMA AtIs ==
  ASSUME NEW p, IsPath(p)
  PROVE  \A k \in Nat : List!At[k] = Link(p, k)
<1> DEFINE A == List!At
           F == [k \in Nat |-> Link(p, k)]
<1>1. F = Followed(F)
  <2>1. ASSUME NEW k \in Nat
        PROVE  F[k] = IF k = 0 THEN first ELSE List!Follow(F[k - 1])
    <3>1. CASE k = 0
      BY <3>1 DEF IsPath
    <3>2. CASE k # 0
      <4>1. k - 1 \in Nat /\ (k - 1) + 1 = k
        BY <3>2
      <4>2. List!Follow(Link(p, k - 1)) = Link(p, (k - 1) + 1)
        BY <4>1, LinkIs
      <4> QED
        BY <3>2, <4>1, <4>2
    <3> QED
      BY <3>1, <3>2
  <2> HIDE DEF F
  <2>2. F = [k \in Nat |-> F[k]]
    BY DEF F
  <2>3. [k \in Nat |-> F[k]] = [k \in Nat |-> IF k = 0 THEN first ELSE List!Follow(F[k - 1])]
    BY <2>1, Zenon
  <2> QED
    BY <2>2, <2>3 DEF Followed
<1>2. A = CHOOSE f : f = Followed(f)
  BY Zenon DEF List!At, Followed
<1> HIDE DEF F
<1>3. A = Followed(A)
  BY <1>1, <1>2
<1> HIDE DEF A
<1>4. \A k \in Nat : A[k] = IF k = 0 THEN first ELSE List!Follow(A[k - 1])
  BY <1>3, Zenon DEF Followed
<1> DEFINE T == {k \in Nat : A[k] = Link(p, k)}
<1>5. 0 \in T
  BY <1>4 DEF IsPath
<1>6. \A k \in Nat : k \in T => k + 1 \in T
  <2> SUFFICES ASSUME NEW k \in Nat, k \in T PROVE A[k + 1] = Link(p, k + 1)
    OBVIOUS
  <2>1. k + 1 \in Nat /\ k + 1 # 0 /\ (k + 1) - 1 = k
    OBVIOUS
  <2>2. A[k + 1] = List!Follow(A[k])
    BY <1>4, <2>1
  <2> QED
    BY <2>2, LinkIs
<1> HIDE DEF T
<1>7. Nat \subseteq T
  BY <1>5, <1>6, Induction
<1> QED
  BY <1>7 DEF T, A

(***************************************************************************)
(* One element more, one less, one for another.                            *)
(***************************************************************************)
Spliced(s, t, k, x) ==
  /\ Len(t) = Len(s) + 1
  /\ \A i \in 1 .. Len(s) + 1 : t[i] = IF i <= k THEN s[i] ELSE IF i = k + 1 THEN x ELSE s[i - 1]
Cut(s, t, k) ==
  /\ Len(t) = Len(s) - 1
  /\ \A i \in 1 .. Len(s) - 1 : t[i] = IF i < k THEN s[i] ELSE s[i + 1]

LEMMA InsertIs ==
  ASSUME NEW E, NEW s \in Seq(E), NEW k \in 0 .. Len(s), NEW x \in E
  PROVE  List!InsertAt(s, k + 1, x) \in Seq(E) /\ Spliced(s, List!InsertAt(s, k + 1, x), k, x)
<1> DEFINE u == SubSeq(s, 1, k)
           w == SubSeq(s, k + 1, Len(s))
           v == <<x>>
<1>1. /\ Len(s) \in Nat /\ k \in Nat /\ k <= Len(s) /\ (k + 1) - 1 = k
      /\ k + 1 \in Int /\ 1 \in Int /\ Len(s) \in Int /\ k \in Int
      /\ \A i \in 1 .. k : s[i] \in E
      /\ \A i \in k + 1 .. Len(s) : s[i] \in E
  BY LenProperties, ElementOfSeq
<1>2. u \in Seq(E) /\ Len(u) = k /\ \A i \in 1 .. k : u[i] = s[i]
  <2>1. /\ u \in Seq(E) /\ Len(u) = (IF 1 <= k THEN k - 1 + 1 ELSE 0)
        /\ \A i \in 1 .. k - 1 + 1 : u[i] = s[1 + i - 1]
    BY <1>1, SubSeqProperties
  <2> HIDE DEF u
  <2> QED
    BY <1>1, <2>1
<1>3. w \in Seq(E) /\ Len(w) = Len(s) - k /\ \A i \in 1 .. Len(s) - k : w[i] = s[k + i]
  <2>1. /\ w \in Seq(E) /\ Len(w) = (IF k + 1 <= Len(s) THEN Len(s) - (k + 1) + 1 ELSE 0)
        /\ \A i \in 1 .. Len(s) - (k + 1) + 1 : w[i] = s[(k + 1) + i - 1]
    BY <1>1, SubSeqProperties
  <2> HIDE DEF w
  <2>2. \A i \in 1 .. Len(s) - k : (k + 1) + i - 1 = k + i /\ i \in 1 .. Len(s) - (k + 1) + 1
    BY <1>1
  <2>3. Len(w) = Len(s) - k
    BY <1>1, <2>1
  <2> QED
    BY <2>1, <2>2, <2>3
<1>4. v \in Seq(E) /\ Len(v) = 1 /\ v[1] = x
  OBVIOUS
<1>5. List!InsertAt(s, k + 1, x) = (u \o v) \o w
  BY <1>1 DEF List!InsertAt
<1> HIDE DEF u, v, w
<1> DEFINE uv == u \o v
<1>6. uv \in Seq(E) /\ Len(uv) = k + 1 /\ \A i \in 1 .. k + 1 : uv[i] = IF i <= k THEN s[i] ELSE x
  <2>1. uv \in Seq(E) /\ Len(uv) = Len(u) + Len(v)
        /\ \A i \in 1 .. Len(u) + Len(v) : uv[i] = IF i <= Len(u) THEN u[i] ELSE v[i - Len(u)]
    BY <1>2, <1>4, ConcatProperties
  <2> HIDE DEF uv
  <2>2. \A i \in 1 .. k + 1 : i <= k \/ i - k = 1
    BY <1>1
  <2>3. ASSUME NEW i \in 1 .. k + 1 PROVE uv[i] = IF i <= k THEN s[i] ELSE x
    <3>1. uv[i] = IF i <= k THEN u[i] ELSE v[i - k]
      BY <1>2, <1>4, <2>1
    <3>2. CASE i <= k
      <4>1. i \in 1 .. k
        BY <3>2
      <4> QED
        BY <1>2, <3>1, <3>2, <4>1
    <3>3. CASE ~ (i <= k)
      BY <1>4, <2>2, <3>1, <3>3
    <3> QED
      BY <3>2, <3>3
  <2> QED
    BY <1>1, <1>2, <1>4, <2>1, <2>3
<1> HIDE DEF uv
<1> DEFINE r == uv \o w
<1>7. r \in Seq(E) /\ Len(r) = Len(uv) + Len(w)
      /\ \A i \in 1 .. Len(uv) + Len(w) : r[i] = IF i <= Len(uv) THEN uv[i] ELSE w[i - Len(uv)]
  BY <1>3, <1>6, ConcatProperties
<1> HIDE DEF r
<1>8. Len(r) = Len(s) + 1
  BY <1>1, <1>3, <1>6, <1>7
<1>9. ASSUME NEW i \in 1 .. Len(s) + 1
      PROVE  r[i] = IF i <= k THEN s[i] ELSE IF i = k + 1 THEN x ELSE s[i - 1]
  <2>1. r[i] = IF i <= k + 1 THEN uv[i] ELSE w[i - (k + 1)]
    BY <1>1, <1>3, <1>6, <1>7
  <2>2. CASE i <= k + 1
    <3>1. i \in 1 .. k + 1 /\ (i <= k \/ i = k + 1) /\ ~ (k + 1 <= k)
      BY <1>1, <2>2
    <3> QED
      BY <1>6, <2>1, <2>2, <3>1
  <2>3. CASE ~ (i <= k + 1)
    <3>1. /\ i - (k + 1) \in 1 .. Len(s) - k /\ k + (i - (k + 1)) = i - 1
          /\ ~ (i <= k) /\ i # k + 1
      BY <1>1, <2>3
    <3>2. w[i - (k + 1)] = s[i - 1]
      BY <1>3, <3>1
    <3> QED
      BY <2>1, <2>3, <3>1, <3>2
  <2> QED
    BY <2>2, <2>3
<1> QED
  BY <1>5, <1>7, <1>8, <1>9 DEF Spliced, r, uv

LEMMA AppendIs ==
  ASSUME NEW E, NEW s \in Seq(E), NEW x \in E
  PROVE  Append(s, x) \in Seq(E) /\ Spliced(s, Append(s, x), Len(s), x)
<1> DEFINE r == Append(s, x)
           n == Len(s)
<1>1. /\ r \in Seq(E) /\ Len(r) = n + 1 /\ n \in Nat
      /\ \A i \in 1 .. n : r[i] = s[i]
      /\ r[n + 1] = x
  BY AppendProperties, LenProperties
<1> HIDE DEF r, n
<1>2. \A i \in 1 .. n + 1 : r[i] = IF i <= n THEN s[i] ELSE IF i = n + 1 THEN x ELSE s[i - 1]
  BY <1>1
<1> QED
  BY <1>1, <1>2 DEF Spliced, r, n

LEMMA RemoveIs ==
  ASSUME NEW E, NEW s \in Seq(E), NEW k \in 1 .. Len(s)
  PROVE  List!RemoveAt(s, k) \in Seq(E) /\ Cut(s, List!RemoveAt(s, k), k)
<1> DEFINE u == SubSeq(s, 1, k - 1)
           w == SubSeq(s, k + 1, Len(s))
<1>1. /\ Len(s) \in Nat /\ k \in Nat /\ k <= Len(s) /\ k >= 1
      /\ k + 1 \in Int /\ 1 \in Int /\ Len(s) \in Int /\ k - 1 \in Int
      /\ \A i \in 1 .. k - 1 : s[i] \in E
      /\ \A i \in k + 1 .. Len(s) : s[i] \in E
  BY LenProperties, ElementOfSeq
<1>2. u \in Seq(E) /\ Len(u) = k - 1 /\ \A i \in 1 .. k - 1 : u[i] = s[i]
  <2>1. /\ u \in Seq(E) /\ Len(u) = (IF 1 <= k - 1 THEN (k - 1) - 1 + 1 ELSE 0)
        /\ \A i \in 1 .. (k - 1) - 1 + 1 : u[i] = s[1 + i - 1]
    BY <1>1, SubSeqProperties
  <2> HIDE DEF u
  <2> QED
    BY <1>1, <2>1
<1>3. w \in Seq(E) /\ Len(w) = Len(s) - k /\ \A i \in 1 .. Len(s) - k : w[i] = s[k + i]
  <2>1. /\ w \in Seq(E) /\ Len(w) = (IF k + 1 <= Len(s) THEN Len(s) - (k + 1) + 1 ELSE 0)
        /\ \A i \in 1 .. Len(s) - (k + 1) + 1 : w[i] = s[(k + 1) + i - 1]
    BY <1>1, SubSeqProperties
  <2> HIDE DEF w
  <2>2. \A i \in 1 .. Len(s) - k : (k + 1) + i - 1 = k + i /\ i \in 1 .. Len(s) - (k + 1) + 1
    BY <1>1
  <2>3. Len(w) = Len(s) - k
    BY <1>1, <2>1
  <2> QED
    BY <2>1, <2>2, <2>3
<1>4. List!RemoveAt(s, k) = u \o w
  BY DEF List!RemoveAt
<1> HIDE DEF u, w
<1> DEFINE r == u \o w
<1>5. r \in Seq(E) /\ Len(r) = Len(u) + Len(w)
      /\ \A i \in 1 .. Len(u) + Len(w) : r[i] = IF i <= Len(u) THEN u[i] ELSE w[i - Len(u)]
  BY <1>2, <1>3, ConcatProperties
<1> HIDE DEF r
<1>6. Len(r) = Len(s) - 1
  BY <1>1, <1>2, <1>3, <1>5
<1>7. ASSUME NEW i \in 1 .. Len(s) - 1 PROVE r[i] = IF i < k THEN s[i] ELSE s[i + 1]
  <2>1. r[i] = IF i <= k - 1 THEN u[i] ELSE w[i - (k - 1)]
    BY <1>1, <1>2, <1>3, <1>5
  <2>2. CASE i < k
    <3>1. i \in 1 .. k - 1 /\ i <= k - 1
      BY <1>1, <2>2
    <3> QED
      BY <1>2, <2>1, <2>2, <3>1
  <2>3. CASE ~ (i < k)
    <3>1. i - (k - 1) \in 1 .. Len(s) - k /\ k + (i - (k - 1)) = i + 1 /\ ~ (i <= k - 1)
      BY <1>1, <2>3
    <3>2. w[i - (k - 1)] = s[i + 1]
      BY <1>3, <3>1
    <3> QED
      BY <2>1, <2>3, <3>1, <3>2
  <2> QED
    BY <2>2, <2>3
<1> QED
  BY <1>4, <1>5, <1>6, <1>7 DEF Cut, r

LEMMA FrontIs ==
  ASSUME NEW E, NEW s \in Seq(E), Len(s) > 0
  PROVE  List!Front(s) \in Seq(E) /\ Cut(s, List!Front(s), Len(s)) /\ List!Last(s) = s[Len(s)]
<1> DEFINE r == List!Front(s)
<1>1. /\ Len(s) \in Nat /\ 1 \in Int /\ Len(s) - 1 \in Int
      /\ \A i \in 1 .. Len(s) - 1 : s[i] \in E
  BY LenProperties, ElementOfSeq
<1>2. r = SubSeq(s, 1, Len(s) - 1)
  BY DEF List!Front
<1>3. /\ r \in Seq(E) /\ Len(r) = (IF 1 <= Len(s) - 1 THEN (Len(s) - 1) - 1 + 1 ELSE 0)
      /\ \A i \in 1 .. (Len(s) - 1) - 1 + 1 : r[i] = s[1 + i - 1]
  BY <1>1, <1>2, SubSeqProperties
<1> HIDE DEF r
<1>4. Len(r) = Len(s) - 1
  <2>1. Len(s) \in Nat /\ Len(s) > 0
    BY <1>1
  <2>2. Len(r) = IF 1 <= Len(s) - 1 THEN (Len(s) - 1) - 1 + 1 ELSE 0
    BY <1>3
  <2> DEFINE n == Len(s)
             l == Len(r)
  <2>3. n \in Nat /\ n > 0 /\ l = IF 1 <= n - 1 THEN (n - 1) - 1 + 1 ELSE 0
    BY <2>1, <2>2
  <2> HIDE DEF n, l
  <2>4. l = n - 1
    BY <2>3
  <2> QED
    BY <2>4 DEF n, l
<1>5. \A i \in 1 .. Len(s) - 1 : i < Len(s) /\ r[i] = s[i]
  <2>1. \A i \in 1 .. Len(s) - 1 : i < Len(s) /\ 1 + i - 1 = i /\ i \in 1 .. (Len(s) - 1) - 1 + 1
    BY <1>1
  <2> QED
    BY <1>3, <2>1
<1> QED
  BY <1>3, <1>4, <1>5 DEF Cut, r, List!Last

(* What a path is in the next state. *)
LEMMA PathNext ==
  ASSUME NEW q, q \in Seq(Node), content' \in Seq(Datum), Len(content') = Len(q), size' = Len(q),
         \A i, j \in 1 .. Len(q) : q[i] = q[j] => i = j,
         DOMAIN ptr' = Nodes(q), DOMAIN data' = Nodes(q),
         first' = Link(q, 0), Len(q) > 0 => last' = q[Len(q)],
         \A i \in 1 .. Len(q) : ptr'[q[i]] = Link(q, i) /\ data'[q[i]] = content'[i]
  PROVE  IsPath(q)'
<1>1. Nodes(q)' = Nodes(q) /\ \A i : Link(q, i)' = Link(q, i)
  BY DEF Nodes, Link, List!NoNode
<1> QED
  BY <1>1 DEF IsPath

LEMMA SplicedNodes ==
  ASSUME NEW p \in Seq(Node), NEW q, NEW k \in 0 .. Len(p), NEW n, Spliced(p, q, k, n)
  PROVE  Nodes(q) = Nodes(p) \cup {n}
<1>1. Len(p) \in Nat /\ Len(q) = Len(p) + 1 /\ k \in Nat /\ k <= Len(p)
      /\ \A i \in 1 .. Len(p) + 1 : q[i] = IF i <= k THEN p[i] ELSE IF i = k + 1 THEN n ELSE p[i - 1]
  BY LenProperties DEF Spliced
<1>2. ASSUME NEW x \in Nodes(q) PROVE x \in Nodes(p) \cup {n}
  <2>1. PICK i \in 1 .. Len(p) + 1 : x = q[i]
    BY <1>1 DEF Nodes
  <2>2. x = IF i <= k THEN p[i] ELSE IF i = k + 1 THEN n ELSE p[i - 1]
    BY <1>1, <2>1
  <2>3. CASE i <= k
    <3>1. i \in 1 .. Len(p)
      BY <1>1, <2>3
    <3> QED
      BY <2>2, <2>3, <3>1 DEF Nodes
  <2>4. CASE ~ (i <= k) /\ i # k + 1
    <3>1. i - 1 \in 1 .. Len(p)
      BY <1>1, <2>4
    <3> QED
      BY <2>2, <2>4, <3>1 DEF Nodes
  <2> QED
    BY <2>2, <2>3, <2>4
<1>3. n \in Nodes(q)
  <2>1. k + 1 \in 1 .. Len(p) + 1 /\ ~ (k + 1 <= k)
    BY <1>1
  <2>2. q[k + 1] = n
    BY <1>1, <2>1
  <2> QED
    BY <1>1, <2>1, <2>2 DEF Nodes
<1>4. ASSUME NEW i \in 1 .. Len(p) PROVE p[i] \in Nodes(q)
  <2>1. CASE i <= k
    <3>1. i \in 1 .. Len(p) + 1
      BY <1>1
    <3> QED
      BY <1>1, <2>1, <3>1 DEF Nodes
  <2>2. CASE ~ (i <= k)
    <3>1. i + 1 \in 1 .. Len(p) + 1 /\ ~ (i + 1 <= k) /\ i + 1 # k + 1 /\ (i + 1) - 1 = i
      BY <1>1, <2>2
    <3> QED
      BY <1>1, <3>1 DEF Nodes
  <2> QED
    BY <2>1, <2>2
<1> QED
  BY <1>2, <1>3, <1>4 DEF Nodes

LEMMA SplicedOnce ==
  ASSUME NEW p \in Seq(Node), NEW q, NEW k \in 0 .. Len(p), NEW n, Spliced(p, q, k, n),
         n \notin Nodes(p), \A i, j \in 1 .. Len(p) : p[i] = p[j] => i = j
  PROVE  \A i, j \in 1 .. Len(q) : q[i] = q[j] => i = j
<1>1. Len(p) \in Nat /\ Len(q) = Len(p) + 1 /\ k \in Nat /\ k <= Len(p)
      /\ \A i \in 1 .. Len(p) + 1 : q[i] = IF i <= k THEN p[i] ELSE IF i = k + 1 THEN n ELSE p[i - 1]
  BY LenProperties DEF Spliced
<1> DEFINE from(i) == IF i <= k THEN i ELSE i - 1
<1>2. ASSUME NEW i \in 1 .. Len(p) + 1, i # k + 1
      PROVE  from(i) \in 1 .. Len(p) /\ q[i] = p[from(i)] /\ q[i] # n
  <2>1. from(i) \in 1 .. Len(p)
    BY <1>1, <1>2
  <2>2. q[i] = p[from(i)]
    BY <1>1, <1>2
  <2> HIDE DEF from
  <2>3. p[from(i)] \in Nodes(p)
    BY <2>1 DEF Nodes
  <2> QED
    BY <2>1, <2>2, <2>3
<1>3. q[k + 1] = n
  <2>1. k + 1 \in 1 .. Len(p) + 1 /\ ~ (k + 1 <= k)
    BY <1>1
  <2> QED
    BY <1>1, <2>1
<1>4. ASSUME NEW i \in 1 .. Len(p) + 1, NEW j \in 1 .. Len(p) + 1, i # k + 1, j # k + 1, from(i) = from(j)
      PROVE  i = j
  BY <1>1, <1>4
<1> HIDE DEF from
<1>5. ASSUME NEW i \in 1 .. Len(p) + 1, NEW j \in 1 .. Len(p) + 1, q[i] = q[j]
      PROVE  i = j
  <2>1. CASE i = k + 1 \/ j = k + 1
    BY <1>2, <1>3, <1>5, <2>1
  <2>2. CASE i # k + 1 /\ j # k + 1
    <3>1. from(i) \in 1 .. Len(p) /\ from(j) \in 1 .. Len(p) /\ p[from(i)] = p[from(j)]
      BY <1>2, <1>5, <2>2
    <3> QED
      BY <1>4, <2>2, <3>1
  <2> QED
    BY <2>1, <2>2
<1> QED
  BY <1>1, <1>5

(* A node n linked in behind the k-th. *)
LEMMA Grows ==
  ASSUME NEW p, IsPath(p), NEW n \in Node, n \notin Nodes(p), NEW d \in Datum, NEW k \in 0 .. Len(p),
         DOMAIN ptr' = Nodes(p) \cup {n}, DOMAIN data' = Nodes(p) \cup {n},
         ptr'[n] = Link(p, k), k > 0 => ptr'[p[k]] = n,
         \A i \in 1 .. Len(p) : i # k => ptr'[p[i]] = ptr[p[i]],
         data'[n] = d, \A i \in 1 .. Len(p) : data'[p[i]] = data[p[i]],
         first' = IF k = 0 THEN n ELSE first, last' = IF k = Len(p) THEN n ELSE last,
         size' = size + 1, content' \in Seq(Datum), Spliced(content, content', k, d),
         NEW q \in Seq(Node), Spliced(p, q, k, n)
  PROVE  IsPath(q)'
<1>1. /\ p \in Seq(Node) /\ Len(p) \in Nat /\ Len(q) = Len(p) + 1 /\ k \in Nat /\ k <= Len(p)
      /\ \A i \in 1 .. Len(p) + 1 : q[i] = IF i <= k THEN p[i] ELSE IF i = k + 1 THEN n ELSE p[i - 1]
  BY LenProperties DEF Spliced, IsPath
<1>2. /\ Len(content) = Len(p) /\ Len(content') = Len(p) + 1 /\ size' = Len(q)
      /\ \A i \in 1 .. Len(p) + 1 :
           content'[i] = IF i <= k THEN content[i] ELSE IF i = k + 1 THEN d ELSE content[i - 1]
  BY <1>1 DEF IsPath, Spliced
<1>3. DOMAIN ptr' = Nodes(q) /\ DOMAIN data' = Nodes(q)
  BY <1>1, SplicedNodes
<1>4. \A i, j \in 1 .. Len(q) : q[i] = q[j] => i = j
  BY <1>1, SplicedOnce DEF IsPath
<1>5. \A i \in 0 .. Len(p) : Link(q, i) = q[i + 1]
  BY <1>1 DEF Link
<1>6. Link(q, Len(p) + 1) = List!NoNode
  BY <1>1 DEF Link
<1>7. \A i \in 1 .. Len(p) : ptr[p[i]] = Link(p, i) /\ data[p[i]] = content[i]
  BY DEF IsPath
<1>8. first' = Link(q, 0)
  <2>1. Link(q, 0) = q[1]
    BY <1>1, <1>5
  <2>2. CASE k = 0
    BY <1>1, <2>1, <2>2
  <2>3. CASE k # 0
    <3>1. first = Link(p, 0) /\ Link(p, 0) = p[1] /\ 1 <= k /\ 1 \in 1 .. Len(p) + 1
      BY <1>1, <2>3 DEF IsPath, Link
    <3>2. q[1] = p[1]
      BY <1>1, <3>1
    <3> QED
      BY <2>1, <2>3, <3>1, <3>2
  <2> QED
    BY <2>2, <2>3
<1>9. Len(q) > 0 => last' = q[Len(q)]
  <2>1. Len(p) + 1 \in 1 .. Len(p) + 1 /\ ~ (Len(p) + 1 <= k) /\ (Len(p) + 1) - 1 = Len(p)
    BY <1>1
  <2>2. CASE k = Len(p)
    <3>1. q[Len(p) + 1] = n
      BY <1>1, <2>1, <2>2
    <3> QED
      BY <1>1, <2>2, <3>1
  <2>3. CASE k # Len(p)
    <3>0. Len(p) + 1 # k + 1 /\ Len(p) > 0
      BY <1>1, <2>3
    <3>1. q[Len(p) + 1] = p[Len(p)] /\ Len(p) > 0
      <4> DEFINE m == Len(p) + 1
      <4>1. m \in 1 .. Len(p) + 1 /\ ~ (m <= k) /\ m # k + 1 /\ m - 1 = Len(p)
        BY <2>1, <3>0
      <4> HIDE DEF m
      <4>2. q[m] = p[m - 1]
        BY <1>1, <4>1
      <4> QED
        BY <3>0, <4>1, <4>2 DEF m
    <3>2. last = p[Len(p)]
      BY <3>1 DEF IsPath
    <3> QED
      BY <1>1, <2>3, <3>1, <3>2
  <2> QED
    BY <2>2, <2>3
<1>10. ASSUME NEW i \in 1 .. Len(q)
       PROVE  ptr'[q[i]] = Link(q, i) /\ data'[q[i]] = content'[i]
  <2>0. i \in 1 .. Len(p) + 1
    BY <1>1
  <2>1. CASE i < k
    <3>1. /\ i \in 1 .. Len(p) /\ i + 1 \in 1 .. Len(p) + 1 /\ i <= k /\ i + 1 <= k
          /\ i < Len(p) /\ i \in 0 .. Len(p) /\ i # k
      BY <1>1, <2>1
    <3>2. q[i] = p[i] /\ q[i + 1] = p[i + 1] /\ content'[i] = content[i]
      BY <1>1, <1>2, <2>0, <3>1
    <3>3. Link(p, i) = p[i + 1] /\ Link(q, i) = q[i + 1]
      BY <1>5, <3>1 DEF Link
    <3> QED
      BY <1>7, <3>1, <3>2, <3>3
  <2>2. CASE i = k
    <3>1. /\ i \in 1 .. Len(p) /\ i + 1 \in 1 .. Len(p) + 1 /\ i <= k /\ ~ (i + 1 <= k)
          /\ i \in 0 .. Len(p) /\ i + 1 = k + 1 /\ k > 0
      BY <1>1, <2>2
    <3>2. q[i] = p[i] /\ q[i + 1] = n /\ content'[i] = content[i]
      BY <1>1, <1>2, <2>0, <3>1
    <3>3. Link(q, i) = n /\ ptr'[p[i]] = n
      BY <1>5, <2>2, <3>1, <3>2
    <3> QED
      BY <1>7, <3>1, <3>2, <3>3
  <2>3. CASE i = k + 1
    <3>1. ~ (i <= k) /\ i # k
      BY <1>1, <2>3
    <3>2. q[i] = n /\ content'[i] = d
      BY <1>1, <1>2, <2>0, <2>3, <3>1
    <3>3. Link(q, i) = Link(p, k)
      <4>1. CASE k < Len(p)
        <5>1. /\ i \in 0 .. Len(p) /\ i + 1 \in 1 .. Len(p) + 1 /\ ~ (i + 1 <= k) /\ i + 1 # k + 1
              /\ (i + 1) - 1 = k + 1
          BY <1>1, <2>3, <4>1
        <5>2. q[i + 1] = p[k + 1]
          BY <1>1, <5>1
        <5> QED
          BY <1>5, <4>1, <5>1, <5>2 DEF Link
      <4>2. CASE ~ (k < Len(p))
        <5>1. k = Len(p)
          BY <1>1, <4>2
        <5> QED
          BY <1>6, <2>3, <4>2, <5>1 DEF Link
      <4> QED
        BY <4>1, <4>2
    <3> QED
      BY <3>2, <3>3
  <2>4. CASE i > k + 1
    <3>1. /\ ~ (i <= k) /\ i # k + 1 /\ i - 1 \in 1 .. Len(p) /\ i - 1 # k
      BY <1>1, <2>0, <2>4
    <3>2. q[i] = p[i - 1] /\ content'[i] = content[i - 1]
      BY <1>1, <1>2, <2>0, <3>1
    <3>3. Link(q, i) = Link(p, i - 1)
      <4>1. CASE i <= Len(p)
        <5>1. /\ i \in 0 .. Len(p) /\ i + 1 \in 1 .. Len(p) + 1 /\ ~ (i + 1 <= k) /\ i + 1 # k + 1
              /\ (i + 1) - 1 = i /\ i - 1 < Len(p) /\ (i - 1) + 1 = i
          BY <1>1, <2>0, <2>4, <4>1
        <5>2. q[i + 1] = p[i]
          BY <1>1, <5>1
        <5> QED
          BY <1>5, <5>1, <5>2 DEF Link
      <4>2. CASE ~ (i <= Len(p))
        <5>1. i = Len(p) + 1 /\ ~ (i - 1 < Len(p))
          BY <1>1, <2>0, <4>2
        <5> QED
          BY <1>6, <5>1 DEF Link
      <4> QED
        BY <4>1, <4>2
    <3> QED
      BY <1>7, <3>1, <3>2, <3>3
  <2>5. i < k \/ i = k \/ i = k + 1 \/ i > k + 1
    BY <1>1, <2>0
  <2> QED
    BY <2>1, <2>2, <2>3, <2>4, <2>5
<1> QED
  BY <1>1, <1>2, <1>3, <1>4, <1>8, <1>9, <1>10, PathNext

LEMMA CutNodes ==
  ASSUME NEW p \in Seq(Node), NEW q, NEW k \in 1 .. Len(p), Cut(p, q, k),
         \A i, j \in 1 .. Len(p) : p[i] = p[j] => i = j
  PROVE  /\ Nodes(q) = Nodes(p) \ {p[k]}
         /\ \A i, j \in 1 .. Len(q) : q[i] = q[j] => i = j
<1>1. Len(p) \in Nat /\ Len(q) = Len(p) - 1 /\ k \in Nat /\ k <= Len(p) /\ k >= 1
      /\ \A i \in 1 .. Len(p) - 1 : q[i] = IF i < k THEN p[i] ELSE p[i + 1]
  BY LenProperties DEF Cut
<1> DEFINE from(i) == IF i < k THEN i ELSE i + 1
<1>2. ASSUME NEW i \in 1 .. Len(p) - 1
      PROVE  from(i) \in 1 .. Len(p) /\ q[i] = p[from(i)] /\ from(i) # k
  <2>1. from(i) \in 1 .. Len(p) /\ from(i) # k
    BY <1>1
  <2>2. q[i] = p[from(i)]
    BY <1>1
  <2> HIDE DEF from
  <2> QED
    BY <2>1, <2>2
<1>3. ASSUME NEW i \in 1 .. Len(p), i # k
      PROVE  \E j \in 1 .. Len(p) - 1 : from(j) = i
  <2>1. CASE i < k
    <3>1. i \in 1 .. Len(p) - 1 /\ from(i) = i
      BY <1>1, <2>1
    <3> HIDE DEF from
    <3> QED
      BY <3>1
  <2>2. CASE ~ (i < k)
    <3>1. i - 1 \in 1 .. Len(p) - 1 /\ from(i - 1) = i
      BY <1>1, <1>3, <2>2
    <3> HIDE DEF from
    <3> QED
      BY <3>1
  <2> QED
    BY <2>1, <2>2
<1>4. ASSUME NEW i \in 1 .. Len(p) - 1, NEW j \in 1 .. Len(p) - 1, from(i) = from(j) PROVE i = j
  BY <1>1, <1>4
<1> HIDE DEF from
<1>5. ASSUME NEW i \in 1 .. Len(q), NEW j \in 1 .. Len(q), q[i] = q[j] PROVE i = j
  <2>1. i \in 1 .. Len(p) - 1 /\ j \in 1 .. Len(p) - 1
    BY <1>1
  <2>2. from(i) \in 1 .. Len(p) /\ from(j) \in 1 .. Len(p) /\ p[from(i)] = p[from(j)]
    BY <1>2, <1>5, <2>1
  <2> QED
    BY <1>4, <2>1, <2>2
<1>6. ASSUME NEW x \in Nodes(q) PROVE x \in Nodes(p) \ {p[k]}
  <2>1. PICK i \in 1 .. Len(p) - 1 : x = q[i]
    BY <1>1 DEF Nodes
  <2>2. from(i) \in 1 .. Len(p) /\ x = p[from(i)] /\ from(i) # k
    BY <1>2, <2>1
  <2>3. x # p[k]
    BY <1>1, <2>2
  <2> QED
    BY <2>2, <2>3 DEF Nodes
<1>7. ASSUME NEW x \in Nodes(p) \ {p[k]} PROVE x \in Nodes(q)
  <2>1. PICK i \in 1 .. Len(p) : x = p[i] /\ i # k
    BY DEF Nodes
  <2>2. PICK j \in 1 .. Len(p) - 1 : from(j) = i
    BY <1>3, <2>1
  <2>3. q[j] = x /\ j \in 1 .. Len(q)
    BY <1>1, <1>2, <2>1, <2>2
  <2> QED
    BY <2>3 DEF Nodes
<1> QED
  BY <1>5, <1>6, <1>7

(* The k-th node linked out. *)
Unlinks(p, k) ==
  /\ DOMAIN ptr' = Nodes(p) \ {p[k]} /\ DOMAIN data' = Nodes(p) \ {p[k]}
  /\ k > 1 => ptr'[p[k - 1]] = Link(p, k)
  /\ \A i \in 1 .. Len(p) : i # k /\ i # k - 1 => ptr'[p[i]] = ptr[p[i]]
  /\ \A i \in 1 .. Len(p) : i # k => data'[p[i]] = data[p[i]]
  /\ first' = IF k = 1 THEN Link(p, 1) ELSE first
  /\ Len(p) > 1 => last' = IF k = Len(p) THEN p[k - 1] ELSE last
  /\ size' = size - 1 /\ content' \in Seq(Datum) /\ Cut(content, content', k)

LEMMA Shrinks ==
  ASSUME NEW p, IsPath(p), NEW k \in 1 .. Len(p), Unlinks(p, k), NEW q \in Seq(Node), Cut(p, q, k)
  PROVE  IsPath(q)'
<1>1. /\ p \in Seq(Node) /\ Len(p) \in Nat /\ Len(q) = Len(p) - 1 /\ k \in Nat /\ k <= Len(p) /\ k >= 1
      /\ \A i \in 1 .. Len(p) - 1 : q[i] = IF i < k THEN p[i] ELSE p[i + 1]
  BY LenProperties DEF Cut, IsPath
<1>2. /\ Len(content) = Len(p) /\ Len(content') = Len(p) - 1 /\ size' = Len(q)
      /\ \A i \in 1 .. Len(p) - 1 : content'[i] = IF i < k THEN content[i] ELSE content[i + 1]
      /\ content' \in Seq(Datum)
  BY <1>1 DEF IsPath, Cut, Unlinks
<1>3. /\ DOMAIN ptr' = Nodes(q) /\ DOMAIN data' = Nodes(q)
      /\ \A i, j \in 1 .. Len(q) : q[i] = q[j] => i = j
  <2>1. p \in Seq(Node) /\ \A i, j \in 1 .. Len(p) : p[i] = p[j] => i = j
    BY DEF IsPath
  <2>2. /\ Nodes(q) = Nodes(p) \ {p[k]}
        /\ \A i, j \in 1 .. Len(q) : q[i] = q[j] => i = j
    BY <2>1, CutNodes
  <2> QED
    BY <2>2 DEF Unlinks
<1>5. \A i \in 0 .. Len(p) - 2 : Link(q, i) = q[i + 1]
  BY <1>1 DEF Link
<1>6. Link(q, Len(p) - 1) = List!NoNode
  BY <1>1 DEF Link
<1>7. \A i \in 1 .. Len(p) : ptr[p[i]] = Link(p, i) /\ data[p[i]] = content[i]
  BY DEF IsPath
<1>8. first' = Link(q, 0)
  <2>1. CASE Len(p) = 1
    <3>1. k = 1 /\ Link(p, 1) = List!NoNode /\ Link(q, 0) = List!NoNode
      BY <1>1, <2>1 DEF Link
    <3> QED
      BY <3>1 DEF Unlinks
  <2>2. CASE Len(p) # 1
    <3>1. 1 \in 1 .. Len(p) - 1 /\ 0 \in 0 .. Len(p) - 2 /\ 0 + 1 = 1 /\ 1 + 1 = 2 /\ 1 < Len(p) /\ 0 < Len(p)
      BY <1>1, <2>2
    <3>2. Link(q, 0) = q[1] /\ Link(p, 1) = p[2] /\ first = p[1]
      BY <1>5, <3>1 DEF Link, IsPath
    <3>3. q[1] = IF 1 < k THEN p[1] ELSE p[2]
      BY <1>1, <3>1
    <3>4. 1 < k <=> k # 1
      BY <1>1
    <3> QED
      BY <3>2, <3>3, <3>4 DEF Unlinks
  <2> QED
    BY <2>1, <2>2
<1>9. Len(q) > 0 => last' = q[Len(q)]
  <2> SUFFICES ASSUME Len(p) > 1 PROVE last' = q[Len(p) - 1]
    BY <1>1
  <2>1. Len(p) - 1 \in 1 .. Len(p) - 1 /\ (Len(p) - 1) + 1 = Len(p)
    BY <1>1
  <2>2. CASE k = Len(p)
    <3>1. Len(p) - 1 < k
      BY <1>1, <2>2
    <3> QED
      BY <1>1, <2>1, <2>2, <3>1 DEF Unlinks
  <2>3. CASE k # Len(p)
    <3>1. ~ (Len(p) - 1 < k)
      BY <1>1, <2>3
    <3>2. q[Len(p) - 1] = p[Len(p)]
      BY <1>1, <2>1, <3>1
    <3>3. last' = last
      BY <2>3 DEF Unlinks
    <3>4. last = p[Len(p)]
      BY <1>1 DEF IsPath
    <3> QED
      BY <3>2, <3>3, <3>4
  <2> QED
    BY <2>2, <2>3
<1>10. ASSUME NEW i \in 1 .. Len(q)
       PROVE  ptr'[q[i]] = Link(q, i) /\ data'[q[i]] = content'[i]
  <2>0. i \in 1 .. Len(p) - 1
    BY <1>1
  <2>1. CASE i < k - 1
    <3>1. /\ i \in 1 .. Len(p) /\ i + 1 \in 1 .. Len(p) - 1 /\ i < k /\ i + 1 < k
          /\ i < Len(p) /\ i \in 0 .. Len(p) - 2 /\ i # k /\ i # k - 1
      BY <1>1, <2>0, <2>1
    <3>2. q[i] = p[i] /\ q[i + 1] = p[i + 1] /\ content'[i] = content[i]
      BY <1>1, <1>2, <2>0, <3>1
    <3>3. Link(p, i) = p[i + 1] /\ Link(q, i) = q[i + 1]
      BY <1>5, <3>1 DEF Link
    <3>4. ptr'[p[i]] = ptr[p[i]] /\ data'[p[i]] = data[p[i]]
      BY <3>1 DEF Unlinks
    <3> QED
      BY <1>7, <3>1, <3>2, <3>3, <3>4
  <2>2. CASE i = k - 1
    <3>1. i \in 1 .. Len(p) /\ i < k /\ k > 1 /\ i # k
      BY <1>1, <2>0, <2>2
    <3>2. q[i] = p[i] /\ content'[i] = content[i]
      BY <1>1, <1>2, <2>0, <3>1
    <3>3. Link(q, i) = Link(p, k)
      <4>1. CASE k < Len(p)
        <5>1. i + 1 = k /\ i + 1 \in 1 .. Len(p) - 1 /\ ~ (k < k) /\ i \in 0 .. Len(p) - 2
          BY <1>1, <2>0, <2>2, <4>1
        <5>2. q[i + 1] = p[k + 1]
          BY <1>1, <5>1
        <5> QED
          BY <1>5, <4>1, <5>1, <5>2 DEF Link
      <4>2. CASE ~ (k < Len(p))
        <5>1. i = Len(p) - 1
          BY <1>1, <2>2, <4>2
        <5> QED
          BY <1>6, <4>2, <5>1 DEF Link
      <4> QED
        BY <4>1, <4>2
    <3>4. ptr'[p[i]] = Link(p, k) /\ data'[p[i]] = data[p[i]]
      BY <2>2, <3>1 DEF Unlinks
    <3> QED
      BY <1>7, <3>1, <3>2, <3>3, <3>4
  <2>3. CASE i > k - 1
    <3>1. /\ ~ (i < k) /\ i + 1 \in 1 .. Len(p) /\ i + 1 # k /\ i + 1 # k - 1
      BY <1>1, <2>0, <2>3
    <3>2. q[i] = p[i + 1] /\ content'[i] = content[i + 1]
      BY <1>1, <1>2, <2>0, <3>1
    <3>3. Link(q, i) = Link(p, i + 1)
      <4>1. CASE i + 1 < Len(p)
        <5>1. i + 1 \in 1 .. Len(p) - 1 /\ ~ (i + 1 < k) /\ i \in 0 .. Len(p) - 2
          BY <1>1, <2>0, <2>3, <4>1
        <5>2. q[i + 1] = p[(i + 1) + 1]
          BY <1>1, <5>1
        <5> QED
          BY <1>5, <4>1, <5>1, <5>2 DEF Link
      <4>2. CASE ~ (i + 1 < Len(p))
        <5>1. i = Len(p) - 1
          BY <1>1, <2>0, <4>2
        <5> QED
          BY <1>6, <4>2, <5>1 DEF Link
      <4> QED
        BY <4>1, <4>2
    <3>4. ptr'[p[i + 1]] = ptr[p[i + 1]] /\ data'[p[i + 1]] = data[p[i + 1]]
      BY <3>1 DEF Unlinks
    <3> QED
      BY <1>7, <3>1, <3>2, <3>3, <3>4
  <2>4. i < k - 1 \/ i = k - 1 \/ i > k - 1
    BY <1>1, <2>0
  <2> QED
    BY <2>1, <2>2, <2>3, <2>4
<1> QED
  BY <1>1, <1>2, <1>3, <1>8, <1>9, <1>10, PathNext

(***************************************************************************)
(* The cache.                                                              *)
(***************************************************************************)
Cached == [idx : Int, ent : Node \cup {List!NoNode}]

LEMMA ShiftIs ==
  ASSUME NEW c \in [1 .. CacheSize -> Cached], NEW k \in Int, NEW by \in Int
  PROVE  /\ List!Shift(c, k, by) \in [1 .. CacheSize -> Cached]
         /\ \A i \in 1 .. CacheSize :
              /\ List!Shift(c, k, by)[i].ent = c[i].ent
              /\ List!Shift(c, k, by)[i].idx =
                   IF c[i].ent # List!NoNode /\ c[i].idx >= k THEN c[i].idx + by ELSE c[i].idx
<1> DEFINE d == List!Shift(c, k, by)
<1>1. d = [i \in 1 .. CacheSize |-> IF c[i].ent # List!NoNode /\ c[i].idx >= k
                                    THEN [c[i] EXCEPT !.idx = @ + by] ELSE c[i]]
  BY DEF List!Shift
<1> HIDE DEF d
<1>2. ASSUME NEW i \in 1 .. CacheSize
      PROVE  /\ d[i] \in Cached /\ d[i].ent = c[i].ent
             /\ d[i].idx = IF c[i].ent # List!NoNode /\ c[i].idx >= k THEN c[i].idx + by ELSE c[i].idx
  <2>1. PICK x \in Int, n \in Node \cup {List!NoNode} : c[i] = [idx |-> x, ent |-> n]
    BY DEF Cached
  <2>2. c[i].idx = x /\ c[i].ent = n /\ x + by \in Int
    BY <2>1
  <2>3. d[i] = IF n # List!NoNode /\ x >= k THEN [c[i] EXCEPT !.idx = @ + by] ELSE c[i]
    BY <1>1, <2>2
  <2>4. [c[i] EXCEPT !.idx = @ + by] = [idx |-> x + by, ent |-> n]
    BY <2>1
  <2> QED
    BY <2>1, <2>2, <2>3, <2>4 DEF Cached
<1>3. d \in [1 .. CacheSize -> Cached]
  BY <1>1, <1>2
<1> QED
  BY <1>2, <1>3 DEF d

LEMMA DropIs ==
  ASSUME NEW c \in [1 .. CacheSize -> Cached], NEW n
  PROVE  /\ List!Drop(c, n) \in [1 .. CacheSize -> Cached]
         /\ \A i \in 1 .. CacheSize :
              /\ c[i].ent = n => List!Drop(c, n)[i].ent = List!NoNode
              /\ c[i].ent # n => List!Drop(c, n)[i] = c[i]
<1> DEFINE d == List!Drop(c, n)
<1>1. d = [i \in 1 .. CacheSize |-> IF c[i].ent = n THEN List!Unused ELSE c[i]]
  BY DEF List!Drop
<1> HIDE DEF d
<1>2. List!Unused \in Cached /\ List!Unused.ent = List!NoNode
  BY DEF List!Unused, Cached
<1>3. \A i \in 1 .. CacheSize : d[i] = IF c[i].ent = n THEN List!Unused ELSE c[i]
  BY <1>1
<1>4. d \in [1 .. CacheSize -> Cached]
  BY <1>1, <1>2
<1> QED
  BY <1>2, <1>3, <1>4 DEF d

LEMMA CacheIs ==
  ASSUME NEW c, NEW p, NEW t \in BOOLEAN, IsCache(c, p, t)
  PROVE  /\ c \in [1 .. CacheSize -> Cached]
         /\ \A i \in 1 .. CacheSize : c[i].idx \in Int /\ c[i].ent \in Node \cup {List!NoNode}
         /\ \A i \in 1 .. CacheSize : c[i].ent # List!NoNode =>
              /\ c[i].ent \in Nodes(p)
              /\ ~t => c[i].idx \in 0 .. Len(p) - 1 /\ p[c[i].idx + 1] = c[i].ent
<1>1. c \in [1 .. CacheSize -> Cached]
  BY DEF IsCache, Cached
<1>2. \A i \in 1 .. CacheSize : c[i].idx \in Int /\ c[i].ent \in Node \cup {List!NoNode}
  BY <1>1 DEF Cached
<1> QED
  BY <1>1, <1>2 DEF IsCache

Once(p) == \A i, j \in 1 .. Len(p) : p[i] = p[j] => i = j

(* The entries of c in d, where the path has grown behind the k-th node,   *)
(* or has lost its k-th node n.                                            *)
Moved(c, d, k, t) ==
  \A i \in 1 .. CacheSize : d[i].ent # List!NoNode =>
    /\ d[i].ent = c[i].ent
    /\ ~t => d[i].idx = IF c[i].idx >= k THEN c[i].idx + 1 ELSE c[i].idx
MovedBack(c, d, k, n, t, u) ==
  \A i \in 1 .. CacheSize : d[i].ent # List!NoNode =>
    /\ d[i].ent = c[i].ent /\ d[i].ent # n
    /\ ~u => ~t /\ d[i].idx = IF c[i].idx >= k THEN c[i].idx - 1 ELSE c[i].idx

LEMMA CacheGrows ==
  ASSUME NEW p \in Seq(Node), NEW q, NEW k \in 0 .. Len(p), NEW n, Spliced(p, q, k, n),
         NEW c, NEW t \in BOOLEAN, IsCache(c, p, t), NEW d \in [1 .. CacheSize -> Cached],
         Moved(c, d, k, t)
  PROVE  IsCache(d, q, t)
<1>1. /\ Len(p) \in Nat /\ Len(q) = Len(p) + 1 /\ k \in Nat /\ k <= Len(p)
      /\ \A i \in 1 .. Len(p) + 1 : q[i] = IF i <= k THEN p[i] ELSE IF i = k + 1 THEN n ELSE p[i - 1]
  BY LenProperties DEF Spliced
<1>2. Nodes(q) = Nodes(p) \cup {n}
  BY SplicedNodes
<1>3. ASSUME NEW i \in 1 .. CacheSize, d[i].ent # List!NoNode
      PROVE  /\ d[i].ent \in Nodes(q)
             /\ ~t => d[i].idx \in 0 .. Len(q) - 1 /\ q[d[i].idx + 1] = d[i].ent
  <2>1. d[i].ent = c[i].ent /\ c[i].ent \in Nodes(p)
    BY <1>3, CacheIs DEF Moved
  <2> SUFFICES ASSUME ~t
               PROVE  d[i].idx \in 0 .. Len(q) - 1 /\ q[d[i].idx + 1] = d[i].ent
    BY <1>2, <2>1
  <2> DEFINE x == c[i].idx
             y == d[i].idx
  <2>2. x \in 0 .. Len(p) - 1 /\ p[x + 1] = c[i].ent
    BY <1>3, <2>1, CacheIs
  <2>3. y = IF x >= k THEN x + 1 ELSE x
    BY <1>3 DEF Moved
  <2> HIDE DEF x, y
  <2>4. CASE x >= k
    <3>1. /\ y \in 0 .. Len(q) - 1 /\ y + 1 \in 1 .. Len(p) + 1 /\ ~ (y + 1 <= k) /\ y + 1 # k + 1
          /\ (y + 1) - 1 = x + 1
      BY <1>1, <2>2, <2>3, <2>4
    <3> QED
      BY <1>1, <2>1, <2>2, <3>1 DEF y
  <2>5. CASE ~ (x >= k)
    <3>1. y \in 0 .. Len(q) - 1 /\ y + 1 \in 1 .. Len(p) + 1 /\ y + 1 <= k /\ y = x
      BY <1>1, <2>2, <2>3, <2>5
    <3>2. q[y + 1] = p[x + 1]
      BY <1>1, <3>1
    <3> QED
      BY <2>1, <2>2, <3>1, <3>2 DEF y
  <2> QED
    BY <2>4, <2>5
<1> QED
  BY <1>3 DEF IsCache, Cached

LEMMA CacheShifted ==
  ASSUME NEW p \in Seq(Node), NEW q, NEW k \in 0 .. Len(p), NEW n, Spliced(p, q, k, n),
         NEW c, NEW t \in BOOLEAN, IsCache(c, p, t)
  PROVE  IsCache(List!Shift(c, k, 1), q, t)
<1>1. c \in [1 .. CacheSize -> Cached] /\ k \in Int /\ 1 \in Int
  BY CacheIs
<1> DEFINE d == List!Shift(c, k, 1)
<1>2. /\ d \in [1 .. CacheSize -> Cached]
      /\ \A i \in 1 .. CacheSize :
           /\ d[i].ent = c[i].ent
           /\ d[i].idx = IF c[i].ent # List!NoNode /\ c[i].idx >= k THEN c[i].idx + 1 ELSE c[i].idx
  BY <1>1, ShiftIs
<1> HIDE DEF d
<1>3. Moved(c, d, k, t)
  BY <1>2 DEF Moved
<1>4. d \in [1 .. CacheSize -> Cached]
  BY <1>2
<1>5. IsCache(d, q, t)
  BY <1>3, <1>4, CacheGrows
<1> QED
  BY <1>5 DEF d

LEMMA CacheAppended ==
  ASSUME NEW p \in Seq(Node), NEW q, NEW n, Spliced(p, q, Len(p), n),
         NEW c, NEW t \in BOOLEAN, IsCache(c, p, t)
  PROVE  IsCache(c, q, t)
<1>1. c \in [1 .. CacheSize -> Cached] /\ Len(p) \in Nat /\ Len(p) \in 0 .. Len(p)
  BY CacheIs, LenProperties
<1>2. ASSUME NEW i \in 1 .. CacheSize, c[i].ent # List!NoNode
      PROVE  ~t => c[i].idx = IF c[i].idx >= Len(p) THEN c[i].idx + 1 ELSE c[i].idx
  <2>1. ~t => c[i].idx \in 0 .. Len(p) - 1
    BY <1>2, CacheIs
  <2> QED
    BY <1>1, <2>1
<1>3. Moved(c, c, Len(p), t)
  BY <1>2 DEF Moved
<1> QED
  BY <1>1, <1>3, CacheGrows

(* A path the k-th node has been cut from.                                 *)
LEMMA CacheCuts ==
  ASSUME NEW p \in Seq(Node), NEW q, NEW k \in 1 .. Len(p), Cut(p, q, k),
         Once(p),
         NEW c, NEW t \in BOOLEAN, IsCache(c, p, t), NEW d \in [1 .. CacheSize -> Cached], NEW u \in BOOLEAN,
         MovedBack(c, d, k, p[k], t, u)
  PROVE  IsCache(d, q, u)
<1>1. /\ Len(p) \in Nat /\ Len(q) = Len(p) - 1 /\ k \in Nat /\ k <= Len(p) /\ k >= 1
      /\ \A i \in 1 .. Len(p) - 1 : q[i] = IF i < k THEN p[i] ELSE p[i + 1]
  BY LenProperties DEF Cut
<1>2. Nodes(q) = Nodes(p) \ {p[k]}
  BY CutNodes DEF Once
<1>3. ASSUME NEW i \in 1 .. CacheSize, d[i].ent # List!NoNode
      PROVE  /\ d[i].ent \in Nodes(q)
             /\ ~u => d[i].idx \in 0 .. Len(q) - 1 /\ q[d[i].idx + 1] = d[i].ent
  <2>1. d[i].ent = c[i].ent /\ c[i].ent \in Nodes(p) /\ d[i].ent # p[k]
    BY <1>3, CacheIs DEF MovedBack
  <2> SUFFICES ASSUME ~u
               PROVE  d[i].idx \in 0 .. Len(q) - 1 /\ q[d[i].idx + 1] = d[i].ent
    BY <1>2, <2>1
  <2> DEFINE x == c[i].idx
             y == d[i].idx
  <2>2. x \in 0 .. Len(p) - 1 /\ p[x + 1] = c[i].ent
    <3>1. ~t /\ c[i].ent # List!NoNode
      BY <1>3, <2>1 DEF MovedBack
    <3> QED
      BY <3>1, CacheIs
  <2>3. y = IF x >= k THEN x - 1 ELSE x
    BY <1>3 DEF MovedBack
  <2> HIDE DEF x, y
  <2>4. x + 1 # k
    BY <2>1, <2>2
  <2>5. CASE x >= k
    <3>1. /\ y \in 0 .. Len(q) - 1 /\ y + 1 \in 1 .. Len(p) - 1 /\ ~ (y + 1 < k)
          /\ (y + 1) + 1 = x + 1
      BY <1>1, <2>2, <2>3, <2>5
    <3>2. q[y + 1] = p[x + 1]
      BY <1>1, <3>1
    <3> QED
      BY <2>1, <2>2, <3>1, <3>2 DEF y
  <2>6. CASE ~ (x >= k)
    <3>1. y \in 0 .. Len(q) - 1 /\ y + 1 \in 1 .. Len(p) - 1 /\ y + 1 < k /\ y = x
      BY <1>1, <2>2, <2>3, <2>4, <2>6
    <3>2. q[y + 1] = p[x + 1]
      BY <1>1, <3>1
    <3> QED
      BY <2>1, <2>2, <3>1, <3>2 DEF y
  <2> QED
    BY <2>5, <2>6
<1> QED
  BY <1>3 DEF IsCache, Cached

LEMMA CacheDropped ==
  ASSUME NEW p \in Seq(Node), NEW q, NEW k \in 1 .. Len(p), Cut(p, q, k),
         Once(p),
         NEW c, NEW t \in BOOLEAN, IsCache(c, p, t)
  PROVE  /\ IsCache(List!Drop(c, p[k]), q, TRUE)
         /\ k = Len(p) => IsCache(List!Drop(c, p[k]), q, t)
<1> DEFINE n == p[k]
           d == List!Drop(c, n)
<1>1. c \in [1 .. CacheSize -> Cached] /\ Len(p) \in Nat /\ k \in Nat
  BY CacheIs, LenProperties
<1>2. d \in [1 .. CacheSize -> Cached]
      /\ \A i \in 1 .. CacheSize : (c[i].ent = n => d[i].ent = List!NoNode) /\ (c[i].ent # n => d[i] = c[i])
  BY <1>1, DropIs
<1> HIDE DEF d
<1>3. \A i \in 1 .. CacheSize : d[i].ent # List!NoNode => d[i].ent = c[i].ent /\ d[i].ent # p[k] /\ d[i] = c[i]
  BY <1>2
<1>4. IsCache(d, q, TRUE)
  <2>1. MovedBack(c, d, k, p[k], t, TRUE)
    BY <1>3 DEF MovedBack
  <2>2. d \in [1 .. CacheSize -> Cached] /\ TRUE \in BOOLEAN
    BY <1>2
  <2> QED
    BY <2>1, <2>2, CacheCuts
<1>5. ASSUME k = Len(p) PROVE IsCache(d, q, t)
  <2>1. ASSUME NEW i \in 1 .. CacheSize, d[i].ent # List!NoNode, ~t
        PROVE  d[i].idx = IF c[i].idx >= k THEN c[i].idx - 1 ELSE c[i].idx
    <3>1. d[i] = c[i] /\ c[i].idx \in 0 .. Len(p) - 1
      BY <1>3, <2>1, CacheIs
    <3>2. ~ (c[i].idx >= k)
      BY <1>1, <1>5, <3>1
    <3> QED
      BY <3>1, <3>2
  <2>2. MovedBack(c, d, k, p[k], t, t)
    BY <1>3, <2>1 DEF MovedBack
  <2>3. d \in [1 .. CacheSize -> Cached]
    BY <1>2
  <2> QED
    BY <2>2, <2>3, CacheCuts
<1> QED
  BY <1>4, <1>5 DEF d

LEMMA CacheUnshifted ==
  ASSUME NEW p \in Seq(Node), NEW q, NEW k \in 1 .. Len(p), Cut(p, q, k),
         Once(p),
         NEW c, NEW t \in BOOLEAN, IsCache(c, p, t)
  PROVE  /\ IsCache(List!Shift(List!Drop(c, p[k]), k - 1, -1), q, t)
         /\ IsCache(List!Drop(List!Shift(c, k - 1, -1), p[k]), q, t)
<1> DEFINE n == p[k]
           d == List!Drop(c, n)
           e == List!Shift(d, k - 1, -1)
           f == List!Shift(c, k - 1, -1)
           g == List!Drop(f, n)
<1>1. c \in [1 .. CacheSize -> Cached] /\ Len(p) \in Nat /\ k \in Nat /\ k - 1 \in Int /\ -1 \in Int
  BY CacheIs, LenProperties
<1>2. d \in [1 .. CacheSize -> Cached]
      /\ \A i \in 1 .. CacheSize : (c[i].ent = n => d[i].ent = List!NoNode) /\ (c[i].ent # n => d[i] = c[i])
  BY <1>1, DropIs
<1> HIDE DEF d
<1>3. /\ e \in [1 .. CacheSize -> Cached]
      /\ \A i \in 1 .. CacheSize :
           /\ e[i].ent = d[i].ent
           /\ e[i].idx = IF d[i].ent # List!NoNode /\ d[i].idx >= k - 1 THEN d[i].idx + (-1) ELSE d[i].idx
  BY <1>1, <1>2, ShiftIs
<1>4. /\ f \in [1 .. CacheSize -> Cached]
      /\ \A i \in 1 .. CacheSize :
           /\ f[i].ent = c[i].ent
           /\ f[i].idx = IF c[i].ent # List!NoNode /\ c[i].idx >= k - 1 THEN c[i].idx + (-1) ELSE c[i].idx
  BY <1>1, ShiftIs
<1> HIDE DEF f
<1>5. g \in [1 .. CacheSize -> Cached]
      /\ \A i \in 1 .. CacheSize : (f[i].ent = n => g[i].ent = List!NoNode) /\ (f[i].ent # n => g[i] = f[i])
  BY <1>4, DropIs
<1> HIDE DEF e, g
<1>6. ASSUME NEW i \in 1 .. CacheSize, c[i].ent # List!NoNode, c[i].ent # n, ~t
      PROVE  (IF c[i].idx >= k - 1 THEN c[i].idx + (-1) ELSE c[i].idx)
             = (IF c[i].idx >= k THEN c[i].idx - 1 ELSE c[i].idx)
  <2>1. c[i].idx \in 0 .. Len(p) - 1 /\ p[c[i].idx + 1] = c[i].ent
    BY <1>6, CacheIs
  <2>2. c[i].idx + 1 # k
    BY <1>6, <2>1
  <2> DEFINE x == c[i].idx
  <2>3. x \in Int /\ x + 1 # k
    BY <2>1, <2>2
  <2> HIDE DEF x
  <2>4. (IF x >= k - 1 THEN x + (-1) ELSE x) = (IF x >= k THEN x - 1 ELSE x)
    BY <1>1, <2>3
  <2> QED
    BY <2>4 DEF x
<1>7. IsCache(e, q, t)
  <2>1. ASSUME NEW i \in 1 .. CacheSize, e[i].ent # List!NoNode
        PROVE  /\ e[i].ent = c[i].ent /\ e[i].ent # p[k]
               /\ ~t => e[i].idx = IF c[i].idx >= k THEN c[i].idx - 1 ELSE c[i].idx
    <3>1. d[i].ent = e[i].ent /\ c[i].ent # n /\ d[i] = c[i] /\ d[i].ent # List!NoNode
      BY <1>2, <1>3, <2>1
    <3>2. e[i].idx = IF c[i].idx >= k - 1 THEN c[i].idx + (-1) ELSE c[i].idx
      BY <1>3, <3>1
    <3> QED
      BY <1>6, <3>1, <3>2
  <2>2. MovedBack(c, e, k, p[k], t, t)
    BY <2>1 DEF MovedBack
  <2>3. e \in [1 .. CacheSize -> Cached]
    BY <1>3
  <2> QED
    BY <2>2, <2>3, CacheCuts
<1>8. IsCache(g, q, t)
  <2>1. ASSUME NEW i \in 1 .. CacheSize, g[i].ent # List!NoNode
        PROVE  /\ g[i].ent = c[i].ent /\ g[i].ent # p[k]
               /\ ~t => g[i].idx = IF c[i].idx >= k THEN c[i].idx - 1 ELSE c[i].idx
    <3>1. f[i].ent # n /\ g[i] = f[i] /\ f[i].ent = c[i].ent /\ c[i].ent # List!NoNode
      BY <1>4, <1>5, <2>1
    <3>2. f[i].idx = IF c[i].idx >= k - 1 THEN c[i].idx + (-1) ELSE c[i].idx
      BY <1>4, <3>1
    <3> QED
      BY <1>6, <3>1, <3>2
  <2>2. MovedBack(c, g, k, p[k], t, t)
    BY <2>1 DEF MovedBack
  <2>3. g \in [1 .. CacheSize -> Cached]
    BY <1>5
  <2> QED
    BY <2>2, <2>3, CacheCuts
<1> QED
  BY <1>7, <1>8 DEF d, e, f, g

(***************************************************************************)
(* linkedlist_get.                                                         *)
(***************************************************************************)
Walked(f, n, far) == [i \in 0 .. far |-> IF i = 0 THEN n ELSE List!Follow(f[i - 1])]

LEMMA StepsAre ==
  ASSUME NEW p, IsPath(p), NEW j \in 1 .. Len(p), NEW far \in Nat
  PROVE  \A i \in 0 .. far : List!Steps(p[j], far)[i] = Link(p, j - 1 + i)
<1> DEFINE n == p[j]
           go == List!Steps(n, far)
           F == [i \in 0 .. far |-> Link(p, j - 1 + i)]
<1>0. Len(p) \in Nat /\ j \in Nat /\ j >= 1 /\ j <= Len(p)
  BY LinkIs
<1>1. F = Walked(F, n, far)
  <2>1. ASSUME NEW i \in 0 .. far
        PROVE  F[i] = IF i = 0 THEN n ELSE List!Follow(F[i - 1])
    <3>1. CASE i = 0
      <4>1. j - 1 + 0 = j - 1 /\ j - 1 \in 0 .. Len(p) - 1 /\ (j - 1) + 1 = j
        BY <1>0
      <4>2. Link(p, j - 1) = p[(j - 1) + 1]
        BY <4>1, LinkIs
      <4> QED
        BY <3>1, <4>1, <4>2
    <3>2. CASE i # 0
      <4>1. i - 1 \in 0 .. far /\ j - 1 + (i - 1) \in Nat /\ (j - 1 + (i - 1)) + 1 = j - 1 + i
        BY <1>0, <3>2
      <4>2. List!Follow(Link(p, j - 1 + (i - 1))) = Link(p, (j - 1 + (i - 1)) + 1)
        BY <4>1, LinkIs
      <4> QED
        BY <3>2, <4>1, <4>2
    <3> QED
      BY <3>1, <3>2
  <2> HIDE DEF F, n
  <2>2. F = [i \in 0 .. far |-> F[i]]
    BY DEF F
  <2>3. [i \in 0 .. far |-> F[i]] = [i \in 0 .. far |-> IF i = 0 THEN n ELSE List!Follow(F[i - 1])]
    BY <2>1, Zenon
  <2> QED
    BY <2>2, <2>3 DEF Walked
<1>2. go = CHOOSE f : f = Walked(f, n, far)
  BY Zenon DEF List!Steps, Walked
<1> HIDE DEF F, n
<1>3. go = Walked(go, n, far)
  BY <1>1, <1>2
<1> HIDE DEF go
<1>4. \A i \in 0 .. far : go[i] = IF i = 0 THEN n ELSE List!Follow(go[i - 1])
  BY <1>3, Zenon DEF Walked
<1>5. \A i \in 0 .. far : F[i] = IF i = 0 THEN n ELSE List!Follow(F[i - 1])
  BY <1>1, Zenon DEF Walked
<1> DEFINE T == {i \in Nat : i <= far => go[i] = F[i]}
<1>6. 0 \in T
  <2>1. 0 \in 0 .. far
    OBVIOUS
  <2> QED
    BY <1>4, <1>5, <2>1
<1>7. \A i \in Nat : i \in T => i + 1 \in T
  <2> SUFFICES ASSUME NEW i \in Nat, i \in T, i + 1 <= far PROVE go[i + 1] = F[i + 1]
    OBVIOUS
  <2> DEFINE m == i + 1
  <2>1. m \in 0 .. far /\ m # 0 /\ m - 1 = i /\ i <= far
    OBVIOUS
  <2>2. go[i] = F[i]
    BY <2>1
  <2> HIDE DEF m
  <2>3. go[m] = List!Follow(go[i]) /\ F[m] = List!Follow(F[i])
    BY <1>4, <1>5, <2>1
  <2> QED
    BY <2>2, <2>3 DEF m
<1> HIDE DEF T
<1>8. Nat \subseteq T
  BY <1>6, <1>7, Induction
<1>9. \A i \in 0 .. far : go[i] = F[i]
  BY <1>8 DEF T
<1> QED
  BY <1>9 DEF go, F, n

(* The choice of an entry to start from. *)
Scanned == [closest_idx : Int, closest : Int, stale : Int]
Unscanned == [closest_idx |-> List!Inf, closest |-> 0, stale |-> 0]
Scanning(b, k, i) ==
  LET ce == cache[i]
  IN CASE b.closest_idx = 0 -> b
       [] b.closest_idx # 0 /\ ce.ent = List!NoNode -> [b EXCEPT !.stale = i]
       [] b.closest_idx # 0 /\ ce.ent # List!NoNode ->
            IF k >= ce.idx /\ k - ce.idx < b.closest_idx
            THEN [b EXCEPT !.closest_idx = ce.idx, !.closest = i]
            ELSE IF b.stale = 0 THEN [b EXCEPT !.stale = i] ELSE b
Scans(f, k, m) == [i \in 0 .. m |-> IF i = 0 THEN Unscanned ELSE Scanning(f[i - 1], k, i)]

LEMMA ScansExist ==
  ASSUME NEW k, NEW m \in Nat
  PROVE  \E f : f = Scans(f, k, m)
<1> DEFINE T == {n \in Nat : \E f : f = Scans(f, k, n)}
<1>1. 0 \in T
  <2> DEFINE f == [i \in 0 .. 0 |-> Unscanned]
  <2>1. f = Scans(f, k, 0)
    <3>1. \A i \in 0 .. 0 : i = 0
      OBVIOUS
    <3> QED
      BY <3>1 DEF Scans
  <2> QED
    BY <2>1
<1>2. \A n \in Nat : n \in T => n + 1 \in T
  <2> SUFFICES ASSUME NEW n \in Nat, n \in T PROVE n + 1 \in T
    OBVIOUS
  <2>1. PICK f : f = Scans(f, k, n)
    OBVIOUS
  <2> DEFINE g == [i \in 0 .. n + 1 |-> IF i = n + 1 THEN Scanning(f[n], k, n + 1) ELSE f[i]]
  <2>2. \A i \in 0 .. n : f[i] = IF i = 0 THEN Unscanned ELSE Scanning(f[i - 1], k, i)
    BY <2>1, Zenon DEF Scans
  <2>3. ASSUME NEW i \in 0 .. n + 1
        PROVE  g[i] = IF i = 0 THEN Unscanned ELSE Scanning(g[i - 1], k, i)
    <3>1. CASE i = n + 1
      <4>1. i # 0 /\ i - 1 = n /\ n \in 0 .. n + 1 /\ n # n + 1
        BY <3>1
      <4>2. g[n] = f[n] /\ g[i] = Scanning(f[n], k, n + 1)
        BY <3>1, <4>1
      <4> QED
        BY <3>1, <4>1, <4>2
    <3>2. CASE i # n + 1
      <4>1. i \in 0 .. n /\ g[i] = f[i]
        BY <3>2
      <4>2. CASE i = 0
        BY <2>2, <4>1, <4>2
      <4>3. CASE i # 0
        <5>1. i - 1 \in 0 .. n + 1 /\ i - 1 # n + 1
          BY <3>2, <4>3
        <5>2. g[i - 1] = f[i - 1]
          BY <5>1
        <5> QED
          BY <2>2, <4>1, <4>3, <5>2
      <4> QED
        BY <4>2, <4>3
    <3> QED
      BY <3>1, <3>2
  <2> HIDE DEF g
  <2>4. g = [i \in 0 .. n + 1 |-> g[i]]
    BY DEF g
  <2>5. [i \in 0 .. n + 1 |-> g[i]]
        = [i \in 0 .. n + 1 |-> IF i = 0 THEN Unscanned ELSE Scanning(g[i - 1], k, i)]
    BY <2>3, Zenon
  <2>6. g = Scans(g, k, n + 1)
    BY <2>4, <2>5 DEF Scans
  <2> QED
    BY <2>6
<1> HIDE DEF T
<1>3. Nat \subseteq T
  BY <1>1, <1>2, Induction
<1> QED
  BY <1>3 DEF T

(* An entry is found, of a position not behind k, or none. *)
Found(b, k) ==
  /\ b \in Scanned
  /\ b.closest_idx # List!Inf =>
       /\ b.closest \in 1 .. CacheSize /\ cache[b.closest].ent # List!NoNode
       /\ cache[b.closest].idx <= k

LEMMA ScanningIs ==
  ASSUME NEW b, NEW k \in Int, Found(b, k), NEW i \in 1 .. CacheSize, cache[i].idx \in Int
  PROVE  Found(Scanning(b, k, i), k)
<1>1. PICK x \in Int, y \in Int, z \in Int : b = [closest_idx |-> x, closest |-> y, stale |-> z]
  BY DEF Found, Scanned
<1>2. b.closest_idx = x /\ b.closest = y /\ b.stale = z
  BY <1>1
<1> DEFINE s == [closest_idx |-> x, closest |-> y, stale |-> i]
           w == [closest_idx |-> cache[i].idx, closest |-> i, stale |-> z]
<1>3. [b EXCEPT !.stale = i] = s /\ [b EXCEPT !.closest_idx = cache[i].idx, !.closest = i] = w
  <2> DEFINE v == cache[i].idx
             h == [b EXCEPT !.closest_idx = v]
  <2> HIDE DEF v
  <2>1. [b EXCEPT !.stale = i] = s
    BY <1>1
  <2>2. h = [closest_idx |-> v, closest |-> y, stale |-> z]
    BY <1>1
  <2>3. [b EXCEPT !.closest_idx = v, !.closest = i] = [h EXCEPT !.closest = i]
    BY <1>1
  <2> HIDE DEF h
  <2>4. [h EXCEPT !.closest = i] = [closest_idx |-> v, closest |-> i, stale |-> z]
    BY <2>2
  <2> QED
    BY <2>1, <2>3, <2>4 DEF v
<1>4. Found(s, k)
  BY <1>2 DEF Found, Scanned
<1>5. ASSUME cache[i].ent # List!NoNode, k >= cache[i].idx PROVE Found(w, k)
  BY <1>5 DEF Found, Scanned
<1> HIDE DEF s, w
<1>6. CASE x = 0
  BY <1>2, <1>6 DEF Scanning
<1>7. CASE x # 0 /\ cache[i].ent = List!NoNode
  <2>1. Scanning(b, k, i) = s
    BY <1>2, <1>3, <1>7 DEF Scanning
  <2> QED
    BY <1>4, <2>1
<1>8. CASE x # 0 /\ cache[i].ent # List!NoNode
  <2>1. Scanning(b, k, i) = IF k >= cache[i].idx /\ k - cache[i].idx < x THEN w ELSE IF z = 0 THEN s ELSE b
    BY <1>2, <1>3, <1>8 DEF Scanning
  <2> QED
    BY <1>4, <1>5, <1>8, <2>1
<1> QED
  BY <1>6, <1>7, <1>8

LEMMA ScanIs ==
  ASSUME NEW p, NEW t \in BOOLEAN, IsCache(cache, p, t), NEW k \in Int
  PROVE  Found(List!Scan(k), k)
<1>0. CacheSize \in Nat /\ ListMax \in Nat
  BY ListAssumption
<1> DEFINE P(f) == f = Scans(f, k, CacheSize)
           best == CHOOSE f : P(f)
<1>1. List!Scan(k) = best[CacheSize]
  BY Zenon DEF List!Scan, Scans, Scanning, Unscanned
<1>2. P(best)
  <2> HIDE DEF P
  <2>1. \E f : P(f)
    BY <1>0, ScansExist DEF P
  <2> QED
    BY <2>1
<1> HIDE DEF best
<1>3. \A i \in 0 .. CacheSize : best[i] = IF i = 0 THEN Unscanned ELSE Scanning(best[i - 1], k, i)
  BY <1>2, Zenon DEF Scans
<1> DEFINE T == {i \in Nat : i <= CacheSize => Found(best[i], k)}
<1>4. 0 \in T
  <2>1. Found(Unscanned, k)
    BY <1>0 DEF Found, Scanned, Unscanned, List!Inf
  <2>2. 0 \in 0 .. CacheSize
    BY <1>0
  <2> QED
    BY <1>3, <2>1, <2>2
<1>5. \A i \in Nat : i \in T => i + 1 \in T
  <2> SUFFICES ASSUME NEW i \in Nat, i \in T, i + 1 <= CacheSize PROVE Found(best[i + 1], k)
    OBVIOUS
  <2> DEFINE m == i + 1
  <2>1. m \in 0 .. CacheSize /\ m \in 1 .. CacheSize /\ m # 0 /\ m - 1 = i /\ i <= CacheSize
    BY <1>0
  <2>2. Found(best[i], k)
    BY <2>1
  <2> HIDE DEF m
  <2>3. best[m] = Scanning(best[i], k, m)
    BY <1>3, <2>1
  <2>4. cache[m].idx \in Int
    BY <2>1, CacheIs
  <2> QED
    BY <2>1, <2>2, <2>3, <2>4, ScanningIs DEF m
<1> HIDE DEF T
<1>6. CacheSize \in T
  BY <1>0, <1>4, <1>5, Induction
<1> QED
  BY <1>0, <1>1, <1>6 DEF T

LEMMA CachePut ==
  ASSUME NEW c, NEW p, NEW t \in BOOLEAN, IsCache(c, p, t), NEW s,
         NEW x \in Int, NEW n \in Node \cup {List!NoNode},
         n # List!NoNode => n \in Nodes(p) /\ (~t => x \in 0 .. Len(p) - 1 /\ p[x + 1] = n)
  PROVE  IsCache([c EXCEPT ![s] = [idx |-> x, ent |-> n]], p, t)
<1> DEFINE e == [idx |-> x, ent |-> n]
           d == [c EXCEPT ![s] = e]
<1>1. e \in Cached /\ e.idx = x /\ e.ent = n
  BY DEF Cached
<1> HIDE DEF e
<1>2. c \in [1 .. CacheSize -> Cached]
  BY CacheIs
<1>3. d \in [1 .. CacheSize -> Cached] /\ \A i \in 1 .. CacheSize : d[i] = IF i = s THEN e ELSE c[i]
  BY <1>1, <1>2
<1> HIDE DEF d
<1>4. ASSUME NEW i \in 1 .. CacheSize, d[i].ent # List!NoNode
      PROVE  /\ d[i].ent \in Nodes(p)
             /\ ~t => d[i].idx \in 0 .. Len(p) - 1 /\ p[d[i].idx + 1] = d[i].ent
  <2>1. CASE i = s
    BY <1>1, <1>3, <1>4, <2>1
  <2>2. CASE i # s
    <3>1. d[i] = c[i]
      BY <1>3, <2>2
    <3>2. /\ c[i].ent \in Nodes(p)
          /\ ~t => c[i].idx \in 0 .. Len(p) - 1 /\ p[c[i].idx + 1] = c[i].ent
      BY <1>4, <3>1, CacheIs
    <3> QED
      BY <3>1, <3>2
  <2> QED
    BY <2>1, <2>2
<1>5. IsCache(d, p, t)
  BY <1>3, <1>4 DEF IsCache, Cached
<1> QED
  BY <1>5 DEF d, e

(* What the k-th node holds, counted from 0. *)
LEMMA KthIs ==
  ASSUME NEW p, IsPath(p), NEW k \in 0 .. Len(p) - 1
  PROVE  /\ List!At[k] = p[k + 1] /\ p[k + 1] \in Node /\ p[k + 1] \in Nodes(p)
         /\ k \in Nat /\ k + 1 \in 1 .. Len(p) /\ Link(p, k) = p[k + 1]
         /\ data[p[k + 1]] = content[k + 1] /\ content[k + 1] \in Datum
         /\ ptr[p[k + 1]] = Link(p, k + 1)
         /\ List!Want(k) = content[k + 1]
<1>1. Len(p) \in Nat
  BY LinkIs
<1>2. k \in Nat /\ k + 1 \in 1 .. Len(p) /\ k < Len(p)
  BY <1>1
<1>3. List!At[k] = Link(p, k)
  BY <1>2, AtIs
<1>4. Link(p, k) = p[k + 1] /\ Link(p, k) \in Node
  BY LinkIs
<1>5. p[k + 1] \in Nodes(p)
  BY <1>2 DEF Nodes
<1>6. content \in Seq(Datum) /\ Len(content) = Len(p)
  BY DEF IsPath
<1>7. content[k + 1] \in Datum
  BY <1>2, <1>6, ElementOfSeq
<1>8. data[p[k + 1]] = content[k + 1] /\ ptr[p[k + 1]] = Link(p, k + 1)
  BY <1>2 DEF IsPath
<1>9. List!Want(k) = content[k + 1]
  BY <1>2, <1>6 DEF List!Want
<1> QED
  BY <1>2, <1>3, <1>4, <1>5, <1>7, <1>8, <1>9

(* The walk from a cached position s.                                      *)
Ended(went, far) == IF went[far] # List!NoNode THEN far
                    ELSE CHOOSE i \in 0 .. far : went[i] = List!NoNode /\ \A j \in 0 .. i - 1 : went[j] # List!NoNode
LEMMA EndedIs ==
  ASSUME NEW went, NEW far \in Nat
  PROVE  Ended(went, far) \in 0 .. far
<1>1. CASE went[far] # List!NoNode
  BY <1>1 DEF Ended
<1>2. CASE went[far] = List!NoNode
  <2> DEFINE S == {i \in 0 .. far : went[i] = List!NoNode}
             m == Min(S)
  <2>1. S \in SUBSET Nat /\ S # {}
    BY <1>2
  <2>2. m \in S /\ \A y \in S : m <= y
    <3> HIDE DEF S
    <3> QED
      BY <2>1, MinIsLeast
  <2> HIDE DEF m
  <2>3. m \in 0 .. far /\ went[m] = List!NoNode /\ \A j \in 0 .. m - 1 : went[j] # List!NoNode
    BY <2>2
  <2> QED
    BY <1>2, <2>3 DEF Ended
<1> QED
  BY <1>1, <1>2

LEMMA LookupIs ==
  ASSUME NEW p, IsPath(p), headTaken \in BOOLEAN, IsCache(cache, p, headTaken), NEW k \in Nat
  PROVE  /\ IsCache(List!Lookup(k).cache, p, headTaken)
         /\ ~headTaken => List!Lookup(k).got = List!Want(k)
<1> DEFINE s == List!Scan(k)
           ce == cache[s.closest]
           far == IF ce.idx < k THEN k - ce.idx ELSE 0
           went == List!Steps(ce.ent, far)
           end == Ended(went, far)
<1>1. List!Lookup(k) =
        IF k >= size THEN [got |-> List!NoData, cache |-> cache]
        ELSE IF k = 0 THEN [got |-> data[first], cache |-> cache]
        ELSE IF k = size - 1 THEN [got |-> data[last], cache |-> cache]
        ELSE IF s.closest_idx = List!Inf
        THEN [got |-> data[List!At[k]], cache |-> [cache EXCEPT ![s.stale] = [idx |-> k, ent |-> List!At[k]]]]
        ELSE [got |-> IF went[end] = List!NoNode THEN List!NoData ELSE data[went[end]],
              cache |-> [cache EXCEPT ![s.closest] = [idx |-> ce.idx + end, ent |-> went[end]]]]
  BY Zenon DEF List!Lookup, Ended
<1> HIDE DEF s, end, went
<1>2. size = Len(p) /\ Len(p) \in Nat /\ Len(content) = Len(p)
  BY LinkIs DEF IsPath
<1>3. CASE k >= size
  BY <1>1, <1>2, <1>3 DEF List!Want
<1>4. CASE ~ (k >= size) /\ k = 0
  <2>1. 0 \in 0 .. Len(p) - 1 /\ first = Link(p, 0)
    BY <1>2, <1>4 DEF IsPath
  <2>2. Link(p, 0) = p[0 + 1] /\ data[p[0 + 1]] = content[0 + 1] /\ List!Want(0) = content[0 + 1]
    BY <2>1, KthIs
  <2> QED
    BY <1>1, <1>4, <2>1, <2>2
<1>5. CASE ~ (k >= size) /\ k # 0 /\ k = size - 1
  <2>1. k \in 0 .. Len(p) - 1 /\ last = p[Len(p)] /\ Len(p) = k + 1
    BY <1>2, <1>5 DEF IsPath
  <2>2. data[p[k + 1]] = content[k + 1] /\ List!Want(k) = content[k + 1]
    BY <2>1, KthIs
  <2> QED
    BY <1>1, <1>5, <2>1, <2>2
<1>6. CASE ~ (k >= size) /\ k # 0 /\ k # size - 1 /\ s.closest_idx = List!Inf
  <2>1. k \in 0 .. Len(p) - 1
    BY <1>2, <1>6
  <2> DEFINE n == List!At[k]
             d == [cache EXCEPT ![s.stale] = [idx |-> k, ent |-> n]]
  <2>2. n = p[k + 1] /\ n \in Node /\ n \in Nodes(p) /\ data[n] = content[k + 1] /\ List!Want(k) = content[k + 1]
    BY <2>1, KthIs
  <2> HIDE DEF n
  <2>3. k \in Int /\ n \in Node \cup {List!NoNode}
    BY <2>2
  <2>4. n \in Nodes(p) /\ k \in 0 .. Len(p) - 1 /\ p[k + 1] = n
    BY <2>1, <2>2
  <2>5. IsCache(d, p, headTaken)
    BY <2>3, <2>4, CachePut
  <2> HIDE DEF d
  <2>6. List!Lookup(k) = [got |-> data[n], cache |-> d]
    BY <1>1, <1>6 DEF n, d
  <2> QED
    BY <2>2, <2>5, <2>6
<1>7. CASE ~ (k >= size) /\ k # 0 /\ k # size - 1 /\ s.closest_idx # List!Inf
  <2>1. k \in 0 .. Len(p) - 1
    BY <1>2, <1>7
  <2>2. s.closest \in 1 .. CacheSize /\ ce.ent # List!NoNode /\ ce.idx <= k
    <3>1. Found(s, k)
      BY ScanIs DEF s
    <3> QED
      BY <1>7, <3>1 DEF Found
  <2> DEFINE x == ce.idx
             n == ce.ent
  <2>3. /\ x \in Int /\ n \in Nodes(p)
        /\ ~headTaken => x \in 0 .. Len(p) - 1 /\ p[x + 1] = n
    BY <2>2, CacheIs
  <2>4. PICK j \in 1 .. Len(p) : n = p[j]
    BY <2>3 DEF Nodes
  <2>5. far = k - x /\ far \in Nat
    BY <2>1, <2>2, <2>3
  <2>6. went = List!Steps(n, far)
    BY DEF went
  <2> HIDE DEF n, far
  <2>7. \A i \in 0 .. far : went[i] = Link(p, j - 1 + i)
    BY <2>4, <2>5, <2>6, StepsAre
  <2>8. end \in 0 .. far
    BY <2>5, EndedIs DEF end
  <2> DEFINE m == went[end]
             y == j - 1 + end
  <2>9. m = Link(p, y) /\ y \in Nat
    BY <1>2, <2>7, <2>8
  <2>10. m \in Nodes(p) \cup {List!NoNode} /\ m \in Node \cup {List!NoNode}
    <3> HIDE DEF m, y
    <3>1. CASE y < Len(p)
      <4>1. y \in 0 .. Len(p) - 1
        BY <1>2, <2>9, <3>1
      <4>2. Link(p, y) = p[y + 1] /\ p[y + 1] \in Node /\ p[y + 1] \in Nodes(p)
        BY <4>1, KthIs
      <4> QED
        BY <2>9, <4>2
    <3>2. CASE ~ (y < Len(p))
      <4>1. Link(p, y) = List!NoNode
        BY <1>2, <2>9, <3>2, LinkIs
      <4> QED
        BY <2>9, <4>1
    <3> QED
      BY <3>1, <3>2
  <2>11. ASSUME ~headTaken
         PROVE  end = far /\ m = p[k + 1] /\ x + end = k /\ m # List!NoNode
    <3>1. x \in 0 .. Len(p) - 1 /\ p[x + 1] = p[j] /\ x + 1 \in 1 .. Len(p)
      <4>1. x \in 0 .. Len(p) - 1 /\ p[x + 1] = n
        BY <2>3, <2>11
      <4> QED
        BY <1>2, <2>4, <4>1
    <3>2. x + 1 = j
      BY <3>1 DEF IsPath
    <3>3. j - 1 + far = k /\ far \in 0 .. far
      <4>1. far = k - x /\ far \in Nat /\ x \in Int /\ j = x + 1 /\ k \in Nat
        BY <2>3, <2>5, <3>2
      <4> HIDE DEF x
      <4> QED
        BY <4>1
    <3>4. went[far] = Link(p, k)
      BY <2>7, <3>3
    <3>5. Link(p, k) = p[k + 1] /\ Link(p, k) \in Node
      BY <2>1, LinkIs
    <3>6. end = far
      BY <3>4, <3>5, NoNodeIs DEF end, Ended
    <3>7. x + far = k
      BY <2>1, <2>3, <2>5
    <3> QED
      BY <3>4, <3>5, <3>6, <3>7, NoNodeIs
  <2>12. x + end \in Int
    BY <2>3, <2>5, <2>8
  <2> HIDE DEF m, y
  <2> DEFINE z == x + end
             d == [cache EXCEPT ![s.closest] = [idx |-> z, ent |-> m]]
  <2>13. List!Lookup(k) = [got |-> IF m = List!NoNode THEN List!NoData ELSE data[m], cache |-> d]
    BY <1>1, <1>7 DEF m
  <2> HIDE DEF x, z
  <2>14. z \in Int /\ (~headTaken => z = k)
    BY <2>11, <2>12 DEF z
  <2>15. m # List!NoNode => m \in Nodes(p) /\ (~headTaken => z \in 0 .. Len(p) - 1 /\ p[z + 1] = m)
    BY <2>1, <2>10, <2>11, <2>14
  <2>16. IsCache(d, p, headTaken)
    BY <2>10, <2>14, <2>15, CachePut
  <2> HIDE DEF d
  <2>17. data[p[k + 1]] = content[k + 1] /\ List!Want(k) = content[k + 1]
    BY <2>1, KthIs
  <2> QED
    BY <2>11, <2>13, <2>16, <2>17
<1> QED
  BY <1>3, <1>4, <1>5, <1>6, <1>7

(* The k-th node replaced by n. *)
Swapped(s, t, k, x) ==
  /\ Len(t) = Len(s)
  /\ \A i \in 1 .. Len(s) : t[i] = IF i = k THEN x ELSE s[i]

LEMMA ReplaceIs ==
  ASSUME NEW E, NEW s \in Seq(E), NEW k \in 1 .. Len(s), NEW x \in E
  PROVE  List!ReplaceAt(s, k, x) \in Seq(E) /\ Swapped(s, List!ReplaceAt(s, k, x), k, x)
BY ExceptSeq DEF List!ReplaceAt, Swapped

(* A step that puts the new node n, with d, in the place of the k-th.      *)
Swapping(p, n, d, k) ==
  /\ DOMAIN ptr' = (Nodes(p) \cup {n}) \ {p[k]} /\ DOMAIN data' = (Nodes(p) \cup {n}) \ {p[k]}
  /\ ptr'[n] = Link(p, k) /\ (k > 1 => ptr'[p[k - 1]] = n)
  /\ \A i \in 1 .. Len(p) : i # k /\ i # k - 1 => ptr'[p[i]] = ptr[p[i]]
  /\ data'[n] = d /\ \A i \in 1 .. Len(p) : i # k => data'[p[i]] = data[p[i]]
  /\ first' = (IF k = 1 THEN n ELSE first) /\ last' = (IF k = Len(p) THEN n ELSE last)
  /\ size' = size /\ content' \in Seq(Datum) /\ Swapped(content, content', k, d)

LEMMA Swaps ==
  ASSUME NEW p, IsPath(p), NEW n \in Node, n \notin Nodes(p), NEW d \in Datum, NEW k \in 1 .. Len(p),
         Swapping(p, n, d, k), NEW q \in Seq(Node), Swapped(p, q, k, n)
  PROVE  IsPath(q)' /\ Nodes(q) = (Nodes(p) \cup {n}) \ {p[k]}
<1>0. /\ DOMAIN ptr' = (Nodes(p) \cup {n}) \ {p[k]} /\ DOMAIN data' = (Nodes(p) \cup {n}) \ {p[k]}
      /\ ptr'[n] = Link(p, k) /\ (k > 1 => ptr'[p[k - 1]] = n)
      /\ \A i \in 1 .. Len(p) : i # k /\ i # k - 1 => ptr'[p[i]] = ptr[p[i]]
      /\ data'[n] = d /\ \A i \in 1 .. Len(p) : i # k => data'[p[i]] = data[p[i]]
      /\ first' = (IF k = 1 THEN n ELSE first) /\ last' = (IF k = Len(p) THEN n ELSE last)
      /\ size' = size /\ content' \in Seq(Datum) /\ Swapped(content, content', k, d)
  BY DEF Swapping
<1>1. /\ p \in Seq(Node) /\ Len(p) \in Nat /\ k \in Nat /\ k <= Len(p) /\ k >= 1
      /\ content \in Seq(Datum) /\ Len(content) = Len(p)
  BY <1>0, LinkIs DEF IsPath
<1>2. q \in Seq(Node) /\ Len(q) = Len(p) /\ \A i \in 1 .. Len(p) : q[i] = IF i = k THEN n ELSE p[i]
  BY <1>0 DEF Swapped
<1>3. /\ content' \in Seq(Datum) /\ Len(content') = Len(p)
      /\ \A i \in 1 .. Len(p) : content'[i] = IF i = k THEN d ELSE content[i]
  BY <1>0, <1>1 DEF Swapped
<1>4. \A i, j \in 1 .. Len(p) : p[i] = p[j] => i = j
  BY <1>0 DEF IsPath
<1>5. \A i \in 1 .. Len(p) : p[i] # n
  BY DEF Nodes
<1>6. ASSUME NEW i \in 1 .. Len(q), NEW j \in 1 .. Len(q), q[i] = q[j] PROVE i = j
  <2>1. /\ i \in 1 .. Len(p) /\ j \in 1 .. Len(p)
        /\ q[i] = IF i = k THEN n ELSE p[i]
        /\ q[j] = IF j = k THEN n ELSE p[j]
    BY <1>0, <1>2
  <2>2. p[i] # n /\ p[j] # n /\ (p[i] = p[j] => i = j)
    BY <1>0, <1>4, <1>5, <2>1
  <2> QED
    BY <1>0, <1>6, <2>1, <2>2
<1>7. Nodes(q) = (Nodes(p) \cup {n}) \ {p[k]}
  <2>1. ASSUME NEW x \in Nodes(q) PROVE x \in (Nodes(p) \cup {n}) \ {p[k]}
    <3>1. PICK i \in 1 .. Len(p) : x = q[i]
      BY <1>0, <1>2 DEF Nodes
    <3>2. x = IF i = k THEN n ELSE p[i]
      BY <1>0, <1>2, <3>1
    <3>3. p[i] \in Nodes(p)
      BY DEF Nodes
    <3>4. i # k => p[i] # p[k]
      BY <1>0, <1>4
    <3> QED
      BY <1>0, <1>5, <3>2, <3>3, <3>4
  <2>2. ASSUME NEW x \in (Nodes(p) \cup {n}) \ {p[k]} PROVE x \in Nodes(q)
    <3>1. CASE x = n
      <4>1. q[k] = n
        BY <1>0, <1>2
      <4> QED
        BY <1>0, <1>2, <3>1, <4>1 DEF Nodes
    <3>2. CASE x # n
      <4>1. PICK i \in 1 .. Len(p) : x = p[i]
        BY <1>0, <3>2 DEF Nodes
      <4>2. q[i] = x
        BY <1>0, <1>2, <4>1
      <4> QED
        BY <1>0, <1>2, <4>2 DEF Nodes
    <3> QED
      BY <1>0, <3>1, <3>2
  <2> QED
    BY <1>0, <2>1, <2>2
<1>8. ASSUME NEW i \in 0 .. Len(p), i + 1 # k PROVE Link(q, i) = Link(p, i)
  <2>1. i < Len(p) => i + 1 \in 1 .. Len(p)
    BY <1>0, <1>1
  <2> QED
    BY <1>0, <1>2, <1>8, <2>1 DEF Link
<1>9. ASSUME NEW i \in 0 .. Len(p), i + 1 = k PROVE Link(q, i) = n
  BY <1>0, <1>1, <1>2, <1>9 DEF Link
<1>10. \A i \in 1 .. Len(p) : ptr[p[i]] = Link(p, i) /\ data[p[i]] = content[i]
  BY <1>0 DEF IsPath
<1>11. first' = Link(q, 0)
  <2>1. 0 \in 0 .. Len(p) /\ 0 + 1 = 1 /\ first = Link(p, 0)
    BY <1>0, <1>1 DEF IsPath
  <2>2. k = 1 => Link(q, 0) = n
    BY <1>0, <1>9, <2>1
  <2>3. k # 1 => Link(q, 0) = Link(p, 0)
    BY <1>0, <1>8, <2>1
  <2> QED
    BY <1>0, <2>1, <2>2, <2>3
<1>12. last' = q[Len(q)]
  <2>1. Len(p) \in 1 .. Len(p) /\ last = p[Len(p)]
    BY <1>0, <1>1 DEF IsPath
  <2> QED
    BY <1>0, <1>2, <2>1
<1>13. ASSUME NEW i \in 1 .. Len(q)
       PROVE  ptr'[q[i]] = Link(q, i) /\ data'[q[i]] = content'[i]
  <2>0. i \in 1 .. Len(p) /\ i \in 0 .. Len(p) /\ q[i] = IF i = k THEN n ELSE p[i]
    BY <1>0, <1>2
  <2>1. CASE i = k
    <3>1. i + 1 # k
      BY <1>0, <2>1
    <3>2. Link(q, i) = Link(p, k)
      BY <1>0, <1>8, <2>0, <2>1, <3>1
    <3> QED
      BY <1>0, <1>3, <2>0, <2>1, <3>2
  <2>2. CASE i = k - 1
    <3>1. i + 1 = k /\ i # k /\ k > 1
      BY <1>0, <1>1, <2>0, <2>2
    <3>2. Link(q, i) = n
      BY <1>0, <1>9, <2>0, <3>1
    <3>3. ptr'[p[i]] = n /\ data'[p[i]] = content[i]
      BY <1>0, <1>10, <2>0, <2>2, <3>1
    <3> QED
      BY <1>0, <1>3, <2>0, <3>1, <3>2, <3>3
  <2>3. CASE i # k /\ i # k - 1
    <3>1. i + 1 # k
      BY <1>0, <1>1, <2>0, <2>3
    <3>2. Link(q, i) = Link(p, i)
      BY <1>0, <1>8, <2>0, <3>1
    <3>3. ptr'[p[i]] = Link(p, i) /\ data'[p[i]] = content[i]
      BY <1>0, <1>10, <2>0, <2>3
    <3> QED
      BY <1>0, <1>3, <2>0, <2>3, <3>2, <3>3
  <2> QED
    BY <1>0, <2>1, <2>2, <2>3
<1>14. size' = Len(q) /\ Len(content') = Len(q) /\ q \in Seq(Node) /\ content' \in Seq(Datum)
       /\ DOMAIN ptr' = Nodes(q) /\ DOMAIN data' = Nodes(q)
  BY <1>0, <1>2, <1>3, <1>7 DEF IsPath
<1> QED
  <2>1. \A i, j \in 1 .. Len(q) : q[i] = q[j] => i = j
    BY <1>0, <1>6
  <2>2. \A i \in 1 .. Len(q) : ptr'[q[i]] = Link(q, i) /\ data'[q[i]] = content'[i]
    BY <1>0, <1>13
  <2>3. Len(q) > 0 => last' = q[Len(q)]
    BY <1>0, <1>12
  <2>4. IsPath(q)'
    BY <1>0, <2>1, <2>2, <2>3, <1>11, <1>14, PathNext
  <2> QED
    BY <1>0, <1>7, <2>4

LEMMA CacheSwapped ==
  ASSUME NEW p \in Seq(Node), Once(p), NEW k \in 1 .. Len(p), NEW n \in Node,
         NEW q \in Seq(Node), Swapped(p, q, k, n), Nodes(q) = (Nodes(p) \cup {n}) \ {p[k]},
         NEW c, NEW t \in BOOLEAN, IsCache(c, p, t)
  PROVE  IsCache(List!Drop(c, p[k]), q, t)
<1> DEFINE o == p[k]
           d == List!Drop(c, o)
<1>1. c \in [1 .. CacheSize -> Cached] /\ Len(p) \in Nat /\ k \in Nat
  BY CacheIs, LenProperties
<1>2. q \in Seq(Node) /\ Len(q) = Len(p) /\ \A i \in 1 .. Len(p) : q[i] = IF i = k THEN n ELSE p[i]
  BY DEF Swapped
<1>3. /\ d \in [1 .. CacheSize -> Cached]
      /\ \A i \in 1 .. CacheSize : (c[i].ent = o => d[i].ent = List!NoNode) /\ (c[i].ent # o => d[i] = c[i])
  BY <1>1, DropIs
<1> HIDE DEF d
<1>4. ASSUME NEW i \in 1 .. CacheSize, d[i].ent # List!NoNode
      PROVE  /\ d[i].ent \in Nodes(q)
             /\ ~t => d[i].idx \in 0 .. Len(q) - 1 /\ q[d[i].idx + 1] = d[i].ent
  <2>1. d[i] = c[i] /\ c[i].ent # o
    BY <1>3, <1>4
  <2>2. /\ c[i].ent \in Nodes(p)
        /\ ~t => c[i].idx \in 0 .. Len(p) - 1 /\ p[c[i].idx + 1] = c[i].ent
    BY <1>4, <2>1, CacheIs
  <2>3. ASSUME ~t PROVE q[c[i].idx + 1] = c[i].ent
    <3> DEFINE x == c[i].idx + 1
    <3>1. c[i].idx \in 0 .. Len(p) - 1 /\ p[x] = c[i].ent
      BY <2>2, <2>3
    <3>2. x \in 1 .. Len(p)
      BY <1>1, <3>1
    <3> HIDE DEF x
    <3>3. x # k
      BY <2>1, <3>1
    <3> QED
      BY <1>2, <3>1, <3>2, <3>3 DEF x
  <2> QED
    BY <1>2, <2>1, <2>2, <2>3
<1>5. IsCache(d, q, t)
  BY <1>3, <1>4 DEF IsCache, Cached
<1> QED
  BY <1>5 DEF d

(* A node more, whichever way its link is set. *)
LEMMA Inserts ==
  ASSUME NEW p, IsPath(p), NEW n \in Node, n \notin DOMAIN ptr, NEW d \in Datum, NEW k \in 0 .. Len(p),
         DOMAIN ptr' = DOMAIN ptr \cup {n}, ptr'[n] = Link(p, k), k > 0 => ptr'[p[k]] = n,
         \A m \in DOMAIN ptr : (k = 0 \/ m # p[k]) => ptr'[m] = ptr[m],
         data' = List!Set(data, n, d),
         first' = IF k = 0 THEN n ELSE first, last' = IF k = Len(p) THEN n ELSE last,
         size' = size + 1, content' \in Seq(Datum), Spliced(content, content', k, d)
  PROVE  \E q : IsPath(q)' /\ Spliced(p, q, k, n)
<1> DEFINE q == List!InsertAt(p, k + 1, n)
<1>1. p \in Seq(Node) /\ DOMAIN ptr = Nodes(p) /\ DOMAIN data = Nodes(p)
      /\ \A i, j \in 1 .. Len(p) : p[i] = p[j] => i = j
  BY DEF IsPath
<1>2. q \in Seq(Node) /\ Spliced(p, q, k, n)
  BY <1>1, InsertIs
<1> HIDE DEF q
<1>3. \A i \in 1 .. Len(p) : p[i] \in Nodes(p)
  BY DEF Nodes
<1>4. ASSUME NEW i \in 1 .. Len(p), i # k PROVE ptr'[p[i]] = ptr[p[i]]
  <2>1. k = 0 \/ k \in 1 .. Len(p)
    BY LinkIs
  <2>2. k = 0 \/ p[i] # p[k]
    BY <1>1, <1>4, <2>1
  <2> QED
    BY <1>1, <1>3, <2>2
<1>5. DOMAIN data' = Nodes(p) \cup {n} /\ data'[n] = d /\ \A i \in 1 .. Len(p) : data'[p[i]] = data[p[i]]
  BY <1>1, <1>3 DEF List!Set
<1>6. IsPath(q)'
  BY <1>1, <1>2, <1>4, <1>5, Grows
<1> QED
  BY <1>2, <1>6

(* A node less. *)
LEMMA Removes ==
  ASSUME NEW p, IsPath(p), NEW k \in 1 .. Len(p),
         ptr' = List!Without(IF k = 1 THEN ptr ELSE List!Set(ptr, p[k - 1], Link(p, k)), p[k]),
         data' = List!Without(data, p[k]),
         first' = IF k = 1 THEN Link(p, 1) ELSE first,
         Len(p) > 1 => last' = IF k = Len(p) THEN p[k - 1] ELSE last,
         size' = size - 1, content' \in Seq(Datum), Cut(content, content', k)
  PROVE  \E q : IsPath(q)' /\ Cut(p, q, k)
<1> DEFINE q == List!RemoveAt(p, k)
           links == IF k = 1 THEN ptr ELSE List!Set(ptr, p[k - 1], Link(p, k))
<1>1. p \in Seq(Node) /\ DOMAIN ptr = Nodes(p) /\ DOMAIN data = Nodes(p) /\ Len(p) \in Nat
      /\ \A i, j \in 1 .. Len(p) : p[i] = p[j] => i = j
  BY LinkIs DEF IsPath
<1>2. q \in Seq(Node) /\ Cut(p, q, k)
  BY <1>1, RemoveIs
<1> HIDE DEF q
<1>3. \A i \in 1 .. Len(p) : p[i] \in Nodes(p)
  BY DEF Nodes
<1>4. k > 1 => k - 1 \in 1 .. Len(p) /\ k - 1 # k
  BY <1>1
<1>5. /\ DOMAIN links = Nodes(p)
      /\ k > 1 => links[p[k - 1]] = Link(p, k)
      /\ \A m \in Nodes(p) : (k = 1 \/ m # p[k - 1]) => links[m] = ptr[m]
  <2>1. CASE k = 1
    BY <1>1, <2>1
  <2>2. CASE k # 1
    <3> DEFINE m == p[k - 1]
    <3>1. m \in Nodes(p) /\ links = List!Set(ptr, m, Link(p, k))
      BY <1>1, <1>3, <1>4, <2>2
    <3> HIDE DEF m, links
    <3>2. DOMAIN links = Nodes(p) /\ links[m] = Link(p, k) /\ \A x \in Nodes(p) : x # m => links[x] = ptr[x]
      BY <1>1, <3>1 DEF List!Set
    <3> QED
      BY <2>2, <3>2 DEF m
  <2> QED
    BY <2>1, <2>2
<1> HIDE DEF links
<1>6. ptr' = List!Without(links, p[k])
  BY DEF links
<1>7. /\ DOMAIN ptr' = Nodes(p) \ {p[k]}
      /\ \A m \in Nodes(p) : m # p[k] => ptr'[m] = links[m]
  BY <1>5, <1>6 DEF List!Without
<1>8. /\ DOMAIN data' = Nodes(p) \ {p[k]}
      /\ \A m \in Nodes(p) : m # p[k] => data'[m] = data[m]
  BY <1>1 DEF List!Without
<1>9. k > 1 => ptr'[p[k - 1]] = Link(p, k)
  BY <1>1, <1>3, <1>4, <1>5, <1>7
<1>10. ASSUME NEW i \in 1 .. Len(p), i # k PROVE p[i] # p[k] /\ (i # k - 1 => ptr'[p[i]] = ptr[p[i]])
  <2>1. p[i] # p[k]
    BY <1>1, <1>10
  <2>2. ASSUME i # k - 1 PROVE k = 1 \/ p[i] # p[k - 1]
    BY <1>1, <1>4, <2>2
  <2> QED
    BY <1>3, <1>5, <1>7, <2>1, <2>2
<1>11. Unlinks(p, k)
  BY <1>3, <1>7, <1>8, <1>9, <1>10 DEF Unlinks
<1>12. IsPath(q)'
  BY <1>2, <1>11, Shrinks
<1> QED
  BY <1>2, <1>12

LEMMA InvNext ==
  ASSUME NEW q, IsPath(q)', IsCache(cache', q, headTaken'), headTaken' \in BOOLEAN, answers' \/ headTaken'
  PROVE  ListInv'
<1>1. IsCache(cache, q, headTaken)'
  BY DEF IsCache, Nodes, List!NoNode
<1> QED
  BY <1>1 DEF ListInv

LEMMA EmptyList ==
  ASSUME ptr' = <<>>, data' = <<>>, first' = List!NoNode, size' = 0, content' = <<>>,
         cache' = [i \in 1 .. CacheSize |-> List!Unused], headTaken' = FALSE, answers' = TRUE
  PROVE  ListInv'
<1>1. <<>> \in Seq(Node) /\ <<>> \in Seq(Datum) /\ Len(<<>>) = 0 /\ \A i \in 1 .. 0 : FALSE
  OBVIOUS
<1>2. Nodes(<<>>) = {} /\ Link(<<>>, 0) = List!NoNode /\ DOMAIN <<>> = {}
  BY <1>1 DEF Nodes, Link
<1>3. IsPath(<<>>)'
  <2>1. Nodes(<<>>)' = {} /\ Link(<<>>, 0)' = List!NoNode'
    BY <1>1 DEF Nodes, Link
  <2> QED
    BY <1>1, <2>1 DEF IsPath, List!NoNode
<1>4. List!Unused \in Cached /\ List!Unused.ent = List!NoNode
  BY DEF List!Unused, Cached
<1>5. IsCache(cache', <<>>, headTaken')
  BY <1>4 DEF IsCache, Cached
<1> QED
  BY <1>3, <1>5, InvNext

LEMMA ListInit ==
  ASSUME List!Init
  PROVE  ListInv
<1>1. <<>> \in Seq(Node) /\ <<>> \in Seq(Datum) /\ Len(<<>>) = 0 /\ \A i \in 1 .. 0 : FALSE
  OBVIOUS
<1>2. Nodes(<<>>) = {} /\ Link(<<>>, 0) = List!NoNode /\ DOMAIN <<>> = {}
  BY <1>1 DEF Nodes, Link
<1>3. IsPath(<<>>)
  BY <1>1, <1>2 DEF IsPath, List!Init
<1>4. List!Unused \in Cached /\ List!Unused.ent = List!NoNode
  BY DEF List!Unused, Cached
<1>5. IsCache(cache, <<>>, headTaken)
  BY <1>4 DEF IsCache, Cached, List!Init
<1> QED
  BY <1>3, <1>5 DEF ListInv, List!Init

LEMMA ListClear ==
  ASSUME List!Clear
  PROVE  ListInv'
BY EmptyList, Zenon DEF List!Clear, List!Answer

(* What the invariant says of the path p.                                  *)
Keeps(p) == /\ IsPath(p) /\ IsCache(cache, p, headTaken)
            /\ headTaken \in BOOLEAN /\ (answers \/ headTaken)

LEMMA PathIs ==
  ASSUME NEW p, IsPath(p)
  PROVE  /\ p \in Seq(Node) /\ content \in Seq(Datum) /\ Len(content) = Len(p) /\ size = Len(p)
         /\ Len(p) \in Nat /\ DOMAIN ptr = Nodes(p) /\ DOMAIN data = Nodes(p) /\ first = Link(p, 0)
         /\ Len(p) > 0 => last = p[Len(p)] /\ last \in Nodes(p)
         /\ \A i \in 1 .. Len(p) : p[i] \in Nodes(p) /\ p[i] \in Node
         /\ Once(p)
<1>1. /\ p \in Seq(Node) /\ content \in Seq(Datum) /\ Len(content) = Len(p) /\ size = Len(p)
      /\ Len(p) \in Nat /\ DOMAIN ptr = Nodes(p) /\ DOMAIN data = Nodes(p) /\ first = Link(p, 0)
      /\ (Len(p) > 0 => last = p[Len(p)]) /\ Once(p)
  BY LinkIs DEF IsPath, Once
<1>2. \A i \in 1 .. Len(p) : p[i] \in Nodes(p) /\ p[i] \in Node
  BY <1>1, ElementOfSeq DEF Nodes
<1>3. Len(p) > 0 => Len(p) \in 1 .. Len(p)
  BY <1>1
<1> QED
  BY <1>1, <1>2, <1>3

LEMMA ListAdd ==
  ASSUME NEW p, Keeps(p), NEW n \in Node, NEW d \in Datum, List!Add(n, d)
  PROVE  ListInv'
<1> DEFINE k == Len(p)
<1>1. IsPath(p) /\ IsCache(cache, p, headTaken) /\ headTaken \in BOOLEAN
  BY DEF Keeps
<1>2. n \notin DOMAIN ptr /\ data' = List!Set(data, n, d)
  BY DEF List!Add, List!Alloc, List!Fresh, List!Heap
<1>3. k \in 0 .. Len(p) /\ k \in Nat /\ size = k /\ Link(p, k) = List!NoNode
  BY <1>1, PathIs, LinkIs
<1>4. /\ DOMAIN ptr' = DOMAIN ptr \cup {n} /\ ptr'[n] = Link(p, k) /\ (k > 0 => ptr'[p[k]] = n)
      /\ \A m \in DOMAIN ptr : (k = 0 \/ m # p[k]) => ptr'[m] = ptr[m]
  <2>1. CASE k = 0
    <3>1. ptr' = List!Set(ptr, n, List!NoNode)
      BY <1>3, <2>1 DEF List!Add
    <3> QED
      BY <1>2, <1>3, <2>1, <3>1 DEF List!Set
  <2>2. CASE k # 0
    <3>1. ptr' = List!Set(List!Set(ptr, last, n), n, List!NoNode)
      BY <1>3, <2>2 DEF List!Add
    <3>2. last = p[k] /\ last \in DOMAIN ptr
      BY <1>1, <1>3, <2>2, PathIs
    <3> HIDE DEF k
    <3>3. /\ DOMAIN ptr' = DOMAIN ptr \cup {n} /\ ptr'[n] = List!NoNode /\ ptr'[last] = n
          /\ \A x \in DOMAIN ptr : x # last => ptr'[x] = ptr[x]
      BY <1>2, <3>1, <3>2 DEF List!Set
    <3> QED
      BY <1>3, <2>2, <3>2, <3>3
  <2> QED
    BY <2>1, <2>2
<1>5. content' \in Seq(Datum) /\ Spliced(content, content', k, d)
  <2>1. content \in Seq(Datum) /\ Len(content) = k /\ content' = Append(content, d)
    BY <1>1, PathIs DEF List!Add
  <2> QED
    BY <2>1, AppendIs
<1>6. /\ first' = (IF k = 0 THEN n ELSE first) /\ last' = (IF k = Len(p) THEN n ELSE last)
      /\ size' = size + 1 /\ cache' = cache /\ headTaken' = headTaken /\ answers' = TRUE
  BY <1>3 DEF List!Add, List!Answer
<1>7. p \in Seq(Node)
  BY <1>1, PathIs
<1> HIDE DEF k
<1>8. PICK q : IsPath(q)' /\ Spliced(p, q, k, n)
  BY <1>1, <1>2, <1>3, <1>4, <1>5, <1>6, Inserts
<1>9. IsCache(cache, q, headTaken)
  BY <1>1, <1>7, <1>8, CacheAppended DEF k
<1> QED
  BY <1>1, <1>6, <1>8, <1>9, InvNext

LEMMA ListInsert ==
  ASSUME NEW p, Keeps(p), NEW n \in Node, NEW d \in Datum, NEW k \in Nat, List!Insert(n, k, d)
  PROVE  ListInv'
<1>1. IsPath(p) /\ IsCache(cache, p, headTaken) /\ headTaken \in BOOLEAN
  BY DEF Keeps
<1>2. n \notin DOMAIN ptr /\ data' = List!Set(data, n, d)
  BY DEF List!Insert, List!Alloc, List!Fresh, List!Heap
<1>3. k \in 0 .. Len(p) /\ size = Len(p) /\ Len(p) \in Nat
  BY <1>1, PathIs DEF List!Insert
<1>4. Link(p, k) = (IF k = 0 THEN first ELSE IF k = size THEN List!NoNode ELSE List!At[k])
  BY <1>1, <1>3, AtIs, LinkIs, PathIs
<1>5. /\ DOMAIN ptr' = DOMAIN ptr \cup {n} /\ ptr'[n] = Link(p, k) /\ (k > 0 => ptr'[p[k]] = n)
      /\ \A m \in DOMAIN ptr : (k = 0 \/ m # p[k]) => ptr'[m] = ptr[m]
  <2>1. CASE k = 0
    <3>1. ptr' = List!Set(ptr, n, first)
      BY <2>1 DEF List!Insert
    <3> QED
      BY <1>2, <1>4, <2>1, <3>1 DEF List!Set
  <2>2. CASE k # 0
    <3> DEFINE m == p[k]
               w == Link(p, k)
    <3>1. m = (IF k = size THEN last ELSE List!At[k - 1]) /\ m \in DOMAIN ptr
      <4>1. k - 1 \in 0 .. Len(p) - 1 /\ (k - 1) + 1 = k /\ k \in 1 .. Len(p) /\ Len(p) > 0
        BY <1>3, <2>2
      <4>2. List!At[k - 1] = p[(k - 1) + 1]
        BY <1>1, <4>1, KthIs
      <4> QED
        BY <1>1, <1>3, <4>1, <4>2, PathIs
    <3>2. ptr' = List!Set(List!Set(ptr, n, w), m, n)
      BY <1>4, <2>2, <3>1 DEF List!Insert
    <3> HIDE DEF m, w
    <3>3. /\ DOMAIN ptr' = DOMAIN ptr \cup {n} /\ ptr'[n] = w /\ ptr'[m] = n
          /\ \A x \in DOMAIN ptr : x # m => ptr'[x] = ptr[x]
      BY <1>2, <3>1, <3>2 DEF List!Set
    <3> QED
      BY <2>2, <3>3 DEF m, w
  <2> QED
    BY <2>1, <2>2
<1>6. content' \in Seq(Datum) /\ Spliced(content, content', k, d)
  <2>1. content \in Seq(Datum) /\ k \in 0 .. Len(content) /\ content' = List!InsertAt(content, k + 1, d)
    BY <1>1, <1>3, PathIs DEF List!Insert
  <2> QED
    BY <2>1, InsertIs
<1>7. /\ first' = (IF k = 0 THEN n ELSE first) /\ last' = (IF k = Len(p) THEN n ELSE last)
      /\ size' = size + 1 /\ cache' = List!Shift(cache, k, 1) /\ headTaken' = headTaken /\ answers' = TRUE
  BY <1>3 DEF List!Insert, List!Answer, List!InsertShift
<1>8. PICK q : IsPath(q)' /\ Spliced(p, q, k, n)
  BY <1>1, <1>2, <1>3, <1>5, <1>6, <1>7, Inserts
<1>9. p \in Seq(Node)
  BY <1>1, PathIs
<1>10. IsCache(List!Shift(cache, k, 1), q, headTaken)
  BY <1>1, <1>3, <1>8, <1>9, CacheShifted
<1> QED
  BY <1>1, <1>7, <1>8, <1>10, InvNext

LEMMA ListRefused ==
  ASSUME NEW p, Keeps(p), List!Full, List!Refused
  PROVE  ListInv'
<1>1. Len(content) = ListMax
  BY PathIs DEF Keeps, List!Full
<1>2. answers' = TRUE
  BY <1>1 DEF List!Refused, List!Answer
<1>3. UNCHANGED <<ptr, data, first, last, size, cache, content, headTaken>>
  BY DEF List!Refused
<1>4. IsPath(p)'
  BY <1>3 DEF Keeps, IsPath, Nodes, Link, List!NoNode
<1> QED
  BY <1>2, <1>3, <1>4, InvNext DEF Keeps

LEMMA ListGet ==
  ASSUME NEW p, Keeps(p), NEW k \in Nat, List!Get(k)
  PROVE  ListInv'
<1>1. IsPath(p) /\ IsCache(cache, p, headTaken) /\ headTaken \in BOOLEAN
  BY DEF Keeps
<1>2. /\ IsCache(List!Lookup(k).cache, p, headTaken)
      /\ ~headTaken => List!Lookup(k).got = List!Want(k)
  BY <1>1, LookupIs
<1>3. UNCHANGED <<ptr, data, first, last, size, content, headTaken>>
  BY DEF List!Get
<1>4. cache' = List!Lookup(k).cache /\ answers' = (List!Lookup(k).got = List!Want(k))
  BY DEF List!Get, List!Answer
<1>5. IsPath(p)'
  BY <1>1, <1>3 DEF IsPath, Nodes, Link, List!NoNode
<1>6. answers' \/ headTaken'
  BY <1>1, <1>2, <1>3, <1>4
<1> QED
  BY <1>1, <1>2, <1>3, <1>4, <1>5, <1>6, InvNext

LEMMA ListGetLast ==
  ASSUME NEW p, Keeps(p), List!GetLast
  PROVE  ListInv'
<1>1. IsPath(p) /\ IsCache(cache, p, headTaken) /\ headTaken \in BOOLEAN
  BY DEF Keeps
<1>2. UNCHANGED <<ptr, data, first, last, size, cache, content, headTaken>>
  BY DEF List!GetLast
<1>3. (IF size = 0 THEN List!NoData ELSE data[last])
      = (IF content = <<>> THEN List!NoData ELSE List!Last(content))
  <2>1. CASE size = 0
    <3>1. content = <<>>
      BY <1>1, <2>1, PathIs, EmptySeq
    <3> QED
      BY <2>1, <3>1
  <2>2. CASE size # 0
    <3>1. Len(p) \in 1 .. Len(p) /\ last = p[Len(p)] /\ content # <<>> /\ Len(content) = Len(p)
      BY <1>1, <2>2, PathIs
    <3>2. data[p[Len(p)]] = content[Len(p)]
      BY <1>1, <3>1 DEF IsPath
    <3> QED
      BY <2>2, <3>1, <3>2 DEF List!Last
  <2> QED
    BY <2>1, <2>2
<1>4. answers' = TRUE
  BY <1>3 DEF List!GetLast, List!Answer
<1>5. IsPath(p)'
  BY <1>1, <1>2 DEF IsPath, Nodes, Link, List!NoNode
<1> QED
  BY <1>1, <1>2, <1>4, <1>5, InvNext

(* The k-th node, counted from 0, taken out and freed. *)
TakenOut(k) ==
  /\ List!Free(List!At[k], IF k = 0 THEN ptr ELSE List!Set(ptr, List!At[k - 1], ptr[List!At[k]]))
  /\ first' = IF k = 0 THEN ptr[List!At[k]] ELSE first
  /\ last' = IF k > 0 /\ List!At[k] = last THEN List!At[k - 1] ELSE last
  /\ size' = size - 1 /\ content' = List!RemoveAt(content, k + 1)

LEMMA TakesOut ==
  ASSUME NEW p, IsPath(p), NEW k \in 0 .. Len(p) - 1, TakenOut(k)
  PROVE  \E q : IsPath(q)' /\ Cut(p, q, k + 1)
<1> DEFINE j == k + 1
<1>1. /\ Len(p) \in Nat /\ j \in 1 .. Len(p) /\ k \in Nat /\ j - 1 = k /\ (k = 0 <=> j = 1)
      /\ content \in Seq(Datum) /\ Len(content) = Len(p) /\ size = Len(p)
  BY PathIs
<1>2. List!At[k] = p[j] /\ ptr[p[j]] = Link(p, j)
  BY KthIs
<1>3. ASSUME k # 0 PROVE List!At[k - 1] = p[j - 1]
  <2>1. k - 1 \in 0 .. Len(p) - 1 /\ (k - 1) + 1 = j - 1
    BY <1>1, <1>3
  <2>2. List!At[k - 1] = p[(k - 1) + 1]
    BY <2>1, KthIs
  <2> QED
    BY <2>1, <2>2
<1>4. j = k + 1
  OBVIOUS
<1> HIDE DEF j
<1>5. ptr' = List!Without(IF j = 1 THEN ptr ELSE List!Set(ptr, p[j - 1], Link(p, j)), p[j])
  BY <1>1, <1>2, <1>3 DEF TakenOut, List!Free
<1>6. data' = List!Without(data, p[j])
  BY <1>2 DEF TakenOut, List!Free
<1>7. first' = IF j = 1 THEN Link(p, 1) ELSE first
  BY <1>1, <1>2 DEF TakenOut
<1>8. ASSUME Len(p) > 1 PROVE last' = IF j = Len(p) THEN p[j - 1] ELSE last
  <2>1. last = p[Len(p)] /\ Len(p) \in 1 .. Len(p)
    BY <1>8, PathIs
  <2>2. CASE j = Len(p)
    <3>1. k > 0 /\ p[j] = last
      BY <1>1, <1>8, <2>1, <2>2
    <3> QED
      BY <1>2, <1>3, <2>2, <3>1 DEF TakenOut
  <2>3. CASE j # Len(p)
    <3>1. p[j] # last
      BY <1>1, <2>1, <2>3 DEF IsPath
    <3> QED
      BY <1>2, <2>3, <3>1 DEF TakenOut
  <2> QED
    BY <2>2, <2>3
<1>9. content' \in Seq(Datum) /\ Cut(content, content', j)
  <2>1. content' = List!RemoveAt(content, j)
    BY <1>4 DEF TakenOut
  <2> QED
    BY <1>1, <2>1, RemoveIs
<1>10. size' = size - 1
  BY DEF TakenOut
<1>11. PICK q : IsPath(q)' /\ Cut(p, q, j)
  BY <1>1, <1>5, <1>6, <1>7, <1>8, <1>9, <1>10, Removes
<1> QED
  BY <1>4, <1>11

LEMMA ListRemoveIdx ==
  ASSUME NEW p, Keeps(p), NEW k \in Nat, List!RemoveIdx(k)
  PROVE  ListInv'
<1>1. IsPath(p) /\ IsCache(cache, p, headTaken) /\ headTaken \in BOOLEAN
  BY DEF Keeps
<1>2. k \in 0 .. Len(p) - 1 /\ k + 1 \in 1 .. Len(p) /\ p \in Seq(Node) /\ Once(p) /\ (k + 1) - 1 = k
  BY <1>1, PathIs DEF List!RemoveIdx
<1>3. TakenOut(k)
  BY DEF List!RemoveIdx, TakenOut
<1>4. PICK q : IsPath(q)' /\ Cut(p, q, k + 1)
  BY <1>1, <1>2, <1>3, TakesOut
<1>5. List!At[k] = p[k + 1] /\ data[p[k + 1]] = content[k + 1]
  BY <1>1, <1>2, KthIs
<1>6. answers' = TRUE /\ headTaken' = headTaken
  BY <1>5 DEF List!RemoveIdx, List!Answer
<1>7. cache' = List!Shift(List!Drop(cache, p[k + 1]), k, -1)
  BY <1>5 DEF List!RemoveIdx, List!Forget
<1> DEFINE j == k + 1
<1>8. j \in 1 .. Len(p) /\ Cut(p, q, j) /\ j - 1 = k
  BY <1>2, <1>4
<1>9. cache' = List!Shift(List!Drop(cache, p[j]), k, -1)
  BY <1>7
<1> HIDE DEF j
<1>10. IsCache(List!Shift(List!Drop(cache, p[j]), j - 1, -1), q, headTaken)
  BY <1>1, <1>2, <1>8, CacheUnshifted
<1>11. IsCache(cache', q, headTaken')
  BY <1>6, <1>8, <1>9, <1>10
<1> QED
  BY <1>1, <1>4, <1>6, <1>11, InvNext

LEMMA ListRemoveLast ==
  ASSUME NEW p, Keeps(p), List!RemoveLast
  PROVE  ListInv'
<1>1. IsPath(p) /\ IsCache(cache, p, headTaken) /\ headTaken \in BOOLEAN
  BY DEF Keeps
<1> DEFINE k == Len(p)
<1>2. /\ size = k /\ k \in Nat /\ k > 0 /\ k \in 1 .. Len(p) /\ p \in Seq(Node) /\ Once(p)
      /\ content \in Seq(Datum) /\ Len(content) = k /\ last = p[k] /\ Link(p, k) = List!NoNode
      /\ p[k] \in Nodes(p) /\ DOMAIN ptr = Nodes(p)
  <2>1. size = k /\ k \in Nat /\ size > 0
    BY <1>1, PathIs DEF List!RemoveLast
  <2>2. k \in 1 .. Len(p) /\ k >= Len(p)
    BY <2>1
  <2>3. Link(p, k) = List!NoNode
    BY <1>1, <2>1, <2>2, LinkIs
  <2> QED
    BY <1>1, <2>1, <2>2, <2>3, PathIs
<1>3. /\ size' = size - 1 /\ headTaken' = headTaken
      /\ content' \in Seq(Datum) /\ Cut(content, content', k)
      /\ List!Last(content) = content[k]
  BY <1>2, FrontIs DEF List!RemoveLast
<1>4. data[p[k]] = content[k]
  BY <1>1, <1>2 DEF IsPath
<1>5. /\ ptr' = List!Without(IF k = 1 THEN ptr ELSE List!Set(ptr, p[k - 1], Link(p, k)), p[k])
      /\ data' = List!Without(data, p[k])
      /\ first' = IF k = 1 THEN Link(p, 1) ELSE first
      /\ k > 1 => last' = p[k - 1]
      /\ cache' = List!Drop(cache, p[k]) /\ answers' = TRUE
  <2>1. CASE k = 1
    <3>1. first = p[k]
      <4>1. 0 \in 0 .. Len(p) - 1 /\ 0 + 1 = 1
        BY <1>2
      <4>2. Link(p, 0) = p[0 + 1]
        BY <1>1, <4>1, LinkIs
      <4> QED
        BY <1>1, <2>1, <4>1, <4>2, PathIs
    <3>2. /\ List!Free(first, ptr) /\ first' = List!NoNode
          /\ cache' = List!Drop(cache, first) /\ List!Answer(data[first], List!Last(content))
      BY <1>2, <2>1 DEF List!RemoveLast
    <3>3. answers' = TRUE
      BY <1>3, <1>4, <3>1, <3>2 DEF List!Answer
    <3>4. ptr' = List!Without(ptr, p[k]) /\ data' = List!Without(data, p[k]) /\ cache' = List!Drop(cache, p[k])
      BY <3>1, <3>2 DEF List!Free
    <3>5. first' = Link(p, 1)
      BY <1>2, <2>1, <3>2
    <3> HIDE DEF k
    <3>6. ~ (k > 1)
      BY <2>1
    <3> QED
      BY <2>1, <3>3, <3>4, <3>5, <3>6
  <2>2. CASE k # 1
    <3>1. List!At[List!Before] = p[k - 1]
      <4> DEFINE b == k - 2
                 S == {x \in 0 .. size - 2 : List!At[x + 1] = last}
      <4>1. b \in 0 .. size - 2 /\ b + 1 = k - 1 /\ b + 1 \in 0 .. Len(p) - 1 /\ b \in 0 .. Len(p) - 1
            /\ (b + 1) + 1 = k
        BY <1>2, <2>2
      <4>2. List!At[b + 1] = p[(b + 1) + 1] /\ List!At[b] = p[b + 1]
        BY <1>1, <4>1, KthIs
      <4>3. ASSUME NEW x \in 0 .. size - 2, List!At[x + 1] = last PROVE x = b
        <5>1. x + 1 \in 0 .. Len(p) - 1 /\ (x + 1) + 1 \in 1 .. Len(p)
          BY <1>2, <4>3
        <5>2. List!At[x + 1] = p[(x + 1) + 1]
          BY <1>1, <5>1, KthIs
        <5>3. (x + 1) + 1 = k
          BY <1>2, <4>3, <5>1, <5>2 DEF Once
        <5> QED
          BY <5>3
      <4> HIDE DEF b
      <4>4. List!Before = b
        BY <1>2, <4>1, <4>2, <4>3 DEF List!Before
      <4> QED
        BY <4>1, <4>2, <4>4
    <3>2. /\ List!Free(last, List!Set(ptr, List!At[List!Before], List!NoNode))
          /\ last' = List!At[List!Before] /\ first' = first
          /\ cache' = List!Drop(cache, last) /\ List!Answer(data[last], List!Last(content))
      BY <1>2, <2>2 DEF List!RemoveLast
    <3> QED
      BY <1>2, <1>3, <1>4, <2>2, <3>1, <3>2 DEF List!Free, List!Answer
  <2> QED
    BY <2>1, <2>2
<1>6. Len(p) > 1 => last' = IF k = Len(p) THEN p[k - 1] ELSE last
  BY <1>5
<1>7. k = Len(p)
  OBVIOUS
<1> HIDE DEF k
<1>8. PICK q : IsPath(q)' /\ Cut(p, q, k)
  BY <1>1, <1>2, <1>3, <1>5, <1>6, Removes
<1>9. IsCache(List!Drop(cache, p[k]), q, headTaken)
  BY <1>1, <1>2, <1>7, <1>8, CacheDropped
<1>10. IsCache(cache', q, headTaken')
  BY <1>3, <1>5, <1>9
<1> QED
  BY <1>1, <1>3, <1>5, <1>8, <1>10, InvNext

(* The first position of an element, in the list and in the content.       *)
LEMMA ListMins == \A S : List!Min(S) = Min(S)
BY Zenon DEF List!Min, Min

LEMMA RemoveFirstIs ==
  ASSUME NEW s \in Seq(Datum), NEW d, NEW k \in 0 .. Len(s) - 1, s[k + 1] = d,
         \A i \in 0 .. k - 1 : s[i + 1] # d
  PROVE  List!RemoveFirst(s, d) = List!RemoveAt(s, k + 1)
<1> DEFINE j == k + 1
           S == {i \in 1 .. Len(s) : s[i] = d}
           m == Min(S)
<1>1. Len(s) \in Nat /\ k \in Nat /\ j \in 1 .. Len(s)
  BY LenProperties
<1>2. j \in S /\ S \in SUBSET Nat
  BY <1>1
<1>3. m \in S /\ \A y \in S : m <= y
  <2> HIDE DEF S
  <2> QED
    BY <1>2, MinIsLeast
<1> HIDE DEF m
<1>4. m = j
  <2>1. m \in 1 .. Len(s) /\ s[m] = d /\ m <= j
    BY <1>2, <1>3
  <2>2. ASSUME m # j PROVE FALSE
    <3>1. m - 1 \in 0 .. k - 1 /\ (m - 1) + 1 = m
      BY <1>1, <2>1, <2>2
    <3>2. s[(m - 1) + 1] # d
      BY <3>1
    <3> QED
      BY <2>1, <3>1, <3>2
  <2> QED
    BY <2>2
<1>5. List!RemoveFirst(s, d) = List!RemoveAt(s, m)
  <2>1. S # {} /\ \E i \in 1 .. Len(s) : s[i] = d
    BY <1>2
  <2>2. List!Min(S) = m
    BY ListMins DEF m
  <2>3. List!RemoveFirst(s, d) = List!RemoveAt(s, List!SelectInSeq(s, LAMBDA v : v = d))
    BY <2>1 DEF List!RemoveFirst
  <2>4. List!SelectInSeq(s, LAMBDA v : v = d) = List!Min(S)
    BY <2>1 DEF List!SelectInSeq
  <2> QED
    BY <2>2, <2>3, <2>4
<1> QED
  BY <1>4, <1>5

LEMMA ListRemoveData ==
  ASSUME NEW p, Keeps(p), NEW d, List!RemoveData(d)
  PROVE  ListInv'
<1>1. IsPath(p) /\ IsCache(cache, p, headTaken) /\ headTaken \in BOOLEAN
  BY DEF Keeps
<1>2. /\ size = Len(p) /\ Len(p) \in Nat /\ p \in Seq(Node) /\ Once(p)
      /\ content \in Seq(Datum) /\ Len(content) = Len(p)
  BY <1>1, PathIs
<1> DEFINE First(j) == data[List!At[j]] = d /\ \A i \in 0 .. j - 1 : data[List!At[i]] # d
           k == CHOOSE j \in 0 .. size - 1 : First(j)
<1>3. \E j \in 0 .. size - 1 : First(j)
  <2> DEFINE S == {j \in 0 .. size - 1 : data[List!At[j]] = d}
             m == Min(S)
  <2>1. S \in SUBSET Nat /\ S # {}
    BY <1>2 DEF List!RemoveData
  <2>2. m \in S /\ \A y \in S : m <= y
    <3> HIDE DEF S
    <3> QED
      BY <2>1, MinIsLeast
  <2> HIDE DEF m
  <2>3. m \in 0 .. size - 1 /\ data[List!At[m]] = d
    BY <2>2
  <2>4. ASSUME NEW i \in 0 .. m - 1, data[List!At[i]] = d PROVE FALSE
    <3>1. i \in S /\ ~ (m <= i)
      BY <1>2, <2>3, <2>4
    <3> QED
      BY <2>2, <3>1
  <2> QED
    BY <2>3, <2>4
<1>4. k \in 0 .. size - 1 /\ First(k)
  <2> HIDE DEF First
  <2> QED
    BY <1>3
<1>5. /\ List!Free(List!At[k], IF k = 0 THEN ptr ELSE List!Set(ptr, List!At[k - 1], ptr[List!At[k]]))
      /\ first' = IF k = 0 THEN ptr[List!At[k]] ELSE first
      /\ last' = IF k > 0 /\ List!At[k] = last THEN List!At[k - 1] ELSE last
      /\ size' = size - 1 /\ content' = List!RemoveFirst(content, d) /\ answers' = TRUE
      /\ cache' = IF k = 0 THEN List!Drop(cache, List!At[k]) ELSE List!Drop(List!Shift(cache, k, -1), List!At[k])
      /\ headTaken' = (headTaken \/ k = 0)
  BY Zenon DEF List!RemoveData, List!Answer
<1> HIDE DEF k
<1>6. k \in 0 .. Len(p) - 1 /\ k + 1 \in 1 .. Len(p) /\ k \in Nat
  BY <1>2, <1>4
<1>7. List!At[k] = p[k + 1]
  BY <1>1, <1>6, KthIs
<1>8. content[k + 1] = d /\ \A i \in 0 .. k - 1 : content[i + 1] # d
  <2>1. content[k + 1] = d
    <3>1. List!At[k] = p[k + 1] /\ data[p[k + 1]] = content[k + 1]
      BY <1>1, <1>6, KthIs
    <3> QED
      BY <1>4, <3>1
  <2>2. ASSUME NEW i \in 0 .. k - 1 PROVE content[i + 1] # d
    <3>1. i \in 0 .. Len(p) - 1 /\ data[List!At[i]] # d
      BY <1>4, <1>6
    <3>2. List!At[i] = p[i + 1] /\ data[p[i + 1]] = content[i + 1]
      BY <1>1, <3>1, KthIs
    <3> QED
      BY <3>1, <3>2
  <2> QED
    BY <2>1, <2>2
<1> HIDE DEF First
<1>9. content' = List!RemoveAt(content, k + 1)
  <2>1. k \in 0 .. Len(content) - 1
    BY <1>2, <1>6
  <2>2. List!RemoveFirst(content, d) = List!RemoveAt(content, k + 1)
    BY <1>2, <1>8, <2>1, RemoveFirstIs
  <2> QED
    BY <1>5, <2>2
<1>10. TakenOut(k)
  BY <1>5, <1>9 DEF TakenOut
<1>11. PICK q : IsPath(q)' /\ Cut(p, q, k + 1)
  BY <1>1, <1>6, <1>10, TakesOut
<1> DEFINE j == k + 1
<1>12. j \in 1 .. Len(p) /\ Cut(p, q, j) /\ j - 1 = k /\ List!At[k] = p[j] /\ (k = 0 <=> j = 1)
  BY <1>6, <1>7, <1>11
<1> HIDE DEF j
<1>13. CASE k = 0
  <2>1. headTaken' = TRUE /\ cache' = List!Drop(cache, p[j])
    BY <1>5, <1>12, <1>13
  <2>2. IsCache(List!Drop(cache, p[j]), q, TRUE)
    BY <1>1, <1>2, <1>12, CacheDropped
  <2>3. IsCache(cache', q, headTaken')
    BY <2>1, <2>2
  <2> QED
    BY <1>11, <2>1, <2>3, InvNext
<1>14. CASE k # 0
  <2>1. headTaken' = headTaken /\ cache' = List!Drop(List!Shift(cache, j - 1, -1), p[j])
    BY <1>1, <1>5, <1>12, <1>14
  <2>2. IsCache(List!Drop(List!Shift(cache, j - 1, -1), p[j]), q, headTaken)
    BY <1>1, <1>2, <1>12, CacheUnshifted
  <2>3. IsCache(cache', q, headTaken')
    BY <2>1, <2>2
  <2> QED
    BY <1>1, <1>5, <1>11, <2>1, <2>3, InvNext
<1> QED
  BY <1>13, <1>14

LEMMA ListNoSuchData ==
  ASSUME NEW p, Keeps(p), NEW d, List!NoSuchData(d)
  PROVE  ListInv'
<1>1. IsPath(p) /\ IsCache(cache, p, headTaken) /\ headTaken \in BOOLEAN
  BY DEF Keeps
<1>2. size = Len(p) /\ Len(p) \in Nat /\ Len(content) = Len(p)
  BY <1>1, PathIs
<1>3. ASSUME NEW i \in 1 .. Len(content), content[i] = d PROVE FALSE
  <2> DEFINE k == i - 1
  <2>1. k \in 0 .. Len(p) - 1 /\ k \in 0 .. size - 1 /\ k + 1 = i
    BY <1>2
  <2> HIDE DEF k
  <2>2. List!At[k] = p[k + 1] /\ data[p[k + 1]] = content[k + 1]
    BY <1>1, <2>1, KthIs
  <2>3. data[List!At[k]] # d
    BY <2>1 DEF List!NoSuchData
  <2> QED
    BY <1>3, <2>1, <2>2, <2>3
<1>4. ~ List!Contains(content, d)
  BY <1>3 DEF List!Contains
<1>5. answers' = TRUE
  BY <1>4 DEF List!NoSuchData, List!Answer
<1>6. UNCHANGED <<ptr, data, first, last, size, cache, content, headTaken>>
  BY DEF List!NoSuchData
<1>7. IsPath(p)'
  BY <1>1, <1>6 DEF IsPath, Nodes, Link, List!NoNode
<1> QED
  BY <1>1, <1>5, <1>6, <1>7, InvNext

(* Where linkedlist_insert_sorted stops is where a list would.             *)
Beyond(i, d, replace) == content[i] > d \/ (replace /\ content[i] = d)
Wanted(d, replace) ==
  IF \E i \in 1 .. Len(content) : Beyond(i, d, replace)
  THEN (CHOOSE i \in 1 .. Len(content) :
          Beyond(i, d, replace) /\ \A j \in 1 .. i - 1 : ~Beyond(j, d, replace)) - 1
  ELSE Len(content)
Stops(k, d, replace) == List!Stop(k, d, replace) /\ \A i \in 0 .. k - 1 : ~List!Stop(i, d, replace)

LEMMA StopsAt ==
  ASSUME NEW p, IsPath(p), NEW d \in Datum, NEW replace \in BOOLEAN
  PROVE  \E k \in 0 .. size : Stops(k, d, replace)
<1> DEFINE S == {j \in 0 .. size : List!Stop(j, d, replace)}
           m == Min(S)
<1>0. size \in Nat
  BY PathIs
<1>1. S \in SUBSET Nat /\ S # {}
  <2>1. size \in 0 .. size /\ List!Stop(size, d, replace)
    BY <1>0 DEF List!Stop
  <2> QED
    BY <1>0, <2>1
<1>2. m \in S /\ \A y \in S : m <= y
  <2> HIDE DEF S
  <2> QED
    BY <1>1, MinIsLeast
<1> HIDE DEF m
<1>3. m \in 0 .. size /\ List!Stop(m, d, replace)
  BY <1>2
<1>4. ASSUME NEW i \in 0 .. m - 1, List!Stop(i, d, replace) PROVE FALSE
  <2>1. i \in S /\ ~ (m <= i)
    BY <1>0, <1>3, <1>4
  <2> QED
    BY <1>2, <2>1
<1> QED
  BY <1>3, <1>4 DEF Stops

LEMMA StopsRight ==
  ASSUME NEW p, IsPath(p), NEW d \in Datum, NEW replace \in BOOLEAN,
         NEW k \in 0 .. size, Stops(k, d, replace)
  PROVE  k = Wanted(d, replace)
<1>1. size = Len(p) /\ Len(p) \in Nat /\ Len(content) = Len(p) /\ k \in Nat /\ k <= Len(p)
  BY PathIs
<1>2. ASSUME NEW i \in 1 .. Len(p) PROVE Beyond(i, d, replace) <=> List!Stop(i - 1, d, replace)
  <2> DEFINE j == i - 1
  <2>1. j \in 0 .. Len(p) - 1 /\ j + 1 = i /\ j # size
    BY <1>1
  <2> HIDE DEF j
  <2>2. List!At[j] = p[j + 1] /\ data[p[j + 1]] = content[j + 1] /\ content[j + 1] \in Datum
    BY <2>1, KthIs
  <2>3. List!Stop(j, d, replace) <=> d < content[i] \/ (replace /\ d = content[i])
    BY <2>1, <2>2 DEF List!Stop
  <2>4. content[i] \in Int /\ d \in Int
    BY <2>1, <2>2, ListAssumption
  <2>5. (content[i] > d) <=> (d < content[i])
    BY <2>4
  <2> QED
    BY <2>3, <2>5 DEF Beyond, j
<1>3. ASSUME NEW i \in 1 .. k PROVE ~ Beyond(i, d, replace)
  <2>1. i - 1 \in 0 .. k - 1 /\ i \in 1 .. Len(p)
    BY <1>1
  <2> QED
    BY <1>2, <2>1 DEF Stops
<1>4. CASE k = Len(p)
  BY <1>1, <1>3, <1>4 DEF Wanted
<1>5. CASE k # Len(p)
  <2> DEFINE P(i) == Beyond(i, d, replace) /\ \A j \in 1 .. i - 1 : ~Beyond(j, d, replace)
             m == CHOOSE i \in 1 .. Len(content) : P(i)
             n == k + 1
  <2>1. n \in 1 .. Len(p) /\ n - 1 = k
    BY <1>1, <1>5
  <2> HIDE DEF n
  <2>2. Beyond(n, d, replace)
    BY <1>2, <2>1 DEF Stops
  <2>3. P(n)
    BY <1>3, <2>1, <2>2
  <2>4. \A i \in 1 .. Len(p) : P(i) => i = n
    <3> SUFFICES ASSUME NEW i \in 1 .. Len(p), P(i), i # n PROVE FALSE
      OBVIOUS
    <3>1. CASE i < n
      <4>1. i \in 1 .. k
        BY <1>1, <2>1, <3>1
      <4> QED
        BY <1>3, <4>1
    <3>2. CASE i > n
      <4>1. n \in 1 .. i - 1
        BY <1>1, <2>1, <3>2
      <4> QED
        BY <2>2, <4>1
    <3> QED
      BY <1>1, <2>1, <3>1, <3>2
  <2>5. Wanted(d, replace) = m - 1
    BY <1>1, <2>1, <2>2 DEF Wanted
  <2> HIDE DEF P
  <2>6. m = n
    BY <1>1, <2>1, <2>3, <2>4
  <2> QED
    BY <2>1, <2>5, <2>6
<1> QED
  BY <1>4, <1>5

(* linkedlist_insert_sorted once the place k and the node rm are chosen.   *)
Sorted(n, d, k, rm) ==
  LET after == IF rm = List!NoNode THEN List!At[k] ELSE ptr[rm]
      linked == List!Set(IF k = 0 THEN ptr ELSE List!Set(ptr, List!At[k - 1], n), n, after)
  IN /\ ptr' = List!Without(linked, rm) /\ data' = List!Without(List!Set(data, n, d), rm)
     /\ first' = IF k = 0 THEN n ELSE first
     /\ last' = IF after = List!NoNode THEN n ELSE last
     /\ size' = IF rm = List!NoNode THEN size + 1 ELSE size
     /\ cache' = IF rm = List!NoNode THEN List!Shift(cache, k, 1) ELSE List!Drop(cache, rm)
     /\ content' = IF rm = List!NoNode THEN List!InsertAt(content, k + 1, d) ELSE List!ReplaceAt(content, k + 1, d)
     /\ UNCHANGED headTaken
Twin(k, d, replace) == IF k < size /\ replace /\ d = data[List!At[k]] THEN List!At[k] ELSE List!NoNode

LEMMA SortedIs ==
  ASSUME NEW p, IsPath(p), NEW n, NEW d \in Datum, NEW replace \in BOOLEAN, List!InsertSorted(n, d, replace)
  PROVE  /\ n \in Node /\ n \notin DOMAIN ptr /\ answers' = TRUE
         /\ \E k \in 0 .. size : Sorted(n, d, k, Twin(k, d, replace))
<1> DEFINE k == CHOOSE j \in 0 .. size : Stops(j, d, replace)
<1>1. k \in 0 .. size /\ Stops(k, d, replace)
  BY StopsAt
<1>2. answers' = (k = Wanted(d, replace)) /\ List!Fresh(n) /\ Sorted(n, d, k, Twin(k, d, replace))
  BY Zenon DEF List!InsertSorted, Stops, Sorted, Twin, Wanted, Beyond, List!Answer
<1> HIDE DEF k
<1>3. k = Wanted(d, replace)
  BY <1>1, StopsRight
<1> QED
  BY <1>1, <1>2, <1>3 DEF List!Fresh, List!Heap

LEMMA SortedIn ==
  ASSUME NEW p, Keeps(p), NEW n \in Node, n \notin DOMAIN ptr, NEW d \in Datum, NEW k \in 0 .. size,
         Sorted(n, d, k, List!NoNode), answers' = TRUE
  PROVE  ListInv'
<1>1. IsPath(p) /\ IsCache(cache, p, headTaken) /\ headTaken \in BOOLEAN
  BY DEF Keeps
<1>2. /\ k \in 0 .. Len(p) /\ size = Len(p) /\ Len(p) \in Nat /\ k \in Nat /\ p \in Seq(Node)
      /\ DOMAIN ptr = Nodes(p) /\ DOMAIN data = Nodes(p)
      /\ content \in Seq(Datum) /\ Len(content) = Len(p)
  BY <1>1, PathIs
<1>3. List!At[k] = Link(p, k)
  BY <1>1, <1>2, AtIs
<1>4. List!NoNode \notin Nodes(p) /\ List!NoNode # n
  BY <1>2, NoNodeIs, ElementOfSeq DEF Nodes
<1> DEFINE after == List!At[k]
           linked == List!Set(IF k = 0 THEN ptr ELSE List!Set(ptr, List!At[k - 1], n), n, after)
<1>5. /\ DOMAIN linked = DOMAIN ptr \cup {n} /\ linked[n] = after /\ (k > 0 => linked[p[k]] = n)
      /\ \A m \in DOMAIN ptr : (k = 0 \/ m # p[k]) => linked[m] = ptr[m]
  <2> HIDE DEF after
  <2>1. CASE k = 0
    <3>1. linked = List!Set(ptr, n, after)
      BY <2>1
    <3> QED
      BY <2>1, <3>1 DEF List!Set
  <2>2. CASE k # 0
    <3> DEFINE m == p[k]
    <3>1. m = List!At[k - 1] /\ m \in DOMAIN ptr
      <4>1. k - 1 \in 0 .. Len(p) - 1 /\ (k - 1) + 1 = k
        BY <1>2, <2>2
      <4>2. List!At[k - 1] = p[(k - 1) + 1] /\ p[(k - 1) + 1] \in Nodes(p)
        BY <1>1, <4>1, KthIs
      <4> QED
        BY <1>2, <4>1, <4>2
    <3>2. linked = List!Set(List!Set(ptr, m, n), n, after)
      BY <2>2, <3>1
    <3> HIDE DEF m, linked
    <3>3. /\ DOMAIN linked = DOMAIN ptr \cup {n} /\ linked[n] = after /\ linked[m] = n
          /\ \A x \in DOMAIN ptr : x # m => linked[x] = ptr[x]
      BY <3>1, <3>2 DEF List!Set
    <3> QED
      BY <2>2, <3>3 DEF m
  <2> QED
    BY <2>1, <2>2
<1>6. ptr' = List!Without(linked, List!NoNode) /\ data' = List!Without(List!Set(data, n, d), List!NoNode)
  BY DEF Sorted
<1> HIDE DEF linked
<1>7. /\ DOMAIN ptr' = DOMAIN ptr \cup {n} /\ ptr'[n] = Link(p, k) /\ (k > 0 => ptr'[p[k]] = n)
      /\ \A m \in DOMAIN ptr : (k = 0 \/ m # p[k]) => ptr'[m] = ptr[m]
  <2>1. DOMAIN ptr' = DOMAIN linked
    BY <1>2, <1>4, <1>5, <1>6 DEF List!Without
  <2>2. \A m \in DOMAIN linked : ptr'[m] = linked[m]
    BY <1>2, <1>4, <1>5, <1>6 DEF List!Without
  <2>3. k > 0 => p[k] \in DOMAIN ptr
    BY <1>1, <1>2, PathIs
  <2> QED
    BY <1>3, <1>5, <2>1, <2>2, <2>3
<1>8. data' = List!Set(data, n, d)
  BY <1>2, <1>4, <1>6 DEF List!Without, List!Set
<1>9. last' = IF k = Len(p) THEN n ELSE last
  <2>1. Link(p, k) = List!NoNode <=> k = Len(p)
    <3>1. k \in Nat /\ k <= Len(p) /\ Len(p) \in Nat
      BY <1>2
    <3>2. CASE k = Len(p)
      <4>1. k >= Len(p)
        BY <3>1, <3>2
      <4> QED
        BY <1>1, <3>1, <3>2, <4>1, LinkIs
    <3>3. CASE k # Len(p)
      <4>1. k \in 0 .. Len(p) - 1
        BY <3>1, <3>3
      <4>2. Link(p, k) \in Node
        BY <1>1, <4>1, LinkIs
      <4> QED
        BY <3>3, <4>2, NoNodeIs
    <3> QED
      BY <3>2, <3>3
  <2> QED
    BY <1>3, <2>1 DEF Sorted
<1>10. /\ first' = (IF k = 0 THEN n ELSE first) /\ size' = size + 1
       /\ cache' = List!Shift(cache, k, 1) /\ headTaken' = headTaken
       /\ content' = List!InsertAt(content, k + 1, d)
  BY DEF Sorted
<1>11. content' \in Seq(Datum) /\ Spliced(content, content', k, d)
  BY <1>2, <1>10, InsertIs
<1>12. PICK q : IsPath(q)' /\ Spliced(p, q, k, n)
  BY <1>1, <1>2, <1>7, <1>8, <1>9, <1>10, <1>11, Inserts
<1>13. IsCache(List!Shift(cache, k, 1), q, headTaken)
  BY <1>1, <1>2, <1>12, CacheShifted
<1> QED
  BY <1>1, <1>10, <1>12, <1>13, InvNext

LEMMA SortedOver ==
  ASSUME NEW p, Keeps(p), NEW n \in Node, n \notin DOMAIN ptr, NEW d \in Datum, NEW k \in 0 .. size - 1,
         Sorted(n, d, k, List!At[k]), answers' = TRUE
  PROVE  ListInv'
<1>1. IsPath(p) /\ IsCache(cache, p, headTaken) /\ headTaken \in BOOLEAN
  BY DEF Keeps
<1> DEFINE j == k + 1
<1>2. /\ k \in 0 .. Len(p) - 1 /\ size = Len(p) /\ Len(p) \in Nat /\ k \in Nat /\ p \in Seq(Node)
      /\ DOMAIN ptr = Nodes(p) /\ DOMAIN data = Nodes(p) /\ Once(p)
      /\ content \in Seq(Datum) /\ Len(content) = Len(p)
      /\ j \in 1 .. Len(p) /\ j - 1 = k /\ (k = 0 <=> j = 1)
      /\ \A i \in 1 .. Len(p) : p[i] \in Nodes(p)
  BY <1>1, PathIs
<1>3. List!At[k] = p[j] /\ ptr[p[j]] = Link(p, j) /\ p[j] \in Node /\ p[j] \in Nodes(p) /\ p[j] # List!NoNode
  BY <1>1, <1>2, KthIs, NoNodeIs
<1>4. p[j] # n
  BY <1>2, <1>3
<1>5. k # 0 => List!At[k - 1] = p[j - 1] /\ j - 1 \in 1 .. Len(p) /\ p[j - 1] # p[j]
  <2> SUFFICES ASSUME k # 0 PROVE List!At[k - 1] = p[j - 1] /\ j - 1 \in 1 .. Len(p) /\ p[j - 1] # p[j]
    OBVIOUS
  <2>1. k - 1 \in 0 .. Len(p) - 1 /\ (k - 1) + 1 = j - 1 /\ j - 1 \in 1 .. Len(p) /\ j - 1 # j
    BY <1>2
  <2>2. List!At[k - 1] = p[(k - 1) + 1]
    BY <1>1, <2>1, KthIs
  <2> QED
    BY <1>2, <2>1, <2>2 DEF Once
<1>6. PICK q \in Seq(Node) : Swapped(p, q, j, n)
  BY <1>2, ReplaceIs
<1>7. j = k + 1
  OBVIOUS
<1> HIDE DEF j
<1> DEFINE linked == List!Set(IF k = 0 THEN ptr ELSE List!Set(ptr, p[j - 1], n), n, Link(p, j))
<1>8. /\ ptr' = List!Without(linked, p[j]) /\ data' = List!Without(List!Set(data, n, d), p[j])
      /\ first' = (IF k = 0 THEN n ELSE first)
      /\ last' = (IF Link(p, j) = List!NoNode THEN n ELSE last)
      /\ size' = size /\ cache' = List!Drop(cache, p[j]) /\ headTaken' = headTaken
      /\ content' = List!ReplaceAt(content, j, d)
  BY <1>3, <1>5, <1>7 DEF Sorted
<1>9. /\ DOMAIN linked = Nodes(p) \cup {n} /\ linked[n] = Link(p, j) /\ (k # 0 => linked[p[j - 1]] = n)
      /\ \A m \in Nodes(p) : (k = 0 \/ m # p[j - 1]) => linked[m] = ptr[m]
  <2>1. CASE k = 0
    BY <1>2, <2>1 DEF List!Set
  <2>2. CASE k # 0
    <3> DEFINE m == p[j - 1]
               w == Link(p, j)
    <3>1. m \in DOMAIN ptr /\ linked = List!Set(List!Set(ptr, m, n), n, w)
      BY <1>2, <1>5, <2>2
    <3> HIDE DEF m, w, linked
    <3>2. /\ DOMAIN linked = DOMAIN ptr \cup {n} /\ linked[n] = w /\ linked[m] = n
          /\ \A x \in DOMAIN ptr : x # m => linked[x] = ptr[x]
      BY <3>1 DEF List!Set
    <3> QED
      BY <1>2, <2>2, <3>2 DEF m, w
  <2> QED
    BY <2>1, <2>2
<1> HIDE DEF linked
<1>10. /\ DOMAIN ptr' = (Nodes(p) \cup {n}) \ {p[j]} /\ ptr'[n] = Link(p, j)
       /\ \A m \in Nodes(p) : m # p[j] => ptr'[m] = linked[m]
  BY <1>4, <1>8, <1>9 DEF List!Without
<1>11. /\ DOMAIN data' = (Nodes(p) \cup {n}) \ {p[j]} /\ data'[n] = d
       /\ \A m \in Nodes(p) : m # p[j] => data'[m] = data[m]
  BY <1>2, <1>4, <1>8 DEF List!Without, List!Set
<1>12. j > 1 => ptr'[p[j - 1]] = n
  BY <1>2, <1>5, <1>9, <1>10
<1>13. ASSUME NEW i \in 1 .. Len(p), i # j
       PROVE  (i # j - 1 => ptr'[p[i]] = ptr[p[i]]) /\ data'[p[i]] = data[p[i]]
  <2>1. p[i] # p[j] /\ p[i] \in Nodes(p)
    BY <1>2, <1>13 DEF Once
  <2>2. i # j - 1 => (k = 0 \/ p[i] # p[j - 1])
    BY <1>2, <1>5 DEF Once
  <2> QED
    BY <1>9, <1>10, <1>11, <2>1, <2>2
<1>14. last' = IF j = Len(p) THEN n ELSE last
  <2>1. Link(p, j) = List!NoNode <=> j = Len(p)
    <3>1. j # Len(p) => j \in 0 .. Len(p) - 1
      BY <1>2
    <3>2. j \in Nat /\ Len(p) >= Len(p)
      BY <1>2
    <3> QED
      BY <1>1, <1>2, <3>1, <3>2, LinkIs, NoNodeIs
  <2> QED
    BY <1>8, <2>1
<1>15. content' \in Seq(Datum) /\ Swapped(content, content', j, d)
  BY <1>2, <1>8, ReplaceIs
<1>16. first' = IF j = 1 THEN n ELSE first
  BY <1>2, <1>8
<1>17. n \notin Nodes(p) /\ size' = size
  BY <1>2, <1>8
<1>18. \A i \in 1 .. Len(p) : i # j /\ i # j - 1 => ptr'[p[i]] = ptr[p[i]]
  BY <1>13
<1>19. \A i \in 1 .. Len(p) : i # j => data'[p[i]] = data[p[i]]
  BY <1>13
<1>20. IsPath(q)' /\ Nodes(q) = (Nodes(p) \cup {n}) \ {p[j]}
  <2>1. /\ DOMAIN ptr' = (Nodes(p) \cup {n}) \ {p[j]} /\ DOMAIN data' = (Nodes(p) \cup {n}) \ {p[j]}
        /\ ptr'[n] = Link(p, j) /\ data'[n] = d /\ j \in 1 .. Len(p)
    BY <1>2, <1>10, <1>11
  <2>2. Swapping(p, n, d, j)
    BY <1>12, <1>14, <1>15, <1>16, <1>17, <1>18, <1>19, <2>1 DEF Swapping
  <2> QED
    BY <1>1, <1>6, <1>17, <2>1, <2>2, Swaps
<1>21. IsCache(List!Drop(cache, p[j]), q, headTaken)
  BY <1>1, <1>2, <1>6, <1>20, CacheSwapped
<1> QED
  BY <1>1, <1>8, <1>20, <1>21, InvNext

LEMMA ListInsertSorted ==
  ASSUME NEW p, Keeps(p), NEW n, NEW d \in Datum, NEW replace \in BOOLEAN, List!InsertSorted(n, d, replace)
  PROVE  ListInv'
<1>1. IsPath(p) /\ size \in Nat
  BY PathIs DEF Keeps
<1>2. n \in Node /\ n \notin DOMAIN ptr /\ answers' = TRUE
  BY <1>1, SortedIs
<1>3. PICK k \in 0 .. size : Sorted(n, d, k, Twin(k, d, replace))
  BY <1>1, SortedIs
<1>4. CASE k < size /\ replace /\ d = data[List!At[k]]
  <2>1. Twin(k, d, replace) = List!At[k] /\ k \in 0 .. size - 1
    BY <1>1, <1>4 DEF Twin
  <2>2. Sorted(n, d, k, List!At[k])
    BY <1>3, <2>1
  <2> QED
    BY <1>2, <2>1, <2>2, SortedOver
<1>5. CASE ~ (k < size /\ replace /\ d = data[List!At[k]])
  <2>1. Twin(k, d, replace) = List!NoNode
    BY <1>5 DEF Twin
  <2>2. Sorted(n, d, k, List!NoNode)
    BY <1>3, <2>1
  <2> QED
    BY <1>2, <2>2, SortedIn
<1> QED
  BY <1>4, <1>5

LEMMA ListStep ==
  ASSUME ListInv, [List!Next]_listVars
  PROVE  ListInv'
<1>1. PICK p : Keeps(p)
  BY DEF ListInv, Keeps
<1>2. ListMax \in Nat /\ \A k \in 0 .. ListMax : k \in Nat
  BY ListAssumption
<1>3. ASSUME NEW n \in Node, NEW d \in Datum, List!Add(n, d) PROVE ListInv'
  BY <1>1, <1>3, ListAdd
<1>4. ASSUME NEW n \in Node, NEW d \in Datum, NEW k \in 0 .. ListMax, List!Insert(n, k, d) PROVE ListInv'
  BY <1>1, <1>2, <1>4, ListInsert
<1>5. ASSUME NEW n \in Node, NEW d \in Datum, NEW replace \in BOOLEAN, List!InsertSorted(n, d, replace)
      PROVE  ListInv'
  BY <1>1, <1>5, ListInsertSorted
<1>6. ASSUME List!Full, List!Refused PROVE ListInv'
  BY <1>1, <1>6, ListRefused
<1>7. ASSUME NEW k \in 0 .. ListMax, List!Get(k) PROVE ListInv'
  BY <1>1, <1>2, <1>7, ListGet
<1>8. ASSUME NEW k \in 0 .. ListMax, List!RemoveIdx(k) PROVE ListInv'
  BY <1>1, <1>2, <1>8, ListRemoveIdx
<1>9. ASSUME List!GetLast PROVE ListInv'
  BY <1>1, <1>9, ListGetLast
<1>10. ASSUME List!RemoveLast PROVE ListInv'
  BY <1>1, <1>10, ListRemoveLast
<1>11. ASSUME List!Clear PROVE ListInv'
  BY <1>11, ListClear
<1>12. ASSUME NEW d \in Datum, List!RemoveData(d) PROVE ListInv'
  BY <1>1, <1>12, ListRemoveData
<1>13. ASSUME NEW d \in Datum, List!NoSuchData(d) PROVE ListInv'
  BY <1>1, <1>13, ListNoSuchData
<1>14. ASSUME UNCHANGED listVars PROVE ListInv'
  <2>1. UNCHANGED <<ptr, data, first, last, size, cache, content, answers, headTaken>>
    BY <1>14 DEF listVars
  <2>2. IsPath(p)'
    BY <1>1, <2>1 DEF Keeps, IsPath, Nodes, Link, List!NoNode
  <2> QED
    BY <1>1, <2>1, <2>2, InvNext DEF Keeps
<1> QED
  BY <1>3, <1>4, <1>5, <1>6, <1>7, <1>8, <1>9, <1>10, <1>11, <1>12, <1>13, <1>14 DEF List!Next

(* linkedlist.c: the links lead through the elements in order, whatever    *)
(* was inserted and removed where, no cached position is of a freed node   *)
(* or off, and the answers are right, unless linkedlist_remove_data took   *)
(* the first element, for any addresses, max_size and size of the cache.   *)
THEOREM ListIsFaithful == Spec => []ListFaithful
<1>1. Init => ListInv
  BY ListInit DEF Init
<1>2. ListInv /\ [Next]_vars => ListInv'
  <2> SUFFICES ASSUME ListInv, [Next]_vars
               PROVE  ListInv'
    OBVIOUS
  <2>1. [List!Next]_listVars
    BY DEF Next, vars
  <2> QED
    BY <2>1, ListStep
<1>3. ListInv => ListFaithful
  <2> SUFFICES ASSUME ListInv
               PROVE  List!Faithful
    BY DEF ListFaithful
  <2>1. PICK p : Keeps(p)
    BY DEF ListInv, Keeps
  <2>2. IsPath(p) /\ IsCache(cache, p, headTaken) /\ (answers \/ headTaken) /\ headTaken \in BOOLEAN
    BY <2>1 DEF Keeps
  <2>3. size = Len(p) /\ Len(p) \in Nat /\ Len(content) = Len(p) /\ DOMAIN ptr = Nodes(p)
    BY <2>2, PathIs
  <2>4. ASSUME NEW k \in 1 .. size
        PROVE  List!At[k - 1] \in List!Heap /\ data[List!At[k - 1]] = content[k] /\ List!At[k - 1] = p[k]
    <3>1. k - 1 \in 0 .. Len(p) - 1 /\ (k - 1) + 1 = k
      BY <2>3
    <3>2. /\ List!At[k - 1] = p[(k - 1) + 1] /\ p[(k - 1) + 1] \in Nodes(p)
          /\ data[p[(k - 1) + 1]] = content[(k - 1) + 1]
      BY <2>2, <3>1, KthIs
    <3> QED
      BY <2>3, <3>1, <3>2 DEF List!Heap
  <2>5. List!At[size] = List!NoNode
    BY <2>2, <2>3, AtIs, LinkIs
  <2>6. size > 0 => last = List!At[size - 1]
    <3>1. size > 0 => size \in 1 .. size
      BY <2>3
    <3> QED
      BY <2>2, <2>3, <2>4, <3>1, PathIs
  <2>7. List!Linked
    BY <2>3, <2>4, <2>5, <2>6 DEF List!Linked
  <2>8. ASSUME NEW i \in 1 .. CacheSize, cache[i].ent # List!NoNode
        PROVE  /\ cache[i].ent \in List!Heap
               /\ ~headTaken => cache[i].ent = List!At[cache[i].idx]
    <3>1. /\ cache[i].ent \in Nodes(p)
          /\ ~headTaken => cache[i].idx \in 0 .. Len(p) - 1 /\ p[cache[i].idx + 1] = cache[i].ent
      BY <2>2, <2>8, CacheIs
    <3> DEFINE x == cache[i].idx
    <3>2. ASSUME ~headTaken PROVE cache[i].ent = List!At[x]
      <4>1. x \in 0 .. Len(p) - 1 /\ p[x + 1] = cache[i].ent
        BY <3>1, <3>2
      <4> HIDE DEF x
      <4>2. List!At[x] = p[x + 1]
        BY <2>2, <4>1, KthIs
      <4> QED
        BY <4>1, <4>2
    <3> QED
      BY <2>3, <3>1, <3>2 DEF List!Heap
  <2>9. List!CacheCoherent
    BY <2>8 DEF List!CacheCoherent
  <2> QED
    BY <2>2, <2>7, <2>9 DEF List!Faithful
<1> QED
  BY <1>1, <1>2, <1>3, PTL DEF Spec

(***************************************************************************)
(* The hash map, for any hash function, any load factor and any table of   *)
(* prime sizes that at most quadruple.                                     *)
(***************************************************************************)

(* A function that does not take a value twice takes them all.             *)
LEMMA OnceIsAll ==
  ASSUME NEW n \in Nat, NEW f \in [0 .. n - 1 -> 0 .. n - 1],
         \A i, j \in 0 .. n - 1 : i < j => f[i] # f[j],
         NEW s \in 0 .. n - 1
  PROVE  \E i \in 0 .. n - 1 : f[i] = s
<1>1. IsFiniteSet(0 .. n - 1)
  BY FS_Interval
<1>2. f \in Injection(0 .. n - 1, 0 .. n - 1)
  <2>1. \A i, j \in 0 .. n - 1 : f[i] = f[j] => i = j
    OBVIOUS
  <2> QED
    BY <2>1 DEF Injection, IsInjective
<1>3. f \in Surjection(0 .. n - 1, 0 .. n - 1)
  BY <1>1, <1>2, FS_Injection
<1> QED
  BY <1>3 DEF Surjection

(* The instance brings operators of FiniteSets and FiniteSetsExt with it.  *)
LEMMA MapCounts == \A S : Map!Cardinality(S) = Cardinality(S)
BY Zenon DEF Map!Cardinality, Cardinality

LEMMA MapMins == \A S : Map!Min(S) = Min(S)
BY Zenon DEF Map!Min, Min

(* What a slot can hold, and the slots that hold an entry.                 *)
MapSlots == {Map!Empty, Map!Deleted} \cup {Map!Entry(k, v) : k \in Key, v \in Value}
Occupied(t) == {s \in DOMAIN t : Map!Used(t[s])}

(* A search for k gets to s before an empty slot.                          *)
Leads(t, k, s, n) ==
  \E i \in 0 .. n - 1 : /\ Map!Probe(k, i, n) = s
                        /\ \A j \in 0 .. i - 1 : t[Map!Probe(k, j, n)] # Map!Empty
Placed(t, s, n) == Leads(t, t[s].key, s, n)
IsTable(t, n) == t \in [0 .. n - 1 -> MapSlots] /\ \A s \in Occupied(t) : Placed(t, s, n)

(* The entries are those of m, each once. *)
Agrees(t, m) ==
  /\ \A r, s \in Occupied(t) : t[r].key = t[s].key => r = s
  /\ \A s \in Occupied(t) : t[s].key \in DOMAIN m /\ t[s].value = m[t[s].key]
  /\ \A k \in DOMAIN m : \E s \in Occupied(t) : t[s].key = k

MapInv ==
  /\ tableSizeIndex \in 0 .. Len(TableSizes)
  /\ IF tableSizeIndex = 0 THEN table = <<>> ELSE IsTable(table, TableSizes[tableSizeIndex])
  /\ entries = Cardinality(Occupied(table))
  /\ fine \/ doubled
  /\ doubled \/ Agrees(table, map)

IsTableSize(n) == n \in Nat /\ n >= 3 /\ \A d \in 2 .. n - 1 : n % d # 0

LEMMA TableSizeIs ==
  ASSUME NEW i \in 1 .. Len(TableSizes)
  PROVE  IsTableSize(TableSizes[i])
BY MapAssumption, ElementOfSeq DEF IsTableSize

LEMMA SlotKinds ==
  /\ Map!Empty \in MapSlots /\ Map!Deleted \in MapSlots
  /\ ~Map!Used(Map!Empty) /\ ~Map!Used(Map!Deleted) /\ Map!Deleted # Map!Empty
  /\ \A e \in MapSlots : ~Map!Used(e) => e = Map!Empty \/ e = Map!Deleted
  /\ \A e \in MapSlots : Map!Used(e) => e.key \in Key
  /\ \A k \in Key, v \in Value :
       LET e == Map!Entry(k, v)
       IN e \in MapSlots /\ Map!Used(e) /\ e.key = k /\ e.value = v /\ e # Map!Empty
<1>1. \A k, v : LET e == Map!Entry(k, v)
                IN Map!Used(e) /\ e.key = k /\ e.value = v
  BY DEF Map!Entry, Map!Used
<1>2. ~Map!Used(Map!Empty) /\ ~Map!Used(Map!Deleted) /\ Map!Deleted # Map!Empty
  BY DEF Map!Empty, Map!Deleted, Map!Used
<1>3. \A e \in MapSlots : Map!Used(e) => e.key \in Key
  <2> SUFFICES ASSUME NEW e \in MapSlots, Map!Used(e) PROVE e.key \in Key
    OBVIOUS
  <2>1. PICK k \in Key, v \in Value : e = Map!Entry(k, v)
    BY <1>2 DEF MapSlots
  <2> QED
    BY <1>1, <2>1
<1>4. \A e \in MapSlots : ~Map!Used(e) => e = Map!Empty \/ e = Map!Deleted
  <2> SUFFICES ASSUME NEW e \in MapSlots, e # Map!Empty, e # Map!Deleted PROVE Map!Used(e)
    BY Zenon
  <2>1. PICK k \in Key, v \in Value : e = Map!Entry(k, v)
    BY DEF MapSlots
  <2> QED
    BY <1>1, <2>1
<1>5. \A k \in Key, v \in Value : Map!Entry(k, v) \in MapSlots
  BY DEF MapSlots
<1>6. \A k, v : Map!Entry(k, v) # Map!Empty
  BY <1>1, <1>2, Zenon
<1>7. Map!Empty \in MapSlots /\ Map!Deleted \in MapSlots
  BY DEF MapSlots
<1> QED
  BY <1>1, <1>2, <1>3, <1>4, <1>5, <1>6, <1>7

LEMMA ProbeIs ==
  ASSUME NEW n, IsTableSize(n), NEW k \in Key
  PROVE  /\ \A i \in 0 .. n : Map!Probe(k, i, n) \in 0 .. n - 1
         /\ \A s \in 0 .. n - 1 : \E i \in 0 .. n - 1 : Map!Probe(k, i, n) = s
<1>1. n \in Nat /\ n >= 3 /\ n >= 2 /\ \A d \in 2 .. n - 1 : n % d # 0
  BY DEF IsTableSize
<1> DEFINE h == Hash[k]
           a == 1 + (h % (n - 2))
<1>2. h \in Nat
  BY MapAssumption
<1>3. a \in 1 .. n - 1
  <2>1. n - 2 \in Nat \ {0}
    BY <1>1
  <2>2. h % (n - 2) \in 0 .. (n - 2) - 1
    BY <1>2, <2>1, Division
  <2> QED
    BY <1>1, <2>2
<1>4. \A i \in Nat : Map!Probe(k, i, n) = (h + i * a) % n
  BY Zenon DEF Map!Probe
<1> HIDE DEF h, a
<1>5. \A i \in Nat : Map!Probe(k, i, n) \in 0 .. n - 1
  <2> SUFFICES ASSUME NEW i \in Nat PROVE (h + i * a) % n \in 0 .. n - 1
    BY <1>4
  <2> DEFINE p == i * a
  <2>1. p \in Nat
    BY <1>1, <1>3
  <2> HIDE DEF p
  <2>2. (h + p) % n \in 0 .. n - 1
    BY <1>1, <1>2, <2>1, Division
  <2> QED
    BY <2>2 DEF p
<1>6. 0 .. n \subseteq Nat /\ 0 .. n - 1 \subseteq 0 .. n
  BY <1>1
<1> DEFINE f == [i \in 0 .. n - 1 |-> Map!Probe(k, i, n)]
<1>7. f \in [0 .. n - 1 -> 0 .. n - 1]
  BY <1>5, <1>6
<1>8. ASSUME NEW i \in 0 .. n - 1, NEW j \in 0 .. n - 1, i < j PROVE f[i] # f[j]
  <2>1. (h + i * a) % n # (h + j * a) % n
    BY <1>1, <1>2, <1>3, <1>8, Circling
  <2> QED
    BY <1>4, <1>6, <2>1
<1>9. ASSUME NEW s \in 0 .. n - 1 PROVE \E i \in 0 .. n - 1 : f[i] = s
  <2> HIDE DEF f
  <2>1. \A i, j \in 0 .. n - 1 : i < j => f[i] # f[j]
    BY <1>8
  <2> QED
    BY <1>1, <1>7, <2>1, OnceIsAll
<1> QED
  BY <1>5, <1>6, <1>9

LEMMA TableIs ==
  ASSUME NEW n, IsTableSize(n), NEW t, IsTable(t, n)
  PROVE  /\ t \in [0 .. n - 1 -> MapSlots] /\ DOMAIN t = 0 .. n - 1 /\ t # <<>>
         /\ Map!Cardinality(DOMAIN t) = n /\ Cardinality(DOMAIN t) = n
         /\ IsFiniteSet(DOMAIN t) /\ IsFiniteSet(Occupied(t)) /\ Cardinality(Occupied(t)) \in 0 .. n
         /\ Occupied(t) \subseteq 0 .. n - 1
         /\ \A s \in Occupied(t) : Map!Used(t[s]) /\ t[s].key \in Key /\ Placed(t, s, n)
<1>1. n \in Nat /\ n >= 3
  BY DEF IsTableSize
<1>2. t \in [0 .. n - 1 -> MapSlots] /\ DOMAIN t = 0 .. n - 1
  BY DEF IsTable
<1>3. Cardinality(0 .. n - 1) = n /\ IsFiniteSet(0 .. n - 1)
  <2>1. 0 \in Int /\ n - 1 \in Int /\ ~(0 > n - 1) /\ (n - 1) - 0 + 1 = n
    BY <1>1
  <2> QED
    BY <2>1, FS_Interval
<1>4. Occupied(t) \in SUBSET (0 .. n - 1)
  BY <1>2 DEF Occupied
<1>5. IsFiniteSet(Occupied(t)) /\ Cardinality(Occupied(t)) <= n
  BY <1>3, <1>4, FS_Subset
<1>6. Cardinality(Occupied(t)) \in Nat
  BY <1>5, FS_CardinalityType
<1>7. \A s \in Occupied(t) : Map!Used(t[s]) /\ t[s] \in MapSlots
  BY <1>2 DEF Occupied
<1>8. \A s \in Occupied(t) : t[s].key \in Key
  BY <1>7, SlotKinds
<1>9. t # <<>>
  <2>1. 0 \in DOMAIN t
    BY <1>1, <1>2
  <2>2. 0 \notin DOMAIN <<>>
    OBVIOUS
  <2> QED
    BY <2>1, <2>2
<1> DEFINE c == Cardinality(Occupied(t))
<1>10. c \in 0 .. n
  <2> HIDE DEF c
  <2>1. c \in Nat /\ c <= n
    BY <1>5, <1>6 DEF c
  <2> QED
    BY <1>1, <2>1
<1>11. Map!Cardinality(DOMAIN t) = n
  BY <1>2, <1>3, MapCounts
<1>12. \A s \in Occupied(t) : Placed(t, s, n)
  BY DEF IsTable
<1> QED
  BY <1>2, <1>3, <1>4, <1>5, <1>7, <1>8, <1>9, <1>10, <1>11, <1>12

(* Fewer entries than slots leave a slot. *)
LEMMA FreeSlot ==
  ASSUME NEW n, IsTableSize(n), NEW t, IsTable(t, n)
  PROVE  Cardinality(Occupied(t)) = n <=> \A s \in 0 .. n - 1 : Map!Used(t[s])
<1>1. DOMAIN t = 0 .. n - 1 /\ IsFiniteSet(DOMAIN t) /\ Cardinality(DOMAIN t) = n
  BY TableIs
<1>2. Occupied(t) \in SUBSET DOMAIN t
  BY DEF Occupied
<1>3. Cardinality(Occupied(t)) = n <=> Occupied(t) = DOMAIN t
  BY <1>1, <1>2, FS_Subset
<1> QED
  BY <1>1, <1>3 DEF Occupied

(* A search ends at the first of its stops, or nowhere if there is none.   *)
LEMMA FoundIs ==
  ASSUME NEW n, IsTableSize(n), NEW t, IsTable(t, n), NEW k \in Key, NEW stops \in SUBSET (0 .. n - 1)
  PROVE  LET s == Map!Found(t, k, stops)
         IN /\ s = -1 <=> stops = {}
            /\ s # -1 => /\ s \in stops
                         /\ \E i \in 0 .. n - 1 : /\ Map!Probe(k, i, n) = s
                                                  /\ \A j \in 0 .. i - 1 : Map!Probe(k, j, n) \notin stops
<1>1. n \in Nat /\ n >= 3
  BY DEF IsTableSize
<1> DEFINE hits == {i \in 0 .. n - 1 : Map!Probe(k, i, n) \in stops}
<1>2. Map!Found(t, k, stops) = IF hits = {} THEN -1 ELSE Map!Probe(k, Min(hits), n)
  <2>1. Map!Cardinality(DOMAIN t) = n
    BY TableIs
  <2>2. Map!Min(hits) = Min(hits)
    BY MapMins
  <2> QED
    BY <2>1, <2>2, Zenon DEF Map!Found
<1>3. hits = {} <=> stops = {}
  <2>1. \A s \in stops : \E i \in 0 .. n - 1 : Map!Probe(k, i, n) = s
    BY ProbeIs
  <2> QED
    BY <2>1
<1>4. CASE hits = {}
  BY <1>2, <1>3, <1>4
<1>5. CASE hits # {}
  <2>1. hits \in SUBSET Nat
    BY <1>1
  <2> DEFINE m == Min(hits)
  <2>2. m \in hits /\ \A j \in hits : m <= j
    BY <1>5, <2>1, MinIsLeast
  <2> HIDE DEF m
  <2>3. m \in 0 .. n - 1 /\ Map!Probe(k, m, n) \in stops
    BY <2>2
  <2>4. \A j \in 0 .. m - 1 : Map!Probe(k, j, n) \notin stops
    <3> SUFFICES ASSUME NEW j \in 0 .. m - 1, Map!Probe(k, j, n) \in stops PROVE FALSE
      OBVIOUS
    <3>1. j \in 0 .. n - 1
      BY <1>1, <2>3
    <3>2. m <= j
      BY <2>2, <3>1
    <3> QED
      BY <2>3, <3>2
  <2>5. Map!Found(t, k, stops) = Map!Probe(k, m, n)
    BY <1>2, <1>5 DEF m
  <2>6. Map!Found(t, k, stops) # -1
    BY <1>1, <2>3, <2>5
  <2> HIDE DEF hits
  <2> QED
    BY <1>3, <1>5, <2>3, <2>4, <2>5, <2>6
<1> QED
  BY <1>4, <1>5

(* The search for a key finds an entry that holds it, if there is one.     *)
LEMMA SlotIs ==
  ASSUME NEW n, IsTableSize(n), NEW t, IsTable(t, n), NEW k \in Key
  PROVE  LET s == Map!Slot(t, k)
         IN /\ s # -1 /\ Map!Used(t[s]) => s \in Occupied(t) /\ t[s].key = k
            /\ (\E r \in Occupied(t) : t[r].key = k) => s # -1 /\ Map!Used(t[s])
<1> DEFINE s == Map!Slot(t, k)
           stops == {i \in DOMAIN t : t[i] = Map!Empty \/ Map!Holds(t[i], k)}
<1>1. DOMAIN t = 0 .. n - 1 /\ n \in Nat
  BY TableIs DEF IsTableSize
<1>2. s = Map!Found(t, k, stops) /\ stops \in SUBSET (0 .. n - 1)
  BY <1>1 DEF Map!Slot
<1> HIDE DEF s
<1>3. /\ s = -1 <=> stops = {}
      /\ s # -1 => /\ s \in stops
                   /\ \E i \in 0 .. n - 1 : /\ Map!Probe(k, i, n) = s
                                            /\ \A j \in 0 .. i - 1 : Map!Probe(k, j, n) \notin stops
  <2> HIDE DEF stops
  <2> QED
    BY <1>2, FoundIs
<1>4. ASSUME s # -1, Map!Used(t[s]) PROVE s \in Occupied(t) /\ t[s].key = k
  <2>1. s \in DOMAIN t /\ (t[s] = Map!Empty \/ Map!Holds(t[s], k))
    BY <1>3, <1>4
  <2>2. t[s] # Map!Empty
    BY <1>4, SlotKinds
  <2> QED
    BY <1>4, <2>1, <2>2 DEF Occupied, Map!Holds
<1>5. ASSUME NEW r \in Occupied(t), t[r].key = k PROVE s # -1 /\ Map!Used(t[s])
  <2>1. r \in 0 .. n - 1 /\ Map!Used(t[r])
    BY TableIs
  <2>2. r \in stops
    BY <1>1, <1>5, <2>1 DEF Map!Holds
  <2>3. PICK a \in 0 .. n - 1 : /\ Map!Probe(k, a, n) = r
                                /\ \A j \in 0 .. a - 1 : t[Map!Probe(k, j, n)] # Map!Empty
    BY <1>5, TableIs DEF Placed, Leads
  <2>4. s # -1 /\ s \in stops
    BY <1>3, <2>2
  <2>5. PICK i \in 0 .. n - 1 : /\ Map!Probe(k, i, n) = s
                                /\ \A j \in 0 .. i - 1 : Map!Probe(k, j, n) \notin stops
    BY <1>3, <2>4
  <2>6. ~(a < i)
    <3> SUFFICES ASSUME a < i PROVE FALSE
      OBVIOUS
    <3>1. a \in 0 .. i - 1
      BY <1>1
    <3> QED
      BY <2>2, <2>3, <2>5, <3>1
  <2>7. t[s] # Map!Empty
    <3>1. CASE i = a
      BY <2>1, <2>3, <2>5, <3>1, SlotKinds
    <3>2. CASE i # a
      <4>1. i \in 0 .. a - 1
        BY <1>1, <2>6, <3>2
      <4> QED
        BY <2>3, <2>5, <4>1
    <3> QED
      BY <3>1, <3>2
  <2>8. Map!Holds(t[s], k)
    BY <2>4, <2>7
  <2> QED
    BY <2>4, <2>8 DEF Map!Holds
<1> QED
  BY <1>4, <1>5 DEF s

(* An entry put into the first slot without one stays reachable, and so do *)
(* the others.                                                             *)
Store(t, s, e) == [t EXCEPT ![s] = e]

LEMMA StoreIs ==
  ASSUME NEW n, IsTableSize(n), NEW t, IsTable(t, n),
         NEW e \in MapSlots, Map!Used(e), NEW s \in 0 .. n - 1, ~Map!Used(t[s]),
         Leads(t, e.key, s, n)
  PROVE  LET u == Store(t, s, e)
         IN /\ IsTable(u, n) /\ u[s] = e /\ \A r \in Occupied(t) : r # s /\ u[r] = t[r]
            /\ Occupied(u) = Occupied(t) \cup {s} /\ s \notin Occupied(t)
            /\ Cardinality(Occupied(u)) = Cardinality(Occupied(t)) + 1
<1> DEFINE u == Store(t, s, e)
<1>0. n \in Nat /\ n >= 3
  BY DEF IsTableSize
<1>1. t \in [0 .. n - 1 -> MapSlots] /\ DOMAIN t = 0 .. n - 1 /\ IsFiniteSet(Occupied(t))
  BY TableIs
<1>2. /\ u \in [0 .. n - 1 -> MapSlots] /\ DOMAIN u = 0 .. n - 1 /\ u[s] = e
      /\ \A r \in 0 .. n - 1 : r # s => u[r] = t[r]
  BY <1>1 DEF Store
<1> HIDE DEF u
<1>3. s \notin Occupied(t) /\ Occupied(t) \subseteq 0 .. n - 1
  BY <1>1 DEF Occupied
<1>4. Occupied(u) = Occupied(t) \cup {s}
  BY <1>1, <1>2 DEF Occupied
<1>5. Cardinality(Occupied(u)) = Cardinality(Occupied(t)) + 1
  BY <1>1, <1>3, <1>4, FS_AddElement
<1>6. e # Map!Empty /\ e.key \in Key
  BY SlotKinds
<1>7. \A r \in 0 .. n - 1 : t[r] # Map!Empty => u[r] # Map!Empty
  BY <1>2, <1>6
<1>8. \A k \in Key : \A j \in 0 .. n : Map!Probe(k, j, n) \in 0 .. n - 1
  BY ProbeIs
<1>9. ASSUME NEW r \in Occupied(t) PROVE Placed(u, r, n) /\ r # s /\ u[r] = t[r]
  <2>1. r # s /\ r \in 0 .. n - 1 /\ u[r] = t[r]
    BY <1>2, <1>3
  <2>2. t[r].key \in Key /\ Placed(t, r, n)
    BY TableIs
  <2>3. PICK a \in 0 .. n - 1 : /\ Map!Probe(t[r].key, a, n) = r
                                /\ \A j \in 0 .. a - 1 : t[Map!Probe(t[r].key, j, n)] # Map!Empty
    BY <2>2, Zenon DEF Placed, Leads
  <2>4. \A j \in 0 .. a - 1 : j \in 0 .. n
    BY <1>0
  <2>5. \A j \in 0 .. a - 1 : u[Map!Probe(t[r].key, j, n)] # Map!Empty
    BY <1>7, <1>8, <2>2, <2>3, <2>4
  <2> QED
    BY <2>1, <2>3, <2>5 DEF Placed, Leads
<1>10. Placed(u, s, n)
  <2>0. PICK i \in 0 .. n - 1 : /\ Map!Probe(e.key, i, n) = s
                               /\ \A j \in 0 .. i - 1 : t[Map!Probe(e.key, j, n)] # Map!Empty
    BY Zenon DEF Leads
  <2>1. \A j \in 0 .. i - 1 : j \in 0 .. n
    BY <1>0
  <2>2. \A j \in 0 .. i - 1 : u[Map!Probe(e.key, j, n)] # Map!Empty
    BY <1>6, <1>7, <1>8, <2>0, <2>1
  <2> QED
    BY <1>2, <2>0, <2>2 DEF Placed, Leads
<1>11. IsTable(u, n)
  BY <1>2, <1>4, <1>9, <1>10 DEF IsTable
<1> QED
  BY <1>2, <1>3, <1>4, <1>5, <1>9, <1>11 DEF u

(* hashmap_resize puts one entry after the other into the new table.       *)
Places(t, e, n) ==
  LET i == Map!Min({j \in 0 .. n : t[Map!Probe(e.key, j, n)] = Map!Empty})
  IN [t EXCEPT ![Map!Probe(e.key, i, n)] = e]
Bare(n) == [s \in 0 .. n - 1 |-> Map!Empty]
Moving(f, n, m) ==
  [j \in 0 .. m |-> IF j = 0 THEN Bare(n)
                    ELSE IF Map!Used(table[j - 1]) THEN Places(f[j - 1], table[j - 1], n) ELSE f[j - 1]]

LEMMA PlacesIs ==
  ASSUME NEW n, IsTableSize(n), NEW t, IsTable(t, n), \A s \in 0 .. n - 1 : t[s] # Map!Deleted,
         Cardinality(Occupied(t)) < n, NEW e \in MapSlots, Map!Used(e)
  PROVE  LET u == Places(t, e, n)
         IN /\ IsTable(u, n) /\ \A s \in 0 .. n - 1 : u[s] # Map!Deleted
            /\ \E s \in 0 .. n - 1 : /\ s \notin Occupied(t) /\ u[s] = e
                                     /\ Occupied(u) = Occupied(t) \cup {s}
                                     /\ \A r \in Occupied(t) : u[r] = t[r]
<1> DEFINE free == {j \in 0 .. n : t[Map!Probe(e.key, j, n)] = Map!Empty}
           i == Min(free)
           s == Map!Probe(e.key, i, n)
<1>0. n \in Nat /\ n >= 3 /\ e.key \in Key /\ Map!Deleted \in MapSlots
  BY SlotKinds DEF IsTableSize
<1>1. t \in [0 .. n - 1 -> MapSlots]
  BY TableIs
<1>2. PICK r \in 0 .. n - 1 : ~Map!Used(t[r])
  <2>1. Cardinality(Occupied(t)) # n
    BY <1>0, TableIs
  <2> QED
    BY <2>1, FreeSlot
<1>3. t[r] = Map!Empty
  BY <1>1, <1>2, SlotKinds
<1>4. PICK a \in 0 .. n - 1 : Map!Probe(e.key, a, n) = r
  BY <1>0, ProbeIs
<1>5. a \in free
  BY <1>0, <1>3, <1>4
<1>6. i \in free /\ \A y \in free : i <= y
  <2>1. free \in SUBSET Nat /\ free # {}
    BY <1>0, <1>5
  <2> HIDE DEF free
  <2> QED
    BY <2>1, MinIsLeast
<1>7. Places(t, e, n) = [t EXCEPT ![s] = e]
  <2>1. Map!Min(free) = Min(free)
    BY MapMins
  <2> QED
    BY <2>1, Zenon DEF Places
<1> HIDE DEF i
<1>8. i \in 0 .. n - 1 /\ t[s] = Map!Empty
  <2>1. i \in 0 .. n /\ i <= a
    BY <1>5, <1>6
  <2> QED
    BY <1>0, <1>6, <2>1
<1>9. \A j \in 0 .. i - 1 : t[Map!Probe(e.key, j, n)] # Map!Empty
  <2> SUFFICES ASSUME NEW j \in 0 .. i - 1, t[Map!Probe(e.key, j, n)] = Map!Empty PROVE FALSE
    OBVIOUS
  <2>1. j \in free
    BY <1>0, <1>8
  <2>2. i <= j
    BY <1>6, <2>1
  <2> QED
    BY <1>8, <2>2
<1>10. s \in 0 .. n - 1 /\ ~Map!Used(t[s])
  <2>1. i \in 0 .. n
    BY <1>0, <1>8
  <2> QED
    BY <1>0, <1>8, <2>1, ProbeIs, SlotKinds
<1>11. PICK z \in 0 .. n - 1 :
         ~Map!Used(t[z]) /\ Leads(t, e.key, z, n) /\ Places(t, e, n) = Store(t, z, e)
  BY <1>7, <1>8, <1>9, <1>10 DEF Leads, Store
<1> DEFINE u == Store(t, z, e)
<1>12. /\ IsTable(u, n) /\ u[z] = e /\ \A q \in Occupied(t) : q # z /\ u[q] = t[q]
       /\ Occupied(u) = Occupied(t) \cup {z} /\ z \notin Occupied(t)
  BY <1>11, StoreIs
<1>13. \A q \in 0 .. n - 1 : u[q] # Map!Deleted
  <2>1. e # Map!Deleted
    BY SlotKinds
  <2>2. \A q \in 0 .. n - 1 : u[q] = IF q = z THEN e ELSE t[q]
    BY <1>1 DEF Store
  <2> QED
    BY <2>1, <2>2
<1> HIDE DEF u
<1> QED
  BY <1>11, <1>12, <1>13 DEF u

LEMMA MovingExists ==
  ASSUME NEW n, NEW m \in Nat
  PROVE  \E f : f = Moving(f, n, m)
<1> DEFINE G(g, j) == IF Map!Used(table[j - 1]) THEN Places(g, table[j - 1], n) ELSE g
           F(f, q) == [j \in 0 .. q |-> IF j = 0 THEN Bare(n) ELSE G(f[j - 1], j)]
           T == {q \in Nat : \E f : f = F(f, q)}
<1>0. \A f, q : Moving(f, n, q) = F(f, q)
  BY Zenon DEF Moving
<1> HIDE DEF G
<1>1. 0 \in T
  <2> DEFINE f == [j \in 0 .. 0 |-> Bare(n)]
  <2>1. f = F(f, 0)
    <3>1. \A j \in 0 .. 0 : j = 0
      OBVIOUS
    <3> QED
      BY <3>1
  <2> QED
    BY <2>1
<1>2. \A q \in Nat : q \in T => q + 1 \in T
  <2> SUFFICES ASSUME NEW q \in Nat, q \in T PROVE q + 1 \in T
    OBVIOUS
  <2>1. PICK f : f = F(f, q)
    OBVIOUS
  <2> DEFINE g == [j \in 0 .. q + 1 |-> IF j = q + 1 THEN G(f[q], q + 1) ELSE f[j]]
  <2>2. \A j \in 0 .. q : f[j] = IF j = 0 THEN Bare(n) ELSE G(f[j - 1], j)
    BY <2>1, Zenon
  <2>3. ASSUME NEW j \in 0 .. q + 1
        PROVE  g[j] = IF j = 0 THEN Bare(n) ELSE G(g[j - 1], j)
    <3>1. CASE j = q + 1
      <4>1. j # 0 /\ j - 1 = q /\ q \in 0 .. q + 1 /\ q # q + 1
        BY <3>1
      <4>2. g[q] = f[q] /\ g[j] = G(f[q], q + 1)
        BY <3>1, <4>1
      <4> QED
        BY <3>1, <4>1, <4>2
    <3>2. CASE j # q + 1
      <4>1. j \in 0 .. q /\ g[j] = f[j]
        BY <3>2
      <4>2. CASE j = 0
        BY <2>2, <4>1, <4>2
      <4>3. CASE j # 0
        <5>1. j - 1 \in 0 .. q + 1 /\ j - 1 # q + 1
          BY <3>2, <4>3
        <5>2. g[j - 1] = f[j - 1]
          BY <5>1
        <5> QED
          BY <2>2, <4>1, <4>3, <5>2
      <4> QED
        BY <4>2, <4>3
    <3> QED
      BY <3>1, <3>2
  <2> HIDE DEF g
  <2>4. g = [j \in 0 .. q + 1 |-> g[j]]
    BY DEF g
  <2>5. [j \in 0 .. q + 1 |-> g[j]] = F(g, q + 1)
    BY <2>3, Zenon
  <2>6. g = F(g, q + 1)
    BY <2>4, <2>5
  <2> QED
    BY <2>6
<1> HIDE DEF T
<1>3. m \in T
  BY <1>1, <1>2, Induction
<1> HIDE DEF F
<1> QED
  BY <1>0, <1>3 DEF T

(* What a table holds of the slots of the old one, each entry once.        *)
Earlier(m) == {s \in Occupied(table) : s < m}
Copied(u, n, m) ==
  /\ IsTable(u, n) /\ \A s \in 0 .. n - 1 : u[s] # Map!Deleted
  /\ \E g \in Bijection(Earlier(m), Occupied(u)) : \A s \in Earlier(m) : u[g[s]] = table[s]

LEMMA CopiedMore ==
  ASSUME NEW n, IsTableSize(n), NEW ts, IsTableSize(ts), IsTable(table, ts),
         Cardinality(Occupied(table)) < n, NEW m \in 0 .. ts - 1, NEW u, Copied(u, n, m)
  PROVE  Copied(IF Map!Used(table[m]) THEN Places(u, table[m], n) ELSE u, n, m + 1)
<1>0. n \in Nat /\ n >= 3 /\ ts \in Nat /\ ts >= 3
  BY DEF IsTableSize
<1>1. /\ table \in [0 .. ts - 1 -> MapSlots] /\ DOMAIN table = 0 .. ts - 1
      /\ IsFiniteSet(Occupied(table)) /\ Cardinality(Occupied(table)) \in Nat
      /\ Occupied(table) \subseteq 0 .. ts - 1
  BY TableIs
<1>2. IsTable(u, n) /\ \A s \in 0 .. n - 1 : u[s] # Map!Deleted
  BY DEF Copied
<1>3. PICK g \in Bijection(Earlier(m), Occupied(u)) : \A s \in Earlier(m) : u[g[s]] = table[s]
  BY DEF Copied
<1>4. CASE ~Map!Used(table[m])
  <2>1. Earlier(m + 1) = Earlier(m)
    <3>1. m \notin Occupied(table)
      BY <1>4 DEF Occupied
    <3>2. \A s \in Occupied(table) : s < m + 1 <=> s < m
      BY <1>0, <1>1, <3>1
    <3> QED
      BY <3>2 DEF Earlier
  <2> QED
    BY <1>4, <2>1 DEF Copied
<1>5. CASE Map!Used(table[m])
  <2> DEFINE e == table[m]
             w == Places(u, e, n)
  <2>1. m \in Occupied(table) /\ m \notin Earlier(m) /\ e \in MapSlots
    BY <1>0, <1>1, <1>5 DEF Occupied, Earlier
  <2>2. Earlier(m + 1) = Earlier(m) \cup {m}
    <3>1. \A s \in Occupied(table) : s < m + 1 <=> s < m \/ s = m
      BY <1>0, <1>1
    <3> QED
      BY <2>1, <3>1 DEF Earlier
  <2>3. Cardinality(Occupied(u)) < n
    <3>1. Earlier(m) \in SUBSET Occupied(table)
      BY DEF Earlier
    <3>2. IsFiniteSet(Earlier(m)) /\ Cardinality(Earlier(m)) <= Cardinality(Occupied(table))
      BY <1>1, <3>1, FS_Subset
    <3>3. Cardinality(Occupied(u)) = Cardinality(Earlier(m))
      <4>1. ExistsBijection(Earlier(m), Occupied(u))
        BY <1>3 DEF ExistsBijection
      <4> QED
        BY <3>2, <4>1, FS_Bijection
    <3>4. Cardinality(Earlier(m)) \in Nat
      BY <3>2, FS_CardinalityType
    <3> DEFINE x == Cardinality(Earlier(m))
               y == Cardinality(Occupied(table))
    <3>5. x < n
      <4>1. x \in Nat /\ y \in Nat /\ x <= y /\ y < n
        BY <1>1, <3>2, <3>4
      <4> HIDE DEF x, y
      <4> QED
        BY <1>0, <4>1
    <3> QED
      BY <3>3, <3>5
  <2> HIDE DEF e
  <2>4. /\ IsTable(w, n) /\ \A s \in 0 .. n - 1 : w[s] # Map!Deleted
        /\ \E s \in 0 .. n - 1 : /\ s \notin Occupied(u) /\ w[s] = e
                                 /\ Occupied(w) = Occupied(u) \cup {s}
                                 /\ \A r \in Occupied(u) : w[r] = u[r]
    BY <1>2, <1>5, <2>1, <2>3, PlacesIs DEF e
  <2>5. PICK s \in 0 .. n - 1 : /\ s \notin Occupied(u) /\ w[s] = e
                                /\ Occupied(w) = Occupied(u) \cup {s}
                                /\ \A r \in Occupied(u) : w[r] = u[r]
    BY <2>4
  <2> HIDE DEF w
  <2> DEFINE f == [r \in Earlier(m + 1) |-> IF r = m THEN s ELSE g[r]]
  <2>6. /\ g \in [Earlier(m) -> Occupied(u)]
        /\ \A p, q \in Earlier(m) : g[p] = g[q] => p = q
        /\ \A y \in Occupied(u) : \E p \in Earlier(m) : g[p] = y
    BY <1>3 DEF Bijection, Injection, Surjection, IsInjective
  <2>7. /\ f[m] = s /\ \A p \in Earlier(m) : f[p] = g[p] /\ p # m
        /\ f \in [Earlier(m + 1) -> Occupied(w)]
    BY <2>1, <2>2, <2>5, <2>6
  <2> HIDE DEF f
  <2>8. \A p, q \in Earlier(m + 1) : f[p] = f[q] => p = q
    BY <2>2, <2>5, <2>6, <2>7
  <2>9. \A y \in Occupied(w) : \E p \in Earlier(m + 1) : f[p] = y
    BY <2>2, <2>5, <2>6, <2>7
  <2>10. f \in Bijection(Earlier(m + 1), Occupied(w))
    BY <2>7, <2>8, <2>9 DEF Bijection, Injection, Surjection, IsInjective
  <2>11. \A p \in Earlier(m + 1) : w[f[p]] = table[p]
    <3>1. w[f[m]] = table[m]
      BY <2>5, <2>7 DEF e
    <3>2. \A p \in Earlier(m) : w[f[p]] = table[p]
      BY <1>3, <2>5, <2>6, <2>7
    <3> QED
      BY <2>2, <3>1, <3>2
  <2>12. Copied(w, n, m + 1)
    BY <2>4, <2>10, <2>11 DEF Copied
  <2> QED
    BY <1>5, <2>12 DEF w, e
<1> QED
  BY <1>4, <1>5

LEMMA BareIs ==
  ASSUME NEW n, IsTableSize(n)
  PROVE  /\ IsTable(Bare(n), n) /\ Occupied(Bare(n)) = {} /\ Cardinality(Occupied(Bare(n))) = 0
         /\ \A s \in 0 .. n - 1 : Bare(n)[s] # Map!Deleted
<1>1. Bare(n) \in [0 .. n - 1 -> MapSlots]
  BY SlotKinds DEF Bare
<1>2. Occupied(Bare(n)) = {}
  BY SlotKinds DEF Bare, Occupied
<1>3. IsTable(Bare(n), n)
  BY <1>1, <1>2 DEF IsTable
<1> QED
  BY <1>2, <1>3, SlotKinds, FS_EmptySet DEF Bare

LEMMA NoTable ==
  ASSUME table = <<>>
  PROVE  Occupied(table) = {} /\ Cardinality(Occupied(table)) = 0 /\ Cardinality(DOMAIN table) = 0
BY FS_EmptySet DEF Occupied

(* A resize keeps every entry, and what the table says. *)
Rehashed(u, n) ==
  /\ IsTable(u, n) /\ Cardinality(Occupied(u)) = Cardinality(Occupied(table))
  /\ Agrees(table, map) => Agrees(u, map)

LEMMA CopiedAll ==
  ASSUME NEW n, IsTableSize(n), NEW ts, IsTableSize(ts), IsTable(table, ts), NEW u, Copied(u, n, ts)
  PROVE  Rehashed(u, n)
<1>1. IsFiniteSet(Occupied(table)) /\ Occupied(table) \subseteq 0 .. ts - 1 /\ ts \in Nat
  BY TableIs DEF IsTableSize
<1>2. Earlier(ts) = Occupied(table)
  BY <1>1 DEF Earlier
<1>3. IsTable(u, n)
  BY DEF Copied
<1>4. PICK g \in Bijection(Occupied(table), Occupied(u)) : \A s \in Occupied(table) : u[g[s]] = table[s]
  BY <1>2 DEF Copied
<1>5. Cardinality(Occupied(u)) = Cardinality(Occupied(table))
  <2>1. ExistsBijection(Occupied(table), Occupied(u))
    BY <1>4 DEF ExistsBijection
  <2> QED
    BY <1>1, <2>1, FS_Bijection
<1>6. /\ g \in [Occupied(table) -> Occupied(u)]
      /\ \A p, q \in Occupied(table) : g[p] = g[q] => p = q
      /\ \A y \in Occupied(u) : \E p \in Occupied(table) : g[p] = y
  BY <1>4 DEF Bijection, Injection, Surjection, IsInjective
<1>7. ASSUME Agrees(table, map) PROVE Agrees(u, map)
  <2>1. \A r, s \in Occupied(table) : table[r].key = table[s].key => r = s
    BY <1>7 DEF Agrees
  <2>2. \A s \in Occupied(table) : table[s].key \in DOMAIN map /\ table[s].value = map[table[s].key]
    BY <1>7 DEF Agrees
  <2>3. \A k \in DOMAIN map : \E s \in Occupied(table) : table[s].key = k
    BY <1>7 DEF Agrees
  <2>4. ASSUME NEW r \in Occupied(u), NEW s \in Occupied(u), u[r].key = u[s].key PROVE r = s
    <3>1. PICK p \in Occupied(table) : g[p] = r
      BY <1>6
    <3>2. PICK q \in Occupied(table) : g[q] = s
      BY <1>6
    <3>3. table[p].key = table[q].key
      BY <1>4, <2>4, <3>1, <3>2
    <3> QED
      BY <2>1, <3>1, <3>2, <3>3
  <2>5. ASSUME NEW s \in Occupied(u) PROVE u[s].key \in DOMAIN map /\ u[s].value = map[u[s].key]
    <3>1. PICK q \in Occupied(table) : g[q] = s
      BY <1>6
    <3>2. u[s] = table[q]
      BY <1>4, <3>1
    <3> QED
      BY <2>2, <3>2
  <2>6. ASSUME NEW k \in DOMAIN map PROVE \E s \in Occupied(u) : u[s].key = k
    <3>1. PICK q \in Occupied(table) : table[q].key = k
      BY <2>3
    <3> QED
      BY <1>4, <1>6, <3>1
  <2> QED
    BY <2>4, <2>5, <2>6 DEF Agrees
<1> QED
  BY <1>3, <1>5, <1>7 DEF Rehashed

LEMMA ResizeIs ==
  ASSUME NEW i \in 1 .. Len(TableSizes), NEW n, n = TableSizes[i],
         \/ table = <<>>
         \/ \E ts : IsTableSize(ts) /\ IsTable(table, ts) /\ Cardinality(Occupied(table)) < n
  PROVE  Rehashed(Map!Resize(i), n)
<1>0. IsTableSize(n)
  BY TableSizeIs
<1> DEFINE c == Cardinality(DOMAIN table)
           P(f) == f = Moving(f, n, c)
           moved == CHOOSE f : P(f)
<1>1. Map!Resize(i) = moved[c]
  <2>1. Map!Cardinality(DOMAIN table) = c
    BY MapCounts
  <2> QED
    BY <2>1, ZenonT(40) DEF Map!Resize, Moving, Places, Bare
<1>2. c \in Nat
  <2>1. CASE table = <<>>
    BY <2>1, NoTable
  <2>2. ASSUME NEW ts, IsTableSize(ts), IsTable(table, ts) PROVE c = ts /\ ts \in Nat
    BY <2>2, TableIs DEF IsTableSize
  <2> QED
    BY <2>1, <2>2
<1>3. P(moved)
  <2> HIDE DEF P, c
  <2>1. \E f : P(f)
    BY <1>2, MovingExists DEF P
  <2> QED
    BY <2>1
<1> HIDE DEF moved
<1>4. \A j \in 0 .. c : moved[j] = IF j = 0 THEN Bare(n)
                                   ELSE IF Map!Used(table[j - 1]) THEN Places(moved[j - 1], table[j - 1], n)
                                   ELSE moved[j - 1]
  BY <1>3, Zenon DEF Moving
<1>5. moved[0] = Bare(n)
  BY <1>2, <1>4
<1> HIDE DEF P, c
<1>6. CASE table = <<>>
  <2>1. c = 0
    BY <1>6, NoTable DEF c
  <2>2. Occupied(table) = {} /\ Cardinality(Occupied(table)) = 0
    BY <1>6, NoTable
  <2>3. Map!Resize(i) = Bare(n)
    BY <1>1, <1>5, <2>1
  <2>4. Occupied(Bare(n)) = {} /\ IsTable(Bare(n), n) /\ Cardinality(Occupied(Bare(n))) = 0
    BY <1>0, BareIs
  <2>5. Agrees(table, map) => Agrees(Bare(n), map)
    BY <2>2, <2>4 DEF Agrees
  <2> QED
    BY <2>2, <2>3, <2>4, <2>5 DEF Rehashed
<1>7. ASSUME NEW ts, IsTableSize(ts), IsTable(table, ts), Cardinality(Occupied(table)) < n
      PROVE  Rehashed(Map!Resize(i), n)
  <2>1. c = ts /\ ts \in Nat
    BY <1>7, TableIs DEF IsTableSize, c
  <2> DEFINE T == {j \in Nat : j <= ts => Copied(moved[j], n, j)}
  <2>2. 0 \in T
    <3>1. Earlier(0) = {}
      <4>1. \A s \in Occupied(table) : ~(s < 0)
        BY <1>7, <2>1, TableIs
      <4> QED
        BY <4>1 DEF Earlier
    <3>2. /\ IsTable(Bare(n), n) /\ Occupied(Bare(n)) = {}
          /\ \A s \in 0 .. n - 1 : Bare(n)[s] # Map!Deleted
      BY <1>0, BareIs
    <3> DEFINE g == [x \in {} |-> x]
    <3>3. g \in Bijection({}, {})
      BY DEF Bijection, Injection, Surjection, IsInjective
    <3>4. Copied(Bare(n), n, 0)
      BY <3>1, <3>2, <3>3 DEF Copied
    <3> QED
      BY <1>5, <3>4
  <2>3. \A j \in Nat : j \in T => j + 1 \in T
    <3> SUFFICES ASSUME NEW j \in Nat, j \in T, j + 1 <= ts PROVE Copied(moved[j + 1], n, j + 1)
      OBVIOUS
    <3>1. Copied(moved[j], n, j) /\ j \in 0 .. ts - 1
      BY <2>1
    <3> DEFINE m == j + 1
    <3>2. m \in 0 .. c /\ m # 0 /\ m - 1 = j
      BY <2>1
    <3> HIDE DEF m, T
    <3>3. moved[m] = IF Map!Used(table[j]) THEN Places(moved[j], table[j], n) ELSE moved[j]
      BY <1>4, <3>2
    <3>4. Copied(IF Map!Used(table[j]) THEN Places(moved[j], table[j], n) ELSE moved[j], n, j + 1)
      BY <1>0, <1>7, <3>1, CopiedMore
    <3> QED
      BY <3>3, <3>4 DEF m
  <2> HIDE DEF T
  <2>4. ts \in T
    BY <2>1, <2>2, <2>3, Induction
  <2>5. Copied(moved[ts], n, ts)
    BY <2>1, <2>4 DEF T
  <2> QED
    BY <1>0, <1>1, <1>7, <2>1, <2>5, CopiedAll
<1> QED
  BY <1>6, <1>7

(* A table that must grow or shrink does, and has room for the entries.    *)
Enlarged(t, i) == IF Map!MustGrow THEN t = Map!Grown /\ i = tableSizeIndex + 1
                               ELSE t = table /\ i = tableSizeIndex
Reduced(t, i) == IF Map!MustShrink THEN t = Map!Resize(tableSizeIndex - 1) /\ i = tableSizeIndex - 1
                                   ELSE t = table /\ i = tableSizeIndex

LEMMA TableNow ==
  ASSUME MapInv, tableSizeIndex # 0
  PROVE  /\ tableSizeIndex \in 1 .. Len(TableSizes) /\ Len(TableSizes) \in Nat
         /\ IsTableSize(TableSizes[tableSizeIndex])
         /\ IsTable(table, TableSizes[tableSizeIndex])
         /\ entries = Cardinality(Occupied(table)) /\ entries \in 0 .. TableSizes[tableSizeIndex]
<1>1. Len(TableSizes) \in Nat
  BY MapAssumption, LenProperties
<1>2. tableSizeIndex \in 1 .. Len(TableSizes)
  BY <1>1 DEF MapInv
<1>3. IsTableSize(TableSizes[tableSizeIndex])
  BY <1>2, TableSizeIs
<1>4. IsTable(table, TableSizes[tableSizeIndex]) /\ entries = Cardinality(Occupied(table))
  BY DEF MapInv
<1> QED
  BY <1>1, <1>2, <1>3, <1>4, TableIs

LEMMA RehashedSame ==
  ASSUME NEW n, IsTable(table, n) PROVE Rehashed(table, n)
BY DEF Rehashed

LEMMA EnlargedIs ==
  ASSUME MapInv, NEW t, NEW i, Enlarged(t, i)
  PROVE  /\ i \in 1 .. Len(TableSizes) /\ IsTableSize(TableSizes[i]) /\ Rehashed(t, TableSizes[i])
         /\ entries = Cardinality(Occupied(t))
<1>0. entries = Cardinality(Occupied(table))
  BY DEF MapInv
<1>1. CASE tableSizeIndex = 0
  <2>1. Map!MustGrow /\ table = <<>>
    BY <1>1 DEF Map!MustGrow, MapInv
  <2>2. 1 \in 1 .. Len(TableSizes)
    BY MapAssumption, LenProperties, EmptySeq
  <2>3. t = Map!Resize(1) /\ i = 1
    BY <1>1, <2>1 DEF Enlarged, Map!Grown
  <2>4. Rehashed(t, TableSizes[1])
    BY <2>1, <2>2, <2>3, ResizeIs
  <2> QED
    BY <1>0, <2>2, <2>3, <2>4, TableSizeIs DEF Rehashed
<1>2. CASE tableSizeIndex # 0 /\ ~Map!MustGrow
  <2>1. t = table /\ i = tableSizeIndex
    BY <1>2 DEF Enlarged
  <2> QED
    BY <1>0, <1>2, <2>1, TableNow, RehashedSame
<1>3. CASE tableSizeIndex # 0 /\ Map!MustGrow
  <2> DEFINE a == TableSizes[tableSizeIndex]
             b == TableSizes[i]
  <2>1. t = Map!Resize(tableSizeIndex + 1) /\ i = tableSizeIndex + 1 /\ tableSizeIndex < Len(TableSizes)
    BY <1>3 DEF Enlarged, Map!Grown, Map!MustGrow
  <2>2. tableSizeIndex \in 1 .. Len(TableSizes) /\ Len(TableSizes) \in Nat /\ IsTableSize(a)
        /\ IsTable(table, a) /\ entries \in 0 .. a
    BY <1>3, TableNow
  <2>3. i \in 1 .. Len(TableSizes) /\ tableSizeIndex \in 1 .. Len(TableSizes) - 1
    BY <2>1, <2>2
  <2>4. a < b
    BY <2>1, <2>3, MapAssumption
  <2>5. a \in Nat /\ b \in Nat /\ IsTableSize(b)
    BY <2>2, <2>3, TableSizeIs DEF IsTableSize
  <2> HIDE DEF a
  <2>6. Cardinality(Occupied(table)) < b
    BY <1>0, <2>2, <2>4, <2>5
  <2>7. Rehashed(t, b)
    BY <2>1, <2>2, <2>3, <2>6, ResizeIs
  <2> QED
    BY <1>0, <2>3, <2>5, <2>7 DEF Rehashed
<1> QED
  BY <1>1, <1>2, <1>3

LEMMA ReducedIs ==
  ASSUME MapInv, tableSizeIndex # 0, NEW t, NEW i, Reduced(t, i)
  PROVE  /\ i \in 1 .. Len(TableSizes) /\ IsTableSize(TableSizes[i]) /\ Rehashed(t, TableSizes[i])
         /\ entries = Cardinality(Occupied(t))
<1>0. entries = Cardinality(Occupied(table))
  BY DEF MapInv
<1>1. CASE ~Map!MustShrink
  <2>1. t = table /\ i = tableSizeIndex
    BY <1>1 DEF Reduced
  <2> QED
    BY <1>0, <1>1, <2>1, TableNow, RehashedSame
<1>2. CASE Map!MustShrink
  <2> DEFINE a == TableSizes[tableSizeIndex]
             b == TableSizes[i]
  <2>1. /\ t = Map!Resize(tableSizeIndex - 1) /\ i = tableSizeIndex - 1 /\ tableSizeIndex > 1
        /\ (entries * 100) \div a < Low
    BY <1>2 DEF Reduced, Map!MustShrink, Map!Load
  <2>2. tableSizeIndex \in 1 .. Len(TableSizes) /\ Len(TableSizes) \in Nat /\ IsTableSize(a)
        /\ IsTable(table, a) /\ entries \in 0 .. a
    BY TableNow
  <2>3. i \in 1 .. Len(TableSizes) /\ i \in 1 .. Len(TableSizes) - 1 /\ i + 1 = tableSizeIndex
    BY <2>1, <2>2
  <2>4. a <= 4 * b
    BY <2>3, MapAssumption
  <2>5. a \in Nat /\ a >= 3 /\ b \in Nat /\ IsTableSize(b)
    BY <2>2, <2>3, TableSizeIs DEF IsTableSize
  <2> HIDE DEF a
  <2>6. entries < b
    <3> DEFINE q == (entries * 100) \div a
               r == (entries * 100) % a
    <3>1. entries \in Nat /\ a \in Nat \ {0}
      BY <2>2, <2>5
    <3>2. entries * 100 = a * q + r /\ q \in Int /\ r \in 0 .. a - 1
      <4> DEFINE e == entries * 100
      <4>1. e \in Nat
        BY <3>1
      <4> HIDE DEF e
      <4>2. e = a * (e \div a) + (e % a) /\ e \div a \in Int /\ e % a \in 0 .. a - 1
        BY <3>1, <4>1, Division
      <4> QED
        BY <4>2 DEF e
    <3>3. q < Low
      BY <2>1
    <3> HIDE DEF q, r
    <3>4. q <= 24
      BY <3>2, <3>3, MapAssumption
    <3>5. a * q <= a * 24
      BY <3>1, <3>2, <3>4
    <3>6. entries * 100 < a * 25
      BY <3>1, <3>2, <3>5
    <3> QED
      BY <2>4, <2>5, <3>1, <3>6
  <2>7. Rehashed(t, b)
    BY <1>0, <2>1, <2>2, <2>3, <2>6, ResizeIs
  <2> QED
    BY <1>0, <2>3, <2>5, <2>7 DEF Rehashed
<1> QED
  BY <1>1, <1>2

(* An entry more. *)
LEMMA AgreesPut ==
  ASSUME NEW t, NEW u, NEW s, NEW m, NEW k, NEW v, Agrees(t, m), k \notin DOMAIN m,
         Occupied(u) = Occupied(t) \cup {s}, u[s].key = k, u[s].value = v,
         \A r \in Occupied(t) : r # s /\ u[r] = t[r]
  PROVE  Agrees(u, [j \in DOMAIN m \cup {k} |-> IF j = k THEN v ELSE m[j]])
<1> DEFINE w == [j \in DOMAIN m \cup {k} |-> IF j = k THEN v ELSE m[j]]
<1>1. DOMAIN w = DOMAIN m \cup {k} /\ w[k] = v /\ \A j \in DOMAIN m : w[j] = m[j]
  OBVIOUS
<1> HIDE DEF w
<1>2. /\ \A p, q \in Occupied(t) : t[p].key = t[q].key => p = q
      /\ \A p \in Occupied(t) : t[p].key \in DOMAIN m /\ t[p].value = m[t[p].key]
      /\ \A j \in DOMAIN m : \E p \in Occupied(t) : t[p].key = j
  BY DEF Agrees
<1>3. \A p \in Occupied(t) : u[p].key \in DOMAIN m /\ u[p].key # k /\ u[p].value = m[u[p].key]
  BY <1>2
<1>4. \A p, q \in Occupied(u) : u[p].key = u[q].key => p = q
  BY <1>2, <1>3
<1>5. \A p \in Occupied(u) : u[p].key \in DOMAIN w /\ u[p].value = w[u[p].key]
  BY <1>1, <1>3
<1>6. \A j \in DOMAIN w : \E p \in Occupied(u) : u[p].key = j
  BY <1>1, <1>2
<1>7. Agrees(u, w)
  BY <1>4, <1>5, <1>6 DEF Agrees
<1> QED
  BY <1>7 DEF w

(* An entry less. *)
LEMMA AgreesRemoved ==
  ASSUME NEW t, NEW u, NEW s \in Occupied(t), NEW m, NEW k, Agrees(t, m), t[s].key = k,
         Occupied(u) = Occupied(t) \ {s}, \A r \in Occupied(t) : r # s => u[r] = t[r]
  PROVE  Agrees(u, [j \in DOMAIN m \ {k} |-> m[j]])
<1> DEFINE w == [j \in DOMAIN m \ {k} |-> m[j]]
<1>1. DOMAIN w = DOMAIN m \ {k} /\ \A j \in DOMAIN w : w[j] = m[j]
  OBVIOUS
<1> HIDE DEF w
<1>2. /\ \A p, q \in Occupied(t) : t[p].key = t[q].key => p = q
      /\ \A p \in Occupied(t) : t[p].key \in DOMAIN m /\ t[p].value = m[t[p].key]
      /\ \A j \in DOMAIN m : \E p \in Occupied(t) : t[p].key = j
  BY DEF Agrees
<1>3. \A p \in Occupied(u) : p \in Occupied(t) /\ p # s /\ u[p] = t[p]
  OBVIOUS
<1>4. \A p, q \in Occupied(u) : u[p].key = u[q].key => p = q
  BY <1>2, <1>3
<1>5. \A p \in Occupied(u) : u[p].key \in DOMAIN w /\ u[p].value = w[u[p].key]
  BY <1>1, <1>2, <1>3
<1>6. \A j \in DOMAIN w : \E p \in Occupied(u) : u[p].key = j
  BY <1>1, <1>2
<1>7. Agrees(u, w)
  BY <1>4, <1>5, <1>6 DEF Agrees
<1> QED
  BY <1>7 DEF w

LEMMA AgreesWithout ==
  ASSUME NEW t, NEW m, NEW k, Agrees(t, m), \A r \in Occupied(t) : t[r].key # k
  PROVE  k \notin DOMAIN m /\ Agrees(t, [j \in DOMAIN m \ {k} |-> m[j]])
<1> DEFINE w == [j \in DOMAIN m \ {k} |-> m[j]]
<1>1. k \notin DOMAIN m
  BY DEF Agrees
<1>2. DOMAIN w = DOMAIN m /\ \A j \in DOMAIN w : w[j] = m[j]
  BY <1>1
<1> HIDE DEF w
<1>3. Agrees(t, w)
  BY <1>2 DEF Agrees
<1> QED
  BY <1>1, <1>3 DEF w

LEMMA MapPut ==
  ASSUME MapInv, NEW k \in Key, NEW v \in Value, Map!Put(k, v)
  PROVE  MapInv'
<1> DEFINE t == IF Map!MustGrow THEN Map!Grown ELSE table
           i == tableSizeIndex'
           n == TableSizes[i]
           stops == {j \in DOMAIN t : ~Map!Used(t[j]) \/ t[j].key = k}
           s == Map!Found(t, k, stops)
<1>1. /\ ~doubled
      /\ i = IF Map!MustGrow THEN tableSizeIndex + 1 ELSE tableSizeIndex
      /\ s = -1 \/ Map!Used(t[s]) =>
           /\ table' = t /\ UNCHANGED <<entries, map, doubled>>
           /\ fine' = (Map!Failed = IF k \in DOMAIN map \/ entries = Map!Cardinality(DOMAIN t)
                                    THEN Map!Failed ELSE Map!Done)
      /\ ~(s = -1 \/ Map!Used(t[s])) =>
           /\ table' = [t EXCEPT ![s] = Map!Entry(k, v)]
           /\ entries' = entries + 1
           /\ map' = [j \in DOMAIN map \cup {k} |-> IF j = k THEN v ELSE map[j]]
           /\ doubled' = (doubled \/ k \in DOMAIN map)
           /\ fine' = (Map!Done = IF k \in DOMAIN map THEN Map!Failed ELSE Map!Done)
  BY Zenon DEF Map!Put, Map!Answer
<1>2. Enlarged(t, i)
  BY <1>1 DEF Enlarged
<1> HIDE DEF t, s, stops, i
<1>3. i \in 1 .. Len(TableSizes) /\ IsTableSize(n) /\ Rehashed(t, n) /\ entries = Cardinality(Occupied(t))
  BY <1>2, EnlargedIs
<1> HIDE DEF n
<1>4. IsTable(t, n) /\ Agrees(t, map)
  BY <1>1, <1>3 DEF Rehashed, MapInv
<1>5. /\ DOMAIN t = 0 .. n - 1 /\ n \in Nat /\ Map!Cardinality(DOMAIN t) = n
      /\ Cardinality(Occupied(t)) \in 0 .. n
  BY <1>3, <1>4, TableIs DEF IsTableSize
<1>6. /\ s = -1 <=> stops = {}
      /\ s # -1 => /\ s \in stops
                   /\ \E a \in 0 .. n - 1 : /\ Map!Probe(k, a, n) = s
                                            /\ \A j \in 0 .. a - 1 : Map!Probe(k, j, n) \notin stops
  <2>1. stops \in SUBSET (0 .. n - 1)
    BY <1>5 DEF stops
  <2> QED
    BY <1>3, <1>4, <2>1, FoundIs DEF s
<1>7. i # 0 /\ i \in 0 .. Len(TableSizes)
  BY <1>3, MapAssumption, LenProperties
<1>8. CASE s = -1 \/ Map!Used(t[s])
  <2>1. k \in DOMAIN map \/ entries = n
    <3>1. CASE s = -1
      <4>1. \A j \in 0 .. n - 1 : Map!Used(t[j])
        BY <1>5, <1>6, <3>1 DEF stops
      <4> QED
        BY <1>3, <1>4, <4>1, FreeSlot
    <3>2. CASE s # -1
      <4>1. s \in DOMAIN t /\ Map!Used(t[s]) /\ t[s].key = k
        BY <1>6, <1>8, <3>2 DEF stops
      <4> QED
        BY <1>4, <4>1 DEF Agrees, Occupied
    <3> QED
      BY <3>1, <3>2
  <2>2. table' = t /\ UNCHANGED <<entries, map, doubled>> /\ fine'
    BY <1>1, <1>5, <1>8, <2>1
  <2> QED
    BY <1>3, <1>4, <1>7, <2>2 DEF MapInv, i, n
<1>9. CASE s # -1 /\ ~Map!Used(t[s])
  <2> DEFINE e == Map!Entry(k, v)
             u == Store(t, s, e)
             m == [j \in DOMAIN map \cup {k} |-> IF j = k THEN v ELSE map[j]]
  <2>1. /\ table' = u /\ entries' = entries + 1 /\ map' = m
        /\ doubled' = (doubled \/ k \in DOMAIN map)
        /\ fine' = (Map!Done = IF k \in DOMAIN map THEN Map!Failed ELSE Map!Done)
    BY <1>1, <1>9 DEF Store
  <2>2. e \in MapSlots /\ Map!Used(e) /\ e.key = k /\ e.value = v
    BY SlotKinds
  <2> HIDE DEF u, m, e
  <2>3. s \in 0 .. n - 1
    BY <1>5, <1>6, <1>9 DEF stops
  <2>4. Leads(t, k, s, n)
    <3>1. PICK a \in 0 .. n - 1 : /\ Map!Probe(k, a, n) = s
                                  /\ \A j \in 0 .. a - 1 : Map!Probe(k, j, n) \notin stops
      BY <1>6, <1>9
    <3>2. \A j \in 0 .. a - 1 : t[Map!Probe(k, j, n)] # Map!Empty
      <4> SUFFICES ASSUME NEW j \in 0 .. a - 1, t[Map!Probe(k, j, n)] = Map!Empty PROVE FALSE
        OBVIOUS
      <4>1. j \in 0 .. n
        BY <1>5
      <4>2. Map!Probe(k, j, n) \in DOMAIN t
        BY <1>3, <1>5, <4>1, ProbeIs
      <4>3. Map!Probe(k, j, n) \in stops
        BY <4>2, SlotKinds DEF stops
      <4> QED
        BY <3>1, <4>3
    <3> QED
      BY <3>1, <3>2 DEF Leads
  <2>5. /\ IsTable(u, n) /\ u[s] = e /\ \A r \in Occupied(t) : r # s /\ u[r] = t[r]
        /\ Occupied(u) = Occupied(t) \cup {s}
        /\ Cardinality(Occupied(u)) = Cardinality(Occupied(t)) + 1
    BY <1>3, <1>4, <1>9, <2>2, <2>3, <2>4, StoreIs DEF u
  <2>6. IsTable(table', TableSizes[i]) /\ entries' = Cardinality(Occupied(table'))
    BY <1>3, <2>1, <2>5 DEF n
  <2>7. CASE k \in DOMAIN map
    <3>1. doubled'
      BY <2>1, <2>7
    <3> QED
      BY <1>7, <2>6, <3>1 DEF MapInv, i
  <2>8. CASE k \notin DOMAIN map
    <3>1. Agrees(u, m)
      BY <1>4, <2>2, <2>5, <2>8, AgreesPut DEF m
    <3>2. fine'
      BY <2>1, <2>8
    <3> QED
      BY <1>7, <2>1, <2>6, <3>1, <3>2 DEF MapInv, i
  <2> QED
    BY <2>7, <2>8
<1> QED
  BY <1>8, <1>9

LEMMA MapGet ==
  ASSUME MapInv, NEW k \in Key, Map!Get(k)
  PROVE  MapInv'
<1> DEFINE s == Map!Slot(table, k)
<1>1. /\ fine' = ((IF table # <<>> /\ s # -1 /\ Map!Used(table[s]) THEN table[s].value ELSE Map!Absent)
                  = Map!Lookup(k))
      /\ UNCHANGED <<tableSizeIndex, table, entries, map, doubled>>
  BY Zenon DEF Map!Get, Map!Answer
<1> HIDE DEF s
<1>2. Map!Lookup(k) = IF k \in DOMAIN map THEN map[k] ELSE Map!Absent
  BY DEF Map!Lookup
<1>3. ASSUME ~doubled PROVE fine'
  <2>1. Agrees(table, map)
    BY <1>3 DEF MapInv
  <2>2. CASE tableSizeIndex = 0
    <3>1. table = <<>> /\ Occupied(table) = {}
      BY <2>2, NoTable DEF MapInv
    <3>2. k \notin DOMAIN map
      BY <2>1, <3>1 DEF Agrees
    <3> QED
      BY <1>1, <1>2, <3>1, <3>2
  <2>3. CASE tableSizeIndex # 0
    <3> DEFINE n == TableSizes[tableSizeIndex]
    <3>1. IsTableSize(n) /\ IsTable(table, n)
      BY <2>3, TableNow
    <3> HIDE DEF n
    <3>2. table # <<>>
      BY <3>1, TableIs
    <3>3. /\ s # -1 /\ Map!Used(table[s]) => s \in Occupied(table) /\ table[s].key = k
          /\ (\E r \in Occupied(table) : table[r].key = k) => s # -1 /\ Map!Used(table[s])
      BY <3>1, SlotIs DEF s
    <3>4. CASE s # -1 /\ Map!Used(table[s])
      <4>1. k \in DOMAIN map /\ table[s].value = map[k]
        BY <2>1, <3>3, <3>4 DEF Agrees
      <4> QED
        BY <1>1, <1>2, <3>2, <3>4, <4>1
    <3>5. CASE ~(s # -1 /\ Map!Used(table[s]))
      <4>1. k \notin DOMAIN map
        BY <2>1, <3>3, <3>5 DEF Agrees
      <4> QED
        BY <1>1, <1>2, <3>2, <3>5, <4>1
    <3> QED
      BY <3>4, <3>5
  <2> QED
    BY <2>2, <2>3
<1> QED
  BY <1>1, <1>3 DEF MapInv

LEMMA MapRemove ==
  ASSUME MapInv, NEW k \in Key, Map!RemoveKey(k)
  PROVE  MapInv'
<1> DEFINE t == IF Map!MustShrink THEN Map!Resize(tableSizeIndex - 1) ELSE table
           i == tableSizeIndex'
           n == TableSizes[i]
           s == Map!Slot(t, k)
           hit == table # <<>> /\ s # -1 /\ Map!Used(t[s])
           m == [j \in DOMAIN map \ {k} |-> map[j]]
<1>1. /\ i = IF Map!MustShrink THEN tableSizeIndex - 1 ELSE tableSizeIndex
      /\ table' = IF hit THEN [t EXCEPT ![s] = Map!Vacant] ELSE t
      /\ entries' = IF hit THEN entries - 1 ELSE entries
      /\ map' = m
      /\ fine' = ((IF hit THEN t[s].value ELSE Map!Absent) = Map!Lookup(k))
      /\ doubled' = doubled
  BY Zenon DEF Map!RemoveKey, Map!Answer
<1>2. Map!Lookup(k) = IF k \in DOMAIN map THEN map[k] ELSE Map!Absent
  BY DEF Map!Lookup
<1>3. Reduced(t, i)
  BY <1>1 DEF Reduced
<1>4. CASE tableSizeIndex = 0
  <2>1. ~Map!MustShrink /\ table = <<>> /\ Occupied(table) = {}
    BY <1>4, NoTable DEF Map!MustShrink, MapInv
  <2>2. table' = table /\ entries' = entries /\ i = 0
    BY <1>1, <1>4, <2>1
  <2>3. ASSUME ~doubled PROVE fine' /\ Agrees(table, m)
    <3>1. Agrees(table, map)
      BY <2>3 DEF MapInv
    <3> HIDE DEF m
    <3>2. k \notin DOMAIN map /\ Agrees(table, m)
      BY <2>1, <3>1, AgreesWithout DEF m
    <3> QED
      BY <1>1, <1>2, <2>1, <3>2
  <2> HIDE DEF m
  <2> QED
    BY <1>1, <1>4, <2>1, <2>2, <2>3 DEF MapInv
<1>5. CASE tableSizeIndex # 0
  <2> HIDE DEF t, s, i, m
  <2>1. i \in 1 .. Len(TableSizes) /\ IsTableSize(n) /\ Rehashed(t, n) /\ entries = Cardinality(Occupied(t))
    BY <1>3, <1>5, ReducedIs
  <2> HIDE DEF n
  <2>2. IsTable(t, n) /\ (doubled \/ Agrees(t, map))
    BY <2>1 DEF Rehashed, MapInv
  <2>3. t \in [0 .. n - 1 -> MapSlots] /\ DOMAIN t = 0 .. n - 1 /\ n \in Nat /\ IsFiniteSet(Occupied(t))
    BY <2>1, <2>2, TableIs DEF IsTableSize
  <2>4. /\ s # -1 /\ Map!Used(t[s]) => s \in Occupied(t) /\ t[s].key = k
        /\ (\E r \in Occupied(t) : t[r].key = k) => s # -1 /\ Map!Used(t[s])
    BY <2>1, <2>2, SlotIs DEF s
  <2>5. table # <<>>
    BY <1>5, TableNow, TableIs
  <2>6. i # 0 /\ i \in 0 .. Len(TableSizes)
    BY <2>1, MapAssumption, LenProperties
  <2>7. CASE hit
    <3> DEFINE u == [t EXCEPT ![s] = Map!Deleted]
    <3>1. table' = u /\ entries' = entries - 1
      BY <1>1, <2>7 DEF Map!Vacant
    <3>2. s \in Occupied(t) /\ t[s].key = k /\ s \in 0 .. n - 1
      BY <2>3, <2>4, <2>7 DEF Occupied
    <3>3. /\ u \in [0 .. n - 1 -> MapSlots] /\ DOMAIN u = 0 .. n - 1 /\ u[s] = Map!Deleted
          /\ \A r \in 0 .. n - 1 : r # s => u[r] = t[r]
      BY <2>3, <3>2, SlotKinds
    <3> HIDE DEF u
    <3>4. Occupied(u) = Occupied(t) \ {s}
      BY <2>3, <3>2, <3>3, SlotKinds DEF Occupied
    <3>5. Cardinality(Occupied(u)) = Cardinality(Occupied(t)) - 1
      BY <2>3, <3>2, <3>4, FS_RemoveElement
    <3>6. ASSUME NEW r \in Occupied(u) PROVE Placed(u, r, n)
      <4>1. r \in Occupied(t) /\ r # s /\ r \in 0 .. n - 1 /\ u[r] = t[r]
        BY <2>3, <3>3, <3>4 DEF Occupied
      <4>2. t[r].key \in Key /\ Leads(t, t[r].key, r, n)
        BY <2>1, <2>2, <4>1, TableIs DEF Placed
      <4>3. PICK a \in 0 .. n - 1 : /\ Map!Probe(t[r].key, a, n) = r
                                    /\ \A j \in 0 .. a - 1 : t[Map!Probe(t[r].key, j, n)] # Map!Empty
        BY <4>2, Zenon DEF Leads
      <4>4. \A j \in 0 .. a - 1 : u[Map!Probe(t[r].key, j, n)] # Map!Empty
        <5> SUFFICES ASSUME NEW j \in 0 .. a - 1 PROVE u[Map!Probe(t[r].key, j, n)] # Map!Empty
          OBVIOUS
        <5>1. j \in 0 .. n
          BY <2>3
        <5>2. Map!Probe(t[r].key, j, n) \in 0 .. n - 1
          BY <2>1, <4>2, <5>1, ProbeIs
        <5> QED
          BY <3>3, <4>3, <5>2, SlotKinds
      <4> QED
        BY <4>1, <4>3, <4>4 DEF Placed, Leads
    <3>7. IsTable(u, n)
      BY <3>3, <3>6 DEF IsTable
    <3>8. ASSUME ~doubled PROVE fine' /\ Agrees(u, m)
      <4>1. Agrees(t, map)
        BY <2>2, <3>8
      <4>2. k \in DOMAIN map /\ t[s].value = map[k]
        BY <3>2, <4>1 DEF Agrees
      <4>3. \A r \in Occupied(t) : r # s => u[r] = t[r]
        BY <2>3, <3>3 DEF Occupied
      <4>4. Agrees(u, m)
        BY <3>2, <3>4, <4>1, <4>3, AgreesRemoved DEF m
      <4> QED
        BY <1>1, <1>2, <2>7, <4>2, <4>4
    <3>9. IsTable(table', TableSizes[i]) /\ entries' = Cardinality(Occupied(table'))
      BY <2>1, <3>1, <3>5, <3>7 DEF n
    <3> QED
      BY <1>1, <2>6, <3>1, <3>8, <3>9 DEF MapInv, i
  <2>8. CASE ~hit
    <3>1. table' = t /\ entries' = entries
      BY <1>1, <2>8
    <3>2. \A r \in Occupied(t) : t[r].key # k
      BY <2>4, <2>5, <2>8
    <3>3. ASSUME ~doubled PROVE fine' /\ Agrees(t, m)
      <4>1. Agrees(t, map)
        BY <2>2, <3>3
      <4>2. k \notin DOMAIN map /\ Agrees(t, m)
        BY <3>2, <4>1, AgreesWithout DEF m
      <4> QED
        BY <1>1, <1>2, <2>8, <4>2
    <3>4. IsTable(table', TableSizes[i]) /\ entries' = Cardinality(Occupied(table'))
      BY <2>1, <2>2, <3>1 DEF n
    <3> QED
      BY <1>1, <2>6, <3>1, <3>3, <3>4 DEF MapInv, i
  <2> QED
    BY <2>7, <2>8
<1> QED
  BY <1>4, <1>5

LEMMA MapClear == ASSUME Map!Clear PROVE MapInv'
<1>1. /\ tableSizeIndex' = 0 /\ table' = <<>> /\ entries' = 0 /\ map' = <<>>
      /\ fine' /\ doubled' = FALSE
  BY DEF Map!Clear, Map!Answer
<1>2. Len(TableSizes) \in Nat
  BY MapAssumption, LenProperties
<1>3. Occupied(table') = {} /\ Cardinality(Occupied(table')) = 0
  BY <1>1, FS_EmptySet DEF Occupied
<1>4. Agrees(table', map')
  BY <1>1, <1>3 DEF Agrees
<1> QED
  BY <1>1, <1>2, <1>3, <1>4 DEF MapInv

LEMMA MapInit == Map!Init => MapInv
<1> SUFFICES ASSUME Map!Init PROVE MapInv
  OBVIOUS
<1>1. /\ tableSizeIndex = 0 /\ table = <<>> /\ entries = 0 /\ map = <<>> /\ fine
  BY DEF Map!Init
<1>2. Len(TableSizes) \in Nat
  BY MapAssumption, LenProperties
<1>3. Occupied(table) = {} /\ Cardinality(Occupied(table)) = 0
  BY <1>1, NoTable
<1>4. Agrees(table, map)
  BY <1>1, <1>3 DEF Agrees
<1> QED
  BY <1>1, <1>2, <1>3, <1>4 DEF MapInv

LEMMA OccupiedFinite ==
  ASSUME MapInv
  PROVE  IsFiniteSet(Occupied(table))
<1>1. CASE tableSizeIndex = 0
  <2>1. table = <<>>
    BY <1>1 DEF MapInv
  <2>2. Occupied(table) = {}
    BY <2>1, NoTable
  <2> QED
    BY <2>2, FS_EmptySet
<1>2. CASE tableSizeIndex # 0
  BY <1>2, TableNow, TableIs
<1> QED
  BY <1>1, <1>2

(* As many entries as keys. *)
LEMMA AgreesCounts ==
  ASSUME NEW t, NEW m, Agrees(t, m), IsFiniteSet(Occupied(t))
  PROVE  /\ Cardinality(Occupied(t)) = Cardinality(DOMAIN m)
         /\ {t[s].key : s \in Occupied(t)} = DOMAIN m
<1> DEFINE f == [s \in Occupied(t) |-> t[s].key]
<1>1. /\ \A p, q \in Occupied(t) : t[p].key = t[q].key => p = q
      /\ \A p \in Occupied(t) : t[p].key \in DOMAIN m
      /\ \A j \in DOMAIN m : \E p \in Occupied(t) : t[p].key = j
  BY DEF Agrees
<1>2. f \in [Occupied(t) -> DOMAIN m] /\ \A p \in Occupied(t) : f[p] = t[p].key
  BY <1>1
<1> HIDE DEF f
<1>3. f \in Bijection(Occupied(t), DOMAIN m)
  <2>1. \A p, q \in Occupied(t) : f[p] = f[q] => p = q
    BY <1>1, <1>2
  <2>2. \A y \in DOMAIN m : \E p \in Occupied(t) : f[p] = y
    BY <1>1, <1>2
  <2> QED
    BY <1>2, <2>1, <2>2 DEF Bijection, Injection, Surjection, IsInjective
<1>4. ExistsBijection(Occupied(t), DOMAIN m)
  BY <1>3 DEF ExistsBijection
<1> QED
  BY <1>1, <1>4, FS_Bijection

LEMMA MapWalk ==
  ASSUME MapInv, Map!Walk
  PROVE  MapInv'
<1> DEFINE o == Occupied(table)
<1>1. /\ fine' = ([keys |-> {table[s].key : s \in o}, visits |-> Map!Cardinality(o), size |-> entries]
                  = [keys |-> DOMAIN map, visits |-> Map!Cardinality(DOMAIN map),
                     size |-> Map!Cardinality(DOMAIN map)])
      /\ UNCHANGED <<tableSizeIndex, table, entries, map, doubled>>
  BY Zenon DEF Map!Walk, Map!Answer, Occupied
<1>2. ASSUME ~doubled PROVE fine'
  <2>1. Agrees(table, map) /\ entries = Cardinality(o)
    BY <1>2 DEF MapInv
  <2>2. Cardinality(o) = Cardinality(DOMAIN map) /\ {table[s].key : s \in o} = DOMAIN map
    BY <2>1, OccupiedFinite, AgreesCounts
  <2> QED
    BY <1>1, <2>1, <2>2, MapCounts
<1> QED
  BY <1>1, <1>2 DEF MapInv

LEMMA MapStep == MapInv /\ [Map!Next]_mapVars => MapInv'
<1> SUFFICES ASSUME MapInv, [Map!Next]_mapVars
             PROVE  MapInv'
  OBVIOUS
<1>1. ASSUME UNCHANGED mapVars PROVE MapInv'
  BY <1>1 DEF mapVars, MapInv
<1>2. ASSUME NEW k \in Key, NEW v \in Value, Map!Put(k, v) PROVE MapInv'
  BY <1>2, MapPut
<1>3. ASSUME NEW k \in Key, Map!Get(k) PROVE MapInv'
  BY <1>3, MapGet
<1>4. ASSUME NEW k \in Key, Map!RemoveKey(k) PROVE MapInv'
  BY <1>4, MapRemove
<1>5. ASSUME Map!Clear PROVE MapInv'
  BY <1>5, MapClear
<1>6. ASSUME Map!Walk PROVE MapInv'
  BY <1>6, MapWalk
<1>7. ASSUME Map!NoMemory PROVE MapInv'
  <2>1. fine' /\ UNCHANGED <<tableSizeIndex, table, entries, map, doubled>>
    BY <1>7 DEF Map!NoMemory, Map!Answer
  <2> QED
    BY <2>1 DEF MapInv
<1> QED
  BY <1>1, <1>2, <1>3, <1>4, <1>5, <1>6, <1>7, Zenon DEF Map!Next

(* hashmap.c: the table is the client's map, no entry is lost to a search  *)
(* by removals and resizes, and the answers are right, unless a put stored *)
(* a key for the second time, for any hash function and any load factor.   *)
THEOREM MapIsFaithful == Spec => []MapFaithful
<1>1. Init => MapInv
  BY MapInit DEF Init
<1>2. MapInv /\ [Next]_vars => MapInv'
  <2> SUFFICES ASSUME MapInv, [Next]_vars
               PROVE  MapInv'
    OBVIOUS
  <2>1. [Map!Next]_mapVars
    BY DEF Next, vars
  <2> QED
    BY <2>1, MapStep
<1>3. MapInv => MapFaithful
  <2> SUFFICES ASSUME MapInv
               PROVE  Map!Faithful
    BY DEF MapFaithful
  <2> DEFINE o == Occupied(table)
  <2>1. entries = Map!Cardinality({s \in DOMAIN table : Map!Used(table[s])})
    BY MapCounts DEF MapInv, Occupied
  <2>2. Map!Reachable
    <3> SUFFICES ASSUME NEW s \in DOMAIN table, Map!Used(table[s])
                 PROVE  Map!Used(table[Map!Slot(table, table[s].key)])
      BY Zenon DEF Map!Reachable
    <3>1. tableSizeIndex # 0
      <4>1. table # <<>>
        OBVIOUS
      <4> QED
        BY <4>1 DEF MapInv
    <3> DEFINE n == TableSizes[tableSizeIndex]
    <3>2. IsTableSize(n) /\ IsTable(table, n)
      BY <3>1, TableNow
    <3> HIDE DEF n
    <3>3. s \in Occupied(table) /\ table[s].key \in Key
      BY <3>2, TableIs DEF Occupied
    <3> QED
      BY <3>2, <3>3, SlotIs
  <2>3. ASSUME ~doubled
        PROVE  {<<table[s].key, table[s].value>> : s \in {r \in DOMAIN table : Map!Used(table[r])}}
                 = {<<k, map[k]>> : k \in DOMAIN map}
    <3>1. Agrees(table, map)
      BY <2>3 DEF MapInv
    <3>2. {<<table[s].key, table[s].value>> : s \in o} = {<<k, map[k]>> : k \in DOMAIN map}
      <4>1. \A s \in o : table[s].key \in DOMAIN map /\ table[s].value = map[table[s].key]
        BY <3>1 DEF Agrees
      <4>2. \A k \in DOMAIN map : \E s \in o : table[s].key = k /\ table[s].value = map[k]
        BY <3>1 DEF Agrees
      <4> HIDE DEF o
      <4> QED
        BY <4>1, <4>2
    <3> QED
      BY <3>2 DEF Occupied
  <2>4. fine \/ doubled
    BY DEF MapInv
  <2> QED
    BY <2>1, <2>2, <2>3, <2>4, Zenon DEF Map!Faithful
<1> QED
  BY <1>1, <1>2, <1>3, PTL DEF Spec

(***************************************************************************)
(* The message table, for any lists whose numbers stay below 2 ^ 16.       *)
(***************************************************************************)

(* The codes of a list whose upper halves are h are numbered upwards.      *)
Numbers(c, h) ==
  /\ \A k \in 1 .. Len(c) : h * CodeHigh <= c[k] /\ c[k] < (h + 1) * CodeHigh
  /\ \A j, k \in 1 .. Len(c) : j < k => c[j] < c[k]

Tabled(i) == LET c == codes[tbl[i].list]
             IN Numbers(c, i + 1) /\ tbl[i].num >= Len(c) /\ (broken \/ tbl[i].num = Len(c))
IsCodes(c, l) ==
  /\ c \in Seq(Nat) /\ Len(c) = Len(MsgList[l])
  /\ \A k \in 1 .. Len(c) : c[k] = MsgList[l][k] \/ c[k] >= CodeHigh

MsgInv ==
  /\ nextIdx \in 1 .. NumLists /\ broken \in BOOLEAN
  /\ tbl \in [1 .. NumLists - 1 -> [list : DOMAIN MsgList \cup {"none"}, num : Nat]]
  /\ DOMAIN codes = DOMAIN MsgList
  /\ \A l \in DOMAIN MsgList : IsCodes(codes[l], l)
  /\ \A i \in 1 .. NumLists - 1 : IF i < nextIdx THEN tbl[i].list # "none"
                                  ELSE tbl[i].list = "none" /\ (broken \/ tbl[i].num = 0)
  /\ \A i, j \in 1 .. nextIdx - 1 : tbl[i].list = tbl[j].list => i = j
  /\ \A i \in 1 .. nextIdx - 1 : Tabled(i)

(* msgno_add_codes: the entries numbered one after the other. *)
Unnumbered(old) == [no |-> 0, at |-> 0, out |-> old, ok |-> TRUE]
NextGiven(g, i, h) == [no |-> g.no + 1, at |-> i, out |-> [g.out EXCEPT ![i] = h + g.no], ok |-> TRUE]
OwnGiven(g, i, h, n) == [no |-> n + 1, at |-> i, out |-> [g.out EXCEPT ![i] = h + n], ok |-> TRUE]
NumberRefused(g) == [g EXCEPT !.ok = FALSE]
NextNumber(g, i, old, h) ==
  CASE ~g.ok -> g
    [] g.ok /\ old[i] = 0 -> NextGiven(g, i, h)
    [] g.ok /\ old[i] # 0 /\ old[i] < CodeHigh /\ old[i] >= g.no -> OwnGiven(g, i, h, old[i])
    [] OTHER -> NumberRefused(g)
Numbering(f, old, h, m) ==
  [i \in 0 .. m |-> IF i = 0 THEN Unnumbered(old) ELSE NextNumber(f[i - 1], i, old, h)]

LEMMA NumberingExists ==
  ASSUME NEW old, NEW h, NEW m \in Nat
  PROVE  \E f : f = Numbering(f, old, h, m)
<1> DEFINE T == {q \in Nat : \E f : f = Numbering(f, old, h, q)}
<1>1. 0 \in T
  <2> DEFINE f == [j \in 0 .. 0 |-> Unnumbered(old)]
  <2>1. f = Numbering(f, old, h, 0)
    <3>1. \A j \in 0 .. 0 : j = 0
      OBVIOUS
    <3> QED
      BY <3>1 DEF Numbering
  <2> QED
    BY <2>1
<1>2. \A q \in Nat : q \in T => q + 1 \in T
  <2> SUFFICES ASSUME NEW q \in Nat, q \in T PROVE q + 1 \in T
    OBVIOUS
  <2>1. PICK f : f = Numbering(f, old, h, q)
    OBVIOUS
  <2> DEFINE g == [j \in 0 .. q + 1 |-> IF j = q + 1 THEN NextNumber(f[q], q + 1, old, h) ELSE f[j]]
  <2>2. \A j \in 0 .. q : f[j] = IF j = 0 THEN Unnumbered(old) ELSE NextNumber(f[j - 1], j, old, h)
    BY <2>1, Zenon DEF Numbering
  <2>3. ASSUME NEW j \in 0 .. q + 1
        PROVE  g[j] = IF j = 0 THEN Unnumbered(old) ELSE NextNumber(g[j - 1], j, old, h)
    <3>1. CASE j = q + 1
      <4>1. j # 0 /\ j - 1 = q /\ q \in 0 .. q + 1 /\ q # q + 1
        BY <3>1
      <4>2. g[q] = f[q] /\ g[j] = NextNumber(f[q], q + 1, old, h)
        BY <3>1, <4>1
      <4> QED
        BY <3>1, <4>1, <4>2
    <3>2. CASE j # q + 1
      <4>1. j \in 0 .. q /\ g[j] = f[j]
        BY <3>2
      <4>2. CASE j = 0
        BY <2>2, <4>1, <4>2
      <4>3. CASE j # 0
        <5>1. j - 1 \in 0 .. q + 1 /\ j - 1 # q + 1
          BY <3>2, <4>3
        <5>2. g[j - 1] = f[j - 1]
          BY <5>1
        <5> QED
          BY <2>2, <4>1, <4>3, <5>2
      <4> QED
        BY <4>2, <4>3
    <3> QED
      BY <3>1, <3>2
  <2> HIDE DEF g
  <2>4. g = [j \in 0 .. q + 1 |-> g[j]]
    BY DEF g
  <2>5. [j \in 0 .. q + 1 |-> g[j]]
        = [j \in 0 .. q + 1 |-> IF j = 0 THEN Unnumbered(old) ELSE NextNumber(g[j - 1], j, old, h)]
    BY <2>3, Zenon
  <2>6. g = Numbering(g, old, h, q + 1)
    BY <2>4, <2>5 DEF Numbering
  <2> QED
    BY <2>6
<1> HIDE DEF T
<1>3. m \in T
  BY <1>1, <1>2, Induction
<1> QED
  BY <1>3 DEF T

(* The entries up to g.at are numbered upwards, the others as they were.   *)
Counted(g, old, i, h) ==
  /\ DOMAIN g = {"no", "at", "out", "ok"}
  /\ g.no \in Nat /\ g.at \in 0 .. i /\ g.out \in Seq(Nat) /\ Len(g.out) = Len(old)
  /\ g.ok => g.at = i /\ g.no + Len(old) <= CodeHigh + i
  /\ \A k \in 1 .. g.at : h <= g.out[k] /\ g.out[k] < h + g.no
  /\ \A j, k \in 1 .. g.at : j < k => g.out[j] < g.out[k]
  /\ \A k \in g.at + 1 .. Len(old) : g.out[k] = old[k]

LEMMA CountedMore ==
  ASSUME NEW old \in Seq(Nat), NEW h \in Nat, NEW i \in Nat, NEW m \in Nat, m + 1 = i, i <= Len(old), NEW g,
         Counted(g, old, m, h), g.ok, NEW n \in Nat, n >= g.no, n + Len(old) < CodeHigh + i
  PROVE  Counted([no |-> n + 1, at |-> i, out |-> [g.out EXCEPT ![i] = h + n], ok |-> TRUE], old, i, h)
<1> DEFINE out == [g.out EXCEPT ![i] = h + n]
           e == [no |-> n + 1, at |-> i, out |-> out, ok |-> TRUE]
<1>1. /\ g.out \in Seq(Nat) /\ Len(g.out) = Len(old) /\ g.no \in Nat /\ g.at = m
      /\ \A k \in 1 .. m : h <= g.out[k] /\ g.out[k] < h + g.no
      /\ \A j, k \in 1 .. m : j < k => g.out[j] < g.out[k]
      /\ \A k \in m + 1 .. Len(old) : g.out[k] = old[k]
  BY DEF Counted
<1>2. Len(old) \in Nat /\ CodeHigh \in Nat
  BY LenProperties, MsgnoAssumption
<1>3. i \in 1 .. Len(g.out) /\ h + n \in Nat /\ i \in Nat
  BY <1>1, <1>2
<1>4. /\ out \in Seq(Nat) /\ Len(out) = Len(g.out) /\ out[i] = h + n
      /\ \A k \in 1 .. Len(g.out) : k # i => out[k] = g.out[k]
  BY <1>1, <1>3, ExceptSeq
<1> HIDE DEF out
<1>5. /\ e.no = n + 1 /\ e.at = i /\ e.out = out /\ e.ok
      /\ DOMAIN e = {"no", "at", "out", "ok"}
  BY <1>3, <1>4
<1> HIDE DEF e
<1>6. \A k \in 1 .. m : k \in 1 .. Len(g.out) /\ k # i /\ out[k] = g.out[k] /\ out[k] \in Nat
  <2>1. \A k \in 1 .. m : k \in 1 .. Len(g.out) /\ k # i
    BY <1>1, <1>2
  <2>2. \A k \in 1 .. Len(g.out) : g.out[k] \in Nat
    BY <1>1, ElementOfSeq
  <2> QED
    BY <1>4, <2>1, <2>2
<1>7. \A k \in 1 .. i : h <= out[k] /\ out[k] < h + (n + 1)
  <2> SUFFICES ASSUME NEW k \in 1 .. i PROVE h <= out[k] /\ out[k] < h + (n + 1)
    OBVIOUS
  <2>1. CASE k = i
    BY <1>4, <2>1
  <2>2. CASE k # i
    <3>1. k \in 1 .. m
      BY <2>2
    <3>2. h <= out[k] /\ out[k] < h + g.no /\ out[k] \in Nat
      BY <1>1, <1>6, <3>1
    <3> QED
      BY <1>1, <3>2
  <2> QED
    BY <2>1, <2>2
<1>8. \A j, k \in 1 .. i : j < k => out[j] < out[k]
  <2> SUFFICES ASSUME NEW j \in 1 .. i, NEW k \in 1 .. i, j < k PROVE out[j] < out[k]
    OBVIOUS
  <2>1. j \in 1 .. m
    OBVIOUS
  <2>2. CASE k = i
    <3>1. out[j] \in Nat /\ out[j] < h + g.no
      BY <1>1, <1>6, <2>1
    <3>2. out[k] = h + n
      BY <1>4, <2>2
    <3>3. g.no \in Nat /\ n >= g.no
      BY <1>1
    <3> HIDE DEF out
    <3> QED
      BY <3>1, <3>2, <3>3
  <2>3. CASE k # i
    <3>1. k \in 1 .. m
      BY <2>3
    <3> QED
      BY <1>1, <1>6, <2>1, <3>1
  <2> QED
    BY <2>2, <2>3
<1>9. \A k \in i + 1 .. Len(old) : out[k] = old[k]
  <2> SUFFICES ASSUME NEW k \in i + 1 .. Len(old) PROVE out[k] = old[k]
    OBVIOUS
  <2>1. k \in m + 1 .. Len(old) /\ k \in 1 .. Len(g.out) /\ k # i
    BY <1>1, <1>2
  <2> QED
    BY <1>1, <1>4, <2>1
<1>10. (n + 1) + Len(old) <= CodeHigh + i
  BY <1>2, <1>3
<1>11. Counted(e, old, i, h)
  BY <1>1, <1>4, <1>5, <1>7, <1>8, <1>9, <1>10 DEF Counted
<1> QED
  BY <1>11 DEF e, out

LEMMA CountedNext ==
  ASSUME NEW old \in Seq(Nat), NEW h \in Nat, NEW i \in Nat, NEW m \in Nat, m + 1 = i, i <= Len(old), NEW g,
         Counted(g, old, m, h),
         \A k \in 1 .. Len(old) : old[k] < CodeHigh => old[k] + Len(old) < CodeHigh
  PROVE  Counted(NextNumber(g, i, old, h), old, i, h)
<1>0. Len(old) \in Nat /\ CodeHigh \in Nat /\ i \in 1 .. Len(old) /\ old[i] \in Nat
  BY LenProperties, MsgnoAssumption, ElementOfSeq
<1>1. g.no \in Nat /\ g.at \in 0 .. m /\ DOMAIN g = {"no", "at", "out", "ok"}
  BY DEF Counted
<1>2. CASE ~g.ok
  <2>1. g.at \in 0 .. i
    BY <1>1
  <2>2. NextNumber(g, i, old, h) = g
    BY <1>2 DEF NextNumber
  <2> QED
    BY <1>2, <2>1, <2>2 DEF Counted
<1>3. CASE g.ok /\ old[i] = 0
  <2>1. g.no + Len(old) <= CodeHigh + m
    BY <1>3 DEF Counted
  <2> DEFINE n == g.no
  <2>2. n + Len(old) < CodeHigh + i /\ n \in Nat /\ n >= g.no
    BY <1>0, <1>1, <2>1
  <2> HIDE DEF n
  <2>5. Counted([no |-> n + 1, at |-> i, out |-> [g.out EXCEPT ![i] = h + n], ok |-> TRUE], old, i, h)
    BY <1>3, <2>2, CountedMore
  <2>3. Counted(NextGiven(g, i, h), old, i, h)
    BY <2>5 DEF NextGiven, n
  <2>4. NextNumber(g, i, old, h) = NextGiven(g, i, h)
    BY <1>3 DEF NextNumber
  <2> QED
    BY <2>3, <2>4
<1>4. CASE g.ok /\ old[i] # 0 /\ old[i] < CodeHigh /\ old[i] >= g.no
  <2> DEFINE n == old[i]
  <2>1. n + Len(old) < CodeHigh + i /\ n \in Nat /\ n >= g.no
    BY <1>0, <1>4
  <2> HIDE DEF n
  <2>3. Counted(OwnGiven(g, i, h, n), old, i, h)
    BY <1>1, <1>4, <2>1, CountedMore DEF OwnGiven
  <2>4. NextNumber(g, i, old, h) = OwnGiven(g, i, h, n)
    BY <1>4 DEF NextNumber, n
  <2> QED
    BY <2>3, <2>4
<1>5. CASE g.ok /\ old[i] # 0 /\ ~(old[i] < CodeHigh /\ old[i] >= g.no)
  <2> DEFINE e == NumberRefused(g)
  <2>1. /\ e.no = g.no /\ e.at = g.at /\ e.out = g.out /\ ~e.ok
        /\ DOMAIN e = {"no", "at", "out", "ok"} /\ g.at \in 0 .. i
    BY <1>1 DEF NumberRefused
  <2>2. NextNumber(g, i, old, h) = e
    BY <1>5 DEF NextNumber
  <2> HIDE DEF e
  <2>3. Counted(e, old, i, h)
    BY <2>1 DEF Counted
  <2> QED
    BY <2>2, <2>3
<1> QED
  BY <1>2, <1>3, <1>4, <1>5

LEMMA NumberedIs ==
  ASSUME NEW l, codes[l] \in Seq(Nat), nextIdx \in Nat, Len(codes[l]) <= CodeHigh,
         \A k \in 1 .. Len(codes[l]) : codes[l][k] < CodeHigh => codes[l][k] + Len(codes[l]) < CodeHigh
  PROVE  Counted(Msgno!Numbered(l), codes[l], Len(codes[l]), Msgno!hi)
<1> DEFINE old == codes[l]
           m == Len(old)
           h == Msgno!hi
           P(f) == f = Numbering(f, old, h, m)
           go == CHOOSE f : P(f)
<1>0. m \in Nat /\ CodeHigh \in Nat /\ h \in Nat /\ m <= CodeHigh /\ old \in Seq(Nat)
      /\ \A k \in 1 .. m : old[k] < CodeHigh => old[k] + m < CodeHigh
  BY LenProperties, MsgnoAssumption DEF Msgno!hi
<1>1. Msgno!Numbered(l) = go[m]
  BY Zenon DEF Msgno!Numbered, Numbering, NextNumber, Unnumbered, NextGiven, OwnGiven, NumberRefused, Msgno!Follow
<1>2. P(go)
  <2> HIDE DEF P, h, m
  <2>1. \E f : P(f)
    BY <1>0, NumberingExists DEF P
  <2> QED
    BY <2>1
<1> HIDE DEF go, h, old
<1>3. \A i \in 0 .. m : go[i] = IF i = 0 THEN Unnumbered(old) ELSE NextNumber(go[i - 1], i, old, h)
  BY <1>2, Zenon DEF Numbering
<1> HIDE DEF P
<1> DEFINE T == {i \in Nat : i <= m => Counted(go[i], old, i, h)}
<1>4. 0 \in T
  <2> DEFINE g == Unnumbered(old)
  <2>1. g.no = 0 /\ g.at = 0 /\ g.out = old /\ g.ok /\ DOMAIN g = {"no", "at", "out", "ok"}
    BY DEF Unnumbered
  <2> HIDE DEF g
  <2>3. 0 + m <= CodeHigh + 0
    BY <1>0
  <2>4. Counted(g, old, 0, h)
    BY <1>0, <2>1, <2>3 DEF Counted
  <2>5. go[0] = g
    BY <1>0, <1>3 DEF g
  <2> QED
    BY <2>4, <2>5
<1>5. \A i \in Nat : i \in T => i + 1 \in T
  <2> SUFFICES ASSUME NEW i \in Nat, i \in T, i + 1 <= m PROVE Counted(go[i + 1], old, i + 1, h)
    OBVIOUS
  <2> DEFINE n == i + 1
  <2>1. n \in 0 .. m /\ n # 0 /\ n - 1 = i /\ i <= m
    BY <1>0
  <2>2. Counted(go[i], old, i, h)
    BY <2>1
  <2> HIDE DEF n
  <2>3. go[n] = NextNumber(go[i], n, old, h)
    BY <1>3, <2>1
  <2>4. Counted(NextNumber(go[i], n, old, h), old, n, h)
    BY <1>0, <2>1, <2>2, CountedNext DEF n
  <2> QED
    BY <2>3, <2>4 DEF n
<1> HIDE DEF T
<1>6. m \in T
  BY <1>0, <1>4, <1>5, Induction
<1>7. Counted(go[m], old, m, h)
  <2>1. m <= m
    BY <1>0
  <2> QED
    BY <1>6, <2>1 DEF T
<1> QED
  BY <1>1, <1>7 DEF old, h

LEMMA Codes ==
  ASSUME NEW c, NEW l \in DOMAIN MsgList, IsCodes(c, l)
  PROVE  /\ c \in Seq(Nat) /\ Len(c) = Len(MsgList[l]) /\ Len(c) \in Nat /\ Len(c) <= CodeHigh
         /\ DOMAIN c = 1 .. Len(c) /\ \A k \in 1 .. Len(c) : c[k] \in Nat
         /\ \A k \in 1 .. Len(c) : c[k] < CodeHigh => c[k] + Len(c) < CodeHigh
<1>1. c \in Seq(Nat) /\ Len(c) = Len(MsgList[l]) /\ MsgList[l] \in Seq(Nat) /\ Len(c) <= CodeHigh
  BY MsgnoAssumption DEF IsCodes
<1>2. Len(c) \in Nat /\ DOMAIN c = 1 .. Len(c) /\ \A k \in 1 .. Len(c) : c[k] \in Nat
  BY <1>1, LenProperties, ElementOfSeq
<1>3. ASSUME NEW k \in 1 .. Len(c), c[k] < CodeHigh PROVE c[k] + Len(c) < CodeHigh
  <2>1. c[k] \in Nat /\ CodeHigh \in Nat
    BY <1>2, MsgnoAssumption
  <2>2. c[k] = MsgList[l][k]
    BY <1>3, <2>1 DEF IsCodes
  <2> QED
    BY <1>1, <1>3, <2>2, MsgnoAssumption
<1> QED
  BY <1>1, <1>2, <1>3

LEMMA MsgAdd ==
  ASSUME MsgInv, NEW l \in DOMAIN MsgList, Msgno!Add(l)
  PROVE  MsgInv'
<1> DEFINE n == Msgno!Numbered(l)
           c == codes[l]
           x == nextIdx
           h == Msgno!hi
           m == Len(c)
<1>0. NumLists \in Nat /\ CodeHigh \in Nat /\ CodeHigh > 0 /\ "none" \notin DOMAIN MsgList
  BY MsgnoAssumption
<1>1. /\ \A i \in 1 .. NumLists - 1 : tbl[i].list # l
      /\ x < NumLists /\ x \in 1 .. NumLists - 1
      /\ codes' = [codes EXCEPT ![l] = n.out]
      /\ tbl' = [tbl EXCEPT ![x] = [list |-> IF n.ok THEN l ELSE "none", num |-> tbl[x].num + n.at]]
      /\ nextIdx' = IF n.ok THEN x + 1 ELSE x
      /\ broken' = (broken \/ (~n.ok /\ n.at > 0))
  BY <1>0 DEF Msgno!Add, Msgno!Known, Msgno!Slots, Msgno!NoList, MsgInv
<1>2. /\ IsCodes(c, l) /\ DOMAIN codes = DOMAIN MsgList /\ \A k \in DOMAIN MsgList : IsCodes(codes[k], k)
      /\ tbl \in [1 .. NumLists - 1 -> [list : DOMAIN MsgList \cup {"none"}, num : Nat]]
      /\ tbl[x].list = "none" /\ tbl[x].num \in Nat /\ (broken \/ tbl[x].num = 0)
  BY <1>0, <1>1 DEF MsgInv
<1>3. h = (x + 1) * CodeHigh /\ h \in Nat /\ h >= CodeHigh /\ (x + 2) * CodeHigh = h + CodeHigh
  <2>1. x \in Nat
    BY <1>0, <1>1
  <2>2. h = (x + 1) * CodeHigh
    BY DEF Msgno!hi
  <2>3. (x + 1) * CodeHigh = x * CodeHigh + CodeHigh /\ (x + 2) * CodeHigh = x * CodeHigh + 2 * CodeHigh
    BY <1>0, <2>1
  <2>4. x * CodeHigh \in Nat
    BY <1>0, <2>1
  <2> HIDE DEF h
  <2> QED
    BY <1>0, <2>2, <2>3, <2>4
<1>4. /\ c \in Seq(Nat) /\ m = Len(MsgList[l]) /\ m \in Nat /\ m <= CodeHigh
      /\ \A k \in 1 .. m : c[k] < CodeHigh => c[k] + m < CodeHigh
  BY <1>2, Codes
<1>5. Counted(n, c, m, h)
  <2>1. nextIdx \in Nat
    BY <1>0, <1>1
  <2> QED
    BY <1>4, <2>1, NumberedIs
<1> HIDE DEF n, h
<1> DEFINE ok == n.ok
           done == n.at
           out == n.out
<1>6. /\ n.no \in Nat /\ done \in 0 .. m /\ out \in Seq(Nat) /\ Len(out) = m
      /\ ok => done = m /\ n.no <= CodeHigh
      /\ \A k \in 1 .. done : h <= out[k] /\ out[k] < h + n.no
      /\ \A j, k \in 1 .. done : j < k => out[j] < out[k]
      /\ \A k \in done + 1 .. m : out[k] = c[k]
  <2>1. ok => n.no + m <= CodeHigh + m
    BY <1>5 DEF Counted
  <2>2. n.no \in Nat
    BY <1>5 DEF Counted
  <2>3. ok => n.no <= CodeHigh
    BY <1>0, <1>4, <2>1, <2>2
  <2>4. /\ done \in 0 .. m /\ out \in Seq(Nat) /\ Len(out) = m /\ (ok => done = m)
        /\ \A k \in 1 .. done : h <= out[k] /\ out[k] < h + n.no
        /\ \A j, k \in 1 .. done : j < k => out[j] < out[k]
        /\ \A k \in done + 1 .. m : out[k] = c[k]
    BY <1>5, Zenon DEF Counted
  <2> HIDE DEF ok, done, out, m, c
  <2> QED
    BY <2>2, <2>3, <2>4
<1>7. \A k \in 1 .. m : out[k] \in Nat
  BY <1>6, ElementOfSeq
<1>8. /\ codes' = [codes EXCEPT ![l] = out]
      /\ tbl' = [tbl EXCEPT ![x] = [list |-> IF ok THEN l ELSE "none", num |-> tbl[x].num + done]]
      /\ nextIdx' = IF ok THEN x + 1 ELSE x
      /\ broken' = (broken \/ (~ok /\ done > 0))
  BY <1>1
<1> HIDE DEF ok, done, out, c, x, m
<1>9. /\ DOMAIN codes' = DOMAIN MsgList /\ codes'[l] = out
      /\ \A k \in DOMAIN MsgList : k # l => codes'[k] = codes[k]
  BY <1>2, <1>8
<1>10. /\ tbl'[x].list = IF ok THEN l ELSE "none"
       /\ tbl'[x].num = tbl[x].num + done
       /\ \A i \in 1 .. NumLists - 1 : i # x => tbl'[i] = tbl[i]
       /\ tbl' \in [1 .. NumLists - 1 -> [list : DOMAIN MsgList \cup {"none"}, num : Nat]]
  <2>1. tbl[x].num + done \in Nat
    BY <1>2, <1>4, <1>6
  <2> DEFINE e == [list |-> IF ok THEN l ELSE "none", num |-> tbl[x].num + done]
  <2>2. /\ e \in [list : DOMAIN MsgList \cup {"none"}, num : Nat]
        /\ e.list = (IF ok THEN l ELSE "none") /\ e.num = tbl[x].num + done
    BY <2>1
  <2> HIDE DEF e
  <2>3. tbl' = [tbl EXCEPT ![x] = e]
    BY <1>8 DEF e
  <2>4. /\ tbl'[x] = e /\ \A i \in 1 .. NumLists - 1 : i # x => tbl'[i] = tbl[i]
        /\ tbl' \in [1 .. NumLists - 1 -> [list : DOMAIN MsgList \cup {"none"}, num : Nat]]
    BY <1>1, <1>2, <2>2, <2>3
  <2> QED
    BY <2>2, <2>4
<1>11. nextIdx' \in 1 .. NumLists /\ broken' \in BOOLEAN /\ (broken => broken')
  <2>1. nextIdx' \in 1 .. NumLists
    <3>1. x + 1 \in 1 .. NumLists /\ x \in 1 .. NumLists
      BY <1>0, <1>1
    <3> QED
      BY <1>8, <3>1
  <2>2. broken' \in BOOLEAN
    BY <1>8, Zenon
  <2>3. broken => broken'
    BY <1>8, Zenon
  <2> QED
    BY <2>1, <2>2, <2>3
<1>12. \A k \in DOMAIN MsgList : IsCodes(codes'[k], k)
  <2>1. IsCodes(out, l)
    <3>1. ASSUME NEW k \in 1 .. m PROVE out[k] = MsgList[l][k] \/ out[k] >= CodeHigh
      <4>1. CASE k \in 1 .. done
        <5>1. h <= out[k] /\ out[k] \in Nat
          BY <1>6, <1>7, <4>1
        <5> QED
          BY <1>0, <1>3, <5>1
      <4>2. CASE k \in done + 1 .. m
        <5>1. out[k] = c[k]
          BY <1>6, <4>2
        <5>2. c[k] = MsgList[l][k] \/ c[k] >= CodeHigh
          BY <1>2 DEF IsCodes, m
        <5> QED
          BY <5>1, <5>2
      <4> QED
        BY <1>4, <1>6, <4>1, <4>2
    <3> QED
      BY <1>4, <1>6, <3>1 DEF IsCodes
  <2> QED
    BY <1>2, <1>9, <2>1
<1>13. \A i \in 1 .. NumLists - 1 : IF i < nextIdx' THEN tbl'[i].list # "none"
                                    ELSE tbl'[i].list = "none" /\ (broken' \/ tbl'[i].num = 0)
  <2> SUFFICES ASSUME NEW i \in 1 .. NumLists - 1
               PROVE  IF i < nextIdx' THEN tbl'[i].list # "none"
                      ELSE tbl'[i].list = "none" /\ (broken' \/ tbl'[i].num = 0)
    OBVIOUS
  <2>1. IF i < x THEN tbl[i].list # "none" ELSE tbl[i].list = "none" /\ (broken \/ tbl[i].num = 0)
    BY DEF MsgInv, x
  <2>2. CASE i # x
    <3>1. i < nextIdx' <=> i < x
      BY <1>0, <1>1, <1>8, <2>2
    <3> QED
      BY <1>10, <1>11, <2>1, <2>2, <3>1
  <2>3. CASE i = x /\ ok
    BY <1>0, <1>1, <1>8, <1>10, <2>3
  <2>4. CASE i = x /\ ~ok
    <3>1. ~(i < nextIdx') /\ tbl'[i].list = "none"
      BY <1>0, <1>1, <1>8, <1>10, <2>4
    <3>2. broken' \/ tbl'[i].num = 0
      <4>1. CASE done > 0
        BY <1>8, <2>4, <4>1
      <4>2. CASE done = 0
        <5>1. tbl'[i].num = tbl[x].num
          BY <1>2, <1>10, <2>4, <4>2
        <5>2. CASE broken
          BY <1>11, <5>2
        <5>3. CASE tbl[x].num = 0
          BY <5>1, <5>3
        <5> QED
          BY <1>2, <5>2, <5>3
      <4> QED
        BY <1>4, <1>6, <4>1, <4>2
    <3> QED
      BY <3>1, <3>2
  <2> QED
    BY <2>2, <2>3, <2>4
<1>14. \A i \in 1 .. nextIdx' - 1 : i \in 1 .. NumLists - 1 /\ (i \in 1 .. x - 1 \/ (i = x /\ ok))
  BY <1>0, <1>1, <1>8
<1>15. \A i \in 1 .. x - 1 : /\ i \in 1 .. NumLists - 1 /\ i # x /\ tbl'[i] = tbl[i] /\ tbl[i].list # l
                             /\ tbl[i].list \in DOMAIN MsgList
  <2> SUFFICES ASSUME NEW i \in 1 .. x - 1
               PROVE  /\ i \in 1 .. NumLists - 1 /\ i # x /\ tbl'[i] = tbl[i] /\ tbl[i].list # l
                      /\ tbl[i].list \in DOMAIN MsgList
    OBVIOUS
  <2>1. i \in 1 .. NumLists - 1 /\ i < x /\ i # x
    BY <1>0, <1>1
  <2>2. tbl[i].list # "none"
    BY <2>1 DEF MsgInv, x
  <2> QED
    BY <1>1, <1>2, <1>10, <2>1, <2>2
<1>16. \A i, j \in 1 .. nextIdx' - 1 : tbl'[i].list = tbl'[j].list => i = j
  <2>1. \A i, j \in 1 .. x - 1 : tbl[i].list = tbl[j].list => i = j
    BY DEF MsgInv, x
  <2>2. ok => tbl'[x].list = l
    BY <1>10
  <2> QED
    BY <1>14, <1>15, <2>1, <2>2
<1>17. ASSUME NEW i \in 1 .. nextIdx' - 1 PROVE Tabled(i)'
  <2>1. CASE i \in 1 .. x - 1
    <3>1. Tabled(i)
      BY <2>1 DEF MsgInv, x
    <3>2. tbl'[i] = tbl[i] /\ codes'[tbl'[i].list] = codes[tbl[i].list]
      BY <1>9, <1>15, <2>1
    <3> QED
      BY <1>11, <3>1, <3>2 DEF Tabled
  <2>2. CASE i = x /\ ok
    <3>1. codes'[tbl'[i].list] = out /\ done = m /\ n.no <= CodeHigh
      BY <1>6, <1>9, <1>10, <2>2
    <3>2. tbl'[i].num = tbl[x].num + m
      BY <1>10, <2>2, <3>1
    <3>3. tbl'[i].num >= m /\ (broken' \/ tbl'[i].num = m)
      BY <1>2, <1>4, <1>11, <3>2
    <3>4. ASSUME NEW k \in 1 .. m PROVE (x + 1) * CodeHigh <= out[k] /\ out[k] < (x + 2) * CodeHigh
      <4>1. out[k] \in Nat /\ h <= out[k] /\ out[k] < h + n.no
        BY <1>6, <1>7, <3>1
      <4>2. out[k] < h + CodeHigh
        BY <1>0, <1>3, <1>6, <3>1, <4>1
      <4> QED
        BY <1>3, <4>1, <4>2
    <3>5. (x + 1) + 1 = x + 2
      BY <1>0, <1>1
    <3>6. \A j, k \in 1 .. m : j < k => out[j] < out[k]
      BY <1>6, <3>1
    <3>7. Numbers(out, x + 1)
      BY <1>6, <3>4, <3>5, <3>6 DEF Numbers
    <3> QED
      BY <1>6, <2>2, <3>1, <3>3, <3>7 DEF Tabled
  <2> QED
    BY <1>14, <2>1, <2>2
<1> QED
  BY <1>9, <1>10, <1>11, <1>12, <1>13, <1>16, <1>17 DEF MsgInv

LEMMA MsgInit == Msgno!Init => MsgInv
<1> SUFFICES ASSUME Msgno!Init PROVE MsgInv
  OBVIOUS
<1>0. NumLists \in Nat \ {0}
  BY MsgnoAssumption
<1>1. /\ codes = MsgList /\ nextIdx = 1 /\ broken = FALSE
      /\ tbl = [i \in 1 .. NumLists - 1 |-> [list |-> "none", num |-> 0]]
  BY DEF Msgno!Init, Msgno!Slots, Msgno!NoList
<1>2. \A l \in DOMAIN MsgList : IsCodes(codes[l], l)
  BY <1>1, MsgnoAssumption DEF IsCodes
<1>4. \A i \in 1 .. NumLists - 1 : tbl[i].list = "none" /\ tbl[i].num = 0
  BY <1>1
<1>5. tbl \in [1 .. NumLists - 1 -> [list : DOMAIN MsgList \cup {"none"}, num : Nat]]
  BY <1>1
<1>6. \A i \in 1 .. nextIdx - 1 : FALSE
  BY <1>1
<1>7. \A i \in 1 .. NumLists - 1 : IF i < nextIdx THEN tbl[i].list # "none"
                                  ELSE tbl[i].list = "none" /\ (broken \/ tbl[i].num = 0)
  BY <1>0, <1>1, <1>4
<1>8. nextIdx \in 1 .. NumLists /\ broken \in BOOLEAN
  <2>1. nextIdx \in 1 .. NumLists
    BY <1>0, <1>1
  <2>2. broken \in BOOLEAN
    BY <1>1, Zenon
  <2> QED
    BY <2>1, <2>2
<1> QED
  BY <1>1, <1>2, <1>5, <1>6, <1>7, <1>8 DEF MsgInv

LEMMA MsgStep == MsgInv /\ [Msgno!Next]_msgVars => MsgInv'
<1> SUFFICES ASSUME MsgInv, [Msgno!Next]_msgVars
             PROVE  MsgInv'
  OBVIOUS
<1>1. ASSUME UNCHANGED msgVars PROVE MsgInv'
  <2>1. codes' = codes /\ tbl' = tbl /\ nextIdx' = nextIdx /\ broken' = broken
    BY <1>1 DEF msgVars
  <2>2. \A i : Tabled(i) => Tabled(i)'
    BY <2>1 DEF Tabled
  <2> QED
    BY <2>1, <2>2 DEF MsgInv
<1>2. ASSUME NEW l \in DOMAIN MsgList, Msgno!Add(l) PROVE MsgInv'
  BY <1>2, MsgAdd
<1>3. ASSUME NEW l \in DOMAIN MsgList, Msgno!AddAgain(l) PROVE MsgInv'
  BY <1>1, <1>3 DEF Msgno!AddAgain, Msgno!msgVars, msgVars
<1>4. ASSUME Msgno!AddTooMany PROVE MsgInv'
  BY <1>1, <1>4 DEF Msgno!AddTooMany, Msgno!msgVars, msgVars
<1> QED
  BY <1>1, <1>2, <1>3, <1>4 DEF Msgno!Next

(* A list whose table entry is i has its codes under i + 1.                *)
LEMMA UpperHalf ==
  ASSUME NEW h \in Nat, NEW a \in Nat, h * CodeHigh <= a, a < (h + 1) * CodeHigh
  PROVE  a \div CodeHigh = h
<1>0. CodeHigh \in Nat \ {0}
  BY MsgnoAssumption
<1> DEFINE q == a \div CodeHigh
           r == a % CodeHigh
<1>1. a = CodeHigh * q + r /\ q \in Int /\ r \in 0 .. CodeHigh - 1
  BY <1>0, Division
<1> HIDE DEF q, r
<1>2. CASE q >= h + 1
  <2>1. CodeHigh * q >= CodeHigh * (h + 1)
    BY <1>0, <1>1, <1>2
  <2>2. CodeHigh * (h + 1) = (h + 1) * CodeHigh
    BY <1>0
  <2> DEFINE u == CodeHigh * q
             v == (h + 1) * CodeHigh
  <2>3. u >= v /\ u \in Int /\ v \in Int /\ a = u + r /\ a < v
    BY <1>0, <1>1, <2>1, <2>2
  <2> HIDE DEF u, v
  <2> QED
    BY <1>0, <1>1, <2>3
<1>3. CASE q <= h - 1
  <2>1. CodeHigh * q <= CodeHigh * (h - 1)
    BY <1>0, <1>1, <1>3
  <2>2. CodeHigh * (h - 1) = h * CodeHigh - CodeHigh
    BY <1>0
  <2> DEFINE u == CodeHigh * q
             v == h * CodeHigh
  <2>3. u <= v - CodeHigh /\ u \in Int /\ v \in Int /\ a = u + r /\ v <= a
    BY <1>0, <1>1, <2>1, <2>2
  <2> HIDE DEF u, v
  <2> QED
    BY <1>0, <1>1, <2>3
<1>4. q = h
  <2>1. h \in Int /\ q \in Int
    BY <1>1
  <2> QED
    BY <1>2, <1>3, <2>1 DEF q
<1> QED
  BY <1>4 DEF q

(* msgno_msg: the number of an entry leads to the entry.                   *)
LEMMA MsgUnique == MsgInv => Msgno!Unique
<1> SUFFICES ASSUME MsgInv PROVE Msgno!Unique
  OBVIOUS
<1> DEFINE list(i) == tbl[i].list
<1>0. /\ NumLists \in Nat \ {0} /\ CodeHigh \in Nat \ {0} /\ "none" \notin DOMAIN MsgList
      /\ nextIdx \in 1 .. NumLists
      /\ tbl \in [1 .. NumLists - 1 -> [list : DOMAIN MsgList \cup {"none"}, num : Nat]]
  BY MsgnoAssumption DEF MsgInv
<1>1. ASSUME NEW i \in Msgno!Taken
      PROVE  /\ i \in Nat /\ i >= 1 /\ i < NumLists /\ i \in 1 .. NumLists - 1 /\ i \in 1 .. nextIdx - 1
             /\ list(i) \in DOMAIN MsgList /\ list(i) # "none" /\ Tabled(i) /\ tbl[i].num \in Nat
  <2>1. i \in 1 .. NumLists - 1 /\ list(i) # "none"
    BY DEF Msgno!Taken, Msgno!Slots, Msgno!NoList
  <2>2. i < nextIdx
    BY <2>1 DEF MsgInv
  <2>3. i \in 1 .. nextIdx - 1
    BY <1>0, <2>1, <2>2
  <2>4. Tabled(i)
    BY <2>3 DEF MsgInv
  <2> QED
    BY <1>0, <2>1, <2>3, <2>4
<1>2. ASSUME NEW i \in Msgno!Taken
      PROVE  LET c == codes[list(i)]
             IN /\ c \in Seq(Nat) /\ Len(c) \in Nat /\ DOMAIN c = 1 .. Len(c)
                /\ \A k \in 1 .. Len(c) : c[k] \in Nat
                /\ Numbers(c, i + 1) /\ tbl[i].num >= Len(c) /\ (broken \/ tbl[i].num = Len(c))
  <2>1. list(i) \in DOMAIN MsgList /\ Tabled(i)
    BY <1>1
  <2>2. IsCodes(codes[list(i)], list(i))
    BY <2>1 DEF MsgInv
  <2> QED
    BY <2>1, <2>2, Codes DEF Tabled
<1>3. ASSUME NEW i \in Msgno!Taken, NEW k \in 1 .. Len(codes[list(i)])
      PROVE  codes[list(i)][k] \in Nat /\ codes[list(i)][k] \div CodeHigh = i + 1
  <2> DEFINE c == codes[list(i)]
  <2>1. c[k] \in Nat /\ (i + 1) * CodeHigh <= c[k] /\ c[k] < ((i + 1) + 1) * CodeHigh
    BY <1>2 DEF Numbers
  <2>2. i + 1 \in Nat
    BY <1>1
  <2> HIDE DEF c
  <2>3. c[k] \div CodeHigh = i + 1
    BY <2>1, <2>2, UpperHalf
  <2> QED
    BY <2>1, <2>3 DEF c
<1>4. ASSUME NEW i \in Msgno!Taken, NEW j \in 1 .. Len(codes[list(i)]), NEW k \in 1 .. Len(codes[list(i)]),
             codes[list(i)][j] = codes[list(i)][k]
      PROVE  j = k
  <2> DEFINE c == codes[list(i)]
  <2>1. j \in Int /\ k \in Int /\ c[j] \in Nat /\ c[k] \in Nat /\ c[j] = c[k]
    BY <1>2, <1>4
  <2>2. (j < k => c[j] < c[k]) /\ (k < j => c[k] < c[j])
    BY <1>2 DEF Numbers
  <2> HIDE DEF c
  <2> QED
    BY <2>1, <2>2
<1>5. \A d, e \in Msgno!Entry : codes[d[1]][d[2]] = codes[e[1]][e[2]] => d = e
  <2> SUFFICES ASSUME NEW d \in Msgno!Entry, NEW e \in Msgno!Entry,
                      codes[d[1]][d[2]] = codes[e[1]][e[2]]
               PROVE  d = e
    OBVIOUS
  <2>1. PICK i \in Msgno!Taken : \E k \in DOMAIN codes[list(i)] : d = <<list(i), k>>
    BY DEF Msgno!Entry
  <2>2. PICK k \in DOMAIN codes[list(i)] : d = <<list(i), k>>
    BY <2>1
  <2>3. PICK j \in Msgno!Taken : \E q \in DOMAIN codes[list(j)] : e = <<list(j), q>>
    BY DEF Msgno!Entry
  <2>4. PICK q \in DOMAIN codes[list(j)] : e = <<list(j), q>>
    BY <2>3
  <2>5. k \in 1 .. Len(codes[list(i)]) /\ q \in 1 .. Len(codes[list(j)])
    BY <1>2
  <2>6. codes[list(i)][k] = codes[list(j)][q]
    BY <2>2, <2>4
  <2>7. i + 1 = j + 1
    BY <1>3, <2>5, <2>6
  <2>8. i = j
    BY <1>1, <2>7
  <2>9. k = q
    BY <1>4, <2>5, <2>6, <2>8
  <2> QED
    BY <2>2, <2>4, <2>8, <2>9
<1>6. ASSUME NEW i \in Msgno!Taken, NEW k \in DOMAIN codes[list(i)]
      PROVE  Msgno!Lookup(codes[list(i)][k])
             = IF i < NumLists - 1 THEN <<list(i), k>> ELSE Msgno!NotFound
  <2> DEFINE c == codes[list(i)]
             hits == {j \in 1 .. Len(c) : j <= tbl[i].num /\ c[j] = c[k]}
  <2>1. /\ k \in 1 .. Len(c) /\ c[k] \div CodeHigh = i + 1 /\ i \in Nat /\ i >= 1
        /\ list(i) # "none" /\ Len(c) \in Nat /\ tbl[i].num \in Nat /\ tbl[i].num >= Len(c)
    BY <1>1, <1>2, <1>3
  <2>2. (i + 1) - 1 = i /\ ~(i + 1 < 2) /\ (i + 1 >= NumLists <=> ~(i < NumLists - 1))
    BY <1>0, <2>1
  <2>3. Msgno!Lookup(c[k]) = IF i + 1 >= NumLists THEN <<"none", 0>>
                             ELSE IF hits # {} THEN <<list(i), CHOOSE x \in hits : \A j \in hits : x <= j>>
                             ELSE IF tbl[i].num > Len(c) THEN Msgno!Wild ELSE <<"none", 0>>
    <3> DEFINE a == c[k]
               h == a \div CodeHigh
               found == {j \in 1 .. Len(codes[tbl[h - 1].list]) :
                           j <= tbl[h - 1].num /\ codes[tbl[h - 1].list][j] = a}
    <3>1. Msgno!Lookup(a) =
            IF h >= NumLists \/ h < 2 THEN Msgno!NotFound
            ELSE IF tbl[h - 1].list = Msgno!NoList
                 THEN (IF tbl[h - 1].num = 0 THEN Msgno!NotFound ELSE Msgno!Wild)
            ELSE IF found # {} THEN <<tbl[h - 1].list, CHOOSE x \in found : \A j \in found : x <= j>>
            ELSE IF tbl[h - 1].num > Len(codes[tbl[h - 1].list]) THEN Msgno!Wild ELSE Msgno!NotFound
      BY Zenon DEF Msgno!Lookup
    <3>2. h = i + 1 /\ h - 1 = i
      BY <2>1, <2>2
    <3>3. found = hits
      BY <3>2
    <3> HIDE DEF found, hits, h
    <3>4. tbl[h - 1] = tbl[i]
      BY <3>2
    <3> QED
      BY <2>1, <2>2, <3>1, <3>2, <3>3, <3>4 DEF Msgno!NotFound, Msgno!NoList
  <2>4. hits = {k}
    <3>1. k \in hits
      BY <2>1
    <3>2. ASSUME NEW j \in hits PROVE j = k
      BY <1>4, <2>1
    <3> QED
      BY <3>1, <3>2
  <2> HIDE DEF hits
  <2>5. (CHOOSE x \in hits : \A j \in hits : x <= j) = k
    <3>1. \A x : (x \in hits /\ \A j \in hits : x <= j) <=> x = k
      BY <2>1, <2>4
    <3>2. (CHOOSE x : x \in hits /\ \A j \in hits : x <= j) = k
      BY <3>1
    <3> QED
      BY <3>2
  <2> QED
    BY <2>2, <2>3, <2>4, <2>5 DEF Msgno!NotFound
<1>7. ~broken => \A i \in Msgno!Taken : tbl[i].num = Len(codes[list(i)])
  BY <1>2
<1> QED
  BY <1>5, <1>6, <1>7 DEF Msgno!Unique

(* Registration numbers the messages apart and finds each by its number.   *)
THEOREM MsgnoIsUnique == Spec => []MsgnoUnique
<1>1. Init => MsgInv
  BY MsgInit DEF Init
<1>2. MsgInv /\ [Next]_vars => MsgInv'
  <2> SUFFICES ASSUME MsgInv, [Next]_vars
               PROVE  MsgInv'
    OBVIOUS
  <2>1. [Msgno!Next]_msgVars
    BY DEF Next, vars
  <2> QED
    BY <2>1, MsgStep
<1>3. MsgInv => MsgnoUnique
  BY MsgUnique DEF MsgnoUnique
<1> QED
  BY <1>1, <1>2, <1>3, PTL DEF Spec

(***************************************************************************)
(* suba.c                                                                  *)
(***************************************************************************)
(* The cells and their sizes tile the memory behind the allocator's own    *)
(* header; all but the last are of an even size.                           *)
EndOf(f, c) == c + POff + f[c]
CellIs(f, c) ==
  /\ c \in Nat /\ f[c] \in Nat /\ Hdr <= c /\ EndOf(f, c) <= MemSize
  /\ EndOf(f, c) = MemSize \/ (EndOf(f, c) \in DOMAIN f /\ f[c] % 2 = 0)
CellsOk(f) ==
  /\ Hdr \in DOMAIN f
  /\ \A c \in DOMAIN f : CellIs(f, c)
  /\ \A c, d \in DOMAIN f : c < d => EndOf(f, c) <= d

(* From c the links of the free cells F go on to d.                        *)
Onward(F, c, d) ==
  /\ d \in F
  /\ \/ c < d /\ \A e \in F : e <= c \/ d <= e
     \/ d <= c /\ \A e \in F : d <= e /\ e <= c
RingOk(nx, t) ==
  /\ t \in DOMAIN nx
  /\ \A c \in DOMAIN nx : c <= t /\ Onward(DOMAIN nx, c, nx[c])

HeapOk(h) ==
  /\ DOMAIN h = {"cell", "next", "tail"}
  /\ CellsOk(h.cell) /\ DOMAIN h.next \subseteq DOMAIN h.cell
  /\ RingOk(h.next, h.tail) /\ EndOf(h.cell, h.tail) = MemSize
  /\ \A c, d \in DOMAIN h.next : EndOf(h.cell, c) # d

UsedCells(h) == DOMAIN h.cell \ DOMAIN h.next

LEMMA Evens ==
  ASSUME NEW m \in Nat, NEW n \in Nat
  PROVE  /\ m % 2 = 0 /\ n % 2 = 0 => (m + n) % 2 = 0
         /\ (m + n) % 2 = 0 /\ n % 2 = 0 => m % 2 = 0
         /\ Suba!ALIGN(m) % 2 = 0 /\ Suba!ALIGN(m) >= m /\ Suba!ALIGN(m) \in Nat
         /\ m % 2 = 0 /\ n <= m => Suba!ALIGN(n) <= m
BY DEF Suba!ALIGN

(* A cell divided in two. *)
Divided(f, g, c, e, s, r) ==
  /\ f[c] = s + POff + r /\ e = c + POff + s
  /\ DOMAIN g = DOMAIN f \cup {e} /\ g[c] = s /\ g[e] = r
  /\ \A d \in DOMAIN f : d # c => g[d] = f[d]

LEMMA Divides ==
  ASSUME NEW f, CellsOk(f), NEW c \in DOMAIN f, NEW s \in Nat, s % 2 = 0, NEW r \in Nat,
         NEW g, NEW e, Divided(f, g, c, e, s, r)
  PROVE  /\ CellsOk(g) /\ e \notin DOMAIN f /\ e \in Nat /\ c < e
         /\ EndOf(g, e) = EndOf(f, c) /\ EndOf(g, c) = e
         /\ \A d \in DOMAIN f : d <= c \/ EndOf(f, c) <= d
<1>1. /\ f[c] = s + POff + r /\ e = c + POff + s /\ POff \in Nat /\ POff > 0 /\ POff % 2 = 0
      /\ MemSize \in Nat /\ Hdr \in Nat
      /\ DOMAIN g = DOMAIN f \cup {e} /\ g[c] = s /\ g[e] = r
      /\ \A d \in DOMAIN f : d # c => g[d] = f[d]
  BY SubaAssumption DEF Divided
<1>2. CellIs(f, c) /\ Hdr \in DOMAIN f
  BY DEF CellsOk
<1>3. \A d \in DOMAIN f : d \in Nat /\ f[d] \in Nat
  BY DEF CellsOk, CellIs
<1>4. \A d \in DOMAIN f : d <= c \/ EndOf(f, c) <= d
  BY <1>3 DEF CellsOk
<1>5. e \in Nat /\ c \in Nat /\ c < e /\ e < EndOf(f, c) /\ EndOf(f, c) = e + POff + r
  BY <1>1, <1>2 DEF CellIs, EndOf
<1>6. e \notin DOMAIN f
  <2>1. EndOf(f, c) \in Nat
    BY <1>1, <1>5
  <2> QED
    BY <1>4, <1>5, <2>1
<1>7. EndOf(g, e) = EndOf(f, c) /\ EndOf(g, c) = e
  BY <1>1, <1>5 DEF EndOf
<1>8. \A d \in DOMAIN f : d # c => EndOf(g, d) = EndOf(f, d)
  BY <1>1 DEF EndOf
<1>9. ASSUME NEW d \in DOMAIN g PROVE CellIs(g, d)
  <2>1. CASE d = c
    BY <1>1, <1>2, <1>5, <1>7, <2>1 DEF CellIs
  <2>2. CASE d = e
    <3>1. r % 2 = 0 \/ EndOf(f, c) = MemSize
      <4>1. CASE f[c] % 2 = 0
        <5>1. (r + (s + POff)) % 2 = 0 /\ (s + POff) % 2 = 0 /\ s + POff \in Nat
          BY <1>1, <4>1
        <5> QED
          BY <5>1, Evens
      <4> QED
        BY <1>2, <4>1 DEF CellIs
    <3>2. EndOf(f, c) = MemSize \/ EndOf(f, c) \in DOMAIN g
      BY <1>1, <1>2 DEF CellIs
    <3>3. EndOf(f, c) <= MemSize /\ Hdr <= e
      BY <1>1, <1>2, <1>5 DEF CellIs
    <3> QED
      BY <1>1, <1>5, <1>7, <2>2, <3>1, <3>2, <3>3 DEF CellIs
  <2>3. CASE d \in DOMAIN f /\ d # c
    <3>1. CellIs(f, d)
      BY <2>3 DEF CellsOk
    <3> QED
      BY <1>1, <1>8, <2>3, <3>1 DEF CellIs
  <2> QED
    BY <1>1, <2>1, <2>2, <2>3
<1>10. ASSUME NEW a \in DOMAIN g, NEW b \in DOMAIN g, a < b PROVE EndOf(g, a) <= b
  <2>0. \A x, y \in DOMAIN f : x < y => EndOf(f, x) <= y
    BY DEF CellsOk
  <2>1. CASE a = e
    <3>1. b \in DOMAIN f /\ b \in Nat
      BY <1>1, <1>3, <1>5, <1>10, <2>1
    <3>2. c < b
      BY <1>5, <1>10, <2>1, <3>1
    <3> QED
      BY <1>7, <2>0, <2>1, <3>1, <3>2
  <2>2. CASE a \in DOMAIN f /\ b = e
    <3>1. a \in Nat /\ (a < c => EndOf(f, a) <= c) /\ (a <= c \/ EndOf(f, c) <= a)
      BY <1>3, <1>4, <2>0, <2>2
    <3>2. EndOf(f, c) \in Nat
      BY <1>1, <1>5
    <3>3. CASE a = c
      BY <1>5, <1>7, <2>2, <3>3
    <3>4. CASE a # c
      <4>1. a < c /\ EndOf(f, a) <= c /\ EndOf(f, a) \in Nat
        BY <1>1, <1>3, <1>5, <1>10, <2>2, <3>1, <3>2, <3>4 DEF EndOf
      <4> QED
        BY <1>5, <1>8, <2>2, <3>4, <4>1
    <3> QED
      BY <3>3, <3>4
  <2>3. CASE a \in DOMAIN f /\ b \in DOMAIN f
    <3>1. EndOf(f, a) <= b /\ b \in Nat
      BY <1>3, <1>10, <2>0, <2>3
    <3>2. CASE a = c
      <4>1. EndOf(f, c) \in Nat
        BY <1>1, <1>5
      <4> QED
        BY <1>5, <1>7, <3>1, <3>2, <4>1
    <3> QED
      BY <1>8, <2>3, <3>1, <3>2
  <2> QED
    BY <1>1, <2>1, <2>2, <2>3
<1>11. CellsOk(g)
  BY <1>1, <1>2, <1>9, <1>10 DEF CellsOk
<1> QED
  BY <1>4, <1>5, <1>6, <1>7, <1>11

(* A cell that swallows the one behind it. *)
Joined(f, g, c, d) ==
  /\ EndOf(f, c) = d
  /\ DOMAIN g = DOMAIN f \ {d} /\ g[c] = f[c] + POff + f[d]
  /\ \A e \in DOMAIN g : e # c => g[e] = f[e]

LEMMA Joins ==
  ASSUME NEW f, CellsOk(f), NEW c \in DOMAIN f, NEW d \in DOMAIN f, NEW g, Joined(f, g, c, d)
  PROVE  CellsOk(g) /\ c < d /\ c \in DOMAIN g /\ EndOf(g, c) = EndOf(f, d)
<1>1. /\ EndOf(f, c) = d /\ POff \in Nat /\ POff > 0 /\ POff % 2 = 0 /\ MemSize \in Nat /\ Hdr \in Nat
      /\ DOMAIN g = DOMAIN f \ {d} /\ g[c] = f[c] + POff + f[d]
      /\ \A e \in DOMAIN g : e # c => g[e] = f[e]
  BY SubaAssumption DEF Joined
<1>2. CellIs(f, c) /\ CellIs(f, d) /\ Hdr \in DOMAIN f
  BY DEF CellsOk
<1>3. \A e \in DOMAIN f : e \in Nat /\ f[e] \in Nat
  BY DEF CellsOk, CellIs
<1>4. c \in Nat /\ d \in Nat /\ f[c] \in Nat /\ f[d] \in Nat /\ d = c + POff + f[c] /\ c < d
  BY <1>1, <1>3 DEF EndOf
<1>5. Hdr <= c /\ Hdr # d /\ c # d
  BY <1>1, <1>2, <1>4 DEF CellIs
<1>6. EndOf(g, c) = EndOf(f, d) /\ EndOf(f, d) \in Nat /\ d <= EndOf(f, d)
  BY <1>1, <1>4 DEF EndOf
<1>7. \A e \in DOMAIN g : e # c => EndOf(g, e) = EndOf(f, e)
  BY <1>1 DEF EndOf
<1>8. \A x, y \in DOMAIN f : x < y => EndOf(f, x) <= y
  BY DEF CellsOk
<1>9. ASSUME NEW e \in DOMAIN g PROVE CellIs(g, e)
  <2>1. CASE e = c
    <3>1. g[c] \in Nat /\ Hdr <= c /\ EndOf(g, c) <= MemSize
      BY <1>1, <1>2, <1>4, <1>6 DEF CellIs
    <3>2. CASE EndOf(f, d) = MemSize
      BY <1>4, <1>6, <2>1, <3>1, <3>2 DEF CellIs
    <3>3. CASE EndOf(f, d) # MemSize
      <4>1. EndOf(f, d) \in DOMAIN f /\ f[d] % 2 = 0 /\ EndOf(f, d) # d
        BY <1>1, <1>2, <1>4, <3>3 DEF CellIs, EndOf
      <4>2. EndOf(f, c) # MemSize
        <5>1. EndOf(f, d) <= MemSize
          BY <1>2 DEF CellIs
        <5> QED
          BY <1>1, <1>4, <1>6, <3>3, <5>1
      <4>3. f[c] % 2 = 0
        BY <1>2, <4>2 DEF CellIs
      <4>4. (f[c] + POff) % 2 = 0 /\ f[c] + POff \in Nat
        BY <1>1, <1>4, <4>3, Evens
      <4>5. g[c] % 2 = 0
        BY <1>1, <1>4, <4>1, <4>4, Evens
      <4>6. EndOf(g, c) \in DOMAIN g
        BY <1>1, <1>6, <4>1
      <4> QED
        BY <1>4, <2>1, <3>1, <4>5, <4>6 DEF CellIs
    <3> QED
      BY <3>2, <3>3
  <2>2. CASE e # c
    <3>1. CellIs(f, e) /\ e \in DOMAIN f /\ e # d /\ g[e] = f[e] /\ EndOf(g, e) = EndOf(f, e)
      BY <1>1, <1>7, <2>2 DEF CellsOk
    <3>2. EndOf(f, e) # d
      <4>1. CASE e < c
        <5>1. EndOf(f, e) <= c /\ EndOf(f, e) \in Nat
          BY <1>1, <1>3, <1>8, <3>1, <4>1 DEF EndOf
        <5> QED
          BY <1>4, <5>1
      <4>2. CASE c < e
        <5>1. d <= e /\ EndOf(f, e) > e
          BY <1>1, <1>3, <1>8, <3>1, <4>2 DEF EndOf
        <5> QED
          BY <1>3, <1>4, <3>1, <5>1
      <4> QED
        BY <1>3, <1>4, <2>2, <3>1, <4>1, <4>2
    <3> QED
      BY <1>1, <3>1, <3>2 DEF CellIs
  <2> QED
    BY <2>1, <2>2
<1>10. ASSUME NEW a \in DOMAIN g, NEW b \in DOMAIN g, a < b PROVE EndOf(g, a) <= b
  <2>0. a \in DOMAIN f /\ b \in DOMAIN f /\ a # d /\ b # d /\ EndOf(f, a) <= b /\ a \in Nat /\ b \in Nat
    BY <1>1, <1>3, <1>8, <1>10
  <2>1. CASE a = c
    <3>1. d <= b
      BY <1>1, <2>0, <2>1
    <3>2. d < b
      BY <1>4, <2>0, <3>1
    <3> QED
      BY <1>6, <1>8, <2>0, <2>1, <3>2
  <2>2. CASE a # c
    BY <1>7, <2>0, <2>2
  <2> QED
    BY <2>1, <2>2
<1>11. CellsOk(g)
  BY <1>1, <1>2, <1>5, <1>9, <1>10 DEF CellsOk
<1> QED
  BY <1>1, <1>4, <1>5, <1>6, <1>11

LEMMA Links ==
  ASSUME NEW nx, NEW t, RingOk(nx, t), DOMAIN nx \subseteq Nat
  PROVE  /\ t \in DOMAIN nx /\ \A x \in DOMAIN nx : x <= t /\ nx[x] \in DOMAIN nx
         /\ \A x, e \in DOMAIN nx : \/ x < nx[x] /\ (e <= x \/ nx[x] <= e)
                                    \/ nx[x] <= x /\ nx[x] <= e /\ e <= x
BY DEF RingOk, Onward

LEMMA LinksOnce ==
  ASSUME NEW nx, NEW t, RingOk(nx, t), DOMAIN nx \subseteq Nat,
         NEW x \in DOMAIN nx, NEW y \in DOMAIN nx, nx[x] = nx[y]
  PROVE  x = y
<1> DEFINE d == nx[x]
<1>1. d \in DOMAIN nx /\ d = nx[y] /\ d \in Nat /\ x \in Nat /\ y \in Nat
  BY Links
<1>2. /\ \/ x < d /\ (y <= x \/ d <= y)
         \/ d <= x /\ d <= y /\ y <= x
      /\ \/ y < d /\ (x <= y \/ d <= x)
         \/ d <= y /\ d <= x /\ x <= y
  BY <1>1, Links
<1> HIDE DEF d
<1> QED
  BY <1>1, <1>2

(* A free cell more, between a and the one behind it. *)
Linked(nx, ny, a, c) ==
  /\ DOMAIN ny = DOMAIN nx \cup {c} /\ ny[a] = c /\ ny[c] = nx[a]
  /\ \A x \in DOMAIN nx : x # a => ny[x] = nx[x]

LEMMA LinkMore ==
  ASSUME NEW nx, NEW t, RingOk(nx, t), DOMAIN nx \subseteq Nat, NEW c \in Nat, c \notin DOMAIN nx, c < t,
         NEW a \in DOMAIN nx, c < nx[a], a = t \/ a < c, NEW ny, Linked(nx, ny, a, c)
  PROVE  RingOk(ny, t)
<1> DEFINE F == DOMAIN nx
           b == nx[a]
<1>1. /\ DOMAIN ny = F \cup {c} /\ ny[a] = c /\ ny[c] = b /\ \A x \in F : x # a => ny[x] = nx[x]
      /\ a # c
  BY DEF Linked
<1>2. t \in F /\ b \in F /\ t \in Nat /\ a \in Nat /\ b \in Nat /\ c < b /\ a <= t
  BY Links
<1>3. \A e \in F : e \in Nat /\ e <= t /\ nx[e] \in F /\ nx[e] \in Nat
  BY Links
<1>4. \A x, e \in F : \/ x < nx[x] /\ (e <= x \/ nx[x] <= e)
                      \/ nx[x] <= x /\ nx[x] <= e /\ e <= x
  BY Links
<1>5. \A e \in F : \/ a < c /\ (e <= a \/ b <= e)
                   \/ a = t /\ b <= e
  BY <1>2, <1>3, <1>4
<1> HIDE DEF F, b
<1>6. Onward(F \cup {c}, a, c)
  BY <1>2, <1>3, <1>5 DEF Onward
<1>7. Onward(F \cup {c}, c, b)
  BY <1>2, <1>3, <1>5 DEF Onward
<1>8. ASSUME NEW x \in F, x # a PROVE Onward(F \cup {c}, x, nx[x])
  <2> DEFINE d == nx[x]
  <2>1. x \in Nat /\ d \in Nat /\ d \in F /\ a \in F /\ x <= t
    BY <1>3 DEF F
  <2>2. \A e \in F : (x < d /\ (e <= x \/ d <= e)) \/ (d <= x /\ d <= e /\ e <= x)
    BY <1>4
  <2> HIDE DEF d
  <2>3. x < d => c <= x \/ d <= c
    <3>1. CASE a = t /\ \A e \in F : b <= e
      BY <1>2, <2>1, <3>1
    <3>2. CASE a < c
      <4>1. x < d => a <= x \/ d <= a
        BY <2>1, <2>2
      <4>2. x <= a \/ b <= x
        BY <1>2, <1>5, <2>1, <3>2
      <4> QED
        BY <1>2, <1>8, <2>1, <3>2, <4>1, <4>2
    <3> QED
      BY <1>2, <1>5, <3>1, <3>2
  <2>4. d <= x => d <= c /\ c <= x
    <3> SUFFICES ASSUME d <= x PROVE d <= c /\ c <= x
      OBVIOUS
    <3>1. t <= x /\ d <= a
      BY <1>2, <2>1, <2>2
    <3>2. x = t /\ a < c
      BY <1>2, <1>5, <1>8, <2>1, <3>1
    <3> QED
      BY <1>2, <2>1, <3>1, <3>2
  <2>5. Onward(F \cup {c}, x, d)
    BY <2>1, <2>2, <2>3, <2>4 DEF Onward
  <2> QED
    BY <2>5 DEF d
<1>9. \A x \in F \cup {c} : x <= t /\ Onward(F \cup {c}, x, ny[x])
  BY <1>1, <1>2, <1>3, <1>6, <1>7, <1>8
<1> QED
  BY <1>1, <1>2, <1>9 DEF RingOk

(* A free cell less, a being the one before it. *)
Unlinked(nx, ny, a, c) ==
  /\ DOMAIN ny = DOMAIN nx \ {c} /\ ny[a] = nx[c]
  /\ \A x \in DOMAIN ny : x # a => ny[x] = nx[x]

LEMMA LinkLess ==
  ASSUME NEW nx, NEW t, RingOk(nx, t), DOMAIN nx \subseteq Nat, NEW c \in DOMAIN nx,
         NEW a \in DOMAIN nx, nx[a] = c, a # c, NEW ny, Unlinked(nx, ny, a, c)
  PROVE  RingOk(ny, IF c = t THEN a ELSE t)
<1> DEFINE F == DOMAIN nx
           d == nx[c]
<1>1. DOMAIN ny = F \ {c} /\ ny[a] = d /\ \A x \in F \ {c} : x # a => ny[x] = nx[x]
  BY DEF Unlinked
<1>2. t \in F /\ d \in F /\ t \in Nat /\ a \in Nat /\ c \in Nat /\ d \in Nat /\ a <= t /\ c <= t
  BY Links
<1>3. \A e \in F : e \in Nat /\ e <= t /\ nx[e] \in F /\ nx[e] \in Nat
  BY Links
<1>4. \A x, e \in F : \/ x < nx[x] /\ (e <= x \/ nx[x] <= e)
                      \/ nx[x] <= x /\ nx[x] <= e /\ e <= x
  BY Links
<1>5. \A e \in F : \/ a < c /\ (e <= a \/ c <= e)
                   \/ c <= a /\ c <= e /\ e <= a
  BY <1>4
<1>6. \A e \in F : \/ c < d /\ (e <= c \/ d <= e)
                   \/ d <= c /\ d <= e /\ e <= c
  BY <1>4
<1>7. \A x \in F : x # a => nx[x] # c
  BY LinksOnce
<1>8. a \in F /\ c \in F
  OBVIOUS
<1> HIDE DEF F, d
<1>9. Onward(F \ {c}, a, d) /\ d # c
  <2>1. d # c
    BY <1>2, <1>6, <1>8
  <2>2. CASE a < c /\ c < d
    <3>1. \A e \in F \ {c} : e <= a \/ d <= e
      BY <1>2, <1>3, <1>5, <1>6, <2>2
    <3> QED
      BY <1>2, <2>1, <2>2, <3>1 DEF Onward
  <2>3. CASE ~(a < c /\ c < d)
    <3>1. \A e \in F \ {c} : d <= e /\ e <= a
      BY <1>2, <1>3, <1>5, <1>6, <1>8, <2>3
    <3>2. d <= a
      BY <1>8, <3>1
    <3> QED
      BY <1>2, <2>1, <3>1, <3>2 DEF Onward
  <2> QED
    BY <2>1, <2>2, <2>3
<1>10. ASSUME NEW x \in F, x # c, x # a PROVE Onward(F \ {c}, x, nx[x])
  <2> DEFINE u == nx[x]
  <2>1. x \in Nat /\ u \in Nat /\ u \in F /\ u # c
    BY <1>3, <1>7, <1>10
  <2>2. \A e \in F : (x < u /\ (e <= x \/ u <= e)) \/ (u <= x /\ u <= e /\ e <= x)
    BY <1>4
  <2> HIDE DEF u
  <2>3. Onward(F \ {c}, x, u)
    BY <2>1, <2>2 DEF Onward
  <2> QED
    BY <2>3 DEF u
<1> DEFINE u == IF c = t THEN a ELSE t
<1>11. u \in F \ {c} /\ \A x \in F \ {c} : x <= u
  <2>1. CASE c = t
    <3>1. a < c
      BY <1>2, <2>1
    <3>2. \A e \in F \ {c} : e <= a
      BY <1>2, <1>3, <1>5, <2>1, <3>1
    <3> QED
      BY <1>8, <2>1, <3>2
  <2>2. CASE c # t
    BY <1>2, <1>3, <2>2
  <2> QED
    BY <2>1, <2>2
<1> HIDE DEF u
<1>12. \A x \in F \ {c} : x <= u /\ Onward(F \ {c}, x, ny[x])
  BY <1>1, <1>9, <1>10, <1>11
<1>13. RingOk(ny, u)
  BY <1>1, <1>11, <1>12 DEF RingOk
<1> QED
  BY <1>13 DEF u

(* A free cell c that becomes e, with no other between the two. *)
Relinked(nx, ny, a, c, e) ==
  /\ DOMAIN ny = (DOMAIN nx \ {c}) \cup {e}
  /\ a = c => ny[e] = e
  /\ a # c => ny[a] = e /\ ny[e] = nx[c]
  /\ \A x \in DOMAIN nx \ {c} : x # a => ny[x] = nx[x]

LEMMA LinkOther ==
  ASSUME NEW nx, NEW t, RingOk(nx, t), DOMAIN nx \subseteq Nat, NEW c \in DOMAIN nx, NEW e \in Nat,
         e \notin DOMAIN nx, \A x \in DOMAIN nx : x # c => (x < c <=> x < e),
         NEW a \in DOMAIN nx, nx[a] = c, NEW ny, Relinked(nx, ny, a, c, e)
  PROVE  RingOk(ny, IF c = t THEN e ELSE t)
<1> DEFINE F == DOMAIN nx
           G == (F \ {c}) \cup {e}
           to(x) == IF x = c THEN e ELSE x
<1>1. /\ t \in F /\ \A x \in F : x \in Nat /\ x <= t /\ nx[x] \in F
      /\ \A x, y \in F : \/ x < nx[x] /\ (y <= x \/ nx[x] <= y)
                         \/ nx[x] <= x /\ nx[x] <= y /\ y <= x
  BY Links
<1>2. \A x \in F : x # a => nx[x] # c
  BY LinksOnce
<1>3. \A x, y \in F : x < y <=> to(x) < to(y)
  <2> SUFFICES ASSUME NEW x \in F, NEW y \in F PROVE x < y <=> to(x) < to(y)
    OBVIOUS
  <2>1. x \in Nat /\ y \in Nat /\ c \in Nat /\ x # e /\ y # e
    BY <1>1
  <2>2. (x # c => (x < c <=> x < e)) /\ (y # c => (y < c <=> y < e))
    OBVIOUS
  <2>3. CASE x = c /\ y = c
    <3>1. to(x) = e /\ to(y) = e
      BY <2>3
    <3> HIDE DEF to
    <3> QED
      BY <2>1, <2>3, <3>1
  <2>4. CASE x # c /\ y = c
    <3>1. to(x) = x /\ to(y) = e
      BY <2>4
    <3> HIDE DEF to
    <3> QED
      BY <2>2, <2>4, <3>1
  <2>5. CASE x = c /\ y # c
    <3>1. to(x) = e /\ to(y) = y
      BY <2>5
    <3> HIDE DEF to
    <3> QED
      BY <2>1, <2>2, <2>5, <3>1
  <2>6. CASE x # c /\ y # c
    <3>1. to(x) = x /\ to(y) = y
      BY <2>6
    <3> HIDE DEF to
    <3> QED
      BY <3>1
  <2> QED
    BY <2>3, <2>4, <2>5, <2>6
<1>4. a = c => F = {c}
  <2> SUFFICES ASSUME a = c, NEW y \in F PROVE y = c
    OBVIOUS
  <2>1. nx[c] = c /\ y \in Nat /\ c \in Nat
    BY <1>1
  <2> QED
    BY <1>1, <2>1
<1>5. ASSUME NEW x \in F PROVE to(x) \in G /\ ny[to(x)] = to(nx[x])
  <2>1. CASE x = c /\ a = c
    BY <2>1 DEF Relinked
  <2>2. CASE x = c /\ a # c
    <3>1. nx[c] # c
      BY <1>2, <2>2
    <3> QED
      BY <2>2, <3>1 DEF Relinked
  <2>3. CASE x # c /\ x = a
    BY <2>3 DEF Relinked
  <2>4. CASE x # c /\ x # a
    <3>1. nx[x] # c
      BY <1>2, <2>4
    <3> QED
      BY <2>4, <3>1 DEF Relinked
  <2> QED
    BY <2>1, <2>2, <2>3, <2>4
<1>6. \A y \in G : \E x \in F : y = to(x)
  <2> SUFFICES ASSUME NEW y \in G PROVE \E x \in F : y = to(x)
    OBVIOUS
  <2>1. CASE y = e
    <3>1. c \in F /\ y = to(c)
      BY <2>1
    <3> QED
      BY <3>1
  <2>2. CASE y # e
    <3>1. y \in F /\ y # c
      BY <2>2
    <3>2. y = to(y)
      BY <3>1
    <3> QED
      BY <3>1, <3>2
  <2> QED
    BY <2>1, <2>2
<1>7. \A x \in F : to(x) \in Nat
  BY <1>1
<1>8. DOMAIN ny = G /\ to(t) = IF c = t THEN e ELSE t
  BY DEF Relinked
<1> HIDE DEF F, G, to
<1>9. \A x, y \in F : x <= y <=> to(x) <= to(y)
  BY <1>1, <1>3, <1>7
<1>10. ASSUME NEW x \in F PROVE to(x) <= to(t) /\ Onward(G, to(x), to(nx[x]))
  <2> DEFINE d == nx[x]
  <2>1. d \in F /\ \A y \in F : (x < d /\ (y <= x \/ d <= y)) \/ (d <= x /\ d <= y /\ y <= x)
    BY <1>1
  <2> HIDE DEF d
  <2>2. \A y \in F : \/ to(x) < to(d) /\ (to(y) <= to(x) \/ to(d) <= to(y))
                     \/ to(d) <= to(x) /\ to(d) <= to(y) /\ to(y) <= to(x)
    BY <1>3, <1>9, <2>1
  <2>3. \A z \in G : \/ to(x) < to(d) /\ (z <= to(x) \/ to(d) <= z)
                     \/ to(d) <= to(x) /\ to(d) <= z /\ z <= to(x)
    BY <1>6, <2>2
  <2>4. to(d) \in G /\ to(x) \in Nat /\ to(d) \in Nat
    BY <1>5, <1>7, <2>1
  <2>5. Onward(G, to(x), to(d))
    BY <2>3, <2>4 DEF Onward
  <2>6. to(x) <= to(t)
    BY <1>1, <1>9
  <2> QED
    BY <2>5, <2>6 DEF d
<1>11. \A y \in G : y <= to(t) /\ Onward(G, y, ny[y])
  BY <1>5, <1>6, <1>10
<1>12. RingOk(ny, to(t))
  BY <1>1, <1>5, <1>8, <1>11 DEF RingOk
<1> QED
  BY <1>8, <1>12

LEMMA SubaCounts == \A S : Suba!Cardinality(S) = Cardinality(S)
BY Zenon DEF Suba!Cardinality, Cardinality

LEMMA SubaMins == \A S : Suba!Min(S) = Min(S)
BY Zenon DEF Suba!Min, Min

(* The walk along the links of the free cells. *)
Steps(f, h, n) == [i \in 0 .. n |-> IF i = 0 THEN h.tail ELSE h.next[f[i - 1]]]

LEMMA StepsExist ==
  ASSUME NEW h, NEW m \in Nat
  PROVE  \E f : f = Steps(f, h, m)
<1> DEFINE T == {q \in Nat : \E f : f = Steps(f, h, q)}
<1>1. 0 \in T
  <2> DEFINE f == [j \in 0 .. 0 |-> h.tail]
  <2>1. f = Steps(f, h, 0)
    <3>1. \A j \in 0 .. 0 : j = 0
      OBVIOUS
    <3> QED
      BY <3>1 DEF Steps
  <2> QED
    BY <2>1
<1>2. \A q \in Nat : q \in T => q + 1 \in T
  <2> SUFFICES ASSUME NEW q \in Nat, q \in T PROVE q + 1 \in T
    OBVIOUS
  <2>1. PICK f : f = Steps(f, h, q)
    OBVIOUS
  <2> DEFINE g == [j \in 0 .. q + 1 |-> IF j = q + 1 THEN h.next[f[q]] ELSE f[j]]
  <2>2. \A j \in 0 .. q : f[j] = IF j = 0 THEN h.tail ELSE h.next[f[j - 1]]
    BY <2>1, Zenon DEF Steps
  <2>3. ASSUME NEW j \in 0 .. q + 1
        PROVE  g[j] = IF j = 0 THEN h.tail ELSE h.next[g[j - 1]]
    <3>1. CASE j = q + 1
      <4>1. j # 0 /\ j - 1 = q /\ q \in 0 .. q + 1 /\ q # q + 1
        BY <3>1
      <4>2. g[q] = f[q] /\ g[j] = h.next[f[q]]
        BY <3>1, <4>1
      <4> QED
        BY <3>1, <4>1, <4>2
    <3>2. CASE j # q + 1
      <4>1. j \in 0 .. q /\ g[j] = f[j]
        BY <3>2
      <4>2. CASE j = 0
        BY <2>2, <4>1, <4>2
      <4>3. CASE j # 0
        <5>1. j - 1 \in 0 .. q + 1 /\ j - 1 # q + 1
          BY <3>2, <4>3
        <5>2. g[j - 1] = f[j - 1]
          BY <5>1
        <5> QED
          BY <2>2, <4>1, <4>3, <5>2
      <4> QED
        BY <4>2, <4>3
    <3> QED
      BY <3>1, <3>2
  <2> HIDE DEF g
  <2>4. g = [j \in 0 .. q + 1 |-> g[j]]
    BY DEF g
  <2>5. [j \in 0 .. q + 1 |-> g[j]] = [j \in 0 .. q + 1 |-> IF j = 0 THEN h.tail ELSE h.next[g[j - 1]]]
    BY <2>3, Zenon
  <2>6. g = Steps(g, h, q + 1)
    BY <2>4, <2>5 DEF Steps
  <2> QED
    BY <2>6
<1> HIDE DEF T
<1>3. m \in T
  BY <1>1, <1>2, Induction
<1> QED
  BY <1>3 DEF T

LEMMA FreeFinite ==
  ASSUME NEW h, HeapOk(h)
  PROVE  /\ IsFiniteSet(DOMAIN h.next) /\ Cardinality(DOMAIN h.next) \in Nat
         /\ DOMAIN h.next \subseteq Nat /\ DOMAIN h.cell \subseteq Nat /\ DOMAIN h.next # {}
         /\ RingOk(h.next, h.tail) /\ CellsOk(h.cell)
<1>1. \A c \in DOMAIN h.cell : c \in Nat /\ c \in 0 .. MemSize
  <2> SUFFICES ASSUME NEW c \in DOMAIN h.cell PROVE c \in Nat /\ c \in 0 .. MemSize
    OBVIOUS
  <2>1. CellIs(h.cell, c)
    BY DEF HeapOk, CellsOk
  <2> QED
    BY <2>1, SubaAssumption DEF CellIs, EndOf
<1>2. DOMAIN h.next \subseteq 0 .. MemSize /\ IsFiniteSet(0 .. MemSize)
  <2>1. DOMAIN h.next \subseteq DOMAIN h.cell
    BY DEF HeapOk
  <2>2. IsFiniteSet(0 .. MemSize)
    BY SubaAssumption, FS_Interval
  <2> QED
    BY <1>1, <2>1, <2>2
<1>3. IsFiniteSet(DOMAIN h.next)
  BY <1>2, FS_Subset
<1>4. Cardinality(DOMAIN h.next) \in Nat
  BY <1>3, FS_CardinalityType
<1> QED
  BY <1>1, <1>2, <1>3, <1>4 DEF HeapOk, RingOk

LEMMA NthFree ==
  ASSUME NEW h, HeapOk(h)
  PROVE  LET to == Suba!Nth(h)
             n == Cardinality(DOMAIN h.next)
         IN /\ n \in Nat /\ to[0] = h.tail /\ \A i \in 0 .. n : to[i] \in DOMAIN h.next
            /\ \A i \in 1 .. n : to[i] = h.next[to[i - 1]]
<1> DEFINE n == Cardinality(DOMAIN h.next)
           F == DOMAIN h.next
           P(f) == f = Steps(f, h, n)
           to == CHOOSE f : P(f)
<1>0. n \in Nat /\ h.tail \in F /\ \A c \in F : h.next[c] \in F
  BY FreeFinite, Links
<1>1. Suba!Nth(h) = to
  <2>1. Suba!Cardinality(DOMAIN h.next) = n
    BY SubaCounts
  <2> QED
    BY <2>1, Zenon DEF Suba!Nth, Suba!FreeCells, Steps
<1>2. P(to)
  <2> HIDE DEF P, n
  <2>1. \E f : P(f)
    BY <1>0, StepsExist DEF P
  <2> QED
    BY <2>1
<1> HIDE DEF to, n, F
<1>3. \A i \in 0 .. n : to[i] = IF i = 0 THEN h.tail ELSE h.next[to[i - 1]]
  BY <1>2, Zenon DEF Steps
<1> HIDE DEF P
<1>4. to[0] = h.tail
  BY <1>0, <1>3
<1>5. \A i \in 1 .. n : i \in 0 .. n /\ i # 0 /\ to[i] = h.next[to[i - 1]]
  BY <1>0, <1>3
<1> DEFINE T == {i \in Nat : i <= n => to[i] \in F}
<1>6. 0 \in T
  BY <1>0, <1>4
<1>7. \A i \in Nat : i \in T => i + 1 \in T
  <2> SUFFICES ASSUME NEW i \in Nat, i \in T, i + 1 <= n PROVE to[i + 1] \in F
    OBVIOUS
  <2>1. i <= n /\ i + 1 \in 1 .. n /\ (i + 1) - 1 = i
    BY <1>0
  <2>2. to[i + 1] = h.next[to[i]]
    BY <1>5, <2>1
  <2> QED
    BY <1>0, <2>1, <2>2
<1> HIDE DEF T
<1>8. Nat \subseteq T
  BY <1>6, <1>7, Induction
<1>9. \A i \in 0 .. n : to[i] \in F
  BY <1>0, <1>8 DEF T
<1> QED
  BY <1>0, <1>1, <1>4, <1>5, <1>9 DEF n, F

(* The i-th cell of the walk has i - 1 free cells below it. *)
BelowOf(F, x) == {d \in F : d < x}
LEMMA NthRank ==
  ASSUME NEW h, HeapOk(h)
  PROVE  \A i \in 1 .. Cardinality(DOMAIN h.next) :
           Cardinality(BelowOf(DOMAIN h.next, Suba!Nth(h)[i])) = i - 1
<1> DEFINE n == Cardinality(DOMAIN h.next)
           F == DOMAIN h.next
           to == Suba!Nth(h)
           nx == h.next
<1>0. /\ n \in Nat /\ to[0] = h.tail /\ \A i \in 0 .. n : to[i] \in F
      /\ \A i \in 1 .. n : to[i] = nx[to[i - 1]]
  BY NthFree
<1>1. /\ IsFiniteSet(F) /\ \A c \in F : c \in Nat /\ c <= h.tail /\ nx[c] \in F
      /\ \A x, e \in F : \/ x < nx[x] /\ (e <= x \/ nx[x] <= e)
                         \/ nx[x] <= x /\ nx[x] <= e /\ e <= x
  BY FreeFinite, Links
<1>2. n = Cardinality(F)
  OBVIOUS
<1> HIDE DEF n, F, to, nx
<1>3. \A x : BelowOf(F, x) \subseteq F /\ IsFiniteSet(BelowOf(F, x))
  BY <1>1, FS_Subset DEF BelowOf
<1> DEFINE T == {i \in Nat : i + 1 <= n => Cardinality(BelowOf(F, to[i + 1])) = i}
<1>4. 0 \in T
  <2> SUFFICES ASSUME 1 <= n PROVE Cardinality(BelowOf(F, to[1])) = 0
    BY <1>0
  <2>1. 1 \in 1 .. n /\ 1 - 1 = 0 /\ 0 \in 0 .. n
    BY <1>0
  <2>2. to[1] = nx[h.tail] /\ h.tail \in F
    BY <1>0, <2>1
  <2>3. \A e \in F : to[1] <= e /\ e \in Nat /\ to[1] \in Nat
    BY <1>1, <2>2
  <2>4. BelowOf(F, to[1]) = {}
    BY <2>3 DEF BelowOf
  <2> QED
    BY <2>4, FS_EmptySet
<1>5. \A i \in Nat : i \in T => i + 1 \in T
  <2> SUFFICES ASSUME NEW i \in Nat, i \in T, (i + 1) + 1 <= n
               PROVE  Cardinality(BelowOf(F, to[(i + 1) + 1])) = i + 1
    OBVIOUS
  <2> DEFINE x == to[i + 1]
             d == nx[x]
  <2>1. i + 1 \in 0 .. n /\ (i + 1) + 1 \in 1 .. n /\ ((i + 1) + 1) - 1 = i + 1 /\ i + 1 <= n
    BY <1>0
  <2>2. to[(i + 1) + 1] = d /\ x \in F /\ x \in Nat /\ d \in F /\ d \in Nat
    BY <1>0, <1>1, <2>1
  <2>3. Cardinality(BelowOf(F, x)) = i
    BY <2>1
  <2>4. \A e \in F : e \in Nat /\ \/ x < d /\ (e <= x \/ d <= e)
                                  \/ d <= x /\ d <= e /\ e <= x
    BY <1>1, <2>2
  <2> HIDE DEF x, d
  <2>5. x \notin BelowOf(F, x)
    BY <2>2 DEF BelowOf
  <2>6. Cardinality(BelowOf(F, x) \cup {x}) = i + 1
    BY <1>3, <2>3, <2>5, FS_AddElement
  <2>7. CASE x < d
    <3>1. BelowOf(F, d) = BelowOf(F, x) \cup {x}
      <4>1. \A e \in F : e < d <=> (e < x \/ e = x)
        BY <2>2, <2>4, <2>7
      <4> QED
        BY <2>2, <4>1 DEF BelowOf
    <3> QED
      BY <2>2, <2>6, <3>1
  <2>8. CASE d <= x
    <3>1. F = BelowOf(F, x) \cup {x}
      <4>1. \A e \in F : e < x \/ e = x
        BY <2>2, <2>4, <2>8
      <4> QED
        BY <2>2, <4>1 DEF BelowOf
    <3>2. n = i + 1
      BY <1>2, <2>6, <3>1
    <3> QED
      BY <1>0, <3>2
  <2> QED
    BY <2>2, <2>7, <2>8
<1> HIDE DEF T
<1>6. Nat \subseteq T
  BY <1>4, <1>5, Induction
<1>7. ASSUME NEW i \in 1 .. n PROVE Cardinality(BelowOf(F, to[i])) = i - 1
  <2>1. i - 1 \in T /\ (i - 1) + 1 = i /\ i <= n
    BY <1>0, <1>6
  <2> QED
    BY <2>1 DEF T
<1> QED
  BY <1>7 DEF n, F, to

(* suba_free finds where a cell below tail belongs. *)
LEMMA InsertionIs ==
  ASSUME NEW h, HeapOk(h), NEW c \in Nat, c \notin DOMAIN h.next, c < h.tail
  PROVE  LET a == Suba!Insertion(h, c)
         IN a \in DOMAIN h.next /\ c < h.next[a] /\ (a = h.tail \/ a < c)
<1> DEFINE n == Cardinality(DOMAIN h.next)
           F == DOMAIN h.next
           to == Suba!Nth(h)
           nx == h.next
           t == h.tail
           stop == {i \in 0 .. n : ~(nx[to[i]] < c)}
           m == Min(stop)
<1>0. /\ n \in Nat /\ to[0] = t /\ \A i \in 0 .. n : to[i] \in F
      /\ \A i \in 1 .. n : to[i] = nx[to[i - 1]]
  BY NthFree
<1>1. IsFiniteSet(F) /\ t \in F /\ \A e \in F : e \in Nat /\ e <= t /\ nx[e] \in F
  BY FreeFinite, Links
<1>2. Suba!Insertion(h, c) = to[m]
  <2>1. Suba!Cardinality(F) = n /\ Suba!Min(stop) = m
    BY SubaCounts, SubaMins
  <2> QED
    BY <2>1, Zenon DEF Suba!Insertion, Suba!FreeCells
<1>3. \A i \in 1 .. n : Cardinality(BelowOf(F, to[i])) = i - 1
  BY NthRank
<1>4. n = Cardinality(F)
  OBVIOUS
<1>5. c \notin F /\ c < t
  OBVIOUS
<1> HIDE DEF n, F, to, nx, t
<1>6. stop # {}
  <2> SUFFICES ASSUME \A i \in 0 .. n : nx[to[i]] < c PROVE FALSE
    OBVIOUS
  <2>1. n > 0
    <3>1. F # {}
      BY <1>1
    <3>2. n # 0
      BY <1>1, <1>4, <3>1, FS_EmptySet
    <3> QED
      BY <1>0, <3>2
  <2> DEFINE x == to[n]
  <2>2. n \in 1 .. n /\ n - 1 \in 0 .. n /\ n \in 0 .. n
    BY <1>0, <2>1
  <2>3. x \in F /\ x \in Nat /\ x < c /\ Cardinality(BelowOf(F, x)) = n - 1
    BY <1>0, <1>1, <1>3, <2>2
  <2> HIDE DEF x
  <2> DEFINE B == BelowOf(F, x) \cup {x}
  <2>4. IsFiniteSet(BelowOf(F, x)) /\ x \notin BelowOf(F, x)
    <3>1. BelowOf(F, x) \subseteq F
      BY DEF BelowOf
    <3>2. IsFiniteSet(BelowOf(F, x))
      BY <1>1, <3>1, FS_Subset
    <3> QED
      BY <2>3, <3>2 DEF BelowOf
  <2>5. Cardinality(B) = n
    <3>1. Cardinality(B) = (n - 1) + 1
      BY <2>3, <2>4, FS_AddElement
    <3> QED
      BY <1>0, <3>1
  <2>6. B \subseteq F /\ t \notin B
    BY <1>1, <1>5, <2>3 DEF BelowOf
  <2>7. B = F
    BY <1>1, <1>4, <2>5, <2>6, FS_Subset
  <2> QED
    BY <1>1, <2>6, <2>7
<1>7. m \in stop /\ \A i \in stop : m <= i
  BY <1>6, MinIsLeast
<1> HIDE DEF m
<1>8. m \in 0 .. n /\ ~(nx[to[m]] < c)
  BY <1>7
<1> HIDE DEF stop
<1>9. to[m] \in F /\ nx[to[m]] \in F /\ nx[to[m]] \in Nat /\ c < nx[to[m]]
  <2>1. to[m] \in F /\ nx[to[m]] \in F /\ nx[to[m]] \in Nat
    BY <1>0, <1>1, <1>8
  <2>2. nx[to[m]] # c
    BY <1>5, <2>1
  <2> QED
    BY <1>8, <2>1, <2>2
<1>10. CASE m = 0
  BY <1>0, <1>2, <1>9, <1>10 DEF F, nx, t
<1>11. CASE m # 0
  <2>1. m \in 1 .. n /\ m - 1 \in 0 .. n /\ ~(m <= m - 1)
    BY <1>0, <1>8, <1>11
  <2>2. m - 1 \notin stop
    BY <1>7, <2>1
  <2>3. nx[to[m - 1]] < c
    BY <2>1, <2>2 DEF stop
  <2>4. to[m] < c
    BY <1>0, <2>1, <2>3
  <2> QED
    BY <1>2, <1>9, <2>4 DEF F, nx, t
<1> QED
  BY <1>10, <1>11

(* An allocation: the heap g that h becomes when s bytes are given at c.   *)
Handing(h, g, c, s) ==
  /\ HeapOk(g) /\ c \in DOMAIN h.next /\ UsedCells(g) = UsedCells(h) \cup {c}
  /\ \A u \in UsedCells(h) : g.cell[u] = h.cell[u]
  /\ g.cell[c] >= Suba!ALIGN(s)

LEMMA CellSizeIs ==
  ASSUME NEW s \in Nat
  PROVE  Suba!CellSize(s) \in Nat /\ Suba!CellSize(s) % 2 = 0 /\ Suba!CellSize(s) >= Suba!ALIGN(s)
<1>1. Suba!ALIGN(s) \in Nat /\ Suba!ALIGN(s) % 2 = 0
  BY Evens
<1>2. MinCell \in Nat /\ MinCell % 2 = 0 /\ (s <= MinCell => Suba!ALIGN(s) <= MinCell)
  BY SubaAssumption, Evens
<1>3. CASE s < MinCell
  BY <1>2, <1>3 DEF Suba!CellSize
<1>4. CASE ~(s < MinCell)
  BY <1>1, <1>4 DEF Suba!CellSize
<1> QED
  BY <1>3, <1>4

LEMMA AloneIs ==
  ASSUME NEW nx, NEW t, RingOk(nx, t), DOMAIN nx \subseteq Nat, NEW c \in DOMAIN nx, nx[c] = c
  PROVE  DOMAIN nx = {c} /\ t = c
<1>1. ASSUME NEW y \in DOMAIN nx PROVE y = c
  <2>1. y \in Nat /\ c \in Nat
    OBVIOUS
  <2>2. c <= y /\ y <= c
    BY <2>1, Links
  <2> QED
    BY <2>1, <2>2
<1> QED
  BY <1>1, Links

LEMMA SplitKeeps ==
  ASSUME NEW h, HeapOk(h), NEW a \in DOMAIN h.next, NEW c, h.next[a] = c, NEW s \in Nat, NEW sz \in Nat,
         sz % 2 = 0, sz >= Suba!ALIGN(s), h.cell[c] - sz > MinCell
  PROVE  Handing(h, Suba!Split(h, a, c, sz), c, s)
<1> DEFINE g == Suba!Split(h, a, c, sz)
           e == c + POff + sz
           r == h.cell[c] - (sz + POff)
           F == DOMAIN h.next
           f == h.cell
<1>0. /\ F \subseteq Nat /\ DOMAIN f \subseteq Nat /\ RingOk(h.next, h.tail) /\ CellsOk(f) /\ F \subseteq DOMAIN f
      /\ EndOf(f, h.tail) = MemSize /\ \A x, y \in F : EndOf(f, x) # y
  BY FreeFinite DEF HeapOk
<1>1. c \in F /\ c \in DOMAIN f /\ h.tail \in F /\ a \in F
  BY <1>0, Links
<1>2. \A x \in DOMAIN f : x \in Nat /\ f[x] \in Nat
  BY <1>0 DEF CellsOk, CellIs
<1>3. /\ POff \in Nat /\ POff > 0 /\ MinCell \in Nat /\ POff <= MinCell /\ MemSize \in Nat
      /\ Suba!ALIGN(s) \in Nat
  BY SubaAssumption, Evens
<1>4. r \in Nat /\ f[c] = sz + POff + r /\ e \in Nat /\ c < e /\ e # c
  <2>1. f[c] \in Nat /\ c \in Nat
    BY <1>1, <1>2
  <2> QED
    BY <1>3, <2>1
<1>5. /\ g.cell = Suba!Add(Suba!Add(f, e, r), c, sz)
      /\ g.next = IF a = c THEN [x \in {e} |-> e] ELSE Suba!Add(Suba!Add(Suba!Cut(h.next, c), e, h.next[c]), a, e)
      /\ g.tail = IF c = h.tail THEN e ELSE h.tail
      /\ DOMAIN g = {"cell", "next", "tail"}
  BY DEF Suba!Split
<1> HIDE DEF g, r, F
<1>6. Divided(f, g.cell, c, e, sz, r)
  <2> HIDE DEF e, f
  <2>1. g.cell = [d \in (DOMAIN f \cup {e}) \cup {c} |-> IF d = c THEN sz ELSE Suba!Add(f, e, r)[d]]
    <3>1. DOMAIN Suba!Add(f, e, r) = DOMAIN f \cup {e}
      BY DEF Suba!Add
    <3> QED
      BY <1>5, <3>1 DEF Suba!Add
  <2>2. Suba!Add(f, e, r)[e] = r /\ \A d \in DOMAIN f : d # e => Suba!Add(f, e, r)[d] = f[d]
    BY DEF Suba!Add
  <2>3. f[c] = sz + POff + r /\ e = c + POff + sz
    BY <1>4 DEF e
  <2>4. e # c /\ c \in DOMAIN f
    BY <1>1, <1>4
  <2>5. e \notin DOMAIN f
    <3>1. \A d \in DOMAIN f : c < d => EndOf(f, c) <= d
      BY <1>0, <1>1 DEF CellsOk
    <3>2. e < EndOf(f, c)
      BY <1>2, <1>3, <1>4, <2>3, <2>4 DEF EndOf
    <3>3. EndOf(f, c) \in Nat
      BY <1>2, <1>3, <2>4 DEF EndOf
    <3> QED
      BY <1>4, <3>1, <3>2, <3>3
  <2>6. /\ DOMAIN g.cell = DOMAIN f \cup {e} /\ g.cell[c] = sz /\ g.cell[e] = r
        /\ \A d \in DOMAIN f : d # c => g.cell[d] = f[d]
    BY <2>1, <2>2, <2>4, <2>5
  <2> QED
    BY <2>3, <2>6 DEF Divided
<1> HIDE DEF e, f
<1>7. /\ CellsOk(g.cell) /\ e \notin DOMAIN f /\ EndOf(g.cell, e) = EndOf(f, c)
      /\ \A d \in DOMAIN f : d <= c \/ EndOf(f, c) <= d
  BY <1>0, <1>1, <1>4, <1>6, Divides
<1>8. Relinked(h.next, g.next, a, c, e)
  <2>1. e \notin F
    BY <1>0, <1>7
  <2>2. CASE a = c
    <3>1. F = {c}
      BY <1>0, <1>1, <2>2, AloneIs DEF F
    <3>2. g.next = [x \in {e} |-> e]
      BY <1>5, <2>2
    <3> QED
      BY <2>2, <3>1, <3>2 DEF Relinked, F
  <2>3. CASE a # c
    <3> DEFINE d == h.next[c]
    <3>1. g.next = Suba!Add(Suba!Add(Suba!Cut(h.next, c), e, d), a, e)
      BY <1>5, <2>3
    <3> HIDE DEF d
    <3>2. /\ DOMAIN g.next = (F \ {c}) \cup {e} /\ g.next[a] = e /\ g.next[e] = d
          /\ \A x \in F \ {c} : x # a => g.next[x] = h.next[x]
      BY <1>1, <2>1, <2>3, <3>1 DEF Suba!Add, Suba!Cut, F
    <3> QED
      BY <2>3, <3>2 DEF Relinked, d, F
  <2> QED
    BY <2>2, <2>3
<1>9. EndOf(f, c) \in Nat /\ e < EndOf(f, c)
  BY <1>0, <1>1, <1>2, <1>3, <1>4, <1>7 DEF EndOf, e
<1>10. RingOk(g.next, g.tail)
  <2>1. \A x \in DOMAIN h.next : x # c => (x < c <=> x < e)
    <3> SUFFICES ASSUME NEW x \in F, x # c PROVE x < c <=> x < e
      BY DEF F
    <3>1. x \in Nat /\ c \in Nat /\ (x <= c \/ EndOf(f, c) <= x)
      BY <1>0, <1>1, <1>7
    <3> QED
      BY <1>4, <1>9, <3>1
  <2>2. e \notin DOMAIN h.next /\ DOMAIN h.next \subseteq Nat /\ c \in DOMAIN h.next
    BY <1>0, <1>1, <1>7 DEF F
  <2>3. RingOk(g.next, IF c = h.tail THEN e ELSE h.tail)
    BY <1>0, <1>4, <1>8, <2>1, <2>2, LinkOther
  <2> QED
    BY <1>5, <2>3
<1>11. /\ DOMAIN g.cell = DOMAIN f \cup {e} /\ g.cell[c] = sz
       /\ \A d \in DOMAIN f : d # c => g.cell[d] = f[d]
       /\ DOMAIN g.next = (F \ {c}) \cup {e}
  BY <1>6, <1>8 DEF Divided, Relinked, F
<1>12. \A d \in DOMAIN f : d # c => EndOf(g.cell, d) = EndOf(f, d)
  BY <1>11 DEF EndOf
<1>13. EndOf(g.cell, g.tail) = MemSize
  <2>1. CASE c = h.tail
    BY <1>0, <1>5, <1>7, <2>1
  <2>2. CASE c # h.tail
    BY <1>0, <1>1, <1>5, <1>12, <2>2
  <2> QED
    BY <2>1, <2>2
<1>14. ASSUME NEW x \in DOMAIN g.next, NEW y \in DOMAIN g.next PROVE EndOf(g.cell, x) # y
  <2>1. CASE x = e
    <3>1. EndOf(g.cell, x) = EndOf(f, c)
      BY <1>7, <2>1
    <3>2. CASE y = e
      BY <1>4, <1>9, <3>1, <3>2
    <3>3. CASE y # e
      <4>1. y \in F
        BY <1>11, <3>3
      <4> QED
        BY <1>0, <1>1, <3>1, <4>1
    <3> QED
      BY <3>2, <3>3
  <2>2. CASE x # e
    <3>1. x \in F /\ x # c /\ x \in DOMAIN f /\ EndOf(g.cell, x) = EndOf(f, x)
      BY <1>0, <1>11, <1>12, <2>2
    <3>2. CASE y = e
      <4>1. x \in Nat /\ c \in Nat /\ (x <= c \/ EndOf(f, c) <= x) /\ EndOf(f, x) \in Nat /\ x < EndOf(f, x)
        BY <1>0, <1>1, <1>2, <1>3, <1>7, <3>1 DEF EndOf
      <4>2. x < c => EndOf(f, x) <= c
        BY <1>0, <1>1, <3>1 DEF CellsOk
      <4> QED
        BY <1>4, <1>9, <3>1, <3>2, <4>1, <4>2
    <3>3. CASE y # e
      <4>1. y \in F
        BY <1>11, <3>3
      <4> QED
        BY <1>0, <3>1, <4>1
    <3> QED
      BY <3>2, <3>3
  <2> QED
    BY <2>1, <2>2
<1>15. DOMAIN g.next \subseteq DOMAIN g.cell
  BY <1>0, <1>11
<1>16. HeapOk(g)
  BY <1>5, <1>7, <1>10, <1>13, <1>14, <1>15 DEF HeapOk
<1>17. UsedCells(g) = UsedCells(h) \cup {c}
  BY <1>1, <1>4, <1>7, <1>11 DEF UsedCells, F, f
<1>18. \A u \in UsedCells(h) : g.cell[u] = h.cell[u]
  BY <1>1, <1>11 DEF UsedCells, F, f
<1>19. Handing(h, g, c, s)
  BY <1>1, <1>11, <1>16, <1>17, <1>18 DEF Handing, F
<1> QED
  BY <1>19 DEF g

LEMMA WholeKeeps ==
  ASSUME NEW h, HeapOk(h), NEW a \in DOMAIN h.next, NEW c, h.next[a] = c, NEW s \in Nat, c # h.tail,
         h.cell[c] >= Suba!ALIGN(s)
  PROVE  Handing(h, Suba!Whole(h, a, c), c, s)
<1> DEFINE g == Suba!Whole(h, a, c)
           F == DOMAIN h.next
<1>0. /\ F \subseteq Nat /\ DOMAIN h.cell \subseteq Nat /\ RingOk(h.next, h.tail) /\ CellsOk(h.cell)
      /\ F \subseteq DOMAIN h.cell /\ DOMAIN h = {"cell", "next", "tail"}
      /\ EndOf(h.cell, h.tail) = MemSize /\ \A x, y \in F : EndOf(h.cell, x) # y
  BY FreeFinite DEF HeapOk
<1>1. c \in F /\ h.tail \in F /\ a # c
  <2>1. c \in F /\ h.tail \in F
    BY <1>0, Links
  <2>2. a = c => h.tail = c
    BY <1>0, <2>1, AloneIs
  <2> QED
    BY <2>1, <2>2
<1>2. /\ g.cell = h.cell /\ g.tail = h.tail /\ DOMAIN g = DOMAIN h
      /\ g.next = Suba!Add(Suba!Cut(h.next, c), a, h.next[c])
  BY <1>0 DEF Suba!Whole
<1> HIDE DEF g
<1>3. Unlinked(h.next, g.next, a, c)
  <2> DEFINE d == h.next[c]
  <2>1. g.next = Suba!Add(Suba!Cut(h.next, c), a, d)
    BY <1>2
  <2> HIDE DEF d
  <2>2. /\ DOMAIN g.next = F \ {c} /\ g.next[a] = d
        /\ \A x \in DOMAIN g.next : x # a => g.next[x] = h.next[x]
    BY <1>1, <2>1 DEF Suba!Add, Suba!Cut
  <2> QED
    BY <2>2 DEF Unlinked, d
<1>4. RingOk(g.next, g.tail)
  <2>1. RingOk(g.next, IF c = h.tail THEN a ELSE h.tail)
    BY <1>0, <1>1, <1>3, LinkLess
  <2> QED
    BY <1>2, <2>1
<1>5. DOMAIN g.next = F \ {c}
  BY <1>3 DEF Unlinked
<1> HIDE DEF F
<1>6. HeapOk(g)
  BY <1>0, <1>2, <1>4, <1>5 DEF HeapOk
<1>7. UsedCells(g) = UsedCells(h) \cup {c}
  BY <1>0, <1>1, <1>2, <1>5 DEF UsedCells, F
<1>8. Handing(h, g, c, s)
  BY <1>1, <1>2, <1>6, <1>7 DEF Handing, F
<1> QED
  BY <1>8 DEF g

(* suba_alloc: it fails and changes nothing, or hands out a free cell.     *)
LEMMA TookIs ==
  ASSUME NEW h, HeapOk(h), NEW s \in Nat
  PROVE  \/ Suba!Took(h, s) = [h |-> h, c |-> 0]
         \/ /\ Suba!Took(h, s).c \in Nat \ {0}
            /\ Handing(h, Suba!Took(h, s).h, Suba!Took(h, s).c, s)
<1> DEFINE sz == Suba!CellSize(s)
           to == Suba!Nth(h)
           n == Cardinality(DOMAIN h.next)
           fits == Suba!Fits(h, sz)
           m == Min(fits)
           a == to[m - 1]
           c == to[m]
           t == Suba!Took(h, s)
<1>1. /\ sz \in Nat /\ sz % 2 = 0 /\ sz >= Suba!ALIGN(s) /\ Suba!ALIGN(s) \in Nat
  BY CellSizeIs, Evens
<1>2. /\ n \in Nat /\ \A i \in 0 .. n : to[i] \in DOMAIN h.next
      /\ \A i \in 1 .. n : to[i] = h.next[to[i - 1]]
  BY NthFree
<1>3. Suba!Min(fits) = m
  BY SubaMins
<1>4. fits = {i \in 1 .. n : h.cell[to[i]] >= sz}
  BY SubaCounts DEF Suba!Fits, Suba!FreeCells
<1>5. t = CASE fits = {} -> [h |-> h, c |-> Suba!NoCell]
            [] fits # {} /\ h.cell[c] - sz > MinCell -> [h |-> Suba!Split(h, a, c, sz), c |-> c]
            [] fits # {} /\ h.cell[c] - sz <= MinCell /\ h.next[a] = h.tail -> [h |-> h, c |-> Suba!NoCell]
            [] OTHER -> [h |-> Suba!Whole(h, a, c), c |-> c]
  BY <1>3 DEF Suba!Took
<1> HIDE DEF fits, m, c, a, t, sz, to, n
<1>6. Suba!NoCell = 0
  BY DEF Suba!NoCell
<1>7. CASE fits = {}
  BY <1>5, <1>6, <1>7 DEF t
<1>8. CASE fits # {}
  <2>1. m \in fits
    BY <1>4, <1>8, MinIsLeast DEF m
  <2>2. m \in 1 .. n /\ h.cell[c] >= sz
    BY <1>4, <2>1 DEF c
  <2>3. m - 1 \in 0 .. n /\ m \in 0 .. n
    BY <1>2, <2>2
  <2>4. a \in DOMAIN h.next /\ c \in DOMAIN h.next /\ h.next[a] = c
    BY <1>2, <2>2, <2>3 DEF a, c
  <2>5. c \in Nat \ {0} /\ h.cell[c] \in Nat /\ MinCell \in Nat
    <3>1. CellIs(h.cell, c)
      BY <2>4 DEF HeapOk, CellsOk
    <3> QED
      BY <3>1, SubaAssumption DEF CellIs
  <2>6. CASE h.cell[c] - sz > MinCell
    <3>1. t = [h |-> Suba!Split(h, a, c, sz), c |-> c]
      BY <1>1, <1>5, <1>8, <2>5, <2>6
    <3>2. Handing(h, Suba!Split(h, a, c, sz), c, s)
      BY <1>1, <2>4, <2>6, SplitKeeps
    <3> QED
      BY <2>5, <3>1, <3>2 DEF t
  <2>7. CASE ~(h.cell[c] - sz > MinCell) /\ c = h.tail
    <3>1. h.cell[c] - sz <= MinCell /\ h.next[a] = h.tail
      BY <1>1, <2>4, <2>5, <2>7
    <3>2. t = [h |-> h, c |-> 0]
      BY <1>5, <1>6, <1>8, <2>7, <3>1
    <3> QED
      BY <3>2 DEF t
  <2>8. CASE ~(h.cell[c] - sz > MinCell) /\ c # h.tail
    <3>1. t = [h |-> Suba!Whole(h, a, c), c |-> c]
      BY <1>5, <1>8, <2>4, <2>8
    <3>2. h.cell[c] >= Suba!ALIGN(s)
      BY <1>1, <2>2, <2>5
    <3>3. Handing(h, Suba!Whole(h, a, c), c, s)
      BY <2>4, <2>8, <3>2, WholeKeeps
    <3> QED
      BY <2>5, <3>1, <3>3 DEF t
  <2> QED
    BY <2>6, <2>7, <2>8
<1> QED
  BY <1>7, <1>8

(* The cell c in use lies between the free cells a and d, which are linked *)
(* in the heap h.                                                          *)
GapOk(h, a, c, d) ==
  /\ a \in DOMAIN h.next /\ d \in DOMAIN h.next /\ d = h.next[a] /\ c \in UsedCells(h)
  /\ c < d /\ c < h.tail /\ (a = h.tail \/ a < c)
  /\ \A e \in DOMAIN h.next : (a < c /\ e <= a) \/ d <= e
Gap(h, a, c, d) ==
  /\ HeapOk(h) /\ GapOk(h, a, c, d)
  /\ \A e \in DOMAIN h.next : /\ EndOf(h.cell, e) = c => e = a
                              /\ EndOf(h.cell, c) = e => e = d

LEMMA CellsAre ==
  ASSUME NEW h, HeapOk(h)
  PROVE  /\ DOMAIN h.next \subseteq Nat /\ DOMAIN h.cell \subseteq Nat /\ RingOk(h.next, h.tail)
         /\ CellsOk(h.cell) /\ DOMAIN h.next \subseteq DOMAIN h.cell /\ h.tail \in DOMAIN h.next
         /\ EndOf(h.cell, h.tail) = MemSize
         /\ \A x, y \in DOMAIN h.next : EndOf(h.cell, x) # y
         /\ \A x \in DOMAIN h.cell : /\ x \in Nat /\ h.cell[x] \in Nat /\ EndOf(h.cell, x) \in Nat
                                     /\ x < EndOf(h.cell, x) /\ EndOf(h.cell, x) <= MemSize
         /\ \A x, y \in DOMAIN h.cell : x < y => EndOf(h.cell, x) <= y
<1>1. /\ DOMAIN h.next \subseteq Nat /\ DOMAIN h.cell \subseteq Nat /\ RingOk(h.next, h.tail)
      /\ CellsOk(h.cell) /\ DOMAIN h.next \subseteq DOMAIN h.cell
      /\ EndOf(h.cell, h.tail) = MemSize
      /\ \A x, y \in DOMAIN h.next : EndOf(h.cell, x) # y
  BY FreeFinite DEF HeapOk
<1>2. h.tail \in DOMAIN h.next
  BY <1>1 DEF RingOk
<1>3. ASSUME NEW x \in DOMAIN h.cell
      PROVE  /\ x \in Nat /\ h.cell[x] \in Nat /\ EndOf(h.cell, x) \in Nat
             /\ x < EndOf(h.cell, x) /\ EndOf(h.cell, x) <= MemSize
  <2>1. x \in Nat /\ h.cell[x] \in Nat /\ EndOf(h.cell, x) <= MemSize
    BY <1>1 DEF CellsOk, CellIs
  <2> QED
    BY <2>1, SubaAssumption DEF EndOf
<1>4. \A x, y \in DOMAIN h.cell : x < y => EndOf(h.cell, x) <= y
  BY <1>1 DEF CellsOk
<1> QED
  BY <1>1, <1>2, <1>3, <1>4

LEMMA GapIs ==
  ASSUME NEW h, HeapOk(h), NEW c \in UsedCells(h)
  PROVE  c < h.tail /\ Gap(h, Suba!Insertion(h, c), c, h.next[Suba!Insertion(h, c)])
<1> DEFINE a == Suba!Insertion(h, c)
           d == h.next[a]
           F == DOMAIN h.next
           f == h.cell
           t == h.tail
<1> HIDE DEF a
<1>1. /\ F \subseteq Nat /\ RingOk(h.next, t) /\ F \subseteq DOMAIN f /\ t \in F /\ t \in DOMAIN f
      /\ EndOf(f, t) = MemSize
      /\ \A x \in DOMAIN f : /\ x \in Nat /\ EndOf(f, x) \in Nat
                             /\ x < EndOf(f, x) /\ EndOf(f, x) <= MemSize
      /\ \A x, y \in DOMAIN f : x < y => EndOf(f, x) <= y
  BY CellsAre
<1>2. c \in DOMAIN f /\ c \notin F /\ c \in Nat
  BY <1>1 DEF UsedCells
<1> HIDE DEF F, f, t
<1>3. c < t
  <2>1. t < c => EndOf(f, t) <= c
    BY <1>1, <1>2
  <2>2. c < EndOf(f, c) /\ EndOf(f, c) <= MemSize /\ EndOf(f, c) \in Nat /\ t \in Nat /\ c # t /\ MemSize \in Nat
    BY <1>1, <1>2, SubaAssumption
  <2> QED
    BY <1>1, <1>2, <2>1, <2>2
<1>4. a \in F /\ c < d /\ (a = t \/ a < c)
  BY <1>2, <1>3, InsertionIs DEF a, F, t
<1>5. d \in F /\ \A x \in F : x <= t
  BY <1>1, <1>4, Links DEF F
<1> HIDE DEF d
<1>6. \A e \in F : (a < d /\ (e <= a \/ d <= e)) \/ (d <= a /\ d <= e /\ e <= a)
  BY <1>1, <1>4, Links DEF F, d
<1>7. ASSUME NEW e \in F PROVE (a < c /\ e <= a) \/ d <= e
  <2>1. e \in Nat /\ a \in Nat /\ d \in Nat /\ t \in Nat /\ e <= t /\ d <= t
    BY <1>1, <1>4, <1>5
  <2>2. (a < d /\ (e <= a \/ d <= e)) \/ (d <= a /\ d <= e /\ e <= a)
    BY <1>6
  <2> QED
    BY <1>2, <1>3, <1>4, <2>1, <2>2
<1>8. ASSUME NEW e \in F, EndOf(f, e) = c PROVE e = a
  <2>1. e \in DOMAIN f /\ a \in DOMAIN f /\ e \in Nat /\ a \in Nat /\ d \in Nat /\ e < c
    BY <1>1, <1>4, <1>5, <1>8
  <2>2. e < a => EndOf(f, e) <= a
    BY <1>1, <2>1
  <2> QED
    BY <1>2, <1>4, <1>7, <1>8, <2>1, <2>2
<1>9. ASSUME NEW e \in F, EndOf(f, c) = e PROVE e = d
  <2>1. e \in Nat /\ a \in Nat /\ d \in Nat /\ c < e
    BY <1>1, <1>2, <1>4, <1>5, <1>9
  <2>2. EndOf(f, c) <= d
    BY <1>1, <1>2, <1>4, <1>5
  <2> QED
    BY <1>2, <1>4, <1>7, <1>9, <2>1, <2>2
<1>10. GapOk(h, a, c, d)
  BY <1>3, <1>4, <1>5, <1>7 DEF GapOk, F, t, d
<1>11. Gap(h, a, c, d)
  BY <1>8, <1>9, <1>10 DEF Gap, F, f
<1> QED
  BY <1>3, <1>11 DEF a, d, t

LEMMA GapFacts ==
  ASSUME NEW h, NEW a, NEW c, NEW d, Gap(h, a, c, d)
  PROVE  /\ a \in DOMAIN h.next /\ d \in DOMAIN h.next /\ d = h.next[a]
         /\ a \in DOMAIN h.cell /\ d \in DOMAIN h.cell /\ c \in DOMAIN h.cell /\ c \notin DOMAIN h.next
         /\ a \in Nat /\ c \in Nat /\ d \in Nat /\ h.tail \in Nat
         /\ c < d /\ c < h.tail /\ (a = h.tail \/ a < c)
         /\ \A e \in DOMAIN h.next : /\ (a < c /\ e <= a) \/ d <= e
                                     /\ EndOf(h.cell, e) = c => e = a
                                     /\ EndOf(h.cell, c) = e => e = d
BY CellsAre DEF Gap, GapOk, UsedCells

(* A cell goes back: the heap g that h becomes when c is free again.       *)
Returned(h, g, c) ==
  /\ HeapOk(g) /\ UsedCells(g) = UsedCells(h) \ {c}
  /\ \A u \in UsedCells(g) : g.cell[u] = h.cell[u]

LEMMA BelowKeeps ==
  ASSUME NEW h, NEW a, NEW c, NEW d, Gap(h, a, c, d), EndOf(h.cell, a) = c, EndOf(h.cell, c) # d
  PROVE  Returned(h, Suba!GaveBelow(h, a, c, d, FALSE), c)
<1> DEFINE g == Suba!GaveBelow(h, a, c, d, FALSE)
           f == h.cell
           F == DOMAIN h.next
           v == f[a] + (POff + f[c])
<1>1. HeapOk(h)
  BY DEF Gap
<1>2. /\ g.cell = Suba!Add(Suba!Cut(f, c), a, f[a] + (POff + f[c] + 0))
      /\ g.next = h.next /\ g.tail = h.tail /\ DOMAIN g = {"cell", "next", "tail"}
  BY DEF Suba!GaveBelow
<1>3. a \in DOMAIN f /\ c \in DOMAIN f /\ a # c /\ f[a] \in Nat /\ f[c] \in Nat /\ POff \in Nat /\ a < c
  BY <1>1, GapFacts, CellsAre, SubaAssumption
<1>4. g.cell = Suba!Add(Suba!Cut(f, c), a, v) /\ v = f[a] + POff + f[c]
  <2> DEFINE p == f[a]
             q == f[c]
  <2>1. p + (POff + q + 0) = v /\ v = p + POff + q
    <3>1. p \in Nat /\ q \in Nat /\ POff \in Nat
      BY <1>3
    <3> HIDE DEF p, q
    <3>2. p + (POff + q + 0) = p + (POff + q) /\ p + (POff + q) = p + POff + q
      BY <3>1
    <3> QED
      BY <3>2 DEF p, q
  <2> QED
    BY <1>2, <2>1, Zenon
<1> HIDE DEF g, v
<1>5. /\ DOMAIN g.cell = DOMAIN f \ {c} /\ g.cell[a] = v
      /\ \A x \in DOMAIN g.cell : x # a => g.cell[x] = f[x]
  BY <1>3, <1>4 DEF Suba!Add, Suba!Cut
<1>6. Joined(f, g.cell, a, c)
  BY <1>4, <1>5 DEF Joined
<1>7. CellsOk(g.cell) /\ EndOf(g.cell, a) = EndOf(f, c)
  BY <1>1, <1>3, <1>6, CellsAre, Joins
<1>8. \A x \in DOMAIN g.cell : x # a => EndOf(g.cell, x) = EndOf(f, x)
  BY <1>5 DEF EndOf
<1>9. /\ F \subseteq DOMAIN f /\ c \notin F /\ a \in F /\ h.tail \in F /\ a # h.tail /\ RingOk(h.next, h.tail)
      /\ EndOf(f, h.tail) = MemSize /\ \A x, y \in F : EndOf(f, x) # y
  BY <1>1, <1>3, GapFacts, CellsAre
<1>10. F \subseteq DOMAIN g.cell
  BY <1>5, <1>9
<1>11. EndOf(g.cell, g.tail) = MemSize
  BY <1>2, <1>8, <1>9, <1>10
<1>12. ASSUME NEW x \in F, NEW y \in F PROVE EndOf(g.cell, x) # y
  <2>1. CASE x = a
    BY <1>7, <2>1, GapFacts
  <2>2. CASE x # a
    BY <1>8, <1>9, <1>10, <2>2
  <2> QED
    BY <2>1, <2>2
<1>13. HeapOk(g)
  BY <1>2, <1>7, <1>9, <1>10, <1>11, <1>12 DEF HeapOk
<1>14. UsedCells(g) = UsedCells(h) \ {c} /\ \A u \in UsedCells(g) : g.cell[u] = h.cell[u]
  BY <1>2, <1>5, <1>9 DEF UsedCells
<1>15. Returned(h, g, c)
  BY <1>13, <1>14 DEF Returned
<1> QED
  BY <1>15 DEF g

LEMMA BothKeeps ==
  ASSUME NEW h, NEW a, NEW c, NEW d, Gap(h, a, c, d), EndOf(h.cell, a) = c, EndOf(h.cell, c) = d
  PROVE  Returned(h, Suba!GaveBelow(h, a, c, d, TRUE), c)
<1> DEFINE g == Suba!GaveBelow(h, a, c, d, TRUE)
           f == h.cell
           F == DOMAIN h.next
           u == f[a] + POff + f[c]
           v == f[a] + (POff + f[c] + (POff + f[d]))
           f1 == Suba!Add(Suba!Cut(f, c), a, u)
           nx == h.next
           t == h.tail
<1>1. HeapOk(h)
  BY DEF Gap
<1>2. /\ g.cell = Suba!Add(Suba!Cut(Suba!Cut(f, c), d), a, v)
      /\ g.next = Suba!Add(Suba!Cut(nx, d), a, nx[d]) /\ g.tail = Suba!NewTail(h, a, c, d, TRUE)
      /\ DOMAIN g = {"cell", "next", "tail"}
  BY DEF Suba!GaveBelow
<1>3. /\ a \in DOMAIN f /\ c \in DOMAIN f /\ d \in DOMAIN f /\ a < c /\ c < d
      /\ a \in Nat /\ c \in Nat /\ d \in Nat
      /\ f[a] \in Nat /\ f[c] \in Nat /\ f[d] \in Nat /\ POff \in Nat
  BY <1>1, GapFacts, CellsAre, SubaAssumption
<1>4. a # c /\ a # d /\ c # d /\ v = u + POff + f[d]
  BY <1>3
<1>5. /\ F \subseteq DOMAIN f /\ c \notin F /\ a \in F /\ d \in F /\ nx[a] = d /\ t \in F /\ a # t
      /\ RingOk(nx, t) /\ F \subseteq Nat
      /\ EndOf(f, t) = MemSize /\ \A x, y \in F : EndOf(f, x) # y
  <2>1. a # t
    BY <1>3, GapFacts
  <2> QED
    BY <1>1, <2>1, GapFacts, CellsAre
<1> HIDE DEF g, v, u, f, F, nx, t
<1>6. /\ DOMAIN f1 = DOMAIN f \ {c} /\ f1[a] = u /\ \A x \in DOMAIN f1 : x # a => f1[x] = f[x]
  BY <1>3, <1>4 DEF Suba!Add, Suba!Cut
<1> HIDE DEF f1
<1>7. Joined(f, f1, a, c)
  BY <1>6 DEF Joined, u, f
<1>8. CellsOk(f1) /\ EndOf(f1, a) = EndOf(f, c)
  BY <1>1, <1>3, <1>7, CellsAre, Joins DEF f
<1>9. /\ DOMAIN g.cell = DOMAIN f1 \ {d} /\ g.cell[a] = v
      /\ \A x \in DOMAIN g.cell : x # a => g.cell[x] = f[x]
  <2>1. DOMAIN Suba!Cut(Suba!Cut(f, c), d) = (DOMAIN f \ {c}) \ {d}
    BY DEF Suba!Cut
  <2>2. \A x \in DOMAIN f : x # c /\ x # d => Suba!Cut(Suba!Cut(f, c), d)[x] = f[x]
    BY DEF Suba!Cut
  <2>3. DOMAIN f1 = DOMAIN f \ {c}
    BY <1>6
  <2>4. DOMAIN g.cell = DOMAIN f1 \ {d} /\ g.cell[a] = v
    BY <1>2, <1>3, <1>4, <2>1, <2>3 DEF Suba!Add
  <2>5. ASSUME NEW x \in DOMAIN g.cell, x # a PROVE g.cell[x] = f[x]
    <3>1. x \in DOMAIN f /\ x # c /\ x # d
      BY <2>3, <2>4
    <3>2. x \in DOMAIN Suba!Cut(Suba!Cut(f, c), d)
      BY <2>1, <3>1
    <3>3. g.cell[x] = Suba!Cut(Suba!Cut(f, c), d)[x]
      BY <1>2, <2>5, <3>2 DEF Suba!Add
    <3> QED
      BY <2>2, <3>1, <3>3
  <2> QED
    BY <2>4, <2>5
<1>10. Joined(f1, g.cell, a, d)
  <2>1. EndOf(f1, a) = d
    BY <1>8 DEF f
  <2>2. d \in DOMAIN f1 /\ f1[d] = f[d] /\ f1[a] = u
    BY <1>3, <1>4, <1>6
  <2>3. g.cell[a] = f1[a] + POff + f1[d]
    BY <1>4, <1>9, <2>2
  <2>4. \A x \in DOMAIN g.cell : x # a => g.cell[x] = f1[x]
    BY <1>6, <1>9
  <2> QED
    BY <1>9, <2>1, <2>3, <2>4 DEF Joined
<1>11. CellsOk(g.cell) /\ EndOf(g.cell, a) = EndOf(f, d)
  <2>1. a \in DOMAIN f1 /\ d \in DOMAIN f1
    BY <1>3, <1>4, <1>6
  <2>2. EndOf(f1, d) = EndOf(f, d)
    BY <1>4, <1>6, <2>1 DEF EndOf
  <2> QED
    BY <1>8, <1>10, <2>1, <2>2, Joins
<1>12. \A x \in DOMAIN g.cell : x # a => EndOf(g.cell, x) = EndOf(f, x)
  BY <1>9 DEF EndOf
<1>13. Unlinked(nx, g.next, a, d)
  <2> DEFINE b == nx[d]
  <2>1. g.next = Suba!Add(Suba!Cut(nx, d), a, b)
    BY <1>2
  <2> HIDE DEF b
  <2>2. /\ DOMAIN g.next = DOMAIN nx \ {d} /\ g.next[a] = b
        /\ \A x \in DOMAIN g.next : x # a => g.next[x] = nx[x]
    BY <1>4, <1>5, <2>1 DEF Suba!Add, Suba!Cut, F, nx
  <2> QED
    BY <2>2 DEF Unlinked, b
<1>14. g.tail = IF d = t THEN a ELSE t
  BY <1>2 DEF Suba!NewTail, t
<1>15. RingOk(g.next, g.tail)
  BY <1>4, <1>5, <1>13, <1>14, LinkLess DEF F, nx
<1>16. DOMAIN g.next = F \ {d}
  BY <1>13 DEF Unlinked, F, nx
<1>17. DOMAIN g.next \subseteq DOMAIN g.cell
  BY <1>5, <1>6, <1>9, <1>16
<1>18. EndOf(g.cell, g.tail) = MemSize
  <2>1. CASE d = t
    BY <1>5, <1>11, <1>14, <2>1
  <2>2. CASE d # t
    <3>1. t \in DOMAIN g.cell
      BY <1>5, <1>16, <1>17, <2>2
    <3> QED
      BY <1>5, <1>12, <1>14, <2>2, <3>1
  <2> QED
    BY <2>1, <2>2
<1>19. ASSUME NEW x \in DOMAIN g.next, NEW y \in DOMAIN g.next PROVE EndOf(g.cell, x) # y
  <2>1. x \in F /\ y \in F
    BY <1>16
  <2>2. CASE x = a
    BY <1>5, <1>11, <2>1, <2>2
  <2>3. CASE x # a
    BY <1>5, <1>12, <1>17, <2>1, <2>3
  <2> QED
    BY <2>2, <2>3
<1>20. HeapOk(g)
  BY <1>2, <1>11, <1>15, <1>17, <1>18, <1>19 DEF HeapOk
<1>21. UsedCells(g) = UsedCells(h) \ {c} /\ \A x \in UsedCells(g) : g.cell[x] = h.cell[x]
  <2>1. DOMAIN g.cell = (DOMAIN f \ {c}) \ {d} /\ DOMAIN g.next = F \ {d}
    BY <1>6, <1>9, <1>16
  <2>2. UsedCells(g) = (DOMAIN f \ F) \ {c} /\ a \in F
    BY <1>5, <2>1 DEF UsedCells
  <2>3. \A x \in UsedCells(g) : x \in DOMAIN g.cell /\ x # a
    BY <2>1, <2>2 DEF UsedCells
  <2> QED
    BY <1>9, <2>2, <2>3 DEF UsedCells, f, F, nx
<1>22. Returned(h, g, c)
  BY <1>20, <1>21 DEF Returned
<1> QED
  BY <1>22 DEF g

LEMMA AboveKeeps ==
  ASSUME NEW h, NEW a, NEW c, NEW d, Gap(h, a, c, d), EndOf(h.cell, a) # c, EndOf(h.cell, c) = d
  PROVE  Returned(h, Suba!GaveAlone(h, a, c, d, TRUE), c)
<1> DEFINE g == Suba!GaveAlone(h, a, c, d, TRUE)
           f == h.cell
           nx == h.next
           F == DOMAIN nx
           t == h.tail
           v == f[c] + POff + f[d]
           spare == Suba!Cut(nx, d)
           linked == IF a \in DOMAIN spare THEN Suba!Add(spare, a, c) ELSE spare
           b == IF nx[d] = d THEN c ELSE nx[d]
<1>1. HeapOk(h)
  BY DEF Gap
<1>2. /\ g.cell = Suba!Add(Suba!Cut(f, d), c, v)
      /\ g.next = Suba!Add(linked, c, b) /\ g.tail = Suba!NewTail(h, a, c, d, FALSE)
      /\ DOMAIN g = {"cell", "next", "tail"}
  BY DEF Suba!GaveAlone
<1>3. /\ c \in DOMAIN f /\ d \in DOMAIN f /\ c < d /\ a \in Nat /\ c \in Nat /\ d \in Nat
      /\ EndOf(f, d) \in Nat /\ d < EndOf(f, d)
  BY <1>1, GapFacts, CellsAre
<1>4. c # d /\ c # a
  <2>1. c \notin F /\ a \in F
    BY GapFacts
  <2> QED
    BY <1>3, <2>1
<1>5. /\ F \subseteq DOMAIN f /\ c \notin F /\ a \in F /\ d \in F /\ nx[a] = d /\ t \in F
      /\ RingOk(nx, t) /\ F \subseteq Nat
      /\ EndOf(f, t) = MemSize /\ \A x, y \in F : EndOf(f, x) # y
  BY <1>1, GapFacts, CellsAre
<1> HIDE DEF g, v, f, F, nx, t, linked, b
<1>6. /\ DOMAIN g.cell = DOMAIN f \ {d} /\ g.cell[c] = v
      /\ \A x \in DOMAIN g.cell : x # c => g.cell[x] = f[x]
  BY <1>2, <1>3, <1>4 DEF Suba!Add, Suba!Cut
<1>7. Joined(f, g.cell, c, d)
  BY <1>6 DEF Joined, v, f
<1>8. CellsOk(g.cell) /\ EndOf(g.cell, c) = EndOf(f, d)
  BY <1>1, <1>3, <1>7, CellsAre, Joins DEF f
<1>9. \A x \in DOMAIN g.cell : x # c => EndOf(g.cell, x) = EndOf(f, x)
  BY <1>6 DEF EndOf
<1>10. DOMAIN spare = F \ {d} /\ \A x \in F \ {d} : spare[x] = nx[x]
  BY DEF Suba!Cut, F
<1>11. /\ DOMAIN linked = F \ {d} /\ (a # d => linked[a] = c)
       /\ \A x \in F \ {d} : x # a => linked[x] = nx[x]
  <2> HIDE DEF spare
  <2>1. CASE a = d
    <3>1. linked = spare
      BY <1>10, <2>1 DEF linked
    <3> QED
      BY <1>10, <2>1, <3>1
  <2>2. CASE a # d
    <3>1. a \in DOMAIN spare
      BY <1>5, <1>10, <2>2
    <3>2. linked = Suba!Add(spare, a, c)
      BY <3>1 DEF linked
    <3> QED
      BY <1>10, <2>2, <3>1, <3>2 DEF Suba!Add
  <2> QED
    BY <2>1, <2>2
<1> HIDE DEF spare
<1>12. /\ DOMAIN g.next = (F \ {d}) \cup {c} /\ g.next[c] = b
       /\ \A x \in F \ {d} : g.next[x] = linked[x]
  BY <1>2, <1>5, <1>11 DEF Suba!Add
<1>13. b = IF a = d THEN c ELSE nx[d]
  <2>1. CASE a = d
    BY <1>5, <2>1 DEF b
  <2>2. CASE a # d
    <3>1. ASSUME nx[d] = d PROVE FALSE
      <4>1. DOMAIN nx = {d}
        BY <1>5, <3>1, AloneIs DEF F
      <4> QED
        BY <1>5, <2>2, <4>1 DEF F
    <3> QED
      BY <2>2, <3>1 DEF b
  <2> QED
    BY <2>1, <2>2
<1>14. Relinked(nx, g.next, a, d, c)
  BY <1>5, <1>11, <1>12, <1>13 DEF Relinked, F
<1>15. g.tail = IF d = t THEN c ELSE t
  BY <1>2 DEF Suba!NewTail, t
<1>16. RingOk(g.next, g.tail)
  <2>1. ASSUME NEW x \in F, x # d PROVE x < d <=> x < c
    <3>1. x \in Nat /\ ((a < c /\ x <= a) \/ d <= x)
      BY <1>5, GapFacts DEF F, nx
    <3> QED
      BY <1>3, <2>1, <3>1
  <2> QED
    BY <1>3, <1>5, <1>14, <1>15, <2>1, LinkOther DEF F
<1>17. DOMAIN g.next \subseteq DOMAIN g.cell
  BY <1>3, <1>4, <1>5, <1>6, <1>12
<1>18. EndOf(g.cell, g.tail) = MemSize
  <2>1. CASE d = t
    BY <1>5, <1>8, <1>15, <2>1
  <2>2. CASE d # t
    <3>1. t \in DOMAIN g.cell /\ t # c
      BY <1>5, <1>6, <2>2
    <3> QED
      BY <1>5, <1>9, <1>15, <2>2, <3>1
  <2> QED
    BY <2>1, <2>2
<1>19. ASSUME NEW x \in DOMAIN g.next, NEW y \in DOMAIN g.next PROVE EndOf(g.cell, x) # y
  <2>1. CASE x = c
    <3>1. EndOf(g.cell, x) = EndOf(f, d)
      BY <1>8, <2>1
    <3>2. y = c \/ y \in F
      BY <1>12
    <3> QED
      BY <1>3, <1>5, <3>1, <3>2
  <2>2. CASE x # c
    <3>1. x \in F /\ EndOf(g.cell, x) = EndOf(f, x)
      BY <1>9, <1>12, <1>17, <2>2
    <3>2. EndOf(f, x) # c
      BY <3>1, GapFacts DEF F, nx, f
    <3>3. y = c \/ y \in F
      BY <1>12
    <3> QED
      BY <1>5, <3>1, <3>2, <3>3
  <2> QED
    BY <2>1, <2>2
<1>20. HeapOk(g)
  BY <1>2, <1>8, <1>16, <1>17, <1>18, <1>19 DEF HeapOk
<1>21. UsedCells(g) = UsedCells(h) \ {c} /\ \A x \in UsedCells(g) : g.cell[x] = h.cell[x]
  <2>1. UsedCells(g) = (DOMAIN f \ F) \ {c}
    BY <1>5, <1>6, <1>12 DEF UsedCells
  <2>2. \A x \in UsedCells(g) : x \in DOMAIN g.cell /\ x # c
    BY <2>1 DEF UsedCells
  <2> QED
    BY <1>6, <2>1, <2>2 DEF UsedCells, f, F, nx
<1>22. Returned(h, g, c)
  BY <1>20, <1>21 DEF Returned
<1> QED
  BY <1>22 DEF g

LEMMA AloneKeeps ==
  ASSUME NEW h, NEW a, NEW c, NEW d, Gap(h, a, c, d), EndOf(h.cell, a) # c, EndOf(h.cell, c) # d
  PROVE  Returned(h, Suba!GaveAlone(h, a, c, d, FALSE), c)
<1> DEFINE g == Suba!GaveAlone(h, a, c, d, FALSE)
           f == h.cell
           nx == h.next
           F == DOMAIN nx
           t == h.tail
           linked == IF a \in DOMAIN nx THEN Suba!Add(nx, a, c) ELSE nx
<1>1. HeapOk(h)
  BY DEF Gap
<1>2. /\ g.cell = f /\ g.next = Suba!Add(linked, c, nx[a]) /\ g.tail = t
      /\ DOMAIN g = {"cell", "next", "tail"}
  BY DEF Suba!GaveAlone
<1>3. /\ c \in Nat /\ c < t /\ c \notin F /\ a \in F /\ nx[a] = d /\ c < d /\ (a = t \/ a < c)
      /\ RingOk(nx, t) /\ F \subseteq Nat /\ F \subseteq DOMAIN f /\ c \in DOMAIN f /\ CellsOk(f)
      /\ EndOf(f, t) = MemSize /\ \A x, y \in F : EndOf(f, x) # y
      /\ EndOf(f, c) \in Nat /\ c < EndOf(f, c)
  BY <1>1, GapFacts, CellsAre
<1> HIDE DEF g, f, F, nx, t, linked
<1>4. linked = Suba!Add(nx, a, c) /\ c # a
  BY <1>3 DEF linked, F
<1>5. DOMAIN linked = F /\ linked[a] = c /\ \A x \in F : x # a => linked[x] = nx[x]
  BY <1>3, <1>4 DEF Suba!Add, F
<1>6. Linked(nx, g.next, a, c)
  <2>1. DOMAIN g.next = F \cup {c} /\ g.next[c] = nx[a] /\ \A x \in F : g.next[x] = linked[x]
    BY <1>2, <1>3, <1>5 DEF Suba!Add
  <2> QED
    BY <1>3, <1>5, <2>1 DEF Linked, F
<1>7. RingOk(g.next, t)
  BY <1>3, <1>6, LinkMore DEF F
<1>8. DOMAIN g.next = F \cup {c}
  BY <1>6 DEF Linked, F
<1>9. ASSUME NEW x \in DOMAIN g.next, NEW y \in DOMAIN g.next PROVE EndOf(f, x) # y
  <2>1. y = c \/ y \in F
    BY <1>8
  <2>2. CASE x = c
    <3>1. \A e \in F : EndOf(f, c) = e => e = d
      BY GapFacts DEF f, F, nx
    <3> QED
      BY <1>3, <2>1, <2>2, <3>1 DEF f
  <2>3. CASE x # c
    <3>1. x \in F
      BY <1>8, <2>3
    <3>2. EndOf(f, x) = c => x = a
      BY <3>1, GapFacts DEF f, F, nx
    <3> QED
      BY <1>3, <2>1, <3>1, <3>2 DEF f
  <2> QED
    BY <2>2, <2>3
<1>10. HeapOk(g)
  BY <1>2, <1>3, <1>7, <1>8, <1>9 DEF HeapOk
<1>11. UsedCells(g) = UsedCells(h) \ {c} /\ \A x \in UsedCells(g) : g.cell[x] = h.cell[x]
  BY <1>2, <1>8 DEF UsedCells, f, F, nx
<1>12. Returned(h, g, c)
  BY <1>10, <1>11 DEF Returned
<1> QED
  BY <1>12 DEF g

(* suba_free: the cell is joined with its free neighbours and linked.      *)
LEMMA GaveIs ==
  ASSUME NEW h, HeapOk(h), NEW c \in UsedCells(h)
  PROVE  Returned(h, Suba!Gave(h, c), c)
<1> DEFINE a == Suba!Insertion(h, c)
           d == h.next[a]
           g == Suba!Gave(h, c)
           j1 == Suba!ISADJ(h, a, c)
           j2 == Suba!ISADJ(h, c, d)
<1>1. g = CASE c > h.tail -> Suba!GaveLast(h, c)
            [] c < h.tail /\ j1 -> Suba!GaveBelow(h, a, c, d, j2)
            [] OTHER -> Suba!GaveAlone(h, a, c, d, j2)
  BY DEF Suba!Gave
<1>2. (j1 <=> EndOf(h.cell, a) = c) /\ (j2 <=> EndOf(h.cell, c) = d) /\ j1 \in BOOLEAN /\ j2 \in BOOLEAN
  BY DEF Suba!ISADJ, EndOf
<1>3. Gap(h, a, c, d) /\ c < h.tail
  BY GapIs
<1>4. c \in Nat /\ h.tail \in Nat
  BY <1>3, GapFacts
<1> HIDE DEF a, d, g, j1, j2
<1>5. ~(c > h.tail)
  BY <1>3, <1>4
<1>6. CASE j1
  <2>1. g = Suba!GaveBelow(h, a, c, d, j2)
    BY <1>1, <1>3, <1>5, <1>6
  <2>2. CASE j2
    <3>1. g = Suba!GaveBelow(h, a, c, d, TRUE)
      BY <1>2, <2>1, <2>2, Zenon
    <3> QED
      BY <1>2, <1>3, <1>6, <2>2, <3>1, BothKeeps DEF g
  <2>3. CASE ~j2
    <3>1. g = Suba!GaveBelow(h, a, c, d, FALSE)
      BY <1>2, <2>1, <2>3, Zenon
    <3> QED
      BY <1>2, <1>3, <1>6, <2>3, <3>1, BelowKeeps DEF g
  <2> QED
    BY <2>2, <2>3
<1>7. CASE ~j1
  <2>1. g = Suba!GaveAlone(h, a, c, d, j2)
    BY <1>1, <1>5, <1>7
  <2>2. CASE j2
    <3>1. g = Suba!GaveAlone(h, a, c, d, TRUE)
      BY <1>2, <2>1, <2>2, Zenon
    <3> QED
      BY <1>2, <1>3, <1>7, <2>2, <3>1, AboveKeeps DEF g
  <2>3. CASE ~j2
    <3>1. g = Suba!GaveAlone(h, a, c, d, FALSE)
      BY <1>2, <2>1, <2>3, Zenon
    <3> QED
      BY <1>2, <1>3, <1>7, <2>3, <3>1, AloneKeeps DEF g
  <2> QED
    BY <2>2, <2>3
<1> QED
  BY <1>6, <1>7

(* The bytes of the cells S, their headers included. *)
Bytes(f, S) == {n \in 0 .. MemSize : \E c \in S : c <= n /\ n < EndOf(f, c)}
Total(h) == Cardinality(Bytes(h.cell, UsedCells(h)))

LEMMA BytesFinite ==
  ASSUME NEW f, NEW S
  PROVE  IsFiniteSet(Bytes(f, S)) /\ Cardinality(Bytes(f, S)) \in Nat
<1>1. MemSize \in Nat /\ 0 \in Int
  BY SubaAssumption
<1>2. IsFiniteSet(0 .. MemSize)
  BY <1>1, FS_Interval
<1>3. Bytes(f, S) \subseteq 0 .. MemSize
  BY DEF Bytes
<1> QED
  BY <1>2, <1>3, FS_Subset, FS_CardinalityType

LEMMA BytesMore ==
  ASSUME NEW f, CellsOk(f), NEW S \in SUBSET DOMAIN f, NEW c \in DOMAIN f, c \notin S
  PROVE  Cardinality(Bytes(f, S \cup {c})) = Cardinality(Bytes(f, S)) + (POff + f[c])
<1> DEFINE A == Bytes(f, S)
           B == c .. EndOf(f, c) - 1
<1>1. /\ c \in Nat /\ f[c] \in Nat /\ POff \in Nat /\ POff > 0 /\ MemSize \in Nat
      /\ EndOf(f, c) = c + POff + f[c] /\ EndOf(f, c) <= MemSize
  BY SubaAssumption DEF CellsOk, CellIs, EndOf
<1>2. IsFiniteSet(B) /\ Cardinality(B) = POff + f[c]
  <2> DEFINE e == EndOf(f, c) - 1
  <2>1. e \in Int /\ e - c + 1 = POff + f[c] /\ c <= e
    BY <1>1
  <2> HIDE DEF e
  <2>2. IsFiniteSet(c .. e) /\ Cardinality(c .. e) = e - c + 1
    <3>1. Cardinality(c .. e) = IF c > e THEN 0 ELSE e - c + 1
      BY <1>1, <2>1, FS_Interval
    <3> QED
      BY <1>1, <2>1, <3>1, FS_Interval
  <2> QED
    BY <2>1, <2>2 DEF e
<1>3. ASSUME NEW n \in 0 .. MemSize PROVE n \in B <=> (c <= n /\ n < EndOf(f, c))
  BY <1>1
<1>4. B \subseteq 0 .. MemSize
  BY <1>1
<1>5. Bytes(f, S \cup {c}) = A \cup B
  <2> HIDE DEF B
  <2> QED
    BY <1>3, <1>4 DEF Bytes
<1>6. A \cap B = {}
  <2> SUFFICES ASSUME NEW n \in 0 .. MemSize, NEW d \in S, d <= n, n < EndOf(f, d), n \in B
               PROVE  FALSE
    BY DEF Bytes
  <2>1. d \in DOMAIN f /\ d # c
    OBVIOUS
  <2>2. d \in Nat /\ f[d] \in Nat /\ (d < c => EndOf(f, d) <= c) /\ (c < d => EndOf(f, c) <= d)
    BY <2>1 DEF CellsOk, CellIs
  <2>3. EndOf(f, d) \in Nat /\ EndOf(f, c) \in Nat
    BY <1>1, <2>2 DEF EndOf
  <2> QED
    BY <1>1, <1>3, <2>1, <2>2, <2>3
<1> HIDE DEF A, B
<1>7. IsFiniteSet(A) /\ Cardinality(A) \in Nat
  BY BytesFinite DEF A
<1>8. Cardinality(A \cup B) = Cardinality(A) + Cardinality(B) - Cardinality({})
  BY <1>2, <1>6, <1>7, FS_Union
<1>9. Cardinality({}) = 0 /\ Cardinality(B) \in Nat
  BY <1>1, <1>2, FS_EmptySet
<1> DEFINE k == Cardinality(A)
           m == Cardinality(B)
<1>10. Cardinality(A \cup B) = k + m - 0 /\ k \in Nat /\ m \in Nat
  BY <1>7, <1>8, <1>9
<1>11. m = POff + f[c]
  BY <1>2
<1> HIDE DEF k, m
<1>12. Cardinality(A \cup B) = k + m
  BY <1>10
<1> QED
  BY <1>5, <1>11, <1>12 DEF A, k

LEMMA BytesSame ==
  ASSUME NEW f, NEW g, NEW S, \A c \in S : f[c] = g[c]
  PROVE  Bytes(f, S) = Bytes(g, S)
<1>1. \A c \in S : EndOf(f, c) = EndOf(g, c)
  BY DEF EndOf
<1> QED
  BY <1>1 DEF Bytes

LEMMA TotalTaken ==
  ASSUME NEW h, HeapOk(h), NEW g, NEW c, NEW s, Handing(h, g, c, s)
  PROVE  Total(g) = Total(h) + (POff + g.cell[c])
<1> DEFINE S == UsedCells(h)
<1>1. /\ HeapOk(g) /\ UsedCells(g) = S \cup {c} /\ c \notin S /\ \A u \in S : g.cell[u] = h.cell[u]
  BY DEF Handing, UsedCells
<1> HIDE DEF S
<1>2. CellsOk(g.cell) /\ S \in SUBSET DOMAIN g.cell /\ c \in DOMAIN g.cell
  BY <1>1 DEF HeapOk, UsedCells
<1>3. Bytes(g.cell, S) = Bytes(h.cell, S)
  BY <1>1, BytesSame
<1> QED
  BY <1>1, <1>2, <1>3, BytesMore DEF Total, S

LEMMA TotalGiven ==
  ASSUME NEW h, HeapOk(h), NEW g, NEW c \in UsedCells(h), Returned(h, g, c)
  PROVE  Total(h) = Total(g) + (POff + h.cell[c])
<1> DEFINE S == UsedCells(g)
<1>1. /\ UsedCells(h) = S \cup {c} /\ c \notin S /\ \A u \in S : g.cell[u] = h.cell[u]
  BY DEF Returned
<1> HIDE DEF S
<1>2. CellsOk(h.cell) /\ S \in SUBSET DOMAIN h.cell /\ c \in DOMAIN h.cell
  BY <1>1 DEF HeapOk, UsedCells
<1>3. Bytes(g.cell, S) = Bytes(h.cell, S)
  BY <1>1, BytesSame
<1> QED
  BY <1>1, <1>2, <1>3, BytesMore DEF Total, S

(* The heap h, with as the sizes asked for and b the balance of the totals.*)
Accounted(h, as, b) ==
  /\ HeapOk(h) /\ DOMAIN as = UsedCells(h) /\ b = Total(h)
  /\ \A c \in DOMAIN as : as[c] \in Nat /\ h.cell[c] >= Suba!ALIGN(as[c])

LEMMA AccountedTook ==
  ASSUME NEW h, NEW as, NEW b, Accounted(h, as, b), NEW s \in Nat
  PROVE  LET t == Suba!Took(h, s)
         IN \/ t.c = 0 /\ t.h = h
            \/ /\ t.c \in Nat \ {0} /\ t.c \notin DOMAIN as
               /\ Accounted(t.h, Suba!Add(as, t.c, s), b + Suba!Cost(t.h, t.c))
               /\ \A u \in DOMAIN as : t.h.cell[u] = h.cell[u]
<1> DEFINE t == Suba!Took(h, s)
           g == t.h
           c == t.c
           left == Suba!Add(as, c, s)
<1>0. HeapOk(h) /\ DOMAIN as = UsedCells(h) /\ b = Total(h)
      /\ \A u \in DOMAIN as : as[u] \in Nat /\ h.cell[u] >= Suba!ALIGN(as[u])
  BY DEF Accounted
<1>1. CASE t = [h |-> h, c |-> 0]
  BY <1>1
<1>2. CASE c \in Nat \ {0} /\ Handing(h, g, c, s)
  <2> HIDE DEF g, c, t
  <2>1. /\ HeapOk(g) /\ c \in DOMAIN h.next /\ UsedCells(g) = UsedCells(h) \cup {c}
        /\ \A u \in UsedCells(h) : g.cell[u] = h.cell[u]
        /\ g.cell[c] >= Suba!ALIGN(s)
    BY <1>2 DEF Handing
  <2>2. c \notin DOMAIN as
    BY <1>0, <2>1 DEF UsedCells
  <2>3. /\ DOMAIN left = DOMAIN as \cup {c} /\ left[c] = s /\ \A u \in DOMAIN as : left[u] = as[u]
    BY <2>2 DEF Suba!Add
  <2>4. Total(g) = b + Suba!Cost(g, c)
    BY <1>0, <1>2, TotalTaken DEF Suba!Cost
  <2> HIDE DEF left
  <2>5. \A u \in DOMAIN left : left[u] \in Nat /\ g.cell[u] >= Suba!ALIGN(left[u])
    BY <1>0, <2>1, <2>3
  <2>6. Accounted(g, left, b + Suba!Cost(g, c))
    BY <1>0, <2>1, <2>3, <2>4, <2>5 DEF Accounted
  <2>7. \A u \in DOMAIN as : g.cell[u] = h.cell[u]
    BY <1>0, <2>1
  <2> QED
    BY <1>2, <2>2, <2>6, <2>7 DEF t, g, c, left
<1> QED
  BY <1>0, <1>1, <1>2, TookIs

LEMMA AccountedGave ==
  ASSUME NEW h, NEW as, NEW b, Accounted(h, as, b), NEW c \in DOMAIN as
  PROVE  Accounted(Suba!Gave(h, c), Suba!Cut(as, c), b - Suba!Cost(h, c))
<1> DEFINE g == Suba!Gave(h, c)
           left == Suba!Cut(as, c)
<1>0. HeapOk(h) /\ DOMAIN as = UsedCells(h) /\ b = Total(h)
      /\ \A u \in DOMAIN as : as[u] \in Nat /\ h.cell[u] >= Suba!ALIGN(as[u])
  BY DEF Accounted
<1>1. Returned(h, g, c)
  BY <1>0, GaveIs
<1>2. DOMAIN left = DOMAIN as \ {c} /\ \A u \in DOMAIN left : left[u] = as[u]
  BY DEF Suba!Cut
<1> HIDE DEF g, left
<1>3. HeapOk(g) /\ DOMAIN left = UsedCells(g) /\ \A u \in DOMAIN left : g.cell[u] = h.cell[u]
  BY <1>0, <1>1, <1>2 DEF Returned
<1>4. \A u \in DOMAIN left : left[u] \in Nat /\ g.cell[u] >= Suba!ALIGN(left[u])
  BY <1>0, <1>2, <1>3
<1>5. Total(g) = b - Suba!Cost(h, c)
  <2> DEFINE k == POff + h.cell[c]
             m == Total(g)
  <2>1. b = m + k
    BY <1>0, <1>1, TotalGiven
  <2>2. k \in Nat /\ m \in Nat
    <3>1. h.cell[c] \in Nat
      BY <1>0, CellsAre DEF UsedCells
    <3> QED
      BY <3>1, SubaAssumption, BytesFinite DEF Total
  <2>3. Suba!Cost(h, c) = k
    BY DEF Suba!Cost
  <2> HIDE DEF k, m
  <2>4. m = b - k
    BY <2>1, <2>2
  <2> QED
    BY <2>3, <2>4 DEF m
<1>6. Accounted(g, left, b - Suba!Cost(h, c))
  BY <1>3, <1>4, <1>5 DEF Accounted
<1> QED
  BY <1>6 DEF g, left

LEMMA AccountedFirst == Accounted(Suba!First, <<>>, 0)
<1> DEFINE h == Suba!First
           v == MemSize - (Hdr + POff)
<1>1. /\ Hdr \in Nat /\ POff \in Nat /\ MemSize \in Nat /\ v \in Nat /\ Hdr # 0 /\ POff # 0
      /\ Hdr + POff + v = MemSize
  BY SubaAssumption
<1>2. /\ h.cell = [c \in {Hdr} |-> v] /\ h.next = [c \in {Hdr} |-> Hdr] /\ h.tail = Hdr
      /\ DOMAIN h = {"cell", "next", "tail"}
  BY DEF Suba!First
<1> HIDE DEF h, v
<1>3. EndOf(h.cell, Hdr) = MemSize /\ h.cell[Hdr] = v /\ h.next[Hdr] = Hdr
  BY <1>1, <1>2 DEF EndOf
<1>4. DOMAIN h.cell = {Hdr} /\ DOMAIN h.next = {Hdr}
  BY <1>2
<1>5. CellsOk(h.cell)
  BY <1>1, <1>3, <1>4 DEF CellsOk, CellIs
<1>6. RingOk(h.next, h.tail)
  BY <1>1, <1>2, <1>3, <1>4 DEF RingOk, Onward
<1>7. MemSize # Hdr
  BY <1>1
<1>8. HeapOk(h)
  BY <1>2, <1>3, <1>4, <1>5, <1>6, <1>7 DEF HeapOk
<1>9. UsedCells(h) = {}
  BY <1>4 DEF UsedCells
<1>10. Bytes(h.cell, {}) = {}
  BY DEF Bytes
<1>11. Total(h) = 0
  BY <1>9, <1>10, FS_EmptySet DEF Total
<1>12. DOMAIN <<>> = {}
  OBVIOUS
<1> QED
  BY <1>8, <1>9, <1>11, <1>12 DEF Accounted, h

SubaInv == Accounted(heap, asked, balance) /\ overlap = FALSE

LEMMA SubaInit == Suba!Init => SubaInv
BY AccountedFirst DEF Suba!Init, SubaInv

LEMMA NoCellUsed ==
  ASSUME NEW h, NEW as, NEW b, Accounted(h, as, b)
  PROVE  0 \notin DOMAIN as
<1> SUFFICES ASSUME 0 \in DOMAIN as PROVE FALSE
  OBVIOUS
<1>1. CellIs(h.cell, 0)
  BY DEF Accounted, UsedCells, HeapOk, CellsOk
<1>2. Hdr <= 0 /\ Hdr \in Nat /\ Hdr # 0
  BY <1>1, SubaAssumption DEF CellIs
<1> QED
  BY <1>2

LEMMA SubaAlloc == ASSUME SubaInv, NEW s \in Nat, Suba!Alloc(s) PROVE SubaInv'
<1> DEFINE t == Suba!Took(heap, s)
<1>1. /\ heap' = t.h
      /\ IF t.c = 0 THEN asked' = asked /\ balance' = balance /\ overlap' = overlap
         ELSE /\ asked' = Suba!Add(asked, t.c, s)
              /\ balance' = balance + Suba!Cost(t.h, t.c)
              /\ overlap' = (overlap \/ t.c \in DOMAIN asked)
  BY DEF Suba!Alloc, Suba!NoCell, Suba!InUse
<1>2. \/ t.c = 0 /\ t.h = heap
      \/ /\ t.c \in Nat \ {0} /\ t.c \notin DOMAIN asked
         /\ Accounted(t.h, Suba!Add(asked, t.c, s), balance + Suba!Cost(t.h, t.c))
  BY AccountedTook DEF SubaInv
<1> HIDE DEF t
<1>3. CASE t.c = 0 /\ t.h = heap
  BY <1>1, <1>3 DEF SubaInv
<1>4. CASE /\ t.c \in Nat \ {0} /\ t.c \notin DOMAIN asked
           /\ Accounted(t.h, Suba!Add(asked, t.c, s), balance + Suba!Cost(t.h, t.c))
  <2>1. /\ heap' = t.h /\ asked' = Suba!Add(asked, t.c, s) /\ balance' = balance + Suba!Cost(t.h, t.c)
        /\ overlap' = (overlap \/ t.c \in DOMAIN asked)
    BY <1>1, <1>4
  <2>2. overlap' = FALSE
    BY <1>4, <2>1 DEF SubaInv
  <2>3. Accounted(heap', asked', balance')
    BY <1>4, <2>1
  <2> QED
    BY <2>2, <2>3 DEF SubaInv
<1> QED
  BY <1>2, <1>3, <1>4

LEMMA SubaFree == ASSUME SubaInv, NEW c \in DOMAIN asked, Suba!Free(c) PROVE SubaInv'
<1>1. /\ heap' = Suba!Gave(heap, c) /\ asked' = Suba!Cut(asked, c)
      /\ balance' = balance - Suba!Cost(heap, c) /\ overlap' = overlap
  BY DEF Suba!Free
<1>2. Accounted(Suba!Gave(heap, c), Suba!Cut(asked, c), balance - Suba!Cost(heap, c))
  BY AccountedGave DEF SubaInv
<1> QED
  BY <1>1, <1>2 DEF SubaInv

LEMMA SubaAllocReclaim ==
  ASSUME SubaInv, NEW s \in Nat, NEW c \in DOMAIN asked, Suba!AllocReclaim(s, c)
  PROVE  SubaInv'
<1> DEFINE h == Suba!Gave(heap, c)
           t == Suba!Took(h, s)
           as == Suba!Cut(asked, c)
           b == balance - Suba!Cost(heap, c)
<1>1. /\ heap' = t.h
      /\ asked' = IF t.c = 0 THEN as ELSE Suba!Add(as, t.c, s)
      /\ balance' = b + (IF t.c = 0 THEN 0 ELSE Suba!Cost(t.h, t.c))
      /\ overlap' = (overlap \/ (t.c \in DOMAIN asked /\ t.c # c))
  BY DEF Suba!AllocReclaim, Suba!NoCell, Suba!InUse
<1>2. Accounted(h, as, b)
  BY AccountedGave DEF SubaInv
<1>3. DOMAIN as = DOMAIN asked \ {c}
  BY DEF Suba!Cut
<1> HIDE DEF h, as, b
<1>4. \/ t.c = 0 /\ t.h = h
      \/ /\ t.c \in Nat \ {0} /\ t.c \notin DOMAIN as
         /\ Accounted(t.h, Suba!Add(as, t.c, s), b + Suba!Cost(t.h, t.c))
  BY <1>2, AccountedTook
<1> HIDE DEF t
<1>5. CASE t.c = 0 /\ t.h = h
  <2>1. heap' = h /\ asked' = as /\ balance' = b + 0 /\ overlap' = (overlap \/ (0 \in DOMAIN asked /\ 0 # c))
    BY <1>1, <1>5
  <2>2. b \in Nat
    BY <1>2, BytesFinite DEF Accounted, Total
  <2>3. 0 \notin DOMAIN asked
    BY NoCellUsed DEF SubaInv
  <2>4. overlap' = FALSE
    BY <2>1, <2>3 DEF SubaInv
  <2>5. balance' = b
    BY <2>1, <2>2
  <2> QED
    BY <1>2, <2>1, <2>4, <2>5 DEF SubaInv
<1>6. CASE /\ t.c \in Nat \ {0} /\ t.c \notin DOMAIN as
           /\ Accounted(t.h, Suba!Add(as, t.c, s), b + Suba!Cost(t.h, t.c))
  <2>1. /\ heap' = t.h /\ asked' = Suba!Add(as, t.c, s) /\ balance' = b + Suba!Cost(t.h, t.c)
        /\ overlap' = (overlap \/ (t.c \in DOMAIN asked /\ t.c # c))
    BY <1>1, <1>6
  <2>2. overlap' = FALSE
    BY <1>3, <1>6, <2>1 DEF SubaInv
  <2>3. Accounted(heap', asked', balance')
    BY <1>6, <2>1
  <2> QED
    BY <2>2, <2>3 DEF SubaInv
<1> QED
  BY <1>4, <1>5, <1>6

(* A cell in use ends before the memory does, so its size is even.         *)
LEMMA UsedEven ==
  ASSUME NEW h, HeapOk(h), NEW c \in UsedCells(h)
  PROVE  h.cell[c] \in Nat /\ h.cell[c] % 2 = 0
<1> DEFINE t == h.tail
           f == h.cell
<1>1. c \in DOMAIN f /\ t \in DOMAIN f /\ c < t
  BY CellsAre, GapIs DEF UsedCells
<1>2. /\ EndOf(f, t) = MemSize /\ t < EndOf(f, t) /\ t \in Nat /\ EndOf(f, t) \in Nat
      /\ EndOf(f, c) \in Nat /\ EndOf(f, c) <= t /\ f[c] \in Nat
  BY <1>1, CellsAre
<1>3. CellIs(f, c)
  BY <1>1 DEF HeapOk, CellsOk
<1>4. EndOf(f, c) # MemSize
  BY <1>2
<1> QED
  BY <1>2, <1>3, <1>4 DEF CellIs

LEMMA SubaStays ==
  ASSUME SubaInv, NEW s \in Nat, NEW c \in DOMAIN asked, ~Suba!Moves(c, s),
         asked' = [asked EXCEPT ![c] = s], heap' = heap, balance' = balance, overlap' = overlap
  PROVE  SubaInv'
<1>1. /\ HeapOk(heap) /\ DOMAIN asked = UsedCells(heap) /\ balance = Total(heap)
      /\ \A u \in DOMAIN asked : asked[u] \in Nat /\ heap.cell[u] >= Suba!ALIGN(asked[u])
  BY DEF SubaInv, Accounted
<1>2. heap.cell[c] \in Nat /\ heap.cell[c] % 2 = 0
  BY <1>1, UsedEven
<1>3. ~(heap.cell[c] < s)
  BY DEF Suba!Moves
<1>4. Suba!ALIGN(s) \in Nat /\ heap.cell[c] >= Suba!ALIGN(s)
  <2>1. s <= heap.cell[c]
    BY <1>2, <1>3
  <2>2. Suba!ALIGN(s) \in Nat /\ Suba!ALIGN(s) <= heap.cell[c]
    BY <1>2, <2>1, Evens
  <2> QED
    BY <1>2, <2>2
<1> DEFINE as == [asked EXCEPT ![c] = s]
<1>5. /\ DOMAIN as = DOMAIN asked /\ as[c] = s /\ \A u \in DOMAIN asked : u # c => as[u] = asked[u]
  OBVIOUS
<1> HIDE DEF as
<1>6. ASSUME NEW u \in DOMAIN as PROVE as[u] \in Nat /\ heap.cell[u] >= Suba!ALIGN(as[u])
  <2>1. CASE u = c
    BY <1>4, <1>5, <2>1
  <2>2. CASE u # c
    BY <1>1, <1>5, <2>2
  <2> QED
    BY <2>1, <2>2
<1>7. Accounted(heap, as, balance)
  BY <1>1, <1>5, <1>6 DEF Accounted
<1> QED
  BY <1>7 DEF SubaInv, as

LEMMA SubaRealloc ==
  ASSUME SubaInv, NEW s \in Nat, NEW c \in DOMAIN asked, Suba!Realloc(c, s)
  PROVE  SubaInv'
<1> DEFINE t == Suba!Took(heap, s)
           as == Suba!Add(asked, t.c, s)
           b == balance + Suba!Cost(t.h, t.c)
<1>1. /\ ~Suba!Moves(c, s)
         => asked' = [asked EXCEPT ![c] = s] /\ heap' = heap /\ balance' = balance /\ overlap' = overlap
      /\ Suba!Moves(c, s) /\ t.c = 0
         => asked' = asked /\ heap' = heap /\ balance' = balance /\ overlap' = overlap
      /\ Suba!Moves(c, s) /\ t.c # 0
         => /\ heap' = Suba!Gave(t.h, c) /\ asked' = Suba!Cut(as, c)
            /\ balance' = b - Suba!Cost(heap, c)
            /\ overlap' = (overlap \/ t.c \in DOMAIN asked)
  <2>1. CASE ~Suba!Moves(c, s)
    BY <2>1, Zenon DEF Suba!Realloc
  <2>2. ASSUME Suba!Moves(c, s)
        PROVE  IF t.c = Suba!NoCell THEN UNCHANGED Suba!subaVars
               ELSE /\ heap' = Suba!Gave(t.h, c) /\ asked' = Suba!Cut(as, c)
                    /\ balance' = b - Suba!Cost(heap, c)
                    /\ overlap' = (overlap \/ Suba!InUse(t.c))
    BY <2>2 DEF Suba!Realloc
  <2>3. CASE Suba!Moves(c, s) /\ t.c = 0
    <3> HIDE DEF t
    <3>1. UNCHANGED Suba!subaVars
      BY <2>2, <2>3 DEF Suba!NoCell
    <3> QED
      BY <2>3, <3>1 DEF Suba!subaVars
  <2>4. CASE Suba!Moves(c, s) /\ t.c # 0
    <3> HIDE DEF t, as
    <3>1. Suba!Moves(c, s) /\ t.c # Suba!NoCell
      BY <2>4 DEF Suba!NoCell
    <3>2. /\ heap' = Suba!Gave(t.h, c) /\ asked' = Suba!Cut(as, c)
          /\ balance' = b - Suba!Cost(heap, c)
      BY <2>2, <3>1
    <3>3. overlap' = (overlap \/ Suba!InUse(t.c))
      BY <2>2, <3>1, Zenon
    <3>4. overlap' = (overlap \/ t.c \in DOMAIN asked)
      BY <3>3, Zenon DEF Suba!InUse
    <3> QED
      BY <2>4, <3>2, <3>4, Zenon
  <2> QED
    BY <2>1, <2>3, <2>4
<1>2. \/ t.c = 0 /\ t.h = heap
      \/ /\ t.c \in Nat \ {0} /\ t.c \notin DOMAIN asked /\ Accounted(t.h, as, b)
         /\ \A u \in DOMAIN asked : t.h.cell[u] = heap.cell[u]
  BY AccountedTook DEF SubaInv
<1>3. DOMAIN as = DOMAIN asked \cup {t.c}
  BY DEF Suba!Add
<1> HIDE DEF t, as, b
<1>4. CASE ~Suba!Moves(c, s)
  BY <1>1, <1>4, SubaStays
<1>5. CASE Suba!Moves(c, s) /\ t.c = 0
  BY <1>1, <1>5 DEF SubaInv
<1>6. CASE Suba!Moves(c, s) /\ t.c # 0
  <2>1. /\ heap' = Suba!Gave(t.h, c) /\ asked' = Suba!Cut(as, c)
        /\ balance' = b - Suba!Cost(heap, c) /\ overlap' = (overlap \/ t.c \in DOMAIN asked)
    BY <1>1, <1>6
  <2>2. t.c \notin DOMAIN asked /\ Accounted(t.h, as, b) /\ t.h.cell[c] = heap.cell[c]
    BY <1>2, <1>6
  <2>3. Accounted(Suba!Gave(t.h, c), Suba!Cut(as, c), b - Suba!Cost(t.h, c))
    BY <1>3, <2>2, AccountedGave
  <2>4. Suba!Cost(t.h, c) = Suba!Cost(heap, c)
    BY <2>2 DEF Suba!Cost
  <2>5. overlap' = FALSE
    BY <2>1, <2>2 DEF SubaInv
  <2> QED
    BY <2>1, <2>3, <2>4, <2>5 DEF SubaInv
<1> QED
  BY <1>4, <1>5, <1>6

LEMMA SubaStep == ASSUME SubaInv, [Suba!Next]_subaVars PROVE SubaInv'
<1>1. \A s \in Request : s \in Nat
  BY SubaAssumption
<1>2. ASSUME NEW s \in Request, Suba!Alloc(s) PROVE SubaInv'
  BY <1>1, <1>2, SubaAlloc
<1>3. ASSUME NEW s \in Request, NEW c \in DOMAIN asked, Suba!Realloc(c, s) PROVE SubaInv'
  BY <1>1, <1>3, SubaRealloc
<1>4. ASSUME NEW s \in Request, NEW c \in DOMAIN asked, Suba!AllocReclaim(s, c) PROVE SubaInv'
  BY <1>1, <1>4, SubaAllocReclaim
<1>5. ASSUME NEW c \in DOMAIN asked, Suba!Free(c) PROVE SubaInv'
  BY <1>5, SubaFree
<1>6. CASE Suba!Reset
  BY <1>6, AccountedFirst DEF Suba!Reset, SubaInv
<1>7. CASE UNCHANGED subaVars
  BY <1>7 DEF subaVars, SubaInv
<1> QED
  BY <1>2, <1>3, <1>4, <1>5, <1>6, <1>7 DEF Suba!Next

LEMMA HeldIs ==
  ASSUME SubaInv
  PROVE  Suba!Held = Bytes(heap.cell, UsedCells(heap))
<1>1. HeapOk(heap) /\ DOMAIN asked = UsedCells(heap)
  BY DEF SubaInv, Accounted
<1>2. ASSUME NEW c \in DOMAIN asked
      PROVE  /\ Suba!End(heap, c) = EndOf(heap.cell, c)
             /\ \A n : n \in c .. (EndOf(heap.cell, c) - 1)
                         <=> n \in 0 .. MemSize /\ c <= n /\ n < EndOf(heap.cell, c)
  <2>1. c \in DOMAIN heap.cell
    BY <1>1 DEF UsedCells
  <2>2. c \in Nat /\ EndOf(heap.cell, c) \in Nat /\ EndOf(heap.cell, c) <= MemSize /\ MemSize \in Nat
    BY <1>1, <2>1, CellsAre, SubaAssumption
  <2>3. Suba!End(heap, c) = EndOf(heap.cell, c)
    BY DEF Suba!End, EndOf
  <2> DEFINE e == EndOf(heap.cell, c)
  <2> HIDE DEF e
  <2>4. \A n : n \in c .. (e - 1) <=> n \in 0 .. MemSize /\ c <= n /\ n < e
    BY <2>2 DEF e
  <2> QED
    BY <2>3, <2>4 DEF e
<1>3. \A n : n \in Suba!Held <=> \E c \in DOMAIN asked : n \in c .. (Suba!End(heap, c) - 1)
  BY Zenon DEF Suba!Held
<1>4. \A n : n \in Suba!Held
             <=> \E c \in DOMAIN asked : n \in 0 .. MemSize /\ c <= n /\ n < EndOf(heap.cell, c)
  BY <1>2, <1>3
<1> QED
  BY <1>1, <1>4 DEF Bytes

LEMMA SubaMaxs == \A S : Suba!Max(S) = Max(S)
BY Zenon DEF Suba!Max, Max

LEMMA SubaCircle == ASSUME NEW h, HeapOk(h), h = heap PROVE Suba!Circle
<1> DEFINE F == DOMAIN h.next
           t == h.tail
           nx == h.next
<1>1. F \in SUBSET Nat /\ t \in F /\ \A x \in F : x <= t /\ nx[x] \in F
  BY CellsAre, Links
<1>2. \A x, e \in F : \/ x < nx[x] /\ (e <= x \/ nx[x] <= e)
                      \/ nx[x] <= x /\ nx[x] <= e /\ e <= x
  BY CellsAre, Links
<1> HIDE DEF F, t, nx
<1>3. t = Max(F)
  <2>1. \A x \in F : t >= x
    BY <1>1
  <2>2. Max(F) \in F /\ \A x \in F : Max(F) >= x
    BY <1>1, <2>1 DEF Max
  <2> DEFINE m == Max(F)
  <2>3. m \in Nat /\ t \in Nat /\ m <= t /\ m >= t
    BY <1>1, <2>2
  <2> HIDE DEF m
  <2>4. m = t
    BY <2>3
  <2> QED
    BY <2>4 DEF m
<1>4. ASSUME NEW c \in F
      PROVE  LET above == {d \in F : d > c}
             IN nx[c] = IF above = {} THEN Min(F) ELSE Min(above)
  <2> DEFINE above == {d \in F : d > c}
  <2>1. c \in Nat /\ nx[c] \in F /\ nx[c] \in Nat
    BY <1>1
  <2>2. CASE above = {}
    <3>1. \A x \in F : nx[c] <= x
      BY <1>1, <1>2, <2>1, <2>2
    <3>2. Min(F) \in F /\ \A x \in F : Min(F) <= x
      BY <1>1, MinIsLeast
    <3> DEFINE m == Min(F)
    <3>3. m \in Nat /\ m <= nx[c] /\ nx[c] <= m
      BY <1>1, <2>1, <3>1, <3>2
    <3> HIDE DEF m
    <3>4. nx[c] = m
      BY <2>1, <3>3
    <3> QED
      BY <2>2, <3>4 DEF m
  <2>3. CASE above # {}
    <3>1. nx[c] \in above /\ \A x \in above : nx[c] <= x
      <4>1. PICK x \in F : x > c
        BY <2>3
      <4>2. nx[c] > c
        BY <1>1, <1>2, <2>1, <4>1
      <4> QED
        BY <1>1, <1>2, <2>1, <4>2
    <3>2. above \in SUBSET Nat
      BY <1>1
    <3> HIDE DEF above
    <3>3. Min(above) \in above /\ \A x \in above : Min(above) <= x
      BY <2>3, <3>2, MinIsLeast
    <3> DEFINE m == Min(above)
    <3>4. m \in Nat /\ m <= nx[c] /\ nx[c] <= m
      BY <3>1, <3>2, <3>3
    <3> HIDE DEF m
    <3>5. nx[c] = m
      BY <2>1, <3>4
    <3> QED
      BY <2>3, <3>5 DEF m, above
  <2> QED
    BY <2>2, <2>3
<1>5. Suba!FreeCells(heap) = F /\ heap.next = nx /\ heap.tail = t
  BY DEF Suba!FreeCells, F, nx, t
<1> QED
  BY <1>3, <1>4, <1>5, SubaMins, SubaMaxs DEF Suba!Circle

LEMMA SubaIsOk == ASSUME SubaInv PROVE Suba!Sound
<1>1. /\ HeapOk(heap) /\ DOMAIN asked = UsedCells(heap) /\ balance = Total(heap) /\ overlap = FALSE
      /\ \A c \in DOMAIN asked : heap.cell[c] >= Suba!ALIGN(asked[c])
  BY DEF SubaInv, Accounted
<1>2. \A c : Suba!End(heap, c) = EndOf(heap.cell, c)
  BY DEF Suba!End, EndOf
<1>3. Suba!Tiled
  <2>1. CellsOk(heap.cell)
    BY <1>1 DEF HeapOk
  <2> QED
    BY <1>2, <2>1 DEF Suba!Tiled, CellsOk, CellIs
<1>4. Suba!Circle
  BY <1>1, SubaCircle
<1>5. Suba!Coalesced
  BY <1>1, CellsAre DEF Suba!Coalesced, Suba!ISADJ, Suba!FreeCells, EndOf
<1>6. Suba!FreeCells(heap) = DOMAIN heap.cell \ DOMAIN asked
  BY <1>1, CellsAre DEF UsedCells, Suba!FreeCells
<1>7. balance = Suba!Cardinality(Suba!Held)
  BY <1>1, HeldIs, SubaCounts DEF Total
<1> QED
  BY <1>1, <1>3, <1>4, <1>5, <1>6, <1>7 DEF Suba!Sound

THEOREM SubaIsSound == Spec => []SubaSound
<1>1. Init => SubaInv
  BY SubaInit DEF Init
<1>2. SubaInv /\ [Next]_vars => SubaInv'
  <2> SUFFICES ASSUME SubaInv, [Next]_vars
               PROVE  SubaInv'
    OBVIOUS
  <2>1. [Suba!Next]_subaVars
    BY DEF Next, vars
  <2> QED
    BY <2>1, SubaStep
<1>3. SubaInv => SubaSound
  BY SubaIsOk DEF SubaSound
<1> QED
  BY <1>1, <1>2, <1>3, PTL DEF Spec
=============================================================================
