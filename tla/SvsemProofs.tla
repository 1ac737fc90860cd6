---------------------------- MODULE SvsemProofs ----------------------------
(***************************************************************************)
(* Proofs about SvsemOpen for any set of processes, any oflags, any number *)
(* of sets created and removed, and any processes killed.                  *)
(***************************************************************************)
EXTENDS SvsemOpen, SequenceTheorems, TLAPS

Semopped(set, p, n, made) ==
  [value |-> set.value + n, otime |-> TRUE,
   ready |-> set.ready \/ made,
   early |-> set.early \/ (~set.ready /\ mode[p] = "attach"),
   net   |-> IF made \/ set.early \/ (~set.ready /\ mode[p] = "attach")
             THEN set.net ELSE set.net + n]

(* Field by field. *)
LEMMA SemoppedFields ==
  ASSUME NEW set \in SetType, NEW p \in Procs, NEW n \in Int, NEW made \in BOOLEAN,
         NEW new, new = Semopped(set, p, n, made)
  PROVE  /\ new.value = set.value + n
         /\ new.ready <=> set.ready \/ made
         /\ new.early <=> set.early \/ (~set.ready /\ mode[p] = "attach")
         /\ made => new.net = set.net
         /\ ~made /\ ~new.early => new.net = set.net + n
<1>1. new.value = set.value + n
  BY DEF Semopped
<1>2. new.ready <=> set.ready \/ made
  BY DEF Semopped
<1>3. new.early <=> set.early \/ (~set.ready /\ mode[p] = "attach")
  BY DEF Semopped
<1>4. made => new.net = set.net
  BY DEF Semopped
<1>5. ~made /\ ~new.early => new.net = set.net + n
  BY DEF Semopped
<1> QED
  BY <1>1, <1>2, <1>3, <1>4, <1>5

(* A semop changes one set and leaves the others alone. *)
LEMMA SemopEffect ==
  ASSUME TypeOK, NEW p \in Procs, NEW n \in Int, NEW made \in BOOLEAN,
         Semop(p, n, made), sets[semid[p]].value + n \in Nat
  PROVE  /\ semid[p] \in 1 .. Len(sets) /\ semid[p] = current
         /\ sets' \in Seq(SetType) /\ Len(sets') = Len(sets)
         /\ \A s \in 1 .. Len(sets) : s # semid[p] => sets'[s] = sets[s]
         /\ sets'[semid[p]].value = sets[semid[p]].value + n
         /\ sets'[semid[p]].ready <=> sets[semid[p]].ready \/ made
         /\ sets'[semid[p]].early <=>
              sets[semid[p]].early \/ (~sets[semid[p]].ready /\ mode[p] = "attach")
         /\ made => sets'[semid[p]].net = sets[semid[p]].net
         /\ ~made /\ ~sets'[semid[p]].early =>
              sets'[semid[p]].net = sets[semid[p]].net + n
<1> DEFINE s0 == semid[p]
<1>1. /\ s0 \in 1 .. Len(sets) /\ s0 = current /\ sets \in Seq(SetType)
  BY DEF TypeOK, Semop, Exists, SetType
<1>2. sets[s0] \in SetType
  BY <1>1, ElementOfSeq
<1>3. sets' = [sets EXCEPT ![s0] = Semopped(sets[s0], p, n, made)]
  BY <1>1 DEF Semop, Semopped
<1>4. Semopped(sets[s0], p, n, made) \in SetType
  BY <1>2 DEF SetType, Semopped
<1>5. /\ sets' \in Seq(SetType) /\ Len(sets') = Len(sets)
      /\ \A s \in 1 .. Len(sets) :
           sets'[s] = IF s = s0 THEN Semopped(sets[s0], p, n, made) ELSE sets[s]
  <2> HIDE DEF s0
  <2> QED
    BY <1>1, <1>3, <1>4, ExceptSeq
<1>6. sets'[s0] = Semopped(sets[s0], p, n, made)
  BY <1>1, <1>5
<1>7. /\ sets'[s0].value = sets[s0].value + n
      /\ sets'[s0].ready <=> sets[s0].ready \/ made
      /\ sets'[s0].early <=> sets[s0].early \/ (~sets[s0].ready /\ mode[p] = "attach")
      /\ made => sets'[s0].net = sets[s0].net
      /\ ~made /\ ~sets'[s0].early => sets'[s0].net = sets[s0].net + n
  <2> DEFINE old == sets[s0]
             new == sets'[s0]
  <2>1. old \in SetType /\ new = Semopped(old, p, n, made)
    BY <1>2, <1>6
  <2> HIDE DEF old, new
  <2>2. /\ new.value = old.value + n
        /\ new.ready <=> old.ready \/ made
        /\ new.early <=> old.early \/ (~old.ready /\ mode[p] = "attach")
        /\ made => new.net = old.net
        /\ ~made /\ ~new.early => new.net = old.net + n
    BY <2>1, SemoppedFields
  <2> QED
    BY <2>2, Zenon DEF old, new
<1>8. \A s \in 1 .. Len(sets) : s # s0 => sets'[s] = sets[s]
  BY <1>5
<1>9. QED
  BY <1>1, <1>5, <1>7, <1>8, Zenon

(* SETVAL clears the value of one set. *)
LEMMA SetValEffect ==
  ASSUME TypeOK, NEW p \in Procs, SetVal(p)
  PROVE  /\ semid[p] \in 1 .. Len(sets) /\ semid[p] = current
         /\ sets' \in Seq(SetType) /\ Len(sets') = Len(sets)
         /\ \A s \in 1 .. Len(sets) :
              sets'[s] = IF s = semid[p] THEN [sets[s] EXCEPT !.value = 0] ELSE sets[s]
<1> DEFINE s0 == semid[p]
           e  == [sets[s0] EXCEPT !.value = 0]
<1>1. s0 \in 1 .. Len(sets) /\ s0 = current /\ sets \in Seq(SetType)
  BY DEF TypeOK, SetVal, Exists, SetType
<1>2. sets[s0] \in SetType
  BY <1>1, ElementOfSeq
<1>3. sets' = [sets EXCEPT ![s0] = e]
  BY <1>1 DEF SetVal
<1>4. e \in SetType
  BY <1>2 DEF SetType
<1> HIDE DEF e, s0
<1>5. /\ sets' \in Seq(SetType) /\ Len(sets') = Len(sets)
      /\ \A s \in 1 .. Len(sets) : sets'[s] = IF s = s0 THEN e ELSE sets[s]
  BY <1>1, <1>3, <1>4, ExceptSeq
<1>6. QED
  BY <1>1, <1>5 DEF e, s0

Removed(set) == [set EXCEPT !.value = 0, !.net = 0]

(* So does removing it, which also forgets its posts and waits. *)
LEMMA RemoveEffect ==
  ASSUME TypeOK, NEW p \in Procs, Remove(p)
  PROVE  /\ sets' \in Seq(SetType) /\ Len(sets') = Len(sets)
         /\ \A s \in 1 .. Len(sets) :
              sets'[s] = IF s = semid[p] THEN Removed(sets[s]) ELSE sets[s]
<1> DEFINE s0 == semid[p]
           e  == Removed(sets[s0])
<1>1. s0 \in 1 .. Len(sets) /\ sets \in Seq(SetType)
  BY DEF TypeOK, Remove, Exists, SetType
<1>2. sets[s0] \in SetType
  BY <1>1, ElementOfSeq
<1>3. sets' = [sets EXCEPT ![s0] = e]
  BY <1>1, <1>2 DEF Remove, SetType, Removed
<1>4. e \in SetType
  <2> DEFINE r == [sets[s0] EXCEPT !.value = 0]
  <2>1. r \in SetType
    BY <1>2 DEF SetType
  <2>2. e = [r EXCEPT !.net = 0]
    BY DEF Removed
  <2> HIDE DEF r, e
  <2> QED
    BY <2>1, <2>2 DEF SetType
<1> HIDE DEF e, s0
<1>5. /\ sets' \in Seq(SetType) /\ Len(sets') = Len(sets)
      /\ \A s \in 1 .. Len(sets) : sets'[s] = IF s = s0 THEN e ELSE sets[s]
  BY <1>1, <1>3, <1>4, ExceptSeq
<1>6. \A s \in 1 .. Len(sets) : s = s0 => e = Removed(sets[s])
  BY DEF e
<1> HIDE DEF Removed
<1>7. QED
  BY <1>1, <1>5, <1>6 DEF s0

(* A new set has a number nobody knows yet. *)
LEMMA CreateEffect ==
  ASSUME TypeOK, NEW p \in Procs, Create(p)
  PROVE  /\ sets' \in Seq(SetType) /\ Len(sets') = Len(sets) + 1
         /\ \A s \in 1 .. Len(sets) : sets'[s] = sets[s]
         /\ sets'[Len(sets) + 1] =
              [value |-> 0, otime |-> FALSE, ready |-> FALSE, early |-> FALSE, net |-> 0]
<1> DEFINE e == [value |-> 0, otime |-> FALSE, ready |-> FALSE, early |-> FALSE, net |-> 0]
<1>1. sets \in Seq(SetType) /\ sets' = Append(sets, e)
  BY DEF TypeOK, Create, SetType
<1>2. e \in SetType
  BY DEF SetType
<1> HIDE DEF e
<1>3. QED
  BY <1>1, <1>2, AppendProperties DEF e

(* Every variable keeps its type. *)
THEOREM OpenTypes == Spec => []TypeOK
<1> USE SvsemOpenAssumption
<1>1. Init => TypeOK
  <2> SUFFICES ASSUME Init PROVE TypeOK
    OBVIOUS
  <2>1. sets \in Seq(SetType) /\ Len(sets) = 0
    BY EmptySeq DEF Init
  <2>2. pc \in [Procs -> Opening \cup {"idle", "open", "dead"}]
    BY DEF Init
  <2>3. mode \in [Procs -> Modes \cup {"none"}] /\ semid \in [Procs -> 0 .. Len(sets)]
    BY <2>1 DEF Init
  <2>4. max \in [Procs -> 0 .. MaxTries]
    BY DEF Init
  <2>5. current \in 0 .. Len(sets) /\ crashes \in Nat
    BY <2>1 DEF Init
  <2>6. file \in BOOLEAN
    BY DEF Init
  <2> QED
    BY <2>1, <2>2, <2>3, <2>4, <2>5, <2>6, Zenon DEF TypeOK
<1>2. TypeOK /\ [Next]_vars => TypeOK'
  <2> SUFFICES ASSUME TypeOK, [Next]_vars PROVE TypeOK'
    OBVIOUS
  <2> USE DEF kernel, call, Goto, Succeed, Return, Forget, Opening
  <2>0. Len(sets) \in Nat /\ sets \in Seq(SetType)
    BY LenProperties DEF TypeOK
  <2>1. ASSUME NEW p \in Procs, SvsemOpen(p) PROVE TypeOK'
    BY <2>0, <2>1 DEF SvsemOpen, TypeOK
  <2>2. ASSUME NEW p \in Procs, Copen(p) PROVE TypeOK'
    BY <2>0, <2>2 DEF Copen, TypeOK
  <2>3. ASSUME NEW p \in Procs, CopenExcl(p) PROVE TypeOK'
    BY <2>0, <2>3 DEF CopenExcl, TypeOK
  <2>4. ASSUME NEW p \in Procs, Ftok(p) PROVE TypeOK'
    BY <2>0, <2>4 DEF Ftok, TypeOK
  <2>5. ASSUME NEW p \in Procs, Attach(p) PROVE TypeOK'
    BY <2>0, <2>5 DEF Attach, TypeOK
  <2>6. ASSUME NEW p \in Procs, Get(p) PROVE TypeOK'
    BY <2>0, <2>6 DEF Get, TypeOK
  <2>7. ASSUME NEW p \in Procs, GetNone(p) PROVE TypeOK'
    BY <2>0, <2>7 DEF GetNone, TypeOK
  <2>8. ASSUME NEW p \in Procs, PollReady(p) PROVE TypeOK'
    BY <2>0, <2>8 DEF PollReady, TypeOK
  <2>9. ASSUME NEW p \in Procs, PollAgain(p) PROVE TypeOK'
    BY <2>0, <2>9 DEF PollAgain, TypeOK
  <2>10. ASSUME NEW p \in Procs, CreateExists(p) PROVE TypeOK'
    BY <2>0, <2>10 DEF CreateExists, TypeOK
  <2>11. ASSUME NEW p \in Procs, OpenFails(p) PROVE TypeOK'
    <3>1. PICK from : Return(p, from) /\ UNCHANGED <<kernel, crashes>>
      BY <2>11, Zenon DEF OpenFails
    <3> QED
      BY <2>0, <3>1 DEF TypeOK
  <2>12. ASSUME NEW p \in Procs, Close(p) PROVE TypeOK'
    BY <2>0, <2>12 DEF Close, TypeOK
  <2>13. ASSUME NEW p \in Procs, Crash(p) PROVE TypeOK'
    BY <2>0, <2>13 DEF Crash, TypeOK
  <2>14. ASSUME NEW p \in Procs, Create(p) PROVE TypeOK'
    <3>1. sets' \in Seq(SetType) /\ Len(sets') = Len(sets) + 1
      BY <2>14, CreateEffect
    <3> QED
      BY <2>0, <2>14, <3>1 DEF Create, TypeOK
  <2>15. ASSUME NEW p \in Procs, SetVal(p) PROVE TypeOK'
    <3>1. sets' \in Seq(SetType) /\ Len(sets') = Len(sets)
      BY <2>15, SetValEffect
    <3> QED
      BY <2>0, <2>15, <3>1 DEF SetVal, TypeOK
  <2>16. ASSUME NEW p \in Procs, Remove(p) PROVE TypeOK'
    <3>1. sets' \in Seq(SetType) /\ Len(sets') = Len(sets)
      BY <2>16, RemoveEffect
    <3> QED
      BY <2>0, <2>16, <3>1 DEF Remove, TypeOK
  <2>17. ASSUME NEW p \in Procs, InitOp(p) PROVE TypeOK'
    <3>1. /\ semid[p] \in 1 .. Len(sets) /\ sets[semid[p]] \in SetType
          /\ Semop(p, Value, TRUE) /\ Value \in Int
      BY <2>0, <2>17, ElementOfSeq DEF InitOp, Semop, Exists, TypeOK
    <3>2. sets[semid[p]].value + Value \in Nat
      BY <3>1 DEF SetType
    <3>3. sets' \in Seq(SetType) /\ Len(sets') = Len(sets)
      BY <3>1, <3>2, SemopEffect, Zenon
    <3> QED
      BY <2>0, <2>17, <3>3 DEF InitOp, TypeOK
  <2>18. ASSUME NEW p \in Procs, Post(p) PROVE TypeOK'
    <3>1. /\ semid[p] \in 1 .. Len(sets) /\ sets[semid[p]] \in SetType
          /\ Semop(p, 1, FALSE)
      BY <2>0, <2>18, ElementOfSeq DEF Post, Semop, Exists, TypeOK
    <3>2. sets[semid[p]].value + (1) \in Nat /\ (1) \in Int
      BY <3>1 DEF SetType
    <3>3. sets' \in Seq(SetType) /\ Len(sets') = Len(sets)
      BY <3>1, <3>2, SemopEffect, Zenon
    <3> QED
      BY <2>0, <2>18, <3>3 DEF Post, TypeOK
  <2>19. ASSUME NEW p \in Procs, Wait(p) PROVE TypeOK'
    <3>1. /\ semid[p] \in 1 .. Len(sets) /\ sets[semid[p]] \in SetType
          /\ Semop(p, -1, FALSE) /\ sets[semid[p]].value > 0
      BY <2>0, <2>19, ElementOfSeq DEF Wait, Semop, Exists, TypeOK
    <3>2. sets[semid[p]].value + (-1) \in Nat /\ (-1) \in Int
      BY <3>1 DEF SetType
    <3>3. sets' \in Seq(SetType) /\ Len(sets') = Len(sets)
      BY <3>1, <3>2, SemopEffect, Zenon
    <3> QED
      BY <2>0, <2>19, <3>3 DEF Wait, TypeOK
  <2>20. CASE UNCHANGED vars
    BY <2>20 DEF vars, TypeOK
  <2> QED
    BY <2>1, <2>2, <2>3, <2>4, <2>5, <2>6, <2>7, <2>8, <2>9, <2>10, <2>11, <2>12, <2>13, <2>14, <2>15, <2>16, <2>17, <2>18, <2>19, <2>20
    DEF Next, OpenStep
<1>3. QED
  BY <1>1, <1>2, PTL DEF Spec

Creating == {"setval", "initop"}

(* A process past semget has a set. *)
Held == \A p \in Procs : pc[p] \in Creating \cup {"poll", "open"} => semid[p] # 0

(* A set has one creator, which is the one to make it ready. *)
SoleCreator ==
  /\ \A p, q \in Procs :
       pc[p] \in Creating /\ pc[q] \in Creating /\ semid[p] = semid[q] => p = q
  /\ \A p \in Procs : pc[p] \in Creating => ~sets[semid[p]].ready

(* sem_otime does not lie, and until it is set nothing is there to be lost. *)
OtimeTells ==
  \A s \in 1 .. Len(sets) :
    /\ sets[s].otime => sets[s].ready \/ sets[s].early
    /\ ~sets[s].ready /\ ~sets[s].early => sets[s].net = 0

OpenInv == Held /\ SoleCreator /\ OtimeTells /\ OpenInitialized /\ NoPostLost

(* OpenInv is inductive: svsem_open with O_CREAT returns initialized        *)
(* semaphores only, and the creator's SETVAL undoes no post and no wait.    *)
THEOREM Initialization == Spec => []OpenInv
<1> USE SvsemOpenAssumption
<1>1. Init => OpenInv
  BY EmptySeq DEF Init, OpenInv, Held, SoleCreator, OtimeTells, OpenInitialized, NoPostLost,
     Creating
<1>2. TypeOK /\ TypeOK' /\ OpenInv /\ [Next]_vars => OpenInv'
  <2> SUFFICES ASSUME TypeOK, TypeOK', OpenInv, [Next]_vars PROVE OpenInv'
    OBVIOUS
  <2>0. /\ Len(sets) \in Nat /\ DOMAIN sets = 1 .. Len(sets)
        /\ \A s \in 1 .. Len(sets) : sets[s] \in SetType
    BY LenProperties, ElementOfSeq DEF TypeOK
  <2>a. /\ pc \in [Procs -> Opening \cup {"idle", "open", "dead"}]
        /\ mode \in [Procs -> Modes \cup {"none"}]
        /\ semid \in [Procs -> 0 .. Len(sets)] /\ max \in [Procs -> 0 .. MaxTries]
        /\ current \in 0 .. Len(sets)
    BY DEF TypeOK
  <2> USE DEF OpenInv, Held, SoleCreator, OtimeTells, OpenInitialized, NoPostLost, Creating,
              kernel, call, Goto, Succeed, Return, Forget
  <2>1. ASSUME NEW p \in Procs, SvsemOpen(p) PROVE OpenInv'
    BY <2>0, <2>a, <2>1 DEF SvsemOpen
  <2>2. ASSUME NEW p \in Procs, Copen(p) PROVE OpenInv'
    BY <2>0, <2>a, <2>2 DEF Copen
  <2>3. ASSUME NEW p \in Procs, CopenExcl(p) PROVE OpenInv'
    BY <2>0, <2>a, <2>3 DEF CopenExcl
  <2>4. ASSUME NEW p \in Procs, Ftok(p) PROVE OpenInv'
    BY <2>0, <2>a, <2>4 DEF Ftok
  <2>5. ASSUME NEW p \in Procs, Attach(p) PROVE OpenInv'
    BY <2>0, <2>a, <2>5 DEF Attach
  <2>6. ASSUME NEW p \in Procs, Get(p) PROVE OpenInv'
    BY <2>0, <2>a, <2>6 DEF Get
  <2>7. ASSUME NEW p \in Procs, GetNone(p) PROVE OpenInv'
    BY <2>0, <2>a, <2>7 DEF GetNone
  <2>8. ASSUME NEW p \in Procs, PollReady(p) PROVE OpenInv'
    BY <2>0, <2>a, <2>8 DEF PollReady, Exists
  <2>9. ASSUME NEW p \in Procs, PollAgain(p) PROVE OpenInv'
    BY <2>0, <2>a, <2>9 DEF PollAgain
  <2>10. ASSUME NEW p \in Procs, CreateExists(p) PROVE OpenInv'
    BY <2>0, <2>a, <2>10 DEF CreateExists
  <2>11. ASSUME NEW p \in Procs, Close(p) PROVE OpenInv'
    BY <2>0, <2>a, <2>11 DEF Close
  <2>12. ASSUME NEW p \in Procs, Crash(p) PROVE OpenInv'
    BY <2>0, <2>a, <2>12 DEF Crash
  <2>13. ASSUME NEW p \in Procs, OpenFails(p) PROVE OpenInv'
    <3>1. PICK from : Return(p, from) /\ UNCHANGED <<kernel, crashes>>
      BY <2>13, Zenon DEF OpenFails
    <3> QED
      BY <2>0, <2>a, <3>1
  <2>14. ASSUME NEW p \in Procs, Create(p) PROVE OpenInv'
    <3>1. /\ Len(sets') = Len(sets) + 1
          /\ \A s \in 1 .. Len(sets) : sets'[s] = sets[s]
          /\ sets'[Len(sets) + 1] =
               [value |-> 0, otime |-> FALSE, ready |-> FALSE, early |-> FALSE, net |-> 0]
      BY <2>14, CreateEffect
    <3> QED
      BY <2>0, <2>a, <2>14, <3>1 DEF Create
  <2>15. ASSUME NEW p \in Procs, SetVal(p) PROVE OpenInv'
    <3>1. /\ Len(sets') = Len(sets) /\ semid[p] = current
          /\ \A s \in 1 .. Len(sets) :
               sets'[s] = IF s = semid[p] THEN [sets[s] EXCEPT !.value = 0] ELSE sets[s]
      BY <2>15, SetValEffect
    <3> QED
      BY <2>0, <2>a, <2>15, <3>1 DEF SetVal, SetType
  <2>16. ASSUME NEW p \in Procs, Remove(p) PROVE OpenInv'
    <3>1. /\ Len(sets') = Len(sets)
          /\ \A s \in 1 .. Len(sets) :
               sets'[s] = IF s = semid[p] THEN Removed(sets[s]) ELSE sets[s]
      BY <2>16, RemoveEffect
    <3>2. \A s \in 1 .. Len(sets) :
            /\ sets'[s].ready = sets[s].ready /\ sets'[s].otime = sets[s].otime
            /\ sets'[s].early = sets[s].early /\ sets'[s].net \in {sets[s].net, 0}
      <4> SUFFICES ASSUME NEW s \in 1 .. Len(sets)
                   PROVE  /\ sets'[s].ready = sets[s].ready
                          /\ sets'[s].otime = sets[s].otime
                          /\ sets'[s].early = sets[s].early
                          /\ sets'[s].net \in {sets[s].net, 0}
        OBVIOUS
      <4>1. CASE s = semid[p]
        <5> DEFINE r == [sets[s] EXCEPT !.value = 0]
        <5>1. /\ r \in SetType /\ r.ready = sets[s].ready /\ r.otime = sets[s].otime
              /\ r.early = sets[s].early
          BY <2>0 DEF SetType
        <5>2. sets'[s] = [r EXCEPT !.net = 0]
          BY <3>1, <4>1 DEF Removed
        <5> HIDE DEF r
        <5> QED
          BY <5>1, <5>2 DEF SetType
      <4>2. CASE s # semid[p]
        BY <3>1, <4>2
      <4> QED
        BY <4>1, <4>2
    <3>3. (Held /\ SoleCreator)'
      BY <2>0, <2>a, <2>16, <3>1, <3>2 DEF Remove
    <3>5. OtimeTells'
      BY <2>0, <2>a, <2>16, <3>1, <3>2 DEF Remove
    <3>6. OpenInitialized'
      BY <2>0, <2>a, <2>16, <3>1, <3>2 DEF Remove
    <3>4. NoPostLost'
      BY <2>16 DEF Remove
    <3> QED
      BY <3>3, <3>4, <3>5, <3>6
  <2>17. ASSUME NEW p \in Procs, InitOp(p) PROVE OpenInv'
    <3>1. /\ semid[p] \in 1 .. Len(sets) /\ sets[semid[p]] \in SetType
          /\ Semop(p, Value, TRUE)
      BY <2>0, <2>a, <2>17 DEF InitOp, Semop, Exists
    <3>2. sets[semid[p]].value + (Value) \in Nat /\ (Value) \in Int
      BY <3>1 DEF SetType
    <3>3. /\ Len(sets') = Len(sets) /\ semid[p] = current
          /\ \A s \in 1 .. Len(sets) : s # semid[p] => sets'[s] = sets[s]
          /\ sets'[semid[p]].value = sets[semid[p]].value + (Value)
          /\ sets'[semid[p]].ready
          /\ sets'[semid[p]].early <=>
               sets[semid[p]].early \/ (~sets[semid[p]].ready /\ mode[p] = "attach")
          /\ sets'[semid[p]].net = sets[semid[p]].net
      BY <3>1, <3>2, SemopEffect, Zenon
    <3>6. (Held /\ SoleCreator)'
      BY <2>0, <2>a, <2>17, <3>1, <3>3 DEF InitOp
    <3>7. OtimeTells'
      BY <2>0, <2>a, <2>17, <3>1, <3>3 DEF InitOp
    <3>8. OpenInitialized'
      BY <2>0, <2>a, <2>17, <3>1, <3>3 DEF InitOp
    <3>9. NoPostLost'
      <4> SUFFICES ASSUME ~sets'[current].early
                   PROVE  sets'[current].value = Value + sets'[current].net
        BY <2>17, <3>3 DEF InitOp
      <4>1. ~sets[current].early /\ ~sets[current].ready /\ current # 0
        BY <2>17, <3>1, <3>3 DEF InitOp
      <4>2. sets[current].value = sets[current].net
        BY <3>1, <3>3, <4>1 DEF SetType
      <4> QED
        BY <3>1, <3>3, <4>2 DEF SetType
    <3> QED
      BY <3>6, <3>7, <3>8, <3>9
  <2>18. ASSUME NEW p \in Procs, Post(p) PROVE OpenInv'
    <3>1. /\ semid[p] \in 1 .. Len(sets) /\ sets[semid[p]] \in SetType
          /\ Semop(p, 1, FALSE)
      BY <2>0, <2>a, <2>18 DEF Post, Semop, Exists
    <3>2. sets[semid[p]].value + (1) \in Nat /\ (1) \in Int
      BY <3>1 DEF SetType
    <3>3. /\ Len(sets') = Len(sets) /\ semid[p] = current
          /\ \A s \in 1 .. Len(sets) : s # semid[p] => sets'[s] = sets[s]
          /\ sets'[semid[p]].value = sets[semid[p]].value + (1)
          /\ (sets'[semid[p]].ready <=> sets[semid[p]].ready)
          /\ sets'[semid[p]].early <=>
               sets[semid[p]].early \/ (~sets[semid[p]].ready /\ mode[p] = "attach")
          /\ (~sets'[semid[p]].early => sets'[semid[p]].net = sets[semid[p]].net + (1))
      BY <3>1, <3>2, SemopEffect, Zenon
    <3>6. (Held /\ SoleCreator)'
      BY <2>0, <2>a, <2>18, <3>1, <3>3 DEF Post
    <3>7. OtimeTells'
      BY <2>0, <2>a, <2>18, <3>1, <3>3 DEF Post
    <3>8. OpenInitialized'
      BY <2>0, <2>a, <2>18, <3>1, <3>3 DEF Post
    <3>9. NoPostLost'
      <4> SUFFICES ASSUME ~sets'[current].early
                   PROVE  sets'[current].ready /\ sets'[current].value = Value + sets'[current].net
        BY <2>18, <3>3 DEF Post
      <4>1. ~sets[current].early /\ sets[current].ready /\ current # 0
        BY <2>18, <3>1, <3>3 DEF Post
      <4>2. sets[current].value = Value + sets[current].net
        BY <4>1
      <4> QED
        BY <3>1, <3>3, <4>1, <4>2 DEF SetType
    <3> QED
      BY <3>6, <3>7, <3>8, <3>9
  <2>19. ASSUME NEW p \in Procs, Wait(p) PROVE OpenInv'
    <3>1. /\ semid[p] \in 1 .. Len(sets) /\ sets[semid[p]] \in SetType
          /\ Semop(p, -1, FALSE) /\ sets[semid[p]].value > 0
      BY <2>0, <2>a, <2>19 DEF Wait, Semop, Exists
    <3>2. sets[semid[p]].value + (-1) \in Nat /\ (-1) \in Int
      BY <3>1 DEF SetType
    <3>3. /\ Len(sets') = Len(sets) /\ semid[p] = current
          /\ \A s \in 1 .. Len(sets) : s # semid[p] => sets'[s] = sets[s]
          /\ sets'[semid[p]].value = sets[semid[p]].value + (-1)
          /\ (sets'[semid[p]].ready <=> sets[semid[p]].ready)
          /\ sets'[semid[p]].early <=>
               sets[semid[p]].early \/ (~sets[semid[p]].ready /\ mode[p] = "attach")
          /\ (~sets'[semid[p]].early => sets'[semid[p]].net = sets[semid[p]].net + (-1))
      BY <3>1, <3>2, SemopEffect, Zenon
    <3>6. (Held /\ SoleCreator)'
      BY <2>0, <2>a, <2>19, <3>1, <3>3 DEF Wait
    <3>7. OtimeTells'
      BY <2>0, <2>a, <2>19, <3>1, <3>3 DEF Wait
    <3>8. OpenInitialized'
      BY <2>0, <2>a, <2>19, <3>1, <3>3 DEF Wait
    <3>9. NoPostLost'
      <4> SUFFICES ASSUME ~sets'[current].early
                   PROVE  sets'[current].ready /\ sets'[current].value = Value + sets'[current].net
        BY <2>19, <3>3 DEF Wait
      <4>1. ~sets[current].early /\ sets[current].ready /\ current # 0
        BY <2>19, <3>1, <3>3 DEF Wait
      <4>2. sets[current].value = Value + sets[current].net
        BY <4>1
      <4> QED
        BY <3>1, <3>3, <4>1, <4>2 DEF SetType
    <3> QED
      BY <3>6, <3>7, <3>8, <3>9
  <2>20. CASE UNCHANGED vars
    BY <2>20 DEF vars
  <2> QED
    BY <2>1, <2>2, <2>3, <2>4, <2>5, <2>6, <2>7, <2>8, <2>9, <2>10, <2>11, <2>12, <2>13, <2>14, <2>15, <2>16, <2>17, <2>18, <2>19, <2>20
    DEF Next, OpenStep
<1>3. QED
  BY <1>1, <1>2, OpenTypes, PTL DEF Spec

(* An opener with O_CREAT never gets a semaphore that is not initialized. *)
THEOREM CreatOpensInitialized == Spec => []OpenInitialized
BY Initialization, PTL DEF OpenInv

(* The creator never undoes a post or a wait. *)
THEOREM PostsSurvive == Spec => []NoPostLost
BY Initialization, PTL DEF OpenInv
=============================================================================
