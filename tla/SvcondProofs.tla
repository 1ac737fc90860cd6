---------------------------- MODULE SvcondProofs ----------------------------
(***************************************************************************)
(* Proofs about Svcond for any set of processes.                           *)
(*                                                                         *)
(* The inductive invariant grows in four layers, each used by the next:    *)
(* types; the mutex unblock_lock; the gate blocked_lock with the freshness *)
(* of the loaded counter (a signaller may store only what nobody changed   *)
(* since it loaded, which needs the gate, and the gate stays closed only   *)
(* if the stored batch is not empty, which needs the fresh counter); and   *)
(* the two counting equations, which need all three.  The refinement of    *)
(* CondVar then maps each step.                                            *)
(***************************************************************************)
EXTENDS Svcond, FiniteSetTheorems, TLAPS

(* Every variable keeps its type, with any interrupts and any crashes. *)
THEOREM Types == Spec => []TypeOK
<1> USE SvcondAssumption
<1>1. Init => TypeOK
  BY DEF Init, TypeOK
<1>2. TypeOK /\ [Next]_vars => TypeOK'
  <2> SUFFICES ASSUME TypeOK, [Next]_vars PROVE TypeOK'
    OBVIOUS
  <2> USE DEF TypeOK, sems, cond, local, env, Goto, WaitPC, SignalPC, SemWait,
        SemPost, Interrupted, LoadBlocked
  <2>1. ASSUME NEW p \in Procs, ClientLock(p) PROVE TypeOK'
    BY <2>1 DEF ClientLock
  <2>2. ASSUME NEW p \in Procs, ClientUnlock(p) PROVE TypeOK'
    BY <2>2 DEF ClientUnlock
  <2>3. ASSUME NEW p \in Procs, CallWait(p) PROVE TypeOK'
    BY <2>3 DEF CallWait
  <2>4. ASSUME NEW p \in Procs, CallSignal(p, FALSE) PROVE TypeOK'
    BY <2>4 DEF CallSignal
  <2>5. ASSUME NEW p \in Procs, CallSignal(p, TRUE) PROVE TypeOK'
    BY <2>5 DEF CallSignal
  <2>6. ASSUME NEW p \in Procs, WaitGate(p) PROVE TypeOK'
    BY <2>6 DEF WaitGate
  <2>7. ASSUME NEW p \in Procs, WaitInc(p) PROVE TypeOK'
    BY <2>7 DEF WaitInc
  <2>8. ASSUME NEW p \in Procs, WaitIncStore(p) PROVE TypeOK'
    BY <2>8 DEF WaitIncStore
  <2>9. ASSUME NEW p \in Procs, WaitOpen(p) PROVE TypeOK'
    BY <2>9 DEF WaitOpen
  <2>10. ASSUME NEW p \in Procs, WaitUnlock(p) PROVE TypeOK'
    BY <2>10 DEF WaitUnlock
  <2>11. ASSUME NEW p \in Procs, WaitQueue(p) PROVE TypeOK'
    BY <2>11 DEF WaitQueue
  <2>12. ASSUME NEW p \in Procs, WaitUnblock(p) PROVE TypeOK'
    BY <2>12 DEF WaitUnblock
  <2>13. ASSUME NEW p \in Procs, WaitLeft(p) PROVE TypeOK'
    BY <2>13 DEF WaitLeft
  <2>14. ASSUME NEW p \in Procs, WaitPost(p) PROVE TypeOK'
    BY <2>14 DEF WaitPost
  <2>15. ASSUME NEW p \in Procs, WaitReopen(p) PROVE TypeOK'
    BY <2>15 DEF WaitReopen
  <2>16. ASSUME NEW p \in Procs, WaitRelock(p) PROVE TypeOK'
    BY <2>16 DEF WaitRelock
  <2>17. ASSUME NEW p \in Procs, WaitDec(p) PROVE TypeOK'
    BY <2>17 DEF WaitDec
  <2>18. ASSUME NEW p \in Procs, WaitDecStore(p) PROVE TypeOK'
    BY <2>18 DEF WaitDecStore
  <2>19. ASSUME NEW p \in Procs, WaitRelockEintr(p) PROVE TypeOK'
    BY <2>19 DEF WaitRelockEintr
  <2>20. ASSUME NEW p \in Procs, SignalUnblock(p) PROVE TypeOK'
    BY <2>20 DEF SignalUnblock
  <2>21. ASSUME NEW p \in Procs, SignalCheck(p) PROVE TypeOK'
    BY <2>21 DEF SignalCheck, CheckTarget
  <2>22. ASSUME NEW p \in Procs, SignalNoop(p) PROVE TypeOK'
    BY <2>22 DEF SignalNoop
  <2>23. ASSUME NEW p \in Procs, SignalGate(p) PROVE TypeOK'
    BY <2>23 DEF SignalGate
  <2>24. ASSUME NEW p \in Procs, SignalMove(p) PROVE TypeOK'
    BY <2>24 DEF SignalMove
  <2>25. ASSUME NEW p \in Procs, SignalMoveStore(p) PROVE TypeOK'
    BY <2>25 DEF SignalMoveStore
  <2>26. ASSUME NEW p \in Procs, SignalPost(p) PROVE TypeOK'
    BY <2>26 DEF SignalPost
  <2>27. ASSUME NEW p \in Procs, SignalQueue(p) PROVE TypeOK'
    BY <2>27 DEF SignalQueue
  <2>28. ASSUME NEW p \in Procs, SignalReturn(p) PROVE TypeOK'
    BY <2>28 DEF SignalReturn
  <2>29. ASSUME NEW p \in Procs, WaitGateEintr(p) PROVE TypeOK'
    BY <2>29 DEF WaitGateEintr
  <2>30. ASSUME NEW p \in Procs, WaitQueueEintr(p) PROVE TypeOK'
    BY <2>30 DEF WaitQueueEintr
  <2>31. ASSUME NEW p \in Procs, SignalUnblockEintr(p) PROVE TypeOK'
    BY <2>31 DEF SignalUnblockEintr
  <2>32. ASSUME NEW p \in Procs, SignalGateEintr(p) PROVE TypeOK'
    BY <2>32 DEF SignalGateEintr
  <2>33. ASSUME NEW p \in Procs, Crash(p) PROVE TypeOK'
    BY <2>33 DEF Crash, HoldsUnblock, Inside
  <2>34. CASE UNCHANGED vars
    BY <2>34 DEF vars
  <2> QED BY <2>1, <2>2, <2>3, <2>4, <2>5, <2>6, <2>7, <2>8, <2>9, <2>10,
        <2>11, <2>12, <2>13, <2>14, <2>15, <2>16, <2>17, <2>18, <2>19, <2>20,
        <2>21, <2>22, <2>23, <2>24, <2>25, <2>26, <2>27, <2>28, <2>29, <2>30,
        <2>31, <2>32, <2>33, <2>34 DEF Next, ClientStep, WaitStep, SignalStep,
        EintrStep
<1> QED BY <1>1, <1>2, PTL DEF Spec

(* unblock_lock is a mutex that neither a crash nor an interrupt loses.    *)
THEOREM Unblock == Spec => []UnblockExclusive
<1> USE SvcondAssumption
<1>1. Init => UnblockExclusive
  BY DEF Init, UnblockExclusive, HoldsUnblock, Inside
<1>2. TypeOK /\ UnblockExclusive /\ [Next]_vars => UnblockExclusive'
  <2> SUFFICES ASSUME TypeOK, UnblockExclusive, [Next]_vars PROVE UnblockExclusive'
    OBVIOUS
  <2> USE DEF TypeOK, UnblockExclusive, HoldsUnblock, Inside, sems, cond, local, env,
        Goto, WaitPC, SignalPC, SemWait, SemPost, Interrupted, LoadBlocked
  <2>1. ASSUME NEW p \in Procs, ClientLock(p) PROVE UnblockExclusive'
    BY <2>1 DEF ClientLock
  <2>2. ASSUME NEW p \in Procs, ClientUnlock(p) PROVE UnblockExclusive'
    BY <2>2 DEF ClientUnlock
  <2>3. ASSUME NEW p \in Procs, CallWait(p) PROVE UnblockExclusive'
    BY <2>3 DEF CallWait
  <2>4. ASSUME NEW p \in Procs, CallSignal(p, FALSE) PROVE UnblockExclusive'
    BY <2>4 DEF CallSignal
  <2>5. ASSUME NEW p \in Procs, CallSignal(p, TRUE) PROVE UnblockExclusive'
    BY <2>5 DEF CallSignal
  <2>6. ASSUME NEW p \in Procs, WaitGate(p) PROVE UnblockExclusive'
    BY <2>6 DEF WaitGate
  <2>7. ASSUME NEW p \in Procs, WaitInc(p) PROVE UnblockExclusive'
    BY <2>7 DEF WaitInc
  <2>8. ASSUME NEW p \in Procs, WaitIncStore(p) PROVE UnblockExclusive'
    BY <2>8 DEF WaitIncStore
  <2>9. ASSUME NEW p \in Procs, WaitOpen(p) PROVE UnblockExclusive'
    BY <2>9 DEF WaitOpen
  <2>10. ASSUME NEW p \in Procs, WaitUnlock(p) PROVE UnblockExclusive'
    BY <2>10 DEF WaitUnlock
  <2>11. ASSUME NEW p \in Procs, WaitQueue(p) PROVE UnblockExclusive'
    BY <2>11 DEF WaitQueue
  <2>12. ASSUME NEW p \in Procs, WaitUnblock(p) PROVE UnblockExclusive'
    BY <2>12 DEF WaitUnblock
  <2>13. ASSUME NEW p \in Procs, WaitLeft(p) PROVE UnblockExclusive'
    BY <2>13 DEF WaitLeft
  <2>14. ASSUME NEW p \in Procs, WaitPost(p) PROVE UnblockExclusive'
    BY <2>14 DEF WaitPost
  <2>15. ASSUME NEW p \in Procs, WaitReopen(p) PROVE UnblockExclusive'
    BY <2>15 DEF WaitReopen
  <2>16. ASSUME NEW p \in Procs, WaitRelock(p) PROVE UnblockExclusive'
    BY <2>16 DEF WaitRelock
  <2>17. ASSUME NEW p \in Procs, WaitDec(p) PROVE UnblockExclusive'
    BY <2>17 DEF WaitDec
  <2>18. ASSUME NEW p \in Procs, WaitDecStore(p) PROVE UnblockExclusive'
    BY <2>18 DEF WaitDecStore
  <2>19. ASSUME NEW p \in Procs, WaitRelockEintr(p) PROVE UnblockExclusive'
    BY <2>19 DEF WaitRelockEintr
  <2>20. ASSUME NEW p \in Procs, SignalUnblock(p) PROVE UnblockExclusive'
    BY <2>20 DEF SignalUnblock
  <2>21. ASSUME NEW p \in Procs, SignalCheck(p) PROVE UnblockExclusive'
    BY <2>21 DEF SignalCheck, CheckTarget
  <2>22. ASSUME NEW p \in Procs, SignalNoop(p) PROVE UnblockExclusive'
    BY <2>22 DEF SignalNoop
  <2>23. ASSUME NEW p \in Procs, SignalGate(p) PROVE UnblockExclusive'
    BY <2>23 DEF SignalGate
  <2>24. ASSUME NEW p \in Procs, SignalMove(p) PROVE UnblockExclusive'
    BY <2>24 DEF SignalMove
  <2>25. ASSUME NEW p \in Procs, SignalMoveStore(p) PROVE UnblockExclusive'
    BY <2>25 DEF SignalMoveStore
  <2>26. ASSUME NEW p \in Procs, SignalPost(p) PROVE UnblockExclusive'
    BY <2>26 DEF SignalPost
  <2>27. ASSUME NEW p \in Procs, SignalQueue(p) PROVE UnblockExclusive'
    BY <2>27 DEF SignalQueue
  <2>28. ASSUME NEW p \in Procs, SignalReturn(p) PROVE UnblockExclusive'
    BY <2>28 DEF SignalReturn
  <2>29. ASSUME NEW p \in Procs, WaitGateEintr(p) PROVE UnblockExclusive'
    BY <2>29 DEF WaitGateEintr
  <2>30. ASSUME NEW p \in Procs, WaitQueueEintr(p) PROVE UnblockExclusive'
    BY <2>30 DEF WaitQueueEintr
  <2>31. ASSUME NEW p \in Procs, SignalUnblockEintr(p) PROVE UnblockExclusive'
    BY <2>31 DEF SignalUnblockEintr
  <2>32. ASSUME NEW p \in Procs, SignalGateEintr(p) PROVE UnblockExclusive'
    BY <2>32 DEF SignalGateEintr
  <2>33. ASSUME NEW p \in Procs, Crash(p) PROVE UnblockExclusive'
    BY <2>33 DEF Crash
  <2>34. CASE UNCHANGED vars
    BY <2>34 DEF vars
  <2> QED BY <2>1, <2>2, <2>3, <2>4, <2>5, <2>6, <2>7, <2>8, <2>9, <2>10,
        <2>11, <2>12, <2>13, <2>14, <2>15, <2>16, <2>17, <2>18, <2>19, <2>20,
        <2>21, <2>22, <2>23, <2>24, <2>25, <2>26, <2>27, <2>28, <2>29, <2>30,
        <2>31, <2>32, <2>33, <2>34 DEF Next, ClientStep, WaitStep, SignalStep,
        EintrStep
<1> QED BY <1>1, <1>2, Types, PTL DEF Spec

(* No interrupt in line 107 or 166, no crash, zeroed memory, and semaphores *)
(* wide enough to count every process.                                     *)
Benign == /\ "wait_queue" \notin EintrSites /\ "signal_gate" \notin EintrSites
          /\ MaxCrash = 0 /\ Garbage = {0}
          /\ Cardinality(Procs) <= SemMax

(* The inductive invariant behind the gate. *)
GateInv == /\ UnblockExclusive /\ GateExclusive /\ LoadsFresh
           /\ waiters_blocked >= 0 /\ waiters_to_unblock >= 0
           /\ kept = {} /\ crashes = 0
           /\ \A p \in Procs : pc[p] \notin {"dead", "w_dec", "w_dec_store", "w_relock_eintr"}

(* The gate's invariant holds for any number of waiters and signallers. *)
THEOREM Gate ==
  ASSUME Benign
  PROVE  Spec => []GateInv
<1> USE SvcondAssumption DEF Benign
<1>1. Init => GateInv
  BY DEF Init, GateInv, GateExclusive, HoldsGate, LoadsFresh, UnblockExclusive,
        HoldsUnblock, Inside
<1>2. TypeOK /\ GateInv /\ [Next]_vars => GateInv'
  <2> SUFFICES ASSUME TypeOK, GateInv, [Next]_vars PROVE GateInv'
    OBVIOUS
  <2> USE DEF TypeOK, GateInv, UnblockExclusive, HoldsUnblock, Inside, GateExclusive,
        HoldsGate, LoadsFresh, sems, cond, local, env, Goto, WaitPC, SignalPC,
        SemWait, SemPost, Interrupted, LoadBlocked
  <2>1. ASSUME NEW p \in Procs, ClientLock(p) PROVE GateInv'
    BY <2>1 DEF ClientLock
  <2>2. ASSUME NEW p \in Procs, ClientUnlock(p) PROVE GateInv'
    BY <2>2 DEF ClientUnlock
  <2>3. ASSUME NEW p \in Procs, CallWait(p) PROVE GateInv'
    BY <2>3 DEF CallWait
  <2>4. ASSUME NEW p \in Procs, CallSignal(p, FALSE) PROVE GateInv'
    BY <2>4 DEF CallSignal
  <2>5. ASSUME NEW p \in Procs, CallSignal(p, TRUE) PROVE GateInv'
    BY <2>5 DEF CallSignal
  <2>6. ASSUME NEW p \in Procs, WaitGate(p) PROVE GateInv'
    BY <2>6 DEF WaitGate
  <2>7. ASSUME NEW p \in Procs, WaitInc(p) PROVE GateInv'
    BY <2>7 DEF WaitInc
  <2>8. ASSUME NEW p \in Procs, WaitIncStore(p) PROVE GateInv'
    BY <2>8 DEF WaitIncStore
  <2>9. ASSUME NEW p \in Procs, WaitOpen(p) PROVE GateInv'
    BY <2>9 DEF WaitOpen
  <2>10. ASSUME NEW p \in Procs, WaitUnlock(p) PROVE GateInv'
    BY <2>10 DEF WaitUnlock
  <2>11. ASSUME NEW p \in Procs, WaitQueue(p) PROVE GateInv'
    BY <2>11 DEF WaitQueue
  <2>12. ASSUME NEW p \in Procs, WaitUnblock(p) PROVE GateInv'
    BY <2>12 DEF WaitUnblock
  <2>13. ASSUME NEW p \in Procs, WaitLeft(p) PROVE GateInv'
    BY <2>13 DEF WaitLeft
  <2>14. ASSUME NEW p \in Procs, WaitPost(p) PROVE GateInv'
    BY <2>14 DEF WaitPost
  <2>15. ASSUME NEW p \in Procs, WaitReopen(p) PROVE GateInv'
    BY <2>15 DEF WaitReopen
  <2>16. ASSUME NEW p \in Procs, WaitRelock(p) PROVE GateInv'
    BY <2>16 DEF WaitRelock
  <2>17. ASSUME NEW p \in Procs, WaitDec(p) PROVE GateInv'
    BY <2>17 DEF WaitDec
  <2>18. ASSUME NEW p \in Procs, WaitDecStore(p) PROVE GateInv'
    BY <2>18 DEF WaitDecStore
  <2>19. ASSUME NEW p \in Procs, WaitRelockEintr(p) PROVE GateInv'
    BY <2>19 DEF WaitRelockEintr
  <2>20. ASSUME NEW p \in Procs, SignalUnblock(p) PROVE GateInv'
    BY <2>20 DEF SignalUnblock
  <2>21. ASSUME NEW p \in Procs, SignalCheck(p) PROVE GateInv'
    BY <2>21 DEF SignalCheck, CheckTarget
  <2>22. ASSUME NEW p \in Procs, SignalNoop(p) PROVE GateInv'
    BY <2>22 DEF SignalNoop
  <2>23. ASSUME NEW p \in Procs, SignalGate(p) PROVE GateInv'
    BY <2>23 DEF SignalGate
  <2>24. ASSUME NEW p \in Procs, SignalMove(p) PROVE GateInv'
    BY <2>24 DEF SignalMove
  <2>25. ASSUME NEW p \in Procs, SignalMoveStore(p) PROVE GateInv'
    <3> DEFINE n == IF broadcast[p] THEN reg[p] ELSE 1
    <3>1. n > 0 /\ n <= waiters_blocked /\ reg[p] = waiters_blocked
      BY <2>25 DEF SignalMoveStore
    <3>2. /\ waiters_to_unblock' = waiters_to_unblock + n
          /\ waiters_blocked' = waiters_blocked - n
      BY <2>25, <3>1 DEF SignalMoveStore
    <3>3. UnblockExclusive'
      BY <2>25 DEF SignalMoveStore
    <3> HIDE DEF n
    <3>4. \A q \in Procs : ~HoldsGate(q)'
      BY <2>25, <3>1, <3>2 DEF SignalMoveStore
    <3>5. GateExclusive'
      BY <2>25, <3>1, <3>2, <3>4 DEF SignalMoveStore
    <3>6. LoadsFresh'
      BY <2>25, <3>1, <3>2 DEF SignalMoveStore
    <3> QED BY <2>25, <3>1, <3>2, <3>3, <3>5, <3>6 DEF SignalMoveStore
  <2>26. ASSUME NEW p \in Procs, SignalPost(p) PROVE GateInv'
    BY <2>26 DEF SignalPost
  <2>27. ASSUME NEW p \in Procs, SignalQueue(p) PROVE GateInv'
    BY <2>27 DEF SignalQueue
  <2>28. ASSUME NEW p \in Procs, SignalReturn(p) PROVE GateInv'
    BY <2>28 DEF SignalReturn
  <2>29. ASSUME NEW p \in Procs, WaitGateEintr(p) PROVE GateInv'
    BY <2>29 DEF WaitGateEintr
  <2>30. ASSUME NEW p \in Procs, WaitQueueEintr(p) PROVE GateInv'
    BY <2>30 DEF WaitQueueEintr
  <2>31. ASSUME NEW p \in Procs, SignalUnblockEintr(p) PROVE GateInv'
    BY <2>31 DEF SignalUnblockEintr
  <2>32. ASSUME NEW p \in Procs, SignalGateEintr(p) PROVE GateInv'
    BY <2>32 DEF SignalGateEintr
  <2>33. ASSUME NEW p \in Procs, Crash(p) PROVE GateInv'
    BY <2>33 DEF Crash
  <2>34. CASE UNCHANGED vars
    BY <2>34 DEF vars
  <2> QED BY <2>1, <2>2, <2>3, <2>4, <2>5, <2>6, <2>7, <2>8, <2>9, <2>10,
        <2>11, <2>12, <2>13, <2>14, <2>15, <2>16, <2>17, <2>18, <2>19, <2>20,
        <2>21, <2>22, <2>23, <2>24, <2>25, <2>26, <2>27, <2>28, <2>29, <2>30,
        <2>31, <2>32, <2>33, <2>34 DEF Next, ClientStep, WaitStep, SignalStep,
        EintrStep
<1> QED BY <1>1, <1>2, Types, PTL DEF Spec

(* The gate lets one thing through at a time. *)
THEOREM GateCorrect ==
  ASSUME Benign
  PROVE  Spec => []GateExclusive
BY Gate, PTL DEF GateInv

(* No update of waiters_blocked is lost and none acts on a stale value. *)
THEOREM NoStaleCounter ==
  ASSUME Benign
  PROVE  Spec => []LoadsFresh
BY Gate, PTL DEF GateInv

(* The inductive invariant behind the counters. *)
CountInv == /\ CountersAgree
            /\ IsFiniteSet(Unposted)
            /\ \A p \in Procs : pc[p] \in {"s_post", "s_queue"} => signals[p] \in Nat

(* A batch of n posts is a set of n pairs. *)
LEMMA BatchSize ==
  ASSUME NEW p, NEW n \in Nat
  PROVE  /\ IsFiniteSet({p} \X (1 .. n))
         /\ Cardinality({p} \X (1 .. n)) = n
<1>1. IsFiniteSet({p}) /\ Cardinality({p}) = 1
  BY FS_Singleton
<1>2. 1 \in Int /\ n \in Int
  OBVIOUS
<1>3. /\ IsFiniteSet(1 .. n)
      /\ Cardinality(1 .. n) = IF 1 > n THEN 0 ELSE n - 1 + 1
  BY <1>2, FS_Interval, Zenon
<1>4. Cardinality(1 .. n) = n
  BY <1>3
<1>5. /\ IsFiniteSet({p} \X (1 .. n))
      /\ Cardinality({p} \X (1 .. n)) = Cardinality({p}) * Cardinality(1 .. n)
  BY <1>1, <1>3, FS_Product
<1> QED BY <1>1, <1>4, <1>5

(* The counting equations hold for any number of processes. *)
THEOREM Counters ==
  ASSUME Benign
  PROVE  Spec => []CountInv
<1> USE SvcondAssumption DEF Benign
<1>1. Init => CountInv
  <2> SUFFICES ASSUME Init PROVE CountInv
    OBVIOUS
  <2>1. Counted = {} /\ Unposted = {} /\ Dequeued = {}
    BY DEF Init, Counted, Enlisted, Unposted, Dequeued, At
  <2> QED BY <2>1, FS_EmptySet DEF Init, CountInv, CountersAgree, At
<1>2. TypeOK /\ GateInv /\ CountInv /\ [Next]_vars => CountInv'
  <2> SUFFICES ASSUME TypeOK, GateInv, CountInv, [Next]_vars PROVE CountInv'
    OBVIOUS
  <2>fin. /\ IsFiniteSet(Counted) /\ IsFiniteSet(Dequeued) /\ IsFiniteSet(Unposted)
          /\ Cardinality(Counted) \in Nat /\ Cardinality(Dequeued) \in Nat
          /\ Cardinality(Unposted) \in Nat
          /\ Cardinality(Counted) <= Cardinality(Procs) /\ Cardinality(Procs) \in Nat
    BY FS_Subset, FS_CardinalityType DEF Counted, Enlisted, Dequeued, At, CountInv
  <2> USE DEF TypeOK, GateInv, CountInv, CountersAgree, sems, cond, local, env,
        Goto, WaitPC, SignalPC, SemWait, SemPost, Interrupted, LoadBlocked
  <2>1. ASSUME NEW p \in Procs, ClientLock(p) PROVE CountInv'
    <3>1. Counted' = Counted /\ Dequeued' = Dequeued /\ Unposted' = Unposted
      BY <2>1 DEF ClientLock, Counted, Enlisted, Dequeued, Unposted, At
    <3> QED BY <2>1, <3>1 DEF ClientLock
  <2>2. ASSUME NEW p \in Procs, ClientUnlock(p) PROVE CountInv'
    <3>1. Counted' = Counted /\ Dequeued' = Dequeued /\ Unposted' = Unposted
      BY <2>2 DEF ClientUnlock, Counted, Enlisted, Dequeued, Unposted, At
    <3> QED BY <2>2, <3>1 DEF ClientUnlock
  <2>3. ASSUME NEW p \in Procs, CallWait(p) PROVE CountInv'
    <3>1. Counted' = Counted /\ Dequeued' = Dequeued /\ Unposted' = Unposted
      BY <2>3 DEF CallWait, Counted, Enlisted, Dequeued, Unposted, At
    <3> QED BY <2>3, <3>1 DEF CallWait
  <2>4. ASSUME NEW p \in Procs, CallSignal(p, FALSE) PROVE CountInv'
    <3>1. Counted' = Counted /\ Dequeued' = Dequeued /\ Unposted' = Unposted
      BY <2>4 DEF CallSignal, Counted, Enlisted, Dequeued, Unposted, At
    <3> QED BY <2>4, <3>1 DEF CallSignal
  <2>5. ASSUME NEW p \in Procs, CallSignal(p, TRUE) PROVE CountInv'
    <3>1. Counted' = Counted /\ Dequeued' = Dequeued /\ Unposted' = Unposted
      BY <2>5 DEF CallSignal, Counted, Enlisted, Dequeued, Unposted, At
    <3> QED BY <2>5, <3>1 DEF CallSignal
  <2>6. ASSUME NEW p \in Procs, WaitGate(p) PROVE CountInv'
    <3>1. Counted' = Counted /\ Dequeued' = Dequeued /\ Unposted' = Unposted
      BY <2>6 DEF WaitGate, Counted, Enlisted, Dequeued, Unposted, At
    <3> QED BY <2>6, <3>1 DEF WaitGate
  <2>7. ASSUME NEW p \in Procs, WaitInc(p) PROVE CountInv'
    <3>1. Counted' = Counted /\ Dequeued' = Dequeued /\ Unposted' = Unposted
      BY <2>7 DEF WaitInc, Counted, Enlisted, Dequeued, Unposted, At
    <3> QED BY <2>7, <3>1 DEF WaitInc
  <2>8. ASSUME NEW p \in Procs, WaitIncStore(p) PROVE CountInv'
    <3>1. /\ Counted' = Counted \cup {p} /\ p \notin Counted
          /\ Dequeued' = Dequeued /\ Unposted' = Unposted
      BY <2>8 DEF WaitIncStore, Counted, Enlisted, Dequeued, Unposted, At
    <3>2. Cardinality(Counted') = Cardinality(Counted) + 1
      BY <3>1, <2>fin, FS_AddElement
    <3> QED BY <2>8, <3>1, <3>2, <2>fin DEF WaitIncStore, LoadsFresh
  <2>9. ASSUME NEW p \in Procs, WaitOpen(p) PROVE CountInv'
    <3>1. Counted' = Counted /\ Dequeued' = Dequeued /\ Unposted' = Unposted
      BY <2>9 DEF WaitOpen, Counted, Enlisted, Dequeued, Unposted, At
    <3> QED BY <2>9, <3>1 DEF WaitOpen
  <2>10. ASSUME NEW p \in Procs, WaitUnlock(p) PROVE CountInv'
    <3>1. Counted' = Counted /\ Dequeued' = Dequeued /\ Unposted' = Unposted
      BY <2>10 DEF WaitUnlock, Counted, Enlisted, Dequeued, Unposted, At
    <3> QED BY <2>10, <3>1 DEF WaitUnlock
  <2>11. ASSUME NEW p \in Procs, WaitQueue(p) PROVE CountInv'
    <3>1. /\ Dequeued' = Dequeued \cup {p} /\ p \notin Dequeued
          /\ Counted' = Counted /\ Unposted' = Unposted
      BY <2>11 DEF WaitQueue, Counted, Enlisted, Dequeued, Unposted, At
    <3>2. Cardinality(Dequeued') = Cardinality(Dequeued) + 1
      BY <3>1, <2>fin, FS_AddElement
    <3> QED BY <2>11, <3>1, <3>2, <2>fin DEF WaitQueue
  <2>12. ASSUME NEW p \in Procs, WaitUnblock(p) PROVE CountInv'
    <3>1. Counted' = Counted /\ Dequeued' = Dequeued /\ Unposted' = Unposted
      BY <2>12 DEF WaitUnblock, Counted, Enlisted, Dequeued, Unposted, At
    <3> QED BY <2>12, <3>1 DEF WaitUnblock
  <2>13. ASSUME NEW p \in Procs, WaitLeft(p) PROVE CountInv'
    <3>1. /\ Dequeued' = Dequeued \ {p} /\ p \in Dequeued
          /\ Counted' = Counted \ {p} /\ p \in Counted
          /\ Unposted' = Unposted
      BY <2>13 DEF WaitLeft, Counted, Enlisted, Dequeued, Unposted, At
    <3>2. /\ Cardinality(Dequeued') = Cardinality(Dequeued) - 1
          /\ Cardinality(Counted') = Cardinality(Counted) - 1
      BY <3>1, <2>fin, FS_RemoveElement
    <3>3. Cardinality(Dequeued') \in Nat
      BY <3>1, <2>fin, FS_RemoveElement, FS_CardinalityType
    <3> QED BY <2>13, <3>1, <3>2, <3>3, <2>fin DEF WaitLeft
  <2>14. ASSUME NEW p \in Procs, WaitPost(p) PROVE CountInv'
    <3>1. Counted' = Counted /\ Dequeued' = Dequeued /\ Unposted' = Unposted
      BY <2>14 DEF WaitPost, Counted, Enlisted, Dequeued, Unposted, At
    <3> QED BY <2>14, <3>1 DEF WaitPost
  <2>15. ASSUME NEW p \in Procs, WaitReopen(p) PROVE CountInv'
    <3>1. Counted' = Counted /\ Dequeued' = Dequeued /\ Unposted' = Unposted
      BY <2>15 DEF WaitReopen, Counted, Enlisted, Dequeued, Unposted, At
    <3> QED BY <2>15, <3>1 DEF WaitReopen
  <2>16. ASSUME NEW p \in Procs, WaitRelock(p) PROVE CountInv'
    <3>1. Counted' = Counted /\ Dequeued' = Dequeued /\ Unposted' = Unposted
      BY <2>16 DEF WaitRelock, Counted, Enlisted, Dequeued, Unposted, At
    <3> QED BY <2>16, <3>1 DEF WaitRelock
  <2>17. ASSUME NEW p \in Procs, WaitDec(p) PROVE CountInv'
    <3>1. Counted' = Counted /\ Dequeued' = Dequeued /\ Unposted' = Unposted
      BY <2>17 DEF WaitDec, Counted, Enlisted, Dequeued, Unposted, At
    <3> QED BY <2>17, <3>1 DEF WaitDec
  <2>18. ASSUME NEW p \in Procs, WaitDecStore(p) PROVE CountInv'
    <3>1. Counted' = Counted /\ Dequeued' = Dequeued /\ Unposted' = Unposted
      BY <2>18 DEF WaitDecStore, Counted, Enlisted, Dequeued, Unposted, At
    <3> QED BY <2>18, <3>1 DEF WaitDecStore
  <2>19. ASSUME NEW p \in Procs, WaitRelockEintr(p) PROVE CountInv'
    <3>1. Counted' = Counted /\ Dequeued' = Dequeued /\ Unposted' = Unposted
      BY <2>19 DEF WaitRelockEintr, Counted, Enlisted, Dequeued, Unposted, At
    <3> QED BY <2>19, <3>1 DEF WaitRelockEintr
  <2>20. ASSUME NEW p \in Procs, SignalUnblock(p) PROVE CountInv'
    <3>1. Counted' = Counted /\ Dequeued' = Dequeued /\ Unposted' = Unposted
      BY <2>20 DEF SignalUnblock, Counted, Enlisted, Dequeued, Unposted, At
    <3> QED BY <2>20, <3>1 DEF SignalUnblock
  <2>21. ASSUME NEW p \in Procs, SignalCheck(p) PROVE CountInv'
    <3>1. Counted' = Counted /\ Dequeued' = Dequeued /\ Unposted' = Unposted
      BY <2>21 DEF SignalCheck, CheckTarget, Counted, Enlisted, Dequeued, Unposted, At
    <3> QED BY <2>21, <3>1 DEF SignalCheck, CheckTarget
  <2>22. ASSUME NEW p \in Procs, SignalNoop(p) PROVE CountInv'
    <3>1. Counted' = Counted /\ Dequeued' = Dequeued /\ Unposted' = Unposted
      BY <2>22 DEF SignalNoop, Counted, Enlisted, Dequeued, Unposted, At
    <3> QED BY <2>22, <3>1 DEF SignalNoop
  <2>23. ASSUME NEW p \in Procs, SignalGate(p) PROVE CountInv'
    <3>1. Counted' = Counted /\ Dequeued' = Dequeued /\ Unposted' = Unposted
      BY <2>23 DEF SignalGate, Counted, Enlisted, Dequeued, Unposted, At
    <3> QED BY <2>23, <3>1 DEF SignalGate
  <2>24. ASSUME NEW p \in Procs, SignalMove(p) PROVE CountInv'
    <3>1. Counted' = Counted /\ Dequeued' = Dequeued /\ Unposted' = Unposted
      BY <2>24 DEF SignalMove, Counted, Enlisted, Dequeued, Unposted, At
    <3> QED BY <2>24, <3>1 DEF SignalMove
  <2>25. ASSUME NEW p \in Procs, SignalMoveStore(p) PROVE CountInv'
    <3> DEFINE n == IF broadcast[p] THEN reg[p] ELSE 1
    <3>1. n \in Nat /\ n <= waiters_blocked /\ reg[p] = waiters_blocked
      BY <2>25 DEF SignalMoveStore, LoadsFresh
    <3>2. /\ Unposted' = Unposted \cup ({p} \X (1 .. n))
          /\ Unposted \cap ({p} \X (1 .. n)) = {}
          /\ Counted' = Counted /\ Dequeued' = Dequeued
      BY <2>25, <3>1 DEF SignalMoveStore, Counted, Enlisted, Dequeued, Unposted, At
    <3> HIDE DEF n
    <3>4. /\ IsFiniteSet({p} \X (1 .. n))
          /\ Cardinality({p} \X (1 .. n)) = n
      BY <3>1, BatchSize
    <3>5. /\ IsFiniteSet(Unposted')
          /\ Cardinality(Unposted') = Cardinality(Unposted) + n - Cardinality({})
      BY <3>2, <3>4, <2>fin, FS_Union
    <3>6. Cardinality(Unposted') = Cardinality(Unposted) + n
      BY <3>1, <3>5, <2>fin, FS_EmptySet
    <3> QED BY <2>25, <3>1, <3>2, <3>5, <3>6, <2>fin DEF SignalMoveStore, n
  <2>26. ASSUME NEW p \in Procs, SignalPost(p) PROVE CountInv'
    <3>1. Counted' = Counted /\ Dequeued' = Dequeued /\ Unposted' = Unposted
      BY <2>26 DEF SignalPost, Counted, Enlisted, Dequeued, Unposted, At
    <3> QED BY <2>26, <3>1 DEF SignalPost
  <2>27. ASSUME NEW p \in Procs, SignalQueue(p) PROVE CountInv'
    <3>1. /\ Unposted' = Unposted \ {<<p, signals[p]>>}
          /\ <<p, signals[p]>> \in Unposted
          /\ Counted' = Counted /\ Dequeued' = Dequeued
      BY <2>27 DEF SignalQueue, Counted, Enlisted, Dequeued, Unposted, At
    <3>2. /\ IsFiniteSet(Unposted')
          /\ Cardinality(Unposted') = Cardinality(Unposted) - 1
      BY <3>1, <2>fin, FS_RemoveElement
    <3>3. Cardinality(Unposted') \in Nat
      BY <3>2, FS_CardinalityType
    <3> QED BY <2>27, <3>1, <3>2, <3>3, <2>fin DEF SignalQueue
  <2>28. ASSUME NEW p \in Procs, SignalReturn(p) PROVE CountInv'
    <3>1. Counted' = Counted /\ Dequeued' = Dequeued /\ Unposted' = Unposted
      BY <2>28 DEF SignalReturn, Counted, Enlisted, Dequeued, Unposted, At
    <3> QED BY <2>28, <3>1 DEF SignalReturn
  <2>29. ASSUME NEW p \in Procs, WaitGateEintr(p) PROVE CountInv'
    <3>1. Counted' = Counted /\ Dequeued' = Dequeued /\ Unposted' = Unposted
      BY <2>29 DEF WaitGateEintr, Counted, Enlisted, Dequeued, Unposted, At
    <3> QED BY <2>29, <3>1 DEF WaitGateEintr
  <2>30. ASSUME NEW p \in Procs, WaitQueueEintr(p) PROVE CountInv'
    <3>1. Counted' = Counted /\ Dequeued' = Dequeued /\ Unposted' = Unposted
      BY <2>30 DEF WaitQueueEintr, Counted, Enlisted, Dequeued, Unposted, At
    <3> QED BY <2>30, <3>1 DEF WaitQueueEintr
  <2>31. ASSUME NEW p \in Procs, SignalUnblockEintr(p) PROVE CountInv'
    <3>1. Counted' = Counted /\ Dequeued' = Dequeued /\ Unposted' = Unposted
      BY <2>31 DEF SignalUnblockEintr, Counted, Enlisted, Dequeued, Unposted, At
    <3> QED BY <2>31, <3>1 DEF SignalUnblockEintr
  <2>32. ASSUME NEW p \in Procs, SignalGateEintr(p) PROVE CountInv'
    <3>1. Counted' = Counted /\ Dequeued' = Dequeued /\ Unposted' = Unposted
      BY <2>32 DEF SignalGateEintr, Counted, Enlisted, Dequeued, Unposted, At
    <3> QED BY <2>32, <3>1 DEF SignalGateEintr
  <2>33. ASSUME NEW p \in Procs, Crash(p) PROVE CountInv'
    <3>1. Counted' = Counted /\ Dequeued' = Dequeued /\ Unposted' = Unposted
      BY <2>33 DEF Crash, Counted, Enlisted, Dequeued, Unposted, At
    <3> QED BY <2>33, <3>1 DEF Crash
  <2>34. CASE UNCHANGED vars
    BY <2>34 DEF vars, Counted, Enlisted, Dequeued, Unposted, At
  <2> QED BY <2>1, <2>2, <2>3, <2>4, <2>5, <2>6, <2>7, <2>8, <2>9, <2>10,
        <2>11, <2>12, <2>13, <2>14, <2>15, <2>16, <2>17, <2>18, <2>19, <2>20,
        <2>21, <2>22, <2>23, <2>24, <2>25, <2>26, <2>27, <2>28, <2>29, <2>30,
        <2>31, <2>32, <2>33, <2>34 DEF Next, ClientStep, WaitStep, SignalStep,
        EintrStep
<1> QED BY <1>1, <1>2, Types, Gate, PTL DEF Spec

(* No wakeup is lost or invented. *)
THEOREM NoLostWakeup ==
  ASSUME Benign
  PROVE  Spec => []CountersAgree
BY Counters, PTL DEF CountInv

(* svcond_wait keeps the caller's lock a mutex, whatever is interrupted.   *)
THEOREM CallerLock == Spec => []LockExclusive
<1> USE SvcondAssumption
<1>1. Init => LockExclusive
  BY DEF Init, LockExclusive, LockMutex, HoldsLock, SignalPC
<1>2. TypeOK /\ LockExclusive /\ [Next]_vars => LockExclusive'
  <2> SUFFICES ASSUME TypeOK, LockExclusive, [Next]_vars PROVE LockExclusive'
    OBVIOUS
  <2> USE DEF TypeOK, LockExclusive, LockMutex, HoldsLock, sems, cond, local, env, Goto,
        WaitPC, SignalPC, SemWait, SemPost, Interrupted, LoadBlocked
  <2>1. ASSUME NEW p \in Procs, ClientLock(p) PROVE LockExclusive'
    BY <2>1 DEF ClientLock
  <2>2. ASSUME NEW p \in Procs, ClientUnlock(p) PROVE LockExclusive'
    BY <2>2 DEF ClientUnlock
  <2>3. ASSUME NEW p \in Procs, CallWait(p) PROVE LockExclusive'
    BY <2>3 DEF CallWait
  <2>4. ASSUME NEW p \in Procs, CallSignal(p, FALSE) PROVE LockExclusive'
    BY <2>4 DEF CallSignal
  <2>5. ASSUME NEW p \in Procs, CallSignal(p, TRUE) PROVE LockExclusive'
    BY <2>5 DEF CallSignal
  <2>6. ASSUME NEW p \in Procs, WaitGate(p) PROVE LockExclusive'
    BY <2>6 DEF WaitGate
  <2>7. ASSUME NEW p \in Procs, WaitInc(p) PROVE LockExclusive'
    BY <2>7 DEF WaitInc
  <2>8. ASSUME NEW p \in Procs, WaitIncStore(p) PROVE LockExclusive'
    BY <2>8 DEF WaitIncStore
  <2>9. ASSUME NEW p \in Procs, WaitOpen(p) PROVE LockExclusive'
    BY <2>9 DEF WaitOpen
  <2>10. ASSUME NEW p \in Procs, WaitUnlock(p) PROVE LockExclusive'
    BY <2>10 DEF WaitUnlock
  <2>11. ASSUME NEW p \in Procs, WaitQueue(p) PROVE LockExclusive'
    BY <2>11 DEF WaitQueue
  <2>12. ASSUME NEW p \in Procs, WaitUnblock(p) PROVE LockExclusive'
    BY <2>12 DEF WaitUnblock
  <2>13. ASSUME NEW p \in Procs, WaitLeft(p) PROVE LockExclusive'
    BY <2>13 DEF WaitLeft
  <2>14. ASSUME NEW p \in Procs, WaitPost(p) PROVE LockExclusive'
    BY <2>14 DEF WaitPost
  <2>15. ASSUME NEW p \in Procs, WaitReopen(p) PROVE LockExclusive'
    BY <2>15 DEF WaitReopen
  <2>16. ASSUME NEW p \in Procs, WaitRelock(p) PROVE LockExclusive'
    BY <2>16 DEF WaitRelock
  <2>17. ASSUME NEW p \in Procs, WaitDec(p) PROVE LockExclusive'
    BY <2>17 DEF WaitDec
  <2>18. ASSUME NEW p \in Procs, WaitDecStore(p) PROVE LockExclusive'
    BY <2>18 DEF WaitDecStore
  <2>19. ASSUME NEW p \in Procs, WaitRelockEintr(p) PROVE LockExclusive'
    BY <2>19 DEF WaitRelockEintr
  <2>20. ASSUME NEW p \in Procs, SignalUnblock(p) PROVE LockExclusive'
    BY <2>20 DEF SignalUnblock
  <2>21. ASSUME NEW p \in Procs, SignalCheck(p) PROVE LockExclusive'
    BY <2>21 DEF SignalCheck, CheckTarget
  <2>22. ASSUME NEW p \in Procs, SignalNoop(p) PROVE LockExclusive'
    BY <2>22 DEF SignalNoop
  <2>23. ASSUME NEW p \in Procs, SignalGate(p) PROVE LockExclusive'
    BY <2>23 DEF SignalGate
  <2>24. ASSUME NEW p \in Procs, SignalMove(p) PROVE LockExclusive'
    BY <2>24 DEF SignalMove
  <2>25. ASSUME NEW p \in Procs, SignalMoveStore(p) PROVE LockExclusive'
    BY <2>25 DEF SignalMoveStore
  <2>26. ASSUME NEW p \in Procs, SignalPost(p) PROVE LockExclusive'
    BY <2>26 DEF SignalPost
  <2>27. ASSUME NEW p \in Procs, SignalQueue(p) PROVE LockExclusive'
    BY <2>27 DEF SignalQueue
  <2>28. ASSUME NEW p \in Procs, SignalReturn(p) PROVE LockExclusive'
    BY <2>28 DEF SignalReturn
  <2>29. ASSUME NEW p \in Procs, WaitGateEintr(p) PROVE LockExclusive'
    BY <2>29 DEF WaitGateEintr
  <2>30. ASSUME NEW p \in Procs, WaitQueueEintr(p) PROVE LockExclusive'
    BY <2>30 DEF WaitQueueEintr
  <2>31. ASSUME NEW p \in Procs, SignalUnblockEintr(p) PROVE LockExclusive'
    BY <2>31 DEF SignalUnblockEintr
  <2>32. ASSUME NEW p \in Procs, SignalGateEintr(p) PROVE LockExclusive'
    BY <2>32 DEF SignalGateEintr
  <2>33. ASSUME NEW p \in Procs, Crash(p) PROVE LockExclusive'
    BY <2>33 DEF Crash
  <2>34. CASE UNCHANGED vars
    BY <2>34 DEF vars
  <2> QED BY <2>1, <2>2, <2>3, <2>4, <2>5, <2>6, <2>7, <2>8, <2>9, <2>10,
        <2>11, <2>12, <2>13, <2>14, <2>15, <2>16, <2>17, <2>18, <2>19, <2>20,
        <2>21, <2>22, <2>23, <2>24, <2>25, <2>26, <2>27, <2>28, <2>29, <2>30,
        <2>31, <2>32, <2>33, <2>34 DEF Next, ClientStep, WaitStep, SignalStep,
        EintrStep
<1> QED BY <1>1, <1>2, Types, PTL DEF Spec

(* The instance's Cardinality is Cardinality. *)
LEMMA SameCardinality == \A S : Abstract!Cardinality(S) = Cardinality(S)
BY Zenon DEF Abstract!Cardinality, Cardinality

(* Who owns the lock, as CondVar sees it. *)
LEMMA OwnerIs ==
  /\ OwnerOf({}) = Nobody
  /\ \A p : OwnerOf({p}) = p
  /\ \A S : OwnerOf(S) \in S \cup {Nobody}
BY DEF OwnerOf

(* Each step of svcond.c is a step of a condition variable or none: an     *)
(* enlisting store is Enlist, the store of line 157-163 or 170-176 is      *)
(* Signal or Broadcast, and the semop of line 107 is Wake.                 *)
THEOREM Refinement ==
  ASSUME Benign
  PROVE  Spec => Abstract!CInit /\ [][Abstract!CNext]_(Abstract!cvars)
<1> DEFINE Inv == TypeOK /\ GateInv /\ CountInv /\ LockMutex
<1>1. Init => Abstract!CInit
  <2> SUFFICES ASSUME Init PROVE Abstract!CInit
    OBVIOUS
  <2>1. Enlisted = {} /\ Unposted = {} /\ Woken = {} /\ Holders = {}
    BY DEF Init, Enlisted, Unposted, Woken, At, Holders, HoldsLock, SignalPC
  <2>2. OwnerOf(Holders) = Nobody /\ Pending = 0
    BY <2>1, OwnerIs, FS_EmptySet DEF Init, Pending
  <2> QED BY <2>1, <2>2 DEF Abstract!CInit
<1>2. Inv /\ Inv' /\ [Next]_vars => [Abstract!CNext]_(Abstract!cvars)
  <2> SUFFICES ASSUME Inv, Inv', [Next]_vars PROVE [Abstract!CNext]_(Abstract!cvars)
    OBVIOUS
  <2>fin. /\ Cardinality(Dequeued) \in Nat /\ Cardinality(Unposted) \in Nat
          /\ Cardinality(Unposted') \in Nat /\ Cardinality(Enlisted) \in Nat
          /\ IsFiniteSet(Dequeued) /\ IsFiniteSet(Enlisted)
    BY FS_Subset, FS_CardinalityType, SvcondAssumption DEF Enlisted, Dequeued,
          At, CountInv
  <2>sum. Cardinality(Counted) = Cardinality(Enlisted) + Cardinality(Dequeued)
    <3>1. Enlisted \cap Dequeued = {}
      BY DEF Enlisted, Dequeued, At
    <3>2. Cardinality(Counted)
           = Cardinality(Enlisted) + Cardinality(Dequeued) - Cardinality({})
      BY <3>1, <2>fin, FS_Union DEF Counted
    <3> QED BY <3>2, <2>fin, FS_EmptySet
  <2> USE DEF TypeOK, GateInv, sems, cond, local, env, Goto, WaitPC, SignalPC,
        SemWait, SemPost, Interrupted, LoadBlocked, Benign
  <2>1. ASSUME NEW p \in Procs, ClientLock(p) PROVE [Abstract!CNext]_(Abstract!cvars)
    <3>1. /\ Enlisted' = Enlisted
          /\ Woken' = Woken
          /\ Unposted' = Unposted
          /\ block_queue' = block_queue
          /\ p \notin Enlisted \cup Woken
          /\ Holders = {}
          /\ Holders' = {p}
      BY <2>1 DEF ClientLock, Enlisted, Unposted, Woken, At, Holders,
            HoldsLock, LockMutex
    <3>2. Abstract!Lock(p)
      BY <3>1, OwnerIs DEF Abstract!Lock, Pending
    <3> QED BY <3>2 DEF Abstract!CNext
  <2>2. ASSUME NEW p \in Procs, ClientUnlock(p) PROVE [Abstract!CNext]_(Abstract!cvars)
    <3>1. /\ Enlisted' = Enlisted
          /\ Woken' = Woken
          /\ Unposted' = Unposted
          /\ block_queue' = block_queue
          /\ p \notin Enlisted
          /\ Holders = {p}
          /\ Holders' = {}
      BY <2>2 DEF ClientUnlock, Enlisted, Unposted, Woken, At, Holders,
            HoldsLock, LockMutex
    <3>2. Abstract!Unlock(p)
      BY <3>1, OwnerIs DEF Abstract!Unlock, Pending
    <3> QED BY <3>2 DEF Abstract!CNext
  <2>3. ASSUME NEW p \in Procs, CallWait(p) PROVE [Abstract!CNext]_(Abstract!cvars)
    <3>1. /\ Enlisted' = Enlisted /\ Unposted' = Unposted /\ Woken' = Woken
          /\ block_queue' = block_queue
          /\ Holders' = Holders
      BY <2>3 DEF CallWait, Enlisted, Unposted, Woken, At, Holders, HoldsLock,
            LockMutex
    <3> QED BY <3>1 DEF Abstract!cvars, Pending
  <2>4. ASSUME NEW p \in Procs, CallSignal(p, FALSE) PROVE [Abstract!CNext]_(Abstract!cvars)
    <3>1. /\ Enlisted' = Enlisted /\ Unposted' = Unposted /\ Woken' = Woken
          /\ block_queue' = block_queue
          /\ Holders' = Holders
      BY <2>4 DEF CallSignal, Enlisted, Unposted, Woken, At, Holders,
            HoldsLock, LockMutex
    <3> QED BY <3>1 DEF Abstract!cvars, Pending
  <2>5. ASSUME NEW p \in Procs, CallSignal(p, TRUE) PROVE [Abstract!CNext]_(Abstract!cvars)
    <3>1. /\ Enlisted' = Enlisted /\ Unposted' = Unposted /\ Woken' = Woken
          /\ block_queue' = block_queue
          /\ Holders' = Holders
      BY <2>5 DEF CallSignal, Enlisted, Unposted, Woken, At, Holders,
            HoldsLock, LockMutex
    <3> QED BY <3>1 DEF Abstract!cvars, Pending
  <2>6. ASSUME NEW p \in Procs, WaitGate(p) PROVE [Abstract!CNext]_(Abstract!cvars)
    <3>1. /\ Enlisted' = Enlisted /\ Unposted' = Unposted /\ Woken' = Woken
          /\ block_queue' = block_queue
          /\ Holders' = Holders
      BY <2>6 DEF WaitGate, Enlisted, Unposted, Woken, At, Holders, HoldsLock,
            LockMutex
    <3> QED BY <3>1 DEF Abstract!cvars, Pending
  <2>7. ASSUME NEW p \in Procs, WaitInc(p) PROVE [Abstract!CNext]_(Abstract!cvars)
    <3>1. /\ Enlisted' = Enlisted /\ Unposted' = Unposted /\ Woken' = Woken
          /\ block_queue' = block_queue
          /\ Holders' = Holders
      BY <2>7 DEF WaitInc, Enlisted, Unposted, Woken, At, Holders, HoldsLock,
            LockMutex
    <3> QED BY <3>1 DEF Abstract!cvars, Pending
  <2>8. ASSUME NEW p \in Procs, WaitIncStore(p) PROVE [Abstract!CNext]_(Abstract!cvars)
    <3>1. /\ Enlisted' = Enlisted \cup {p} /\ p \notin Enlisted
          /\ Woken' = Woken /\ Unposted' = Unposted /\ block_queue' = block_queue
          /\ Holders = {p} /\ Holders' = {p}
      BY <2>8 DEF WaitIncStore, Enlisted, Unposted, Woken, At, Holders,
            HoldsLock, LockMutex
    <3>2. waiters_to_unblock = 0
      BY <2>8 DEF WaitIncStore, GateInv, GateExclusive, HoldsGate
    <3>3. Pending = 0
      BY <3>2, <2>fin DEF CountInv, CountersAgree, Pending
    <3>4. Abstract!Enlist(p)
      BY <3>1, <3>3, OwnerIs DEF Abstract!Enlist, Pending
    <3> QED BY <3>4 DEF Abstract!CNext
  <2>9. ASSUME NEW p \in Procs, WaitOpen(p) PROVE [Abstract!CNext]_(Abstract!cvars)
    <3>1. /\ Enlisted' = Enlisted /\ Unposted' = Unposted /\ Woken' = Woken
          /\ block_queue' = block_queue
          /\ Holders' = Holders
      BY <2>9 DEF WaitOpen, Enlisted, Unposted, Woken, At, Holders, HoldsLock,
            LockMutex
    <3> QED BY <3>1 DEF Abstract!cvars, Pending
  <2>10. ASSUME NEW p \in Procs, WaitUnlock(p) PROVE [Abstract!CNext]_(Abstract!cvars)
    <3>1. /\ Enlisted' = Enlisted
          /\ Woken' = Woken
          /\ Unposted' = Unposted
          /\ block_queue' = block_queue
          /\ p \in Enlisted
          /\ Holders = {p}
          /\ Holders' = {}
      BY <2>10 DEF WaitUnlock, Enlisted, Unposted, Woken, At, Holders,
            HoldsLock, LockMutex
    <3>2. Abstract!Sleep(p)
      BY <3>1, OwnerIs DEF Abstract!Sleep, Pending
    <3> QED BY <3>2 DEF Abstract!CNext
  <2>11. ASSUME NEW p \in Procs, WaitQueue(p) PROVE [Abstract!CNext]_(Abstract!cvars)
    <3>1. /\ Enlisted' = Enlisted \ {p} /\ p \in Enlisted
          /\ Woken' = Woken \cup {p} /\ Unposted' = Unposted
          /\ block_queue > 0 /\ block_queue' = block_queue - 1
          /\ p \notin Holders
          /\ Holders' = Holders
      BY <2>11 DEF WaitQueue, Enlisted, Unposted, Woken, At, Holders,
            HoldsLock, LockMutex
    <3>2. OwnerOf(Holders) # p
      BY <3>1, OwnerIs, SvcondAssumption
    <3>3. Pending > 0 /\ Pending' = Pending - 1
      BY <3>1, <2>fin DEF Pending
    <3>4. Abstract!Wake(p)
      BY <3>1, <3>2, <3>3 DEF Abstract!Wake
    <3> QED BY <3>4 DEF Abstract!CNext
  <2>12. ASSUME NEW p \in Procs, WaitUnblock(p) PROVE [Abstract!CNext]_(Abstract!cvars)
    <3>1. /\ Enlisted' = Enlisted /\ Unposted' = Unposted /\ Woken' = Woken
          /\ block_queue' = block_queue
          /\ Holders' = Holders
      BY <2>12 DEF WaitUnblock, Enlisted, Unposted, Woken, At, Holders,
            HoldsLock, LockMutex
    <3> QED BY <3>1 DEF Abstract!cvars, Pending
  <2>13. ASSUME NEW p \in Procs, WaitLeft(p) PROVE [Abstract!CNext]_(Abstract!cvars)
    <3>1. /\ Enlisted' = Enlisted /\ Unposted' = Unposted /\ Woken' = Woken
          /\ block_queue' = block_queue
          /\ Holders' = Holders
      BY <2>13 DEF WaitLeft, Enlisted, Unposted, Woken, At, Holders, HoldsLock,
            LockMutex
    <3> QED BY <3>1 DEF Abstract!cvars, Pending
  <2>14. ASSUME NEW p \in Procs, WaitPost(p) PROVE [Abstract!CNext]_(Abstract!cvars)
    <3>1. /\ Enlisted' = Enlisted /\ Unposted' = Unposted /\ Woken' = Woken
          /\ block_queue' = block_queue
          /\ Holders' = Holders
      BY <2>14 DEF WaitPost, Enlisted, Unposted, Woken, At, Holders, HoldsLock,
            LockMutex
    <3> QED BY <3>1 DEF Abstract!cvars, Pending
  <2>15. ASSUME NEW p \in Procs, WaitReopen(p) PROVE [Abstract!CNext]_(Abstract!cvars)
    <3>1. /\ Enlisted' = Enlisted /\ Unposted' = Unposted /\ Woken' = Woken
          /\ block_queue' = block_queue
          /\ Holders' = Holders
      BY <2>15 DEF WaitReopen, Enlisted, Unposted, Woken, At, Holders,
            HoldsLock, LockMutex
    <3> QED BY <3>1 DEF Abstract!cvars, Pending
  <2>16. ASSUME NEW p \in Procs, WaitRelock(p) PROVE [Abstract!CNext]_(Abstract!cvars)
    <3>1. /\ Enlisted' = Enlisted
          /\ Woken' = Woken \ {p}
          /\ Unposted' = Unposted
          /\ block_queue' = block_queue
          /\ p \in Woken
          /\ Holders = {}
          /\ Holders' = {p}
      BY <2>16 DEF WaitRelock, Enlisted, Unposted, Woken, At, Holders,
            HoldsLock, LockMutex
    <3>2. Abstract!Relock(p)
      BY <3>1, OwnerIs DEF Abstract!Relock, Pending
    <3> QED BY <3>2 DEF Abstract!CNext
  <2>17. ASSUME NEW p \in Procs, WaitDec(p) PROVE [Abstract!CNext]_(Abstract!cvars)
    BY <2>17 DEF WaitDec
  <2>18. ASSUME NEW p \in Procs, WaitDecStore(p) PROVE [Abstract!CNext]_(Abstract!cvars)
    BY <2>18 DEF WaitDecStore
  <2>19. ASSUME NEW p \in Procs, WaitRelockEintr(p) PROVE [Abstract!CNext]_(Abstract!cvars)
    BY <2>19 DEF WaitRelockEintr
  <2>20. ASSUME NEW p \in Procs, SignalUnblock(p) PROVE [Abstract!CNext]_(Abstract!cvars)
    <3>1. /\ Enlisted' = Enlisted /\ Unposted' = Unposted /\ Woken' = Woken
          /\ block_queue' = block_queue
          /\ Holders' = Holders
      BY <2>20 DEF SignalUnblock, Enlisted, Unposted, Woken, At, Holders,
            HoldsLock, LockMutex
    <3> QED BY <3>1 DEF Abstract!cvars, Pending
  <2>21. ASSUME NEW p \in Procs, SignalCheck(p) PROVE [Abstract!CNext]_(Abstract!cvars)
    <3>1. /\ Enlisted' = Enlisted /\ Unposted' = Unposted /\ Woken' = Woken
          /\ block_queue' = block_queue
          /\ Holders' = Holders
      BY <2>21 DEF SignalCheck, CheckTarget, Enlisted, Unposted, Woken, At,
            Holders, HoldsLock, LockMutex
    <3> QED BY <3>1 DEF Abstract!cvars, Pending
  <2>22. ASSUME NEW p \in Procs, SignalNoop(p) PROVE [Abstract!CNext]_(Abstract!cvars)
    <3>1. /\ Enlisted' = Enlisted /\ Unposted' = Unposted /\ Woken' = Woken
          /\ block_queue' = block_queue
          /\ Holders' = Holders
      BY <2>22 DEF SignalNoop, Enlisted, Unposted, Woken, At, Holders,
            HoldsLock, LockMutex
    <3> QED BY <3>1 DEF Abstract!cvars, Pending
  <2>23. ASSUME NEW p \in Procs, SignalGate(p) PROVE [Abstract!CNext]_(Abstract!cvars)
    <3>1. /\ Enlisted' = Enlisted /\ Unposted' = Unposted /\ Woken' = Woken
          /\ block_queue' = block_queue
          /\ Holders' = Holders
      BY <2>23 DEF SignalGate, Enlisted, Unposted, Woken, At, Holders,
            HoldsLock, LockMutex
    <3> QED BY <3>1 DEF Abstract!cvars, Pending
  <2>24. ASSUME NEW p \in Procs, SignalMove(p) PROVE [Abstract!CNext]_(Abstract!cvars)
    <3>1. /\ Enlisted' = Enlisted /\ Unposted' = Unposted /\ Woken' = Woken
          /\ block_queue' = block_queue
          /\ Holders' = Holders
      BY <2>24 DEF SignalMove, Enlisted, Unposted, Woken, At, Holders,
            HoldsLock, LockMutex
    <3> QED BY <3>1 DEF Abstract!cvars, Pending
  <2>25. ASSUME NEW p \in Procs, SignalMoveStore(p) PROVE [Abstract!CNext]_(Abstract!cvars)
    <3> DEFINE n == IF broadcast[p] THEN reg[p] ELSE 1
    <3>1. /\ Enlisted' = Enlisted /\ Woken' = Woken /\ Counted' = Counted
          /\ Dequeued' = Dequeued /\ block_queue' = block_queue
          /\ Holders' = Holders
      BY <2>25 DEF SignalMoveStore, Enlisted, Dequeued, Counted, Woken, At,
            Holders, HoldsLock, LockMutex
    <3>3. /\ waiters_to_unblock' = waiters_to_unblock + n
          /\ n = 1 \/ n = waiters_blocked
          /\ waiters_blocked > 0
      BY <2>25 DEF SignalMoveStore, GateInv, LoadsFresh
    <3>4. Pending' = Pending + n
      BY <3>1, <3>3, <2>fin DEF CountInv, CountersAgree, Pending
    <3>5. Pending + waiters_blocked = Cardinality(Enlisted)
      BY <2>fin, <2>sum DEF CountInv, CountersAgree, Pending
    <3>6. Pending < Cardinality(Enlisted)
      BY <3>3, <3>5, <2>fin DEF Pending
    <3> HIDE DEF n
    <3>7. CASE n = 1
      <4>1. Abstract!Signal
        BY <3>1, <3>4, <3>6, <3>7, SameCardinality DEF Abstract!Signal
      <4> QED BY <4>1 DEF Abstract!CNext
    <3>8. CASE n = waiters_blocked
      <4>1. Abstract!Broadcast
        BY <3>1, <3>4, <3>5, <3>6, <3>8, SameCardinality DEF Abstract!Broadcast
      <4> QED BY <4>1 DEF Abstract!CNext
    <3> QED BY <3>3, <3>7, <3>8
  <2>26. ASSUME NEW p \in Procs, SignalPost(p) PROVE [Abstract!CNext]_(Abstract!cvars)
    <3>1. /\ Enlisted' = Enlisted /\ Unposted' = Unposted /\ Woken' = Woken
          /\ block_queue' = block_queue
          /\ Holders' = Holders
      BY <2>26 DEF SignalPost, Enlisted, Unposted, Woken, At, Holders,
            HoldsLock, LockMutex
    <3> QED BY <3>1 DEF Abstract!cvars, Pending
  <2>27. ASSUME NEW p \in Procs, SignalQueue(p) PROVE [Abstract!CNext]_(Abstract!cvars)
    <3>1. /\ Enlisted' = Enlisted /\ Woken' = Woken
          /\ Dequeued' = Dequeued /\ waiters_to_unblock' = waiters_to_unblock
          /\ Holders' = Holders
      BY <2>27 DEF SignalQueue, Enlisted, Dequeued, Woken, At, Holders,
            HoldsLock, LockMutex
    <3>3. Pending' = Pending
      BY <3>1, <2>fin DEF CountInv, CountersAgree, Pending
    <3> QED BY <3>1, <3>3 DEF Abstract!cvars
  <2>28. ASSUME NEW p \in Procs, SignalReturn(p) PROVE [Abstract!CNext]_(Abstract!cvars)
    <3>1. /\ Enlisted' = Enlisted /\ Unposted' = Unposted /\ Woken' = Woken
          /\ block_queue' = block_queue
          /\ Holders' = Holders
      BY <2>28 DEF SignalReturn, Enlisted, Unposted, Woken, At, Holders,
            HoldsLock, LockMutex
    <3> QED BY <3>1 DEF Abstract!cvars, Pending
  <2>29. ASSUME NEW p \in Procs, WaitGateEintr(p) PROVE [Abstract!CNext]_(Abstract!cvars)
    <3>1. /\ Enlisted' = Enlisted /\ Unposted' = Unposted /\ Woken' = Woken
          /\ block_queue' = block_queue
          /\ Holders' = Holders
      BY <2>29 DEF WaitGateEintr, Enlisted, Unposted, Woken, At, Holders,
            HoldsLock, LockMutex
    <3> QED BY <3>1 DEF Abstract!cvars, Pending
  <2>30. ASSUME NEW p \in Procs, WaitQueueEintr(p) PROVE [Abstract!CNext]_(Abstract!cvars)
    BY <2>30 DEF WaitQueueEintr
  <2>31. ASSUME NEW p \in Procs, SignalUnblockEintr(p) PROVE [Abstract!CNext]_(Abstract!cvars)
    <3>1. /\ Enlisted' = Enlisted /\ Unposted' = Unposted /\ Woken' = Woken
          /\ block_queue' = block_queue
          /\ Holders' = Holders
      BY <2>31 DEF SignalUnblockEintr, Enlisted, Unposted, Woken, At, Holders,
            HoldsLock, LockMutex
    <3> QED BY <3>1 DEF Abstract!cvars, Pending
  <2>32. ASSUME NEW p \in Procs, SignalGateEintr(p) PROVE [Abstract!CNext]_(Abstract!cvars)
    BY <2>32 DEF SignalGateEintr
  <2>33. ASSUME NEW p \in Procs, Crash(p) PROVE [Abstract!CNext]_(Abstract!cvars)
    BY <2>33 DEF Crash
  <2>34. CASE UNCHANGED vars
    BY <2>34 DEF vars, Abstract!cvars, Holders, HoldsLock, Pending, Enlisted,
          Unposted, Woken, At
  <2> QED BY <2>1, <2>2, <2>3, <2>4, <2>5, <2>6, <2>7, <2>8, <2>9, <2>10,
        <2>11, <2>12, <2>13, <2>14, <2>15, <2>16, <2>17, <2>18, <2>19, <2>20,
        <2>21, <2>22, <2>23, <2>24, <2>25, <2>26, <2>27, <2>28, <2>29, <2>30,
        <2>31, <2>32, <2>33, <2>34 DEF Next, ClientStep, WaitStep, SignalStep,
        EintrStep
<1>3. GateInv /\ LockExclusive => LockMutex
  BY DEF GateInv, LockExclusive
<1>4. Spec => []Inv
  BY <1>3, Types, Gate, Counters, CallerLock, PTL DEF Benign
<1> QED BY <1>1, <1>2, <1>4, PTL DEF Spec

=============================================================================
