------------------------------ MODULE CondVar ------------------------------
(***************************************************************************)
(* What a condition variable promises its callers, without saying how.     *)
(*                                                                         *)
(* A caller that holds the lock enlists itself as a waiter, gives the lock *)
(* up, sleeps until a wakeup is granted to it and takes the lock back.  A  *)
(* signal grants one wakeup to the processes enlisted at that moment, a    *)
(* broadcast one to each of them, and nobody who enlists later may take a  *)
(* wakeup granted before: Enlist is not possible while one is pending.     *)
(***************************************************************************)
EXTENDS Naturals, FiniteSets

CONSTANTS Procs,    \* the processes and threads that share the lock
          Nobody    \* the owner of a free lock, and not a process

VARIABLES owner,    \* who holds the caller's lock
          waiting,  \* enlisted and not woken yet
          pending,  \* wakeups granted and not taken yet
          woken     \* woken, and not yet holding the lock again

cvars == <<owner, waiting, pending, woken>>

CTypeOK == /\ owner \in Procs \cup {Nobody}
           /\ waiting \subseteq Procs
           /\ woken \subseteq Procs
           /\ pending \in 0 .. Cardinality(waiting)

CInit == owner = Nobody /\ waiting = {} /\ pending = 0 /\ woken = {}

Lock(p) == /\ owner = Nobody
           /\ p \notin waiting \cup woken
           /\ owner' = p
           /\ UNCHANGED <<waiting, pending, woken>>

Unlock(p) == /\ owner = p
             /\ p \notin waiting
             /\ owner' = Nobody
             /\ UNCHANGED <<waiting, pending, woken>>

Enlist(p) == /\ owner = p
             /\ p \notin waiting
             /\ pending = 0
             /\ waiting' = waiting \cup {p}
             /\ UNCHANGED <<owner, pending, woken>>

Sleep(p) == /\ owner = p
            /\ p \in waiting
            /\ owner' = Nobody
            /\ UNCHANGED <<waiting, pending, woken>>

Signal == /\ pending < Cardinality(waiting)
          /\ pending' = pending + 1
          /\ UNCHANGED <<owner, waiting, woken>>

Broadcast == /\ pending < Cardinality(waiting)
             /\ pending' = Cardinality(waiting)
             /\ UNCHANGED <<owner, waiting, woken>>

Wake(p) == /\ p \in waiting
           /\ owner # p
           /\ pending > 0
           /\ pending' = pending - 1
           /\ waiting' = waiting \ {p}
           /\ woken' = woken \cup {p}
           /\ UNCHANGED owner

Relock(p) == /\ p \in woken
             /\ owner = Nobody
             /\ owner' = p
             /\ woken' = woken \ {p}
             /\ UNCHANGED <<waiting, pending>>

CNext == \/ Signal \/ Broadcast
         \/ \E p \in Procs : \/ Lock(p) \/ Unlock(p) \/ Enlist(p)
                             \/ Sleep(p) \/ Wake(p) \/ Relock(p)

(* A wakeup that stays pending reaches the waiter, and a woken waiter gets *)
(* the lock back if the lock is free again and again.                      *)
CFairness == \A p \in Procs : WF_cvars(Wake(p)) /\ SF_cvars(Relock(p))

CSpec == CInit /\ [][CNext]_cvars /\ CFairness
=============================================================================
