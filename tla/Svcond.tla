------------------------------- MODULE Svcond -------------------------------
(***************************************************************************)
(* svcond.c: a condition variable made of three System V semaphores and    *)
(* two counters, shared by processes, each of which runs svcond_wait,      *)
(* svcond_signal or svcond_broadcast.  One action per semaphore operation, *)
(* and one per load or store of waiters_blocked, which line 108 changes    *)
(* without holding blocked_lock.                                           *)
(*                                                                         *)
(* pc labels: w_... is inside svcond_wait, s_... inside _svcond_signal,    *)
(* "idle" outside without the caller's lock, "locked" outside with it.     *)
(***************************************************************************)
EXTENDS Integers, FiniteSets

CONSTANTS
  Procs,        \* the processes and threads that share the condition variable
  Waiters,      \* those that call svcond_wait
  Signallers,   \* those that call svcond_signal and svcond_broadcast
  EintrSites,   \* the semops a signal handler may interrupt (EINTR)
  MaxEintr,     \* bound: interrupted semops in a behaviour
  MaxCrash,     \* bound: processes killed in a behaviour
  SemMax,       \* bound: largest value of a semaphore (SEMVMX)
  MaxDrift,     \* bound: how far below 0 waiters_blocked is when a signal starts
  Garbage       \* what the memory given to svcond_create may hold in a counter

Nobody == "nobody"   \* holds the caller's lock when it is free

Sites == {"wait_gate", "wait_queue", "signal_unblock", "signal_gate"}

ASSUME SvcondAssumption ==
  /\ IsFiniteSet(Procs) /\ Nobody \notin Procs
  /\ Waiters \subseteq Procs /\ Signallers \subseteq Procs
  /\ EintrSites \subseteq Sites
  /\ MaxEintr \in Nat /\ MaxCrash \in Nat /\ SemMax \in Nat \ {0} /\ MaxDrift \in Nat
  /\ Garbage \subseteq Int

VARIABLES
  lock,               \* value of the caller's semaphore
  blocked_lock,       \* value of the gate that closes svcond_wait to newcomers
  unblock_lock,       \* value of the mutex over waiters_to_unblock
  block_queue,        \* value of the semaphore the waiters sleep on
  waiters_blocked,    \* waiters no signal has been issued for
  waiters_to_unblock, \* waiters signalled that have not passed line 123
  pc,                 \* where each process is
  reg,                \* the value of waiters_blocked a process has loaded
  signals,            \* local signals_left or signals_to_issue
  broadcast,          \* argument of _svcond_signal
  back,               \* where a signaller returns to
  kept,               \* processes line 166 made return with unblock_lock
  eintrs, crashes     \* interrupts and crashes so far

sems  == <<lock, blocked_lock, unblock_lock, block_queue>>
cond  == <<waiters_blocked, waiters_to_unblock>>
local == <<reg, signals, broadcast, back>>
env   == <<kept, eintrs, crashes>>
vars  == <<sems, cond, pc, local, env>>

WaitPC == {"w_gate", "w_inc", "w_inc_store", "w_open", "w_unlock", "w_queue",
           "w_unblock", "w_left", "w_post", "w_reopen", "w_relock",
           "w_dec", "w_dec_store", "w_relock_eintr"}
SignalPC == {"s_unblock", "s_check", "s_gate", "s_move", "s_move_store",
             "s_noop", "s_post", "s_queue"}

(* line 116-125 and line 145-184: between wait and post of unblock_lock *)
Inside(p) == pc[p] \in {"w_left", "w_post", "s_check", "s_gate",
                        "s_move", "s_move_store", "s_noop", "s_post"}

HoldsUnblock(p) == Inside(p) \/ p \in kept

(* who holds the caller's lock *)
HoldsLock(p) == \/ pc[p] \in {"locked", "w_gate", "w_inc", "w_inc_store",
                              "w_open", "w_unlock"}
                \/ pc[p] \in SignalPC /\ back[p] = "locked"

(* svcond_create, line 55-93.  The memset of line 66 has its last two      *)
(* arguments swapped and clears nothing: the counters keep what the memory *)
(* held.                                                                   *)
Init ==
  /\ lock = 1 /\ blocked_lock = 1 /\ unblock_lock = 1 /\ block_queue = 0
  /\ waiters_blocked \in Garbage /\ waiters_to_unblock = 0
  /\ pc = [p \in Procs |-> "idle"]
  /\ reg = [p \in Procs |-> 0]
  /\ signals = [p \in Procs |-> 0]
  /\ broadcast = [p \in Procs |-> FALSE]
  /\ back = [p \in Procs |-> "idle"]
  /\ kept = {} /\ eintrs = 0 /\ crashes = 0

Goto(p, from, to) == pc[p] = from /\ pc' = [pc EXCEPT ![p] = to]

\* mutant: the semop does not sleep
SemWait_NoWait(sem) == sem' = sem - 1
SemWait(sem) == sem > 0 /\ sem' = sem - 1     \* svsem_wait that succeeds
SemPost(sem) == sem' = IF sem < SemMax THEN sem + 1 ELSE sem  \* ERANGE above

(* svsem_wait that fails with EINTR: only a semop that would sleep can be  *)
(* interrupted.                                                            *)
Interrupted(site, sem) ==
  /\ site \in EintrSites /\ sem = 0
  /\ eintrs < MaxEintr /\ eintrs' = eintrs + 1

----------------------------------------------------------------------------
(* The caller: svsem_wait and svsem_post on its lock, and the calls.       *)

ClientLock(p) == /\ Goto(p, "idle", "locked") /\ SemWait(lock)
                 /\ UNCHANGED <<blocked_lock, unblock_lock, block_queue,
                                cond, local, env>>

ClientUnlock(p) == /\ Goto(p, "locked", "idle") /\ SemPost(lock)
                   /\ UNCHANGED <<blocked_lock, unblock_lock, block_queue,
                                  cond, local, env>>

CallWait(p) == /\ p \in Waiters /\ Goto(p, "locked", "w_gate")
               /\ UNCHANGED <<sems, cond, local, env>>

CallSignal(p, all) ==
  /\ p \in Signallers /\ waiters_blocked >= -MaxDrift
  /\ \E from \in {"idle", "locked"} :
       /\ Goto(p, from, "s_unblock")
       /\ back' = [back EXCEPT ![p] = from]
       /\ broadcast' = [broadcast EXCEPT ![p] = all]
       /\ UNCHANGED <<sems, cond, reg, signals, env>>

----------------------------------------------------------------------------
(* svcond_wait *)

WaitGate(p) == /\ Goto(p, "w_gate", "w_inc") /\ SemWait(blocked_lock)
               /\ UNCHANGED <<lock, unblock_lock, block_queue, cond, local, env>>

(* line 99-101: the call fails and the caller still holds its lock *)
WaitGateEintr(p) == /\ Goto(p, "w_gate", "locked")
                    /\ Interrupted("wait_gate", blocked_lock)
                    /\ UNCHANGED <<sems, cond, local, kept, crashes>>

LoadBlocked(p) == /\ reg' = [reg EXCEPT ![p] = waiters_blocked]
                  /\ UNCHANGED <<sems, cond, signals, broadcast, back, env>>

WaitInc(p) == Goto(p, "w_inc", "w_inc_store") /\ LoadBlocked(p)

WaitIncStore(p) == /\ Goto(p, "w_inc_store", "w_open")
                   /\ waiters_blocked' = reg[p] + 1
                   /\ UNCHANGED <<sems, waiters_to_unblock, local, env>>

WaitOpen(p) == /\ Goto(p, "w_open", "w_unlock") /\ SemPost(blocked_lock)
               /\ UNCHANGED <<lock, unblock_lock, block_queue, cond, local, env>>

WaitUnlock(p) == /\ Goto(p, "w_unlock", "w_queue") /\ SemPost(lock)
                 /\ UNCHANGED <<blocked_lock, unblock_lock, block_queue,
                                cond, local, env>>

WaitQueue(p) == /\ Goto(p, "w_queue", "w_unblock") /\ SemWait(block_queue)
                /\ UNCHANGED <<lock, blocked_lock, unblock_lock, cond, local, env>>

WaitUnblock(p) == /\ Goto(p, "w_unblock", "w_left") /\ SemWait(unblock_lock)
                  /\ UNCHANGED <<lock, blocked_lock, block_queue, cond, local, env>>

WaitLeft(p) ==
  /\ Goto(p, "w_left", "w_post")
  /\ signals' = [signals EXCEPT ![p] = waiters_to_unblock]
  /\ waiters_to_unblock' = IF waiters_to_unblock # 0 THEN waiters_to_unblock - 1
                                                     ELSE waiters_to_unblock
  /\ UNCHANGED <<sems, waiters_blocked, reg, broadcast, back, env>>

WaitPost(p) == /\ Goto(p, "w_post", "w_reopen") /\ SemPost(unblock_lock)
               /\ UNCHANGED <<lock, blocked_lock, block_queue, cond, local, env>>

\* mutants: each of a batch opens the gate; none does
WaitReopen_Each(p) == /\ Goto(p, "w_reopen", "w_relock")
                      /\ IF signals[p] # 0 THEN SemPost(blocked_lock)
                                           ELSE UNCHANGED blocked_lock
                      /\ signals' = [signals EXCEPT ![p] = 0]
                      /\ UNCHANGED <<lock, unblock_lock, block_queue, cond,
                                     reg, broadcast, back, env>>
WaitReopen_Never(p) == /\ Goto(p, "w_reopen", "w_relock")
                       /\ signals' = [signals EXCEPT ![p] = 0]
                       /\ UNCHANGED <<sems, cond, reg, broadcast, back, env>>

(* line 127: the last of a batch opens the gate for newcomers *)
WaitReopen(p) == /\ Goto(p, "w_reopen", "w_relock")
                 /\ IF signals[p] = 1 THEN SemPost(blocked_lock)
                                      ELSE UNCHANGED blocked_lock
                 /\ signals' = [signals EXCEPT ![p] = 0]
                 /\ UNCHANGED <<lock, unblock_lock, block_queue, cond,
                                reg, broadcast, back, env>>

WaitRelock(p) == /\ Goto(p, "w_relock", "locked") /\ SemWait(lock)
                 /\ UNCHANGED <<blocked_lock, unblock_lock, block_queue,
                                cond, local, env>>

(* line 107-113: interrupted in its sleep, it takes itself off the count   *)
(* with no lock held, and takes the caller's lock back                     *)
WaitQueueEintr(p) == /\ Goto(p, "w_queue", "w_dec")
                     /\ Interrupted("wait_queue", block_queue)
                     /\ UNCHANGED <<sems, cond, local, kept, crashes>>

WaitDec(p) == Goto(p, "w_dec", "w_dec_store") /\ LoadBlocked(p)

WaitDecStore(p) == /\ Goto(p, "w_dec_store", "w_relock_eintr")
                   /\ waiters_blocked' = reg[p] - 1
                   /\ UNCHANGED <<sems, waiters_to_unblock, local, env>>

\* mutant: svcond_wait returns without the caller's lock
WaitRelockEintr_Unlocked(p) == /\ Goto(p, "w_relock_eintr", "locked")
                               /\ UNCHANGED <<sems, cond, local, env>>
WaitRelockEintr(p) == /\ Goto(p, "w_relock_eintr", "locked") /\ SemWait(lock)
                      /\ UNCHANGED <<blocked_lock, unblock_lock, block_queue,
                                     cond, local, env>>

----------------------------------------------------------------------------
(* _svcond_signal *)

SignalUnblock(p) == /\ Goto(p, "s_unblock", "s_check") /\ SemWait(unblock_lock)
                    /\ UNCHANGED <<lock, blocked_lock, block_queue, cond, local, env>>

SignalUnblockEintr(p) == /\ Goto(p, "s_unblock", back[p])
                         /\ Interrupted("signal_unblock", unblock_lock)
                         /\ UNCHANGED <<sems, cond, local, kept, crashes>>

\* mutant: a new batch is started without closing the gate
CheckTarget_OpenGate == IF waiters_blocked = 0 THEN "s_noop" ELSE "s_move"

(* line 149-182: nobody is waiting, a batch is being woken already, or the *)
(* gate must be closed first                                               *)
CheckTarget ==
  IF waiters_blocked = 0 THEN "s_noop"
  ELSE IF waiters_to_unblock # 0 THEN "s_move" ELSE "s_gate"

SignalCheck(p) == /\ Goto(p, "s_check", CheckTarget)
                  /\ UNCHANGED <<sems, cond, local, env>>

\* mutant: the early return keeps the mutex
SignalNoop_Keep(p) == /\ Goto(p, "s_noop", back[p]) /\ UNCHANGED <<sems, cond, local, env>>
SignalNoop(p) == /\ Goto(p, "s_noop", back[p]) /\ SemPost(unblock_lock)
                 /\ UNCHANGED <<lock, blocked_lock, block_queue, cond, local, env>>

SignalGate(p) == /\ Goto(p, "s_gate", "s_move") /\ SemWait(blocked_lock)
                 /\ UNCHANGED <<lock, unblock_lock, block_queue, cond, local, env>>

(* line 166-168: the call fails and keeps unblock_lock *)
SignalGateEintr(p) == /\ Goto(p, "s_gate", back[p])
                      /\ Interrupted("signal_gate", blocked_lock)
                      /\ kept' = kept \cup {p}
                      /\ UNCHANGED <<sems, cond, local, crashes>>

SignalMove(p) == Goto(p, "s_move", "s_move_store") /\ LoadBlocked(p)

\* mutants: the wakeups of a second signal replace those of the first; a
\* broadcast moves all the waiters and wakes one
SignalMoveStore_Replace(p) ==
  LET n == IF broadcast[p] THEN reg[p] ELSE 1
  IN /\ Goto(p, "s_move_store", "s_post")
     /\ signals' = [signals EXCEPT ![p] = n]
     /\ waiters_to_unblock' = n
     /\ waiters_blocked' = reg[p] - n
     /\ UNCHANGED <<sems, reg, broadcast, back, env>>
SignalMoveStore_One(p) ==
  LET n == IF broadcast[p] THEN reg[p] ELSE 1
  IN /\ Goto(p, "s_move_store", "s_post")
     /\ signals' = [signals EXCEPT ![p] = 1]
     /\ waiters_to_unblock' = waiters_to_unblock + n
     /\ waiters_blocked' = reg[p] - n
     /\ UNCHANGED <<sems, reg, broadcast, back, env>>

(* line 157-163 and 170-176.  With the gate just closed waiters_to_unblock *)
(* is 0, so the assignments of line 171 and 174 add as well.               *)
SignalMoveStore(p) ==
  LET n == IF broadcast[p] THEN reg[p] ELSE 1
  IN /\ Goto(p, "s_move_store", "s_post")
     /\ signals' = [signals EXCEPT ![p] = n]
     /\ waiters_to_unblock' = waiters_to_unblock + n
     /\ waiters_blocked' = reg[p] - n
     /\ UNCHANGED <<sems, reg, broadcast, back, env>>

SignalPost(p) == /\ Goto(p, "s_post", "s_queue") /\ SemPost(unblock_lock)
                 /\ UNCHANGED <<lock, blocked_lock, block_queue, cond, local, env>>

(* svsem_post_multiple, one semop at a time.  A negative count makes       *)
(* "while (count--)" run for 2^32 posts: here it does not end.             *)
SignalQueue(p) == /\ pc[p] = "s_queue" /\ signals[p] # 0
                  /\ SemPost(block_queue)
                  /\ signals' = [signals EXCEPT ![p] = IF @ > 0 THEN @ - 1 ELSE @]
                  /\ UNCHANGED <<lock, blocked_lock, unblock_lock, cond, pc,
                                 reg, broadcast, back, env>>

SignalReturn(p) == /\ Goto(p, "s_queue", back[p]) /\ signals[p] = 0
                   /\ UNCHANGED <<sems, cond, local, env>>

----------------------------------------------------------------------------
\* mutant: unblock_lock is used without SEM_UNDO
Crash_NoUndo(p) == /\ crashes < MaxCrash /\ crashes' = crashes + 1
                   /\ pc[p] # "dead" /\ pc' = [pc EXCEPT ![p] = "dead"]
                   /\ UNCHANGED <<sems, cond, local, kept, eintrs>>

(* A process is killed.  The kernel undoes its semops on unblock_lock, the *)
(* only semaphore with SEM_UNDO (line 84), and nothing else.               *)
Crash(p) == /\ crashes < MaxCrash /\ crashes' = crashes + 1
            /\ pc[p] # "dead" /\ pc' = [pc EXCEPT ![p] = "dead"]
            /\ IF HoldsUnblock(p) THEN SemPost(unblock_lock)
                                  ELSE UNCHANGED unblock_lock
            /\ kept' = kept \ {p}
            /\ UNCHANGED <<lock, blocked_lock, block_queue, cond, local, eintrs>>

ClientStep(p) == \/ ClientLock(p) \/ ClientUnlock(p) \/ CallWait(p)
                 \/ CallSignal(p, FALSE) \/ CallSignal(p, TRUE)

WaitStep(p) ==
  \/ WaitGate(p) \/ WaitInc(p) \/ WaitIncStore(p) \/ WaitOpen(p)
  \/ WaitUnlock(p) \/ WaitQueue(p) \/ WaitUnblock(p) \/ WaitLeft(p)
  \/ WaitPost(p) \/ WaitReopen(p) \/ WaitRelock(p)
  \/ WaitDec(p) \/ WaitDecStore(p) \/ WaitRelockEintr(p)

SignalStep(p) ==
  \/ SignalUnblock(p) \/ SignalCheck(p) \/ SignalNoop(p) \/ SignalGate(p)
  \/ SignalMove(p) \/ SignalMoveStore(p) \/ SignalPost(p)
  \/ SignalQueue(p) \/ SignalReturn(p)

EintrStep(p) == \/ WaitGateEintr(p) \/ WaitQueueEintr(p)
                \/ SignalUnblockEintr(p) \/ SignalGateEintr(p)

Next == \E p \in Procs :
          ClientStep(p) \/ WaitStep(p) \/ SignalStep(p) \/ EintrStep(p) \/ Crash(p)

Spec == Init /\ [][Next]_vars

(* A process whose next step in the library is possible again and again    *)
(* takes it: the kernel serves the sleepers of a semaphore in turn.  A     *)
(* caller that holds its lock gives it up or waits in the end.             *)
Fairness ==
  \A p \in Procs : /\ SF_vars(WaitStep(p) \/ SignalStep(p))
                   /\ SF_vars(ClientUnlock(p) \/ CallWait(p))

FairSpec == Spec /\ Fairness

----------------------------------------------------------------------------
(* Properties *)

At(labels) == {p \in Procs : pc[p] \in labels}

Enlisted == At({"w_open", "w_unlock", "w_queue"})  \* counted, not yet woken
Dequeued == At({"w_unblock", "w_left"})            \* took a post of block_queue
Counted  == Enlisted \cup Dequeued

(* The posts svsem_post_multiple still has to make, as a set of pairs.     *)
Unposted == UNION {{p} \X (1 .. signals[p]) : p \in At({"s_post", "s_queue"})}

(* The process that closed the gate: a waiter changing waiters_blocked, a  *)
(* signaller that found no batch, or the waiter that must reopen it.       *)
HoldsGate(p) == \/ pc[p] \in {"w_inc", "w_inc_store", "w_open"}
                \/ pc[p] \in {"s_move", "s_move_store"} /\ waiters_to_unblock = 0
                \/ pc[p] \in {"w_post", "w_reopen"} /\ signals[p] = 1

(* Every variable has its type. *)
TypeOK ==
  /\ lock \in Nat /\ blocked_lock \in Nat
  /\ unblock_lock \in Nat /\ block_queue \in Nat
  /\ waiters_blocked \in Int /\ waiters_to_unblock \in Int
  /\ pc \in [Procs -> {"idle", "locked", "dead"} \cup WaitPC \cup SignalPC]
  /\ reg \in [Procs -> Int] /\ signals \in [Procs -> Int]
  /\ broadcast \in [Procs -> BOOLEAN]
  /\ back \in [Procs -> {"idle", "locked"}]
  /\ kept \subseteq Procs /\ eintrs \in Nat /\ crashes \in Nat

(* unblock_lock is a mutex and is never lost: it is free exactly when no   *)
(* process is between lines 116 and 125 or 145 and 184, nor has left them  *)
(* in line 168, and at most one has.  SEM_UNDO (line 84) keeps this true   *)
(* when its holder is killed.                                              *)
UnblockExclusive ==
  /\ unblock_lock = IF \E p \in Procs : HoldsUnblock(p) THEN 0 ELSE 1
  /\ \A p, q \in Procs : HoldsUnblock(p) /\ HoldsUnblock(q) => p = q
  /\ \A p \in kept : ~Inside(p)

(* The gate lets one thing through at a time: it is open, or one process   *)
(* holds it, or a batch of waiters is being woken (lines 99, 128, 166).    *)
(* So waiters_blocked is never changed by two processes at once, and no    *)
(* process is counted in while wakeups of an earlier batch are under way.  *)
GateExclusive ==
  /\ blocked_lock \in {0, 1}
  /\ blocked_lock = 0 <=> \/ waiters_to_unblock > 0
                          \/ \E p \in Procs : HoldsGate(p)
  /\ \A p \in Procs : HoldsGate(p) =>
       waiters_to_unblock = 0 /\ \A q \in Procs : HoldsGate(q) => p = q

(* No update of waiters_blocked is lost, and none acts on a stale value:   *)
(* what a process loaded is still there when it stores, and the waiter a   *)
(* signaller saw in line 150 or 165 is still counted when it moves it,     *)
(* though line 165 reads the counter before the gate is closed.            *)
LoadsFresh ==
  \A p \in Procs :
    /\ pc[p] \in {"w_inc_store", "s_move_store"} => reg[p] = waiters_blocked
    /\ pc[p] \in {"s_gate", "s_move", "s_move_store"} => waiters_blocked > 0

(* No wakeup is lost or invented: each waiter that is counted in and has   *)
(* not passed line 123 is in waiters_blocked or waiters_to_unblock, and    *)
(* each wakeup in waiters_to_unblock is a post of block_queue made, still  *)
(* to be made, or taken.                                                   *)
CountersAgree ==
  /\ waiters_blocked >= 0
  /\ Cardinality(Counted) = waiters_blocked + waiters_to_unblock
  /\ block_queue + Cardinality(Unposted) + Cardinality(Dequeued)
       = waiters_to_unblock

LockMutex ==
  /\ lock = IF \E p \in Procs : HoldsLock(p) THEN 0 ELSE 1
  /\ \A p, q \in Procs : HoldsLock(p) /\ HoldsLock(q) => p = q

(* svcond_wait gives the caller's lock up once and takes it back once      *)
(* whatever interrupts it: nobody else holds the lock when it returns.     *)
(* (The lock of a process that is killed is lost: it has no SEM_UNDO.)     *)
LockExclusive == crashes = 0 => LockMutex

(* svcond_wait unlocks the caller's lock and sleeps: it does not hang in   *)
(* line 99 with the lock held.                                             *)
WaitReleasesLock ==
  \A p \in Procs : pc[p] = "w_gate" ~> pc[p] # "w_gate"

(* svcond_broadcast wakes all: every process asleep when a broadcast has   *)
(* moved the waiters (line 159, 172) returns from svcond_wait.             *)
BroadcastWakesAll ==
  \A p, s \in Procs :
    pc[s] = "s_post" /\ broadcast[s] /\ pc[p] = "w_queue" ~> pc[p] = "locked"

(* svcond_signal and svcond_broadcast return. *)
SignalReturns ==
  \A p \in Procs : pc[p] = "s_unblock" ~> pc[p] \in {"idle", "locked"}

(* svcond.c implements a condition variable: a wakeup is granted when line *)
(* 157-163 or 170-176 moves a waiter, and taken when line 107 returns.     *)
Holders == {p \in Procs : HoldsLock(p)}
OwnerOf(S) == IF S = {} THEN Nobody ELSE CHOOSE p \in S : TRUE
Pending == block_queue + Cardinality(Unposted)
Woken   == At({"w_unblock", "w_left", "w_post", "w_reopen", "w_relock"})

Abstract == INSTANCE CondVar WITH
  owner <- OwnerOf(Holders), waiting <- Enlisted, pending <- Pending, woken <- Woken

ImplementsCondVar == Abstract!CSpec
=============================================================================
