----------------------------- MODULE SvsemOpen -----------------------------
(***************************************************************************)
(* svsem.c: processes that open, use, close and remove the semaphore of    *)
(* one path.  The kernel does not create and initialize a semaphore set in *)
(* one step, so semid_get makes an opener wait for the first semop on the  *)
(* set, which the creator issues last and which sets sem_otime.  One       *)
(* action per system call.                                                 *)
(***************************************************************************)
EXTENDS Integers, Sequences

CONSTANTS
  Procs,      \* the processes
  Modes,      \* oflag: "attach" (0), "creat" (O_CREAT), "excl" (O_CREAT | O_EXCL)
  Value,      \* the initial value given to svsem_open
  MaxTries,   \* MAX_TRIES of semid_get
  MaxSets,    \* bound: semaphore sets created in a behaviour
  MaxPosts,   \* bound: value of a semaphore that is still posted
  MaxCrash    \* bound: processes killed in a behaviour

ASSUME SvsemOpenAssumption ==
  /\ Modes \subseteq {"attach", "creat", "excl"}
  /\ Value \in Nat /\ MaxTries \in Nat \ {0}
  /\ MaxSets \in Nat /\ MaxPosts \in Nat /\ MaxCrash \in Nat

VARIABLES
  file,       \* whether the file of the path exists
  current,    \* the set its key leads to, 0 if there is none
  sets,       \* the sets created so far: semval, whether sem_otime is set,
              \* and, for the properties: whether its creator has finished,
              \* whether it was used before that by a process that
              \* opened it without O_CREAT, posts less waits
  pc,         \* where each process is
  mode,       \* its oflag (kept with an open semaphore if it was "attach")
  semid,      \* the set it found or created, 0 if there is none
  max,        \* the tries it has left
  crashes     \* processes killed so far

kernel == <<file, current, sets>>
call   == <<mode, semid, max>>
vars   == <<kernel, pc, call, crashes>>

Opening == {"copen", "copen_excl", "ftok", "get", "poll", "create", "setval", "initop"}

Init == /\ file = FALSE /\ current = 0 /\ sets = <<>>
        /\ pc = [p \in Procs |-> "idle"]
        /\ mode = [p \in Procs |-> "none"]
        /\ semid = [p \in Procs |-> 0] /\ max = [p \in Procs |-> 0]
        /\ crashes = 0

Goto(p, from, to) == pc[p] = from /\ pc' = [pc EXCEPT ![p] = to]

(* svsem_open returns 0 or -1; the locals of the call are gone *)
Succeed(p, from) == /\ Goto(p, from, "open")
                    /\ mode' = [mode EXCEPT ![p] = "none"]
                    /\ max' = [max EXCEPT ![p] = 0]
                    /\ UNCHANGED semid
Forget(p)        == /\ mode' = [mode EXCEPT ![p] = "none"]
                    /\ semid' = [semid EXCEPT ![p] = 0]
                    /\ max' = [max EXCEPT ![p] = 0]
Return(p, from)  == Goto(p, from, "idle") /\ Forget(p)

Exists(s) == s # 0 /\ s = current

(* a semop that adds n to the value of p's set: a post, a wait, or the     *)
(* creator's, which makes the set ready                                    *)
Semop(p, n, made) ==
  /\ Exists(semid[p])
  /\ sets' = [sets EXCEPT ![semid[p]] =
                LET early == @.early \/ (~@.ready /\ mode[p] = "attach") IN
                [value |-> @.value + n, otime |-> TRUE,
                 ready |-> @.ready \/ made,
                 early |-> early,
                 net   |-> IF made \/ early THEN @.net ELSE @.net + n]]

SvsemOpen(p) ==
  \E m \in Modes :
    /\ Goto(p, "idle", IF m = "attach" THEN "ftok" ELSE "copen")
    /\ mode' = [mode EXCEPT ![p] = m]
    /\ UNCHANGED <<kernel, semid, max, crashes>>

(* copen: open what is there, or create it if nobody else does first.  No  *)
(* file is unlinked here, so at most the second of the three tries works.  *)
Copen(p) == /\ Goto(p, "copen", IF file THEN "ftok" ELSE "copen_excl")
            /\ UNCHANGED <<kernel, call, crashes>>

CopenExcl(p) == /\ Goto(p, "copen_excl", IF file THEN "copen" ELSE "ftok")
                /\ file' = TRUE
                /\ UNCHANGED <<current, sets, call, crashes>>

(* line 69-89 *)
Ftok(p) == /\ file /\ Goto(p, "ftok", IF mode[p] = "excl" THEN "create" ELSE "get")
           /\ max' = [max EXCEPT ![p] = MaxTries]
           /\ UNCHANGED <<kernel, mode, semid, crashes>>

(* line 74 and 91: semget of an existing set.  Only an opener with O_CREAT *)
(* goes on to look whether the set is initialized.                         *)
Attach(p) == /\ mode[p] = "attach" /\ current # 0
             /\ Goto(p, "get", "open")
             /\ semid' = [semid EXCEPT ![p] = current]
             /\ max' = [max EXCEPT ![p] = 0]
             /\ UNCHANGED <<kernel, mode, crashes>>

\* mutant: an opener with O_CREAT does not look either
Get_NoPoll(p) == /\ mode[p] # "attach" /\ current # 0
                 /\ Goto(p, "get", "open")
                 /\ semid' = [semid EXCEPT ![p] = current]
                 /\ mode' = [mode EXCEPT ![p] = "none"]
                 /\ max' = [max EXCEPT ![p] = 0]
                 /\ UNCHANGED <<kernel, crashes>>
Get(p) == /\ mode[p] # "attach" /\ current # 0
          /\ Goto(p, "get", "poll")
          /\ semid' = [semid EXCEPT ![p] = current]
          /\ max' = [max EXCEPT ![p] = MaxTries]
          /\ UNCHANGED <<kernel, mode, crashes>>

GetNone(p) == /\ mode[p] # "attach" /\ current = 0
              /\ Goto(p, "get", "create")
              /\ UNCHANGED <<kernel, call, crashes>>

(* line 100-109: IPC_STAT, once a second *)
PollReady(p) == /\ max[p] > 0 /\ Exists(semid[p]) /\ sets[semid[p]].otime
                /\ Succeed(p, "poll")
                /\ UNCHANGED <<kernel, crashes>>

\* mutant: the tries are not counted
PollAgain_Uncounted(p) == /\ Exists(semid[p]) /\ ~sets[semid[p]].otime /\ max[p] > 0
                          /\ Goto(p, "poll", "poll")
                          /\ UNCHANGED <<kernel, call, crashes>>
PollAgain(p) == /\ Exists(semid[p]) /\ ~sets[semid[p]].otime /\ max[p] > 0
                /\ Goto(p, "poll", "poll")
                /\ max' = [max EXCEPT ![p] = @ - 1]
                /\ UNCHANGED <<kernel, mode, semid, crashes>>

(* line 120: semget with IPC_CREAT | IPC_EXCL *)
Create(p) ==
  /\ current = 0 /\ current' = Len(sets) + 1
  /\ Goto(p, "create", "setval")
  /\ sets' = Append(sets, [value |-> 0, otime |-> FALSE, ready |-> FALSE,
                        early |-> FALSE, net |-> 0])
  /\ semid' = [semid EXCEPT ![p] = Len(sets) + 1]
  /\ UNCHANGED <<file, mode, max, crashes>>

(* line 164-168: somebody else was faster *)
CreateExists(p) ==
  /\ current # 0 /\ mode[p] # "excl" /\ max[p] > 1
  /\ Goto(p, "create", "get")
  /\ max' = [max EXCEPT ![p] = @ - 1]
  /\ UNCHANGED <<kernel, mode, semid, crashes>>

\* mutant: the value is cleared by a semop, which sets sem_otime
SetVal_Semop(p) == /\ Goto(p, "setval", "initop") /\ Semop(p, 0, FALSE)
                   /\ UNCHANGED <<file, current, call, crashes>>

(* line 147-152: SETVAL, which leaves sem_otime alone *)
SetVal(p) == /\ Goto(p, "setval", "initop") /\ Exists(semid[p])
             /\ sets' = [sets EXCEPT ![semid[p]].value = 0]
             /\ UNCHANGED <<file, current, call, crashes>>

(* line 155-163; to add 0 is to wait for 0 *)
InitOp(p) == /\ Semop(p, Value, TRUE) /\ (Value = 0 => sets[semid[p]].value = 0)
             /\ Succeed(p, "initop")
             /\ UNCHANGED <<file, current, crashes>>

(* -1: no file (line 71) or no set (76), a set removed since it was found  *)
(* (103, 151, 160), ETIME (111), EEXIST (166) or EACCES (170)              *)
OpenFails(p) ==
  /\ \/ ~file /\ Return(p, "ftok")
     \/ mode[p] = "attach" /\ current = 0 /\ Return(p, "get")
     \/ \E from \in {"poll", "setval", "initop"} :
          ~Exists(semid[p]) /\ Return(p, from)
     \/ Exists(semid[p]) /\ max[p] = 0 /\ Return(p, "poll")
     \/ current # 0 /\ (mode[p] = "excl" \/ max[p] = 1) /\ Return(p, "create")
  /\ UNCHANGED <<kernel, crashes>>

----------------------------------------------------------------------------
(* Operations on an open semaphore.  On one that was removed they fail and *)
(* change nothing.                                                         *)

Post(p) == /\ pc[p] = "open" /\ Semop(p, 1, FALSE)
           /\ sets[semid[p]].value < MaxPosts
           /\ UNCHANGED <<file, current, pc, call, crashes>>

\* mutant: it does not sleep
Wait_NoSleep(p) == /\ pc[p] = "open" /\ Semop(p, -1, FALSE)
                   /\ UNCHANGED <<file, current, pc, call, crashes>>
Wait(p) == /\ pc[p] = "open" /\ Semop(p, -1, FALSE)
           /\ sets[semid[p]].value > 0
           /\ UNCHANGED <<file, current, pc, call, crashes>>

Close(p) == Return(p, "open") /\ UNCHANGED <<kernel, crashes>>

Remove(p) == /\ Exists(semid[p]) /\ current' = 0
             /\ Len(sets) < MaxSets
             /\ sets' = [sets EXCEPT ![semid[p]] = [@ EXCEPT !.value = 0, !.net = 0]]
             /\ Return(p, "open")
             /\ UNCHANGED <<file, crashes>>

Crash(p) == /\ pc[p] # "dead" /\ pc' = [pc EXCEPT ![p] = "dead"]
            /\ Forget(p)
            /\ crashes < MaxCrash /\ crashes' = crashes + 1
            /\ UNCHANGED kernel

OpenStep(p) ==
  \/ Copen(p) \/ CopenExcl(p) \/ Ftok(p) \/ Attach(p) \/ Get(p) \/ GetNone(p)
  \/ PollReady(p) \/ PollAgain(p) \/ Create(p) \/ CreateExists(p)
  \/ SetVal(p) \/ InitOp(p) \/ OpenFails(p)

Next == \E p \in Procs :
          \/ SvsemOpen(p) \/ OpenStep(p)
          \/ Post(p) \/ Wait(p) \/ Close(p) \/ Remove(p) \/ Crash(p)

Spec == Init /\ [][Next]_vars

(* A call under way goes on: none of its system calls sleeps for good.     *)
FairSpec == Spec /\ \A p \in Procs : WF_vars(OpenStep(p))

----------------------------------------------------------------------------
(* Properties *)

SetType == [value : Nat, otime : BOOLEAN, ready : BOOLEAN, early : BOOLEAN, net : Int]

(* Every variable has its type. *)
TypeOK ==
  /\ file \in BOOLEAN /\ current \in 0 .. Len(sets)
  /\ sets \in Seq(SetType)
  /\ pc \in [Procs -> Opening \cup {"idle", "open", "dead"}]
  /\ mode \in [Procs -> Modes \cup {"none"}]
  /\ semid \in [Procs -> 0 .. Len(sets)]
  /\ max \in [Procs -> 0 .. MaxTries]
  /\ crashes \in Nat

(* A semaphore that svsem_open with O_CREAT returned is initialized,       *)
(* whoever created it and whatever happened to the creator: semid_get      *)
(* tells a set that exists from one that is ready by sem_otime (line 105). *)
(* A set used before its creator was done, which only a process that       *)
(* opened it without O_CREAT can do, is excepted.                          *)
OpenInitialized ==
  \A p \in Procs :
    pc[p] = "open" /\ mode[p] # "attach" =>
      sets[semid[p]].ready \/ sets[semid[p]].early

(* The same of every svsem_open, as the changelog has it.                  *)
AttachInitialized ==
  \A p \in Procs : pc[p] = "open" => sets[semid[p]].ready

(* No post and no wait is undone by the creator's SETVAL of line 148: the  *)
(* value of a set is its initial value, once given, plus the posts less    *)
(* the waits of all who opened it, with the same exception.                *)
NoPostLost ==
  current # 0 /\ ~sets[current].early =>
    sets[current].value =
      (IF sets[current].ready THEN Value ELSE 0) + sets[current].net

(* svsem_open returns: it does not wait for a creator that was killed, and *)
(* does not chase a set that is created and removed again and again.       *)
OpenReturns ==
  \A p \in Procs : pc[p] \in Opening ~> pc[p] \notin Opening
=============================================================================
