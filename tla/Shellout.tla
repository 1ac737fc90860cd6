------------------------------- MODULE Shellout -------------------------------
(***************************************************************************)
(* shellout.c: a program run behind a pseudo terminal, of which sho_expect *)
(* and sho_loop read bytes until one of some patterns has come or an alarm *)
(* interrupts the wait.  The alarm's handler only returns: when it runs    *)
(* while the caller does not wait in the kernel, the alarm is lost.        *)
(***************************************************************************)
EXTENDS Integers, Sequences, SequencesExt, FiniteSets, FiniteSetsExt

CONSTANTS
  Pattern,    \* pv: a sequence of sequences of bytes, none of them empty
  BufLen,     \* dn: the size of the buffer, at least that of every pattern
  Byte,
  Output,     \* bound: how many bytes the program writes
  Typed,      \* bound: how many times the user types while sho_loop waits
  MaxTyped    \* bound: how many bytes the user types at a time

ASSUME ShoAssumption == /\ BufLen \in Nat \ {0} /\ MaxTyped \in Nat
                        /\ Pattern \in Seq(Seq(Byte))

VARIABLES
  pc,         \* closed, idle, before (a read or select), blocked, both (the
              \* terminal can be read after stdin), scan, wait
  fn,         \* open, expect or loop
  timed,      \* timeout # 0
  timer,      \* an alarm is set
  lost,       \* the alarm of this call was lost
  tty, alive, \* the bytes the program wrote and nobody read; it runs
  stdin,
  sent, typed,
  buf, di,
  seen,       \* history: the bytes this call has read from the terminal
  low,        \* history: how many bytes before di are no longer the terminal's
  blind,      \* history: low when each byte of seen had been read
  sres,       \* what the last call returned
  status      \* of sho_close: exit, or junk where waitpid was interrupted

shoVars == <<pc, fn, timed, timer, lost, tty, alive, stdin, sent, typed, buf, di, low, seen, blind, sres, status>>
child == <<tty, alive, stdin, sent, typed>>
search == <<buf, di, low, seen, blind>>

Error == -1
Eof == 0
Blank == [i \in 0 .. BufLen - 1 |-> "junk"]

Init == /\ pc = "closed" /\ fn = "open" /\ timed = FALSE /\ timer = FALSE /\ lost = FALSE
        /\ tty = <<>> /\ alive = FALSE /\ stdin = FALSE /\ sent = 0 /\ typed = 0
        /\ buf = Blank /\ di = 0 /\ low = 0 /\ seen = <<>> /\ blind = <<>> /\ sres = Eof /\ status = "none"

\* mutant: the alarm is not set
Begin_Unarmed(f, t) == /\ fn' = f /\ timed' = t /\ timer' = FALSE /\ pc' = "before" /\ lost' = FALSE
                       /\ buf' = Blank /\ di' = 0 /\ low' = 0 /\ seen' = <<>> /\ blind' = <<>>
                       /\ status' = "none" /\ UNCHANGED sres
Begin(f, t) == /\ fn' = f /\ timed' = t /\ timer' = t /\ pc' = "before" /\ lost' = FALSE
               /\ buf' = Blank /\ di' = 0 /\ low' = 0 /\ seen' = <<>> /\ blind' = <<>>
               /\ status' = "none" /\ UNCHANGED sres

(* sho_open forks the program and expects its prompt for 10 seconds *)
Open == /\ pc = "closed" /\ Begin("open", TRUE)
        /\ tty' = <<>> /\ alive' = TRUE /\ sent' = 0 /\ typed' = 0 /\ stdin' = FALSE
CallExpect(t) == pc = "idle" /\ Begin("expect", t) /\ UNCHANGED child
CallLoop(t) == pc = "idle" /\ Begin("loop", t) /\ UNCHANGED child

(* read, or select, is entered *)
Enter == /\ pc = "before" /\ pc' = "blocked"
         /\ UNCHANGED <<fn, timed, timer, lost, search, child, sres, status>>

(* a call returns r; sho_open closes nothing and waits for nobody if it    *)
(* fails                                                                   *)
Leave(r, alarmed) ==
  /\ sres' = r /\ timer' = alarmed
  /\ pc' = IF fn = "open" /\ r < 1 THEN "closed" ELSE "idle"
  /\ UNCHANGED <<fn, timed, lost, search, status>>
Return(r, alarmed) == Leave(r, alarmed) /\ UNCHANGED child

(* sho_loop leaves its alarm set but where a pattern matched *)
\* mutant: sho_expect does not clear its alarm either
Alarmed_Both == timer
Alarmed == fn = "loop" /\ timer

(* A byte of the terminal; sho_loop writes it to the user first, and gives *)
(* up where it cannot.                                                     *)
ReadByte == /\ pc \in {"blocked", "both"} /\ tty # <<>>
            /\ tty' = Tail(tty) /\ UNCHANGED <<alive, stdin, sent, typed>>
            /\ \/ /\ buf' = [buf EXCEPT ![di] = Head(tty)] /\ di' = (di + 1) % BufLen
                  /\ low' = (IF di' = 0 THEN 0 ELSE low)
                  /\ seen' = Append(seen, Head(tty)) /\ blind' = Append(blind, low')
                  /\ pc' = "scan"
                  /\ UNCHANGED <<fn, timed, timer, lost, sres, status>>
               \/ fn = "loop" /\ Leave(Error, Alarmed)
(* the program is gone: end of file or, on Linux, EIO *)
ReadEnd == /\ pc \in {"blocked", "both"} /\ tty = <<>> /\ ~alive
           /\ \E r \in {Eof, Error} : Return(r, Alarmed)
(* sho_loop reads what the user typed, or the end of it, into the start of *)
(* the same buffer and writes it to the program.  If the terminal could be *)
(* read too, it does that next; else the alarm is set anew.                *)
TypedOver(w) == [i \in DOMAIN buf |-> IF i < Len(w) THEN w[i + 1] ELSE buf[i]]
ReadStdin ==
  /\ pc = "blocked" /\ fn = "loop" /\ stdin
  /\ \/ /\ \E w \in BoundedSeq(Byte, MaxTyped) \ {<<>>} :
             /\ buf' = TypedOver(w)
             /\ low' = (IF low < Min({Len(w), di}) THEN Min({Len(w), di}) ELSE low)
        /\ stdin' = FALSE
        /\ IF tty # <<>> \/ ~alive
           THEN pc' = "both" /\ UNCHANGED <<timer, lost>>
           ELSE pc' = "before" /\ timer' = timed /\ lost' = FALSE
        /\ UNCHANGED <<fn, timed, di, seen, blind, tty, alive, sent, typed, sres, status>>
     \/ \E r \in {Eof, Error} : Return(r, Alarmed)

(* line 119-129: the first pattern that the bytes before di spell *)
Reaches(p) == di >= Len(p)
\* mutant: the comparison starts at the second byte
Spells_Second(p) == Reaches(p) /\ \A i \in 2 .. Len(p) : p[i] = buf[(di - Len(p) + i - 1 + BufLen) % BufLen]
Spells(p) == Reaches(p) /\ \A i \in 1 .. Len(p) : p[i] = buf[(di - Len(p) + i - 1 + BufLen) % BufLen]
Matches == {j \in 1 .. Len(Pattern) : Spells(Pattern[j])}
\* mutant: sho_loop leaves its alarm set where a pattern matched, too
Match_Armed == /\ pc = "scan" /\ Matches # {}
               /\ Return(Min(Matches), Alarmed)
Match == /\ pc = "scan" /\ Matches # {}
         /\ Return(Min(Matches), FALSE)
NoMatch == /\ pc = "scan" /\ Matches = {}
           /\ pc' = "before"
           /\ timer' = (IF fn = "loop" THEN timed ELSE timer) /\ lost' = (IF fn = "loop" THEN FALSE ELSE lost)
           /\ UNCHANGED <<fn, timed, search, child, sres, status>>

(* SIGALRM: an alarm ends a wait that nothing else ends *)
Waiting == pc = "blocked" /\ tty = <<>> /\ alive /\ ~(fn = "loop" /\ stdin)
Alarm == /\ timer
         /\ \/ Waiting /\ Return(Error, FALSE)
            \/ /\ pc = "wait" /\ alive
               /\ timer' = FALSE /\ pc' = "closed" /\ status' = "junk"
               /\ UNCHANGED <<fn, timed, lost, search, child, sres>>
            \/ /\ ~Waiting /\ ~(pc = "wait" /\ alive)
               /\ timer' = FALSE /\ lost' = TRUE
               /\ UNCHANGED <<pc, fn, timed, search, child, sres, status>>

(* sho_close: the terminal stays open, and a program that waits for it is  *)
(* waited for; status is not initialized                                   *)
Close == /\ pc = "idle" /\ pc' = "wait" /\ status' = "none"
         /\ UNCHANGED <<fn, timed, timer, lost, search, child, sres>>
Reap == /\ pc = "wait" /\ ~alive /\ pc' = "closed" /\ status' = "exit"
        /\ UNCHANGED <<fn, timed, timer, lost, search, child, sres>>

(* the program and the user *)
Write == /\ alive /\ sent < Output
         /\ \E b \in Byte : tty' = Append(tty, b)
         /\ sent' = sent + 1
         /\ UNCHANGED <<alive, stdin, typed, pc, fn, timed, timer, lost, search, sres, status>>
Exit == /\ alive /\ alive' = FALSE
        /\ UNCHANGED <<tty, stdin, sent, typed, pc, fn, timed, timer, lost, search, sres, status>>
Type == /\ ~stdin /\ typed < Typed /\ pc # "closed"
        /\ stdin' = TRUE /\ typed' = typed + 1
        /\ UNCHANGED <<tty, alive, sent, pc, fn, timed, timer, lost, search, sres, status>>

CallerStep == Enter \/ ReadByte \/ ReadEnd \/ ReadStdin \/ Match \/ NoMatch \/ Reap
Next == \/ Open \/ Close
        \/ \E t \in BOOLEAN : CallExpect(t) \/ CallLoop(t)
        \/ CallerStep \/ Alarm \/ Write \/ Exit \/ Type

(* The caller runs, and an alarm that is set goes off; the program and the *)
(* user do as they like.                                                   *)
ShoSpec == Init /\ [][Next]_shoVars /\ WF_shoVars(CallerStep) /\ WF_shoVars(Alarm)

Ends(k, p) == k >= Len(p) /\ SubSeq(seen, k - Len(p) + 1, k) = p
(* A match is one, the first of its patterns and at the first place any    *)
(* has come, except where sho_loop and sho_expect cannot see it: across    *)
(* the end of the buffer, or where what the user typed has gone over it.   *)
MatchesFirst ==
  LET unseen(k, p) == k % BufLen < Len(p) + blind[k]
  IN /\ \A k \in 1 .. Len(seen) - 1, j \in 1 .. Len(Pattern) :
          Ends(k, Pattern[j]) => unseen(k, Pattern[j])
     /\ pc \in {"idle", "wait"} /\ sres > 0 =>
          LET k == Len(seen)
          IN /\ Ends(k, Pattern[sres]) \/ unseen(k, Pattern[sres])
             /\ \A j \in 1 .. sres - 1 : Ends(k, Pattern[j]) => unseen(k, Pattern[j])

(* Outside a call an alarm is set, and interrupts sho_close, only where    *)
(* the last call was of sho_loop and returned without a match: sho_expect  *)
(* clears its alarm however it ends, sho_loop where a pattern matched.     *)
Unmatched == fn = "loop" /\ sres < 1
AlarmsOwned == /\ timer /\ pc \in {"closed", "idle", "wait"} => Unmatched
               /\ status = "junk" => Unmatched

(* A call with a timeout returns unless its alarm was lost. *)
ReturnsUnlessLost == (pc \in {"before", "blocked", "both", "scan"} /\ timed) ~> (pc \in {"idle", "closed"} \/ lost)
=============================================================================
