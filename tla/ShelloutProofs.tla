---------------------------- MODULE ShelloutProofs ----------------------------
(***************************************************************************)
(* Proofs about Shellout for any patterns, any size of the buffer and any  *)
(* number of bytes written and typed.                                      *)
(***************************************************************************)
EXTENDS Shellout, Lemmas, SequenceTheorems

InCall == {"before", "blocked", "both", "scan"}

(* Who set the alarm is settled by where the caller is: outside a call it  *)
(* is the alarm of a sho_loop that matched nothing, and no status is junk  *)
(* while a call runs, for the calls that follow one clear it.              *)
AlarmInv == /\ pc \in InCall \cup {"closed", "idle", "wait"}
            /\ AlarmsOwned
            /\ pc \in InCall => status = "none"

LEMMA AlarmInit == Init => AlarmInv
BY DEF Init, AlarmInv, AlarmsOwned, Unmatched, InCall

LEMMA AlarmReturn ==
  ASSUME AlarmInv, pc \in InCall, NEW r, NEW alarmed \in BOOLEAN,
         alarmed => fn = "loop" /\ r < 1, Leave(r, alarmed)
  PROVE  AlarmInv'
BY DEF AlarmInv, AlarmsOwned, Unmatched, InCall, Leave

(* A call that returns without a match. *)
LEMMA AlarmUnmatched ==
  ASSUME AlarmInv, pc \in InCall, NEW r \in {Eof, Error}, Leave(r, Alarmed)
  PROVE  AlarmInv'
<1>1. r < 1
  BY DEF Eof, Error
<1>2. Alarmed \in BOOLEAN /\ (Alarmed => fn = "loop")
  BY Zenon DEF Alarmed
<1> QED
  BY <1>1, <1>2, AlarmReturn, Zenon

LEMMA AlarmStep == AlarmInv /\ [Next]_shoVars => AlarmInv'
<1> SUFFICES ASSUME AlarmInv, [Next]_shoVars
             PROVE  AlarmInv'
  OBVIOUS
<1>1. CASE Open
  BY <1>1 DEF AlarmInv, AlarmsOwned, Unmatched, InCall, Open, Begin
<1>2. CASE Close
  BY <1>2 DEF AlarmInv, AlarmsOwned, Unmatched, InCall, Close
<1>3. ASSUME NEW t \in BOOLEAN, CallExpect(t) \/ CallLoop(t)
      PROVE  AlarmInv'
  BY <1>3 DEF AlarmInv, AlarmsOwned, Unmatched, InCall, CallExpect, CallLoop, Begin
<1>4. CASE Enter
  BY <1>4 DEF AlarmInv, AlarmsOwned, Unmatched, InCall, Enter
<1>5. CASE ReadByte
  <2>1. CASE fn = "loop" /\ Leave(Error, Alarmed)
    BY <1>5, <2>1, AlarmUnmatched DEF InCall, ReadByte
  <2>2. CASE pc' = "scan" /\ UNCHANGED <<fn, sres, status>>
    BY <1>5, <2>2 DEF AlarmInv, AlarmsOwned, Unmatched, InCall, ReadByte
  <2> QED
    BY <1>5, <2>1, <2>2 DEF ReadByte
<1>6. CASE ReadEnd
  BY <1>6, AlarmUnmatched DEF InCall, ReadEnd, Return
<1>7. CASE ReadStdin
  <2>1. CASE \E r \in {Eof, Error} : Return(r, Alarmed)
    BY <1>7, <2>1, AlarmUnmatched DEF InCall, ReadStdin, Return
  <2>2. CASE pc' \in {"both", "before"} /\ UNCHANGED <<fn, sres, status>>
    BY <1>7, <2>2 DEF AlarmInv, AlarmsOwned, Unmatched, InCall, ReadStdin
  <2> QED
    BY <1>7, <2>1, <2>2 DEF ReadStdin
<1>8. CASE Match
  BY <1>8, AlarmReturn DEF InCall, Match, Return
<1>9. CASE NoMatch
  BY <1>9 DEF AlarmInv, AlarmsOwned, Unmatched, InCall, NoMatch
<1>10. CASE Reap
  BY <1>10 DEF AlarmInv, AlarmsOwned, Unmatched, InCall, Reap
<1>11. CASE Alarm
  <2>1. CASE Waiting /\ Return(Error, FALSE)
    BY <2>1, AlarmReturn DEF InCall, Waiting, Return, Error
  <2>2. CASE ~Waiting
    <3>1. /\ timer /\ ~timer' /\ UNCHANGED <<fn, sres>>
          /\ \/ pc = "wait" /\ pc' = "closed" /\ status' = "junk"
             \/ UNCHANGED <<pc, status>>
      BY <1>11, <2>2, Zenon DEF Alarm
    <3> QED
      BY <3>1 DEF AlarmInv, AlarmsOwned, Unmatched, InCall
  <2> QED
    BY <1>11, <2>1, <2>2 DEF Alarm, Waiting
<1>12. CASE Write \/ Exit \/ Type
  BY <1>12 DEF AlarmInv, AlarmsOwned, Unmatched, InCall, Write, Exit, Type
<1>13. CASE UNCHANGED shoVars
  BY <1>13 DEF AlarmInv, AlarmsOwned, Unmatched, InCall, shoVars
<1> QED
  BY <1>1, <1>2, <1>3, <1>4, <1>5, <1>6, <1>7, <1>8, <1>9, <1>10, <1>11, <1>12, <1>13
     DEF Next, CallerStep

(* Outside a call an alarm is set, and interrupts sho_close, only if the   *)
(* last call was of sho_loop and matched nothing: sho_expect clears its    *)
(* alarm however it ends, sho_loop where a pattern matched (line 91-140    *)
(* and 253-337 of shellout.c).  It holds for any patterns, however much    *)
(* the program writes.                                                     *)
THEOREM AlarmsAreOwned == ShoSpec => []AlarmsOwned
<1>1. AlarmInv => AlarmsOwned
  BY DEF AlarmInv
<1> QED
  BY AlarmInit, AlarmStep, <1>1, PTL DEF ShoSpec

(* What a window of seen spells, byte by byte.                             *)
LEMMA EndsBytewise ==
  ASSUME NEW s \in Seq(Byte), NEW p \in Seq(Byte), NEW k \in 0 .. Len(s), k >= Len(p)
  PROVE  SubSeq(s, k - Len(p) + 1, k) = p <=> \A i \in 1 .. Len(p) : s[k - Len(p) + i] = p[i]
<1> DEFINE w == SubSeq(s, k - Len(p) + 1, k)
<1>1. /\ w \in Seq(Byte) /\ Len(w) = Len(p)
      /\ \A i \in 1 .. Len(p) : w[i] = s[k - Len(p) + i]
  <2>1. CASE Len(p) = 0
    <3>1. w = <<>>
      BY <2>1
    <3> QED
      BY <2>1, <3>1
  <2>2. CASE Len(p) > 0
    <3>1. Len(w) = Len(p)
      BY <2>2
    <3>2. \A i \in 1 .. Len(w) : w[i] = s[k - Len(p) + 1 + i - 1]
      BY <2>2, <3>1
    <3>3. w \in Seq(Byte)
      BY <2>2, SubSeqProperties
    <3> QED
      BY <3>1, <3>2, <3>3
  <2> QED
    BY <2>1, <2>2
<1>2. w = p <=> \A i \in 1 .. Len(p) : w[i] = p[i]
  <2>1. (\A i \in 1 .. Len(p) : w[i] = p[i]) => w = p
    BY <1>1, SeqEqual
  <2> QED
    BY <2>1
<1> QED
  BY <1>1, <1>2

(* A pattern that ends at the k-th byte, which the caller could not see.   *)
Unseen(k, p) == k % BufLen < Len(p) + blind[k]
Missed(k) == \A j \in 1 .. Len(Pattern) : Ends(k, Pattern[j]) => Unseen(k, Pattern[j])
Found(k) == /\ Ends(k, Pattern[sres]) \/ Unseen(k, Pattern[sres])
            /\ \A j \in 1 .. sres - 1 : Ends(k, Pattern[j]) => Unseen(k, Pattern[j])

SearchTypeOK ==
  /\ pc \in InCall \cup {"closed", "idle", "wait"} /\ sres \in Int
  /\ tty \in Seq(Byte) /\ seen \in Seq(Byte)
  /\ blind \in Seq(Nat) /\ Len(blind) = Len(seen)
  /\ DOMAIN buf = 0 .. BufLen - 1 /\ buf = [i \in DOMAIN buf |-> buf[i]]
  /\ di = Len(seen) % BufLen /\ low \in 0 .. di

(* The bytes of the buffer from low to di are the last ones read.          *)
Tracks == \A j \in low .. di - 1 : buf[j] = seen[Len(seen) - di + j + 1]

SearchInv ==
  /\ SearchTypeOK
  /\ Tracks
  /\ \A k \in 1 .. Len(seen) - 1 : Missed(k)
  /\ pc \in {"before", "blocked", "both"} /\ seen # <<>> => Missed(Len(seen))
  /\ pc = "scan" => seen # <<>> /\ blind[Len(seen)] = low
  /\ pc \in {"idle", "wait"} /\ sres > 0 =>
       seen # <<>> /\ sres \in 1 .. Len(Pattern) /\ Found(Len(seen))

LEMMA SearchInit == Init => SearchInv
<1> SUFFICES ASSUME Init PROVE SearchInv
  OBVIOUS
<1> USE ShoAssumption
<1>1. Len(seen) % BufLen = 0
  BY WholeTurn DEF Init
<1> QED
  BY <1>1 DEF Init, SearchInv, SearchTypeOK, Tracks, InCall, Blank, Error, Eof

(* Where the caller could see a pattern, line 119-129 compare it with what *)
(* was read.                                                               *)
LEMMA SpellsWhatEnds ==
  ASSUME SearchTypeOK, Tracks, seen # <<>>, blind[Len(seen)] = low,
         NEW p \in Seq(Byte), ~ Unseen(Len(seen), p)
  PROVE  Spells(p) <=> Ends(Len(seen), p)
<1> USE ShoAssumption
<1> DEFINE n == Len(seen)
<1>1. n \in Nat /\ n > 0 /\ di \in 0 .. BufLen - 1 /\ di <= n /\ low \in Nat /\ Len(p) \in Nat
  BY RemainderAtMost, EmptySeq DEF SearchTypeOK
<1>2. di >= Len(p) + low /\ n >= Len(p)
  BY <1>1 DEF Unseen, SearchTypeOK
<1>3. \A i \in 1 .. Len(p) :
        buf[(di - Len(p) + i - 1 + BufLen) % BufLen] = seen[n - Len(p) + i]
  <2> SUFFICES ASSUME NEW i \in 1 .. Len(p)
               PROVE  buf[(di - Len(p) + i - 1 + BufLen) % BufLen] = seen[n - Len(p) + i]
    OBVIOUS
  <2> DEFINE x == di - Len(p) + i - 1
  <2>1. x \in low .. di - 1 /\ x \in 0 .. BufLen - 1 /\ n - di + x + 1 = n - Len(p) + i
    BY <1>1, <1>2
  <2> HIDE DEF x
  <2>2. (x + BufLen) % BufLen = x
    BY <2>1, WholeTurn
  <2>3. buf[x] = seen[n - di + x + 1]
    BY <2>1 DEF Tracks
  <2> QED
    BY <2>1, <2>2, <2>3 DEF x
<1>4. Ends(n, p) <=> \A i \in 1 .. Len(p) : seen[n - Len(p) + i] = p[i]
  <2>1. seen \in Seq(Byte) /\ n \in 0 .. Len(seen)
    BY <1>1 DEF SearchTypeOK
  <2>2. SubSeq(seen, n - Len(p) + 1, n) = p <=> \A i \in 1 .. Len(p) : seen[n - Len(p) + i] = p[i]
    BY <2>1, <1>2, EndsBytewise
  <2> QED
    BY <2>2, <1>2 DEF Ends
<1>5. Spells(p) <=> \A i \in 1 .. Len(p) : p[i] = buf[(di - Len(p) + i - 1 + BufLen) % BufLen]
  BY <1>1, <1>2 DEF Spells, Reaches
<1> QED
  BY <1>3, <1>4, <1>5

(* A step that reads and types nothing.                                    *)
LEMMA SearchUnchanged ==
  ASSUME SearchInv, UNCHANGED search, tty' \in Seq(Byte), sres' \in Int,
         pc' \in InCall \cup {"closed", "idle", "wait"},
         pc' = "scan" => pc = "scan",
         pc' \in {"before", "blocked", "both"} /\ seen # <<>> => Missed(Len(seen)),
         pc' \in {"idle", "wait"} /\ sres' > 0 =>
            \/ pc \in {"idle", "wait"} /\ sres' = sres
            \/ seen # <<>> /\ sres' \in 1 .. Len(Pattern) /\ Found(Len(seen))'
  PROVE  SearchInv'
<1>1. SearchTypeOK'
  BY DEF SearchInv, SearchTypeOK, search
<1>2. Tracks'
  BY DEF SearchInv, Tracks, search
<1>3. /\ \A k : Missed(k)' <=> Missed(k)
      /\ sres' = sres => \A k : Found(k)' <=> Found(k)
  BY DEF Missed, Found, Ends, Unseen, search
<1>4. UNCHANGED <<seen, blind, low>>
  BY DEF search
<1> QED
  BY <1>1, <1>2, <1>3, <1>4 DEF SearchInv

LEMMA SearchBegin ==
  ASSUME SearchInv, NEW f, NEW t \in BOOLEAN, Begin(f, t), tty' \in Seq(Byte)
  PROVE  SearchInv'
<1> USE ShoAssumption
<1>1. Len(seen') % BufLen = 0
  BY WholeTurn DEF Begin
<1> QED
  BY <1>1 DEF Begin, SearchInv, SearchTypeOK, Tracks, InCall, Blank

(* What was missed stays missed when another byte is read.                 *)
LEMMA MissedStays ==
  ASSUME SearchTypeOK, NEW b \in Byte, NEW m \in Nat,
         seen' = Append(seen, b), blind' = Append(blind, m),
         NEW k \in 1 .. Len(seen), Missed(k)
  PROVE  Missed(k)'
<1> USE ShoAssumption
<1>1. /\ seen \in Seq(Byte) /\ seen' \in Seq(Byte) /\ Len(seen') = Len(seen) + 1
      /\ \A i \in 1 .. Len(seen) : seen'[i] = seen[i]
      /\ blind'[k] = blind[k]
  BY AppendProperties DEF SearchTypeOK
<1> SUFFICES ASSUME NEW j \in 1 .. Len(Pattern), Ends(k, Pattern[j])'
             PROVE  Unseen(k, Pattern[j])'
  BY DEF Missed
<1> DEFINE p == Pattern[j]
<1>2. p \in Seq(Byte)
  BY ElementOfSeq
<1>3. k \in 0 .. Len(seen) /\ k \in 0 .. Len(seen') /\ k >= Len(p)
  BY <1>1 DEF Ends
<1> HIDE DEF p
<1>4. SubSeq(seen', k - Len(p) + 1, k) = p
  BY DEF Ends, p
<1>5. \A i \in 1 .. Len(p) : seen'[k - Len(p) + i] = p[i]
  BY <1>1, <1>2, <1>3, <1>4, EndsBytewise
<1>6. \A i \in 1 .. Len(p) : seen[k - Len(p) + i] = p[i]
  <2>1. Len(p) \in Nat /\ \A i \in 1 .. Len(p) : k - Len(p) + i \in 1 .. Len(seen)
    BY <1>1, <1>2, <1>3
  <2> QED
    BY <1>1, <1>5, <2>1
<1>7. SubSeq(seen, k - Len(p) + 1, k) = p
  BY <1>1, <1>2, <1>3, <1>6, EndsBytewise
<1>8. Unseen(k, p)
  BY <1>3, <1>7 DEF Missed, Ends, p
<1> QED
  BY <1>1, <1>8 DEF Unseen, p

LEMMA SearchReadByte == SearchInv /\ ReadByte /\ pc' = "scan" => SearchInv'
<1> SUFFICES ASSUME SearchInv, ReadByte, pc' = "scan"
             PROVE  SearchInv'
  OBVIOUS
<1> USE ShoAssumption
<1> DEFINE n == Len(seen)
           b == Head(tty)
<1>0. /\ pc \in {"blocked", "both"} /\ tty # <<>> /\ tty' = Tail(tty) /\ UNCHANGED sres
      /\ buf' = [buf EXCEPT ![di] = b] /\ di' = (di + 1) % BufLen
      /\ low' = (IF di' = 0 THEN 0 ELSE low)
      /\ seen' = Append(seen, b) /\ blind' = Append(blind, low')
  <2>1. ~ Leave(Error, Alarmed)
    BY DEF Leave
  <2> QED
    BY <2>1, Zenon DEF ReadByte
<1>1. SearchTypeOK /\ Tracks
  BY DEF SearchInv
<1>2. /\ pc \in {"blocked", "both"} /\ pc' = "scan" /\ UNCHANGED sres
      /\ b \in Byte /\ tty' \in Seq(Byte) /\ n \in Nat /\ di \in 0 .. BufLen - 1 /\ low \in 0 .. di
  BY <1>0, <1>1, HeadTailProperties, RemainderAtMost DEF SearchTypeOK
<1>3. /\ di' = IF di + 1 = BufLen THEN 0 ELSE di + 1
      /\ di' = (n + 1) % BufLen
  <2>1. di' = (di + 1) % BufLen /\ di = n % BufLen
    BY <1>0, <1>1 DEF SearchTypeOK
  <2>2. (n + 1) % BufLen = IF di + 1 = BufLen THEN 0 ELSE di + 1
    BY <1>2, <2>1, NextRemainder
  <2>3. (di + 1) % BufLen = IF (di % BufLen) + 1 = BufLen THEN 0 ELSE (di % BufLen) + 1
    <3>1. di \in Nat
      BY <1>2
    <3> QED
      BY <3>1, NextRemainder
  <2>4. di % BufLen = di
    BY <1>2, WholeTurn
  <2> QED
    BY <2>1, <2>2, <2>3, <2>4
<1>4. low' = (IF di' = 0 THEN 0 ELSE low) /\ low' \in 0 .. di'
  BY <1>0, <1>2, <1>3
<1>5. /\ seen' = Append(seen, b) /\ seen' \in Seq(Byte) /\ Len(seen') = n + 1 /\ seen' # <<>>
      /\ \A i \in 1 .. n : seen'[i] = seen[i]
      /\ seen'[n + 1] = b
  <2>1. seen' = Append(seen, b)
    BY <1>0
  <2>2. seen \in Seq(Byte) /\ b \in Byte /\ Len(seen) = n /\ n \in Nat
    BY <1>1, <1>2 DEF SearchTypeOK
  <2> HIDE DEF n, b
  <2> QED
    BY <2>1, <2>2, AppendProperties
<1>6. /\ blind' = Append(blind, low') /\ blind' \in Seq(Nat) /\ Len(blind') = n + 1
      /\ blind'[n + 1] = low'
  BY <1>0, <1>1, <1>4, AppendProperties DEF SearchTypeOK
<1>7. /\ DOMAIN buf' = 0 .. BufLen - 1 /\ buf' = [i \in DOMAIN buf' |-> buf'[i]]
      /\ buf'[di] = b /\ \A i \in 0 .. BufLen - 1 : i # di => buf'[i] = buf[i]
  BY <1>0, <1>1, <1>2 DEF SearchTypeOK
<1>8. SearchTypeOK'
  BY <1>1, <1>2, <1>3, <1>4, <1>5, <1>6, <1>7 DEF SearchTypeOK, InCall
<1>9. Tracks'
  <2> SUFFICES ASSUME NEW j \in low' .. di' - 1
               PROVE  buf'[j] = seen'[Len(seen') - di' + j + 1]
    BY DEF Tracks
  <2>1. di' = di + 1 /\ low' = low
    BY <1>2, <1>3, <1>4
  <2>2. di <= n
    BY <1>1, <1>2, RemainderAtMost DEF SearchTypeOK
  <2>3. CASE j = di
    BY <1>2, <1>5, <1>7, <2>1, <2>2, <2>3
  <2>4. CASE j < di
    <3>1. j \in low .. di - 1 /\ j \in 0 .. BufLen - 1 /\ n - di + j + 1 \in 1 .. n
      BY <1>2, <2>1, <2>2, <2>4
    <3>2. buf[j] = seen[n - di + j + 1]
      BY <1>1, <3>1 DEF Tracks
    <3> QED
      BY <1>2, <1>5, <1>7, <2>1, <2>4, <3>1, <3>2
  <2> QED
    BY <1>2, <2>1, <2>3, <2>4
<1>10. \A k \in 1 .. n : Missed(k)'
  <2> SUFFICES ASSUME NEW k \in 1 .. n
               PROVE  Missed(k)'
    OBVIOUS
  <2>1. seen # <<>>
    OBVIOUS
  <2>2. Missed(k)
    <3>1. CASE k = n
      BY <1>2, <2>1, <3>1 DEF SearchInv
    <3>2. CASE k \in 1 .. n - 1
      BY <3>2 DEF SearchInv
    <3> QED
      BY <1>2, <3>1, <3>2
  <2>3. low' \in Nat
    BY <1>2, <1>3, <1>4
  <2> QED
    BY <1>1, <1>2, <1>5, <1>6, <2>2, <2>3, MissedStays
<1>11. \A k \in 1 .. Len(seen') - 1 : Missed(k)'
  BY <1>2, <1>5, <1>10
<1> QED
  BY <1>2, <1>5, <1>6, <1>8, <1>9, <1>11 DEF SearchInv

(* What the user types goes over the start of the buffer.                  *)
LEMMA SearchTyped ==
  ASSUME SearchInv, NEW w \in BoundedSeq(Byte, MaxTyped) \ {<<>>},
         buf' = TypedOver(w), low' = (IF low < Min({Len(w), di}) THEN Min({Len(w), di}) ELSE low),
         UNCHANGED <<di, seen, blind, tty, sres>>,
         pc \in {"before", "blocked", "both"}, pc' \in {"both", "before"}
  PROVE  SearchInv'
<1> USE ShoAssumption
<1>1. SearchTypeOK /\ Tracks
  BY DEF SearchInv
<1>2. Len(w) \in Nat /\ Len(seen) \in Nat /\ di \in 0 .. BufLen - 1 /\ low \in 0 .. di
  <2>1. PICK m \in 0 .. MaxTyped : w \in [1 .. m -> Byte]
    BY DEF BoundedSeq, SeqOf
  <2>2. Len(w) = m
    BY <2>1
  <2> QED
    BY <1>1, <2>1, <2>2, RemainderAtMost DEF SearchTypeOK
<1> DEFINE over == Min({Len(w), di})
<1>3. over = (IF Len(w) <= di THEN Len(w) ELSE di)
  <2>1. {Len(w), di} \in SUBSET Nat /\ {Len(w), di} # {}
    BY <1>2
  <2>2. over \in {Len(w), di} /\ \A y \in {Len(w), di} : over <= y
    BY <2>1, MinIsLeast
  <2> HIDE DEF over
  <2> QED
    BY <1>2, <2>2
<1>4. low' = (IF low < over THEN over ELSE low)
  OBVIOUS
<1> HIDE DEF over
<1>5. SearchTypeOK'
  BY <1>1, <1>2, <1>3, <1>4 DEF SearchTypeOK, TypedOver, InCall
<1>6. Tracks'
  <2> SUFFICES ASSUME NEW j \in low' .. di' - 1
               PROVE  buf'[j] = seen'[Len(seen') - di' + j + 1]
    BY DEF Tracks
  <2>1. j \in low .. di - 1 /\ ~ (j < Len(w)) /\ j \in DOMAIN buf
    BY <1>1, <1>2, <1>3, <1>4 DEF SearchTypeOK
  <2>2. buf'[j] = buf[j]
    BY <2>1 DEF TypedOver
  <2> QED
    BY <1>1, <2>1, <2>2 DEF Tracks
<1>7. \A k : Missed(k)' <=> Missed(k)
  BY DEF Missed, Ends, Unseen
<1> QED
  BY <1>5, <1>6, <1>7 DEF SearchInv

(* The first pattern the buffer spells is the first that ended there, as   *)
(* far as the caller could see.                                            *)
LEMMA SearchMatch == SearchInv /\ Match => SearchInv'
<1> SUFFICES ASSUME SearchInv, Match
             PROVE  SearchInv'
  OBVIOUS
<1> USE ShoAssumption
<1>1. /\ SearchTypeOK /\ Tracks /\ seen # <<>> /\ blind[Len(seen)] = low /\ pc = "scan"
  BY DEF SearchInv, Match
<1>2. /\ sres' = Min(Matches) /\ UNCHANGED <<search, child>> /\ pc' \in {"closed", "idle"}
      /\ Matches # {}
  BY DEF Match, Return, Leave
<1>3. Matches \in SUBSET Nat
  BY DEF Matches
<1>4. sres' \in Matches /\ \A j \in Matches : sres' <= j
  BY <1>2, <1>3, MinIsLeast
<1>5. sres' \in 1 .. Len(Pattern) /\ Spells(Pattern[sres'])
  BY <1>4 DEF Matches
<1>6. \A j \in 1 .. Len(Pattern) : Pattern[j] \in Seq(Byte)
  BY ElementOfSeq
<1>7. Ends(Len(seen), Pattern[sres']) \/ Unseen(Len(seen), Pattern[sres'])
  BY <1>1, <1>5, <1>6, SpellsWhatEnds
<1>8. \A j \in 1 .. sres' - 1 : Ends(Len(seen), Pattern[j]) => Unseen(Len(seen), Pattern[j])
  <2>1. PICK r \in 1 .. Len(Pattern) : r = sres' /\ \A j \in Matches : r <= j
    BY <1>4, <1>5
  <2> SUFFICES ASSUME NEW j \in 1 .. r - 1, Ends(Len(seen), Pattern[j])
               PROVE  Unseen(Len(seen), Pattern[j])
    BY <2>1
  <2>2. j \in 1 .. Len(Pattern) /\ ~ (r <= j)
    BY LenProperties
  <2>3. ~ Spells(Pattern[j])
    BY <2>1, <2>2 DEF Matches
  <2> QED
    BY <1>1, <1>6, <2>2, <2>3, SpellsWhatEnds
<1>9. Found(Len(seen))'
  BY <1>2, <1>7, <1>8 DEF Found, Ends, Unseen, search
<1>10. tty' \in Seq(Byte) /\ sres' \in Int
  BY <1>1, <1>2, <1>5 DEF SearchTypeOK, child
<1> QED
  BY <1>1, <1>2, <1>5, <1>9, <1>10, SearchUnchanged DEF InCall

LEMMA SearchNoMatch == SearchInv /\ NoMatch => SearchInv'
<1> SUFFICES ASSUME SearchInv, NoMatch
             PROVE  SearchInv'
  OBVIOUS
<1> USE ShoAssumption
<1>1. /\ SearchTypeOK /\ Tracks /\ seen # <<>> /\ blind[Len(seen)] = low /\ pc = "scan"
  BY DEF SearchInv, NoMatch
<1>2. /\ UNCHANGED <<search, child, sres>> /\ pc' = "before" /\ Matches = {}
  BY DEF NoMatch
<1>3. Missed(Len(seen))
  <2> SUFFICES ASSUME NEW j \in 1 .. Len(Pattern), Ends(Len(seen), Pattern[j])
               PROVE  Unseen(Len(seen), Pattern[j])
    BY DEF Missed
  <2>1. Pattern[j] \in Seq(Byte) /\ ~ Spells(Pattern[j])
    BY <1>2, ElementOfSeq DEF Matches
  <2> QED
    BY <1>1, <2>1, SpellsWhatEnds
<1>4. tty' \in Seq(Byte) /\ sres' \in Int
  BY <1>1, <1>2 DEF SearchTypeOK, child
<1> QED
  BY <1>1, <1>2, <1>3, <1>4, SearchUnchanged DEF InCall

(* A call that returns an error or the end of the input.                   *)
LEMMA SearchReturn ==
  ASSUME SearchInv, NEW r \in {Eof, Error}, NEW alarmed, Leave(r, alarmed), tty' \in Seq(Byte)
  PROVE  SearchInv'
<1>1. pc' \in {"closed", "idle"} /\ sres' \in {0, -1} /\ UNCHANGED search
  BY DEF Leave, Eof, Error
<1> QED
  BY <1>1, SearchUnchanged DEF InCall

(* A step that neither reads nor returns and moves on only within a call   *)
(* or out of the session.                                                  *)
LEMMA SearchAside ==
  ASSUME SearchInv, UNCHANGED <<search, sres>>, tty' \in Seq(Byte),
         \/ pc' = pc
         \/ pc = "before" /\ pc' = "blocked"
         \/ pc = "idle" /\ pc' = "wait"
         \/ pc' = "closed"
  PROVE  SearchInv'
<1>1. /\ pc' \in InCall \cup {"closed", "idle", "wait"} /\ sres' \in Int
      /\ pc' = "scan" => pc = "scan"
      /\ pc' \in {"before", "blocked", "both"} /\ seen # <<>> => Missed(Len(seen))
      /\ pc' \in {"idle", "wait"} => pc \in {"idle", "wait"} /\ sres' = sres
  BY DEF SearchInv, SearchTypeOK, InCall
<1> QED
  BY <1>1, SearchUnchanged

LEMMA SearchStep == SearchInv /\ [Next]_shoVars => SearchInv'
<1> SUFFICES ASSUME SearchInv, [Next]_shoVars
             PROVE  SearchInv'
  OBVIOUS
<1>0. tty \in Seq(Byte)
  BY DEF SearchInv, SearchTypeOK
<1>1. CASE Open
  BY <1>1, EmptySeq, SearchBegin DEF Open
<1>2. CASE Close \/ Reap \/ Enter
  BY <1>0, <1>2, SearchAside DEF Close, Reap, Enter, child
<1>3. ASSUME NEW t \in BOOLEAN, CallExpect(t) \/ CallLoop(t)
      PROVE  SearchInv'
  BY <1>0, <1>3, SearchBegin DEF CallExpect, CallLoop, child
<1>4. CASE ReadByte
  <2>1. CASE Leave(Error, Alarmed)
    <3>1. tty' \in Seq(Byte)
      BY <1>0, <1>4, HeadTailProperties DEF ReadByte
    <3> QED
      BY <2>1, <3>1, SearchReturn
  <2>2. CASE ~ Leave(Error, Alarmed)
    <3>1. pc' = "scan"
      BY <1>4, <2>2, Zenon DEF ReadByte
    <3> QED
      BY <1>4, <3>1, SearchReadByte
  <2> QED
    BY <2>1, <2>2
<1>5. CASE ReadEnd
  BY <1>0, <1>5, SearchReturn DEF ReadEnd, Return, child
<1>6. CASE ReadStdin
  <2>1. ASSUME NEW r \in {Eof, Error}, Return(r, Alarmed)
        PROVE  SearchInv'
    BY <1>0, <2>1, SearchReturn DEF Return, child
  <2>2. ASSUME NEW w \in BoundedSeq(Byte, MaxTyped) \ {<<>>},
               buf' = TypedOver(w),
               low' = (IF low < Min({Len(w), di}) THEN Min({Len(w), di}) ELSE low),
               UNCHANGED <<di, seen, blind, tty, sres>>, pc' \in {"both", "before"}
        PROVE  SearchInv'
    BY <1>6, <2>2, SearchTyped DEF ReadStdin
  <2> QED
    BY <1>6, <2>1, <2>2 DEF ReadStdin
<1>7. CASE Match
  BY <1>7, SearchMatch
<1>8. CASE NoMatch
  BY <1>8, SearchNoMatch
<1>9. CASE Alarm
  <2>1. CASE Waiting /\ Return(Error, FALSE)
    BY <1>0, <2>1, SearchReturn DEF Return, child
  <2>2. CASE UNCHANGED <<search, child, sres>> /\ (pc' = pc \/ pc' = "closed")
    BY <1>0, <2>2, SearchAside DEF child
  <2> QED
    BY <1>9, <2>1, <2>2, Zenon DEF Alarm
<1>10. CASE Write
  BY <1>0, <1>10, SearchAside, AppendProperties DEF Write
<1>11. CASE Exit \/ Type
  BY <1>0, <1>11, SearchAside DEF Exit, Type
<1>12. CASE UNCHANGED shoVars
  BY <1>0, <1>12, SearchAside DEF shoVars, search
<1> QED
  BY <1>1, <1>2, <1>3, <1>4, <1>5, <1>6, <1>7, <1>8, <1>9, <1>10, <1>11, <1>12
     DEF Next, CallerStep

(* For any patterns, any buffer and anything written and typed: a match is *)
(* one, of the first pattern that ends there and at the first place where  *)
(* any does, but for patterns that reach back over the end of the buffer   *)
(* or into what the user typed over it (sho_expect and sho_loop, line      *)
(* 115-133 and 308-335).                                                   *)
THEOREM FirstMatch == ShoSpec => []MatchesFirst
<1>1. SearchInv => MatchesFirst
  <2> SUFFICES ASSUME SearchInv
               PROVE  MatchesFirst
    OBVIOUS
  <2>1. \A k \in 1 .. Len(seen) - 1, j \in 1 .. Len(Pattern) :
          Ends(k, Pattern[j]) => k % BufLen < Len(Pattern[j]) + blind[k]
    BY DEF SearchInv, Missed, Unseen
  <2>2. pc \in {"idle", "wait"} /\ sres > 0 => Found(Len(seen))
    BY DEF SearchInv
  <2> QED
    BY <2>1, <2>2 DEF MatchesFirst, Found, Unseen
<1> QED
  BY SearchInit, SearchStep, <1>1, PTL DEF ShoSpec
=============================================================================
