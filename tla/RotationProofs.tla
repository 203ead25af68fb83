--------------------------- MODULE RotationProofs ---------------------------
(* Proofs about Rotation, for every size limit, every number of segments,  *)
(* any lengths of lines, and any number of lines and boots.                *)
EXTENDS Rotation, TLAPS

-----------------------------------------------------------------------------
(* The inductive invariant *)

\* A slot without a file is empty, and a file without bytes holds no line.
NoFileNoLines ==
  \A n \in Slot :
    /\ n \notin exists => bytes[n] = 0
    /\ bytes[n] = 0 => lines[n] = {}

\* A line has been given to Write, which has not yet come to the file.
Pending == pc = "append" \/ (caller = "write" /\ pc \in { "remove", "shift", "reopen" })

\* Lines are numbered in the order they are logged, and one that is pending is
\* not in any file.
Numbered ==
  /\ \A n \in Slot : lines[n] \subseteq stored
  /\ \A x \in stored : x <= last /\ (Pending => x < last)

\* Where the rotation is: the slot that the next rename goes to is free, as is
\* slot 0 when Write is about to go on with an empty file.
Freed ==
  /\ pc = "shift" => slot + 1 \notin exists
  /\ pc = "reopen" /\ caller = "write" => 0 \notin exists
  /\ pc = "stat" => caller = "open"

\* The pending line fits, or goes to an empty file.
Fits == pc = "append" => size = 0 \/ size + len <= maxLogSize

LogInv ==
  /\ TypeOK /\ NoFileNoLines /\ Numbered /\ Freed /\ Fits
  /\ Ordered /\ OnlyOldestLost /\ SizeBound /\ SizeTracked
-----------------------------------------------------------------------------
(* Types *)

\* What a rename does: the file has moved up by one slot.
LEMMA Renamed ==
  ASSUME TypeOK, Shift, slot \in exists
  PROVE  /\ slot \in Slot /\ slot + 1 \in Slot
         /\ lines' = [n \in Slot |-> IF n = slot THEN {} ELSE
                                    IF n = slot + 1 THEN lines[slot] ELSE lines[n]]
         /\ bytes' = [n \in Slot |-> IF n = slot THEN 0 ELSE
                                    IF n = slot + 1 THEN bytes[slot] ELSE bytes[n]]
         /\ exists' = (exists \ { slot }) \union { slot + 1 }
<1>1. slot \in Slot /\ slot + 1 \in Slot /\ slot # slot + 1
  BY BackupsAssumption DEF TypeOK, Slot
<1>2. /\ lines \in [Slot -> SUBSET Nat] /\ bytes \in [Slot -> Nat]
      /\ exists' = (exists \ { slot }) \union { slot + 1 }
      /\ lines' = [lines EXCEPT ![slot + 1] = lines[slot], ![slot] = {}]
      /\ bytes' = [bytes EXCEPT ![slot + 1] = bytes[slot], ![slot] = 0]
  BY DEF TypeOK, Shift
<1>3. QED
  BY <1>1, <1>2

\* Slots stay in range, and sizes and line numbers are natural.
LEMMA TypeStep ==
  ASSUME TypeOK, [Next]_vars
  PROVE  TypeOK'
<1> USE BackupsAssumption DEF TypeOK, fileVars, histVars, Slot
<1>1. CASE New
  BY <1>1 DEF New
<1>2. CASE Stat
  BY <1>2 DEF Stat
<1>3. CASE Remove
  BY <1>3 DEF Remove
<1>4. CASE Shift
  <2>1. slot \in Slot /\ slot + 1 \in Slot
    OBVIOUS
  <2>2. exists' \subseteq Slot
    BY <1>4, <2>1 DEF Shift
  <2>3. lines' \in [Slot -> SUBSET Nat] /\ bytes' \in [Slot -> Nat]
    <3>1. CASE slot \in exists
      BY <2>1, <1>4, <3>1, Renamed
    <3>2. CASE slot \notin exists
      BY <1>4, <3>2 DEF Shift
    <3>3. QED
      BY <3>1, <3>2
  <2>4. slot' \in 0 .. maxLogBackups - 1 /\ pc' \in { "shift", "reopen" }
    BY <1>4 DEF Shift
  <2>5. QED
    BY <1>4, <2>2, <2>3, <2>4 DEF Shift
<1>5. CASE Reopen
  BY <1>5 DEF Reopen
<1>6. CASE Fail
  BY <1>6 DEF Fail, Abort
<1>7. ASSUME NEW n \in Length, Write(n)
      PROVE  TypeOK'
  BY <1>7, LengthAssumption DEF Write
<1>8. CASE Append
  <2>1. PICK n \in 0 .. len :
          /\ size' = size + n
          /\ bytes' = [bytes EXCEPT ![0] = @ + n]
          /\ lines' \in { lines, [lines EXCEPT ![0] = @ \union { last }] }
          /\ stored' \in { stored, stored \union { last } }
    BY <1>8 DEF Append
  <2>2. bytes' \in [Slot -> Nat] /\ size' \in Nat
    BY <2>1
  <2>3. lines' \in [Slot -> SUBSET Nat] /\ stored' \subseteq Nat
    BY <2>1
  <2>4. QED
    BY <1>8, <2>2, <2>3 DEF Append
<1>9. CASE Drop
  BY <1>9 DEF Drop
<1>10. CASE Stop
  BY <1>10 DEF Stop
<1>11. CASE UNCHANGED vars
  BY <1>11 DEF vars
<1>12. QED
  BY <1>1, <1>2, <1>3, <1>4, <1>5, <1>6, <1>7, <1>8, <1>9, <1>10, <1>11 DEF Next, Terminated

\* The logger's types hold in every reachable state.
THEOREM TypeCorrect == Spec => []TypeOK
<1>1. Init => TypeOK
  BY BackupsAssumption DEF Init, TypeOK, Slot
<1>2. QED
  BY <1>1, TypeStep, PTL DEF Spec

-----------------------------------------------------------------------------
(* The invariant, step by step *)

\* A step that leaves the files alone keeps what is said of the files only.
LEMMA FilesUntouched ==
  ASSUME LogInv, UNCHANGED << exists, lines, bytes, stored >>
  PROVE  NoFileNoLines' /\ Ordered' /\ OnlyOldestLost' /\ SizeBound'
BY DEF LogInv, NoFileNoLines, Ordered, OnlyOldestLost, SizeBound, Kept

\* Opening the log, logging a line, giving up and ending the process.
LEMMA QuietStep ==
  ASSUME LogInv, TypeOK',
         New \/ Stat \/ Fail \/ (\E n \in Length : Write(n)) \/ Drop \/ Stop \/ UNCHANGED vars
  PROVE  LogInv'
<1>1. UNCHANGED << exists, lines, bytes, stored >>
  BY DEF New, Stat, Fail, Abort, Write, Drop, Stop, vars, fileVars, histVars
<1>2. NoFileNoLines' /\ Ordered' /\ OnlyOldestLost' /\ SizeBound'
  BY <1>1, FilesUntouched
<1>3. Numbered' /\ Freed' /\ Fits' /\ SizeTracked'
  <2> USE DEF LogInv, TypeOK, Numbered, Pending, Freed, Fits, SizeTracked, fileVars, histVars
  <2>1. CASE New
    BY <2>1 DEF New
  <2>2. CASE Stat
    BY <2>2 DEF Stat
  <2>3. CASE Fail
    BY <2>3 DEF Fail, Abort
  <2>4. ASSUME NEW n \in Length, Write(n)
        PROVE  Numbered' /\ Freed' /\ Fits' /\ SizeTracked'
    BY <2>4, LengthAssumption, SizeAssumption DEF Write
  <2>5. CASE Drop
    BY <2>5 DEF Drop
  <2>6. CASE Stop
    BY <2>6 DEF Stop
  <2>7. CASE UNCHANGED vars
    BY <2>7 DEF vars
  <2>8. QED
    BY <2>1, <2>2, <2>3, <2>4, <2>5, <2>6, <2>7
<1>4. QED
  BY <1>2, <1>3 DEF LogInv
\* Removing the oldest segment: its lines are older than all others.
LEMMA RemoveKeeps ==
  ASSUME LogInv, TypeOK', Remove
  PROVE  LogInv'
<1> USE DEF LogInv, TypeOK
<1>1. /\ maxLogBackups \in Slot
      /\ lines' = [n \in Slot |-> IF n = maxLogBackups THEN {} ELSE lines[n]]
      /\ bytes' = [n \in Slot |-> IF n = maxLogBackups THEN 0 ELSE bytes[n]]
      /\ exists' = exists \ { maxLogBackups }
      /\ UNCHANGED << caller, len, size, last, stored >>
      /\ pc = "remove" /\ pc' = "shift" /\ slot' + 1 = maxLogBackups
  <2>1. maxLogBackups \in Slot /\ maxLogBackups - 1 + 1 = maxLogBackups
    BY BackupsAssumption DEF Slot
  <2>2. lines \in [Slot -> SUBSET Nat] /\ bytes \in [Slot -> Nat]
    OBVIOUS
  <2>3. QED
    BY <2>1, <2>2 DEF Remove, histVars
<1>2. NoFileNoLines' /\ SizeBound' /\ Ordered'
  BY <1>1, SizeAssumption DEF NoFileNoLines, SizeBound, Ordered
<1>3. Numbered' /\ Freed' /\ Fits' /\ SizeTracked'
  BY <1>1 DEF Numbered, Pending, Freed, Fits, SizeTracked
<1>4. OnlyOldestLost'
  <2> SUFFICES ASSUME NEW x \in stored, x \notin Kept', NEW y \in Kept'
               PROVE  x < y
    BY <1>1 DEF OnlyOldestLost
  <2>1. PICK n \in Slot : n # maxLogBackups /\ y \in lines[n]
    BY <1>1 DEF Kept
  <2>2. y \in Kept
    BY <2>1 DEF Kept
  <2>3. CASE x \in Kept
    <3>1. PICK m \in Slot : x \in lines[m]
      BY <2>3 DEF Kept
    <3>2. m = maxLogBackups
      BY <1>1, <3>1 DEF Kept
    <3>3. n < m
      BY <2>1, <3>2, BackupsAssumption DEF Slot
    <3>4. QED
      BY <2>1, <3>1, <3>3 DEF Ordered
  <2>4. CASE x \notin Kept
    BY <2>2, <2>4 DEF OnlyOldestLost
  <2>5. QED
    BY <2>3, <2>4
<1>5. QED
  BY <1>2, <1>3, <1>4

\* A rename neither loses a line, because the slot it goes to is free, nor
\* changes the order.
LEMMA ShiftKeeps ==
  ASSUME LogInv, TypeOK', Shift
  PROVE  LogInv'
<1>1. /\ pc = "shift" /\ slot + 1 \notin exists
      /\ UNCHANGED << caller, len, size, last, stored >>
      /\ slot \in 0 .. maxLogBackups - 1
      /\ IF slot = 0 THEN pc' = "reopen" /\ slot' = 0
                     ELSE pc' = "shift" /\ slot' = slot - 1
  BY DEF LogInv, TypeOK, Freed, Shift, histVars
<1>2. CASE slot \notin exists
  <2>1. UNCHANGED << exists, lines, bytes, stored >>
    BY <1>2 DEF Shift, fileVars, histVars
  <2>2. Numbered' /\ Freed' /\ Fits' /\ SizeTracked'
    BY <1>1, <1>2, <2>1 DEF LogInv, Numbered, Pending, Freed, Fits, SizeTracked
  <2>3. QED
    BY <2>1, <2>2, FilesUntouched DEF LogInv
<1>3. CASE slot \in exists
  <2>1. /\ slot \in Slot /\ slot + 1 \in Slot
        /\ lines' = [n \in Slot |-> IF n = slot THEN {} ELSE
                                   IF n = slot + 1 THEN lines[slot] ELSE lines[n]]
        /\ bytes' = [n \in Slot |-> IF n = slot THEN 0 ELSE
                                   IF n = slot + 1 THEN bytes[slot] ELSE bytes[n]]
        /\ exists' = (exists \ { slot }) \union { slot + 1 }
    BY <1>3, Renamed DEF LogInv
  <2>2. lines[slot + 1] = {}
    BY <1>1, <2>1 DEF LogInv, NoFileNoLines
  <2>3. NoFileNoLines' /\ SizeBound'
    BY <2>1, SizeAssumption DEF LogInv, NoFileNoLines, SizeBound
  <2>4. Ordered'
    <3> SUFFICES ASSUME NEW m \in Slot, NEW n \in Slot, m < n,
                        NEW x \in lines'[m], NEW y \in lines'[n]
                 PROVE  y < x
      BY DEF Ordered
    <3> DEFINE before(k) == IF k = slot + 1 THEN slot ELSE k
    <3>1. m # slot /\ n # slot
      BY <2>1
    <3>2. before(m) \in Slot /\ before(n) \in Slot /\ before(m) < before(n)
      BY <1>1, <2>1, <3>1 DEF Slot
    <3>3. x \in lines[before(m)] /\ y \in lines[before(n)]
      BY <2>1, <3>1
    <3>4. QED
      BY <3>2, <3>3 DEF LogInv, Ordered
  <2>5. Kept' = Kept
    BY <2>1, <2>2 DEF Kept
  <2>6. OnlyOldestLost'
    BY <1>1, <2>5 DEF LogInv, OnlyOldestLost
  <2>7. Numbered'
    BY <1>1, <2>1 DEF LogInv, Numbered, Pending
  <2>8. Freed' /\ Fits' /\ SizeTracked'
    BY <1>1, <2>1 DEF LogInv, Freed, Fits, SizeTracked
  <2>9. QED
    BY <2>3, <2>4, <2>6, <2>7, <2>8 DEF LogInv
<1>4. QED
  BY <1>2, <1>3

\* Opening the active file: it is new, or it keeps what it holds.
LEMMA ReopenKeeps ==
  ASSUME LogInv, TypeOK', Reopen
  PROVE  LogInv'
<1>1. /\ UNCHANGED << lines, bytes, caller, len, last, stored >>
      /\ exists' = exists \union { 0 } /\ 0 \in Slot
      /\ pc = "reopen"
  BY BackupsAssumption DEF Reopen, histVars, Slot
<1>2. NoFileNoLines' /\ Ordered' /\ OnlyOldestLost' /\ SizeBound'
  BY <1>1 DEF LogInv, NoFileNoLines, Ordered, OnlyOldestLost, SizeBound, Kept
<1>3. CASE caller = "open"
  <2>1. pc' = "ready" /\ size' = bytes[0]
    BY <1>3 DEF Reopen
  <2>2. QED
    BY <1>1, <1>2, <1>3, <2>1 DEF LogInv, Numbered, Pending, Freed, Fits, SizeTracked
<1>4. CASE caller = "write"
  <2>1. pc' = "append" /\ size' = 0
    BY <1>4 DEF Reopen
  <2>2. bytes[0] = 0
    BY <1>1, <1>4 DEF LogInv, Freed, NoFileNoLines
  <2>3. QED
    BY <1>1, <1>2, <1>4, <2>1, <2>2 DEF LogInv, Numbered, Pending, Freed, Fits, SizeTracked
<1>5. QED
  BY <1>3, <1>4 DEF LogInv, TypeOK

\* The pending line is newer than all that are stored, and alone in its file
\* if it exceeds the limit.
LEMMA AppendKeeps ==
  ASSUME LogInv, TypeOK', Append
  PROVE  LogInv'
<1>1. PICK n \in 0 .. len :
        /\ size' = size + n
        /\ bytes' = [bytes EXCEPT ![0] = @ + n]
        /\ IF n > 0 THEN /\ lines' = [lines EXCEPT ![0] = @ \union { last }]
                         /\ stored' = stored \union { last }
                    ELSE UNCHANGED << lines, stored >>
  BY DEF Append
<1>2. /\ pc = "append" /\ pc' = "ready"
      /\ UNCHANGED << caller, slot, len, exists, last >>
      /\ 0 \in Slot /\ 0 \in exists /\ size = bytes[0]
      /\ size = 0 \/ size + len <= maxLogSize
      /\ \A x \in stored : x < last
  BY BackupsAssumption DEF Append, Slot, LogInv, SizeTracked, Fits, Numbered, Pending
<1>3. /\ len \in Nat /\ size \in Nat /\ last \in Nat /\ n \in Nat /\ n <= len
      /\ lines \in [Slot -> SUBSET Nat] /\ bytes \in [Slot -> Nat]
  BY DEF LogInv, TypeOK
<1>4. bytes'[0] = size + n /\ \A m \in Slot \ { 0 } : bytes'[m] = bytes[m]
  BY <1>1, <1>2, <1>3
<1>5. Freed' /\ Fits' /\ SizeTracked'
  BY <1>1, <1>2, <1>4 DEF LogInv, Freed, Fits, SizeTracked
<1>6. CASE n = 0
  <2>1. UNCHANGED << lines, stored, bytes, exists >>
    BY <1>1, <1>2, <1>3, <1>6
  <2>2. Numbered'
    BY <1>2, <2>1 DEF LogInv, Numbered, Pending
  <2>3. QED
    BY <1>5, <2>1, <2>2, FilesUntouched DEF LogInv
<1>7. CASE n > 0
  <2>1. /\ stored' = stored \union { last }
        /\ lines'[0] = lines[0] \union { last }
        /\ \A m \in Slot \ { 0 } : lines'[m] = lines[m]
    BY <1>1, <1>2, <1>3, <1>7
  <2>2. \A m \in Slot : \A x \in lines[m] : x < last
    BY <1>2 DEF LogInv, Numbered
  <2>3. Numbered'
    BY <1>2, <1>3, <2>1 DEF LogInv, Numbered, Pending
  <2>4. NoFileNoLines'
    BY <1>2, <1>3, <1>4, <1>7, <2>1 DEF LogInv, NoFileNoLines
  <2>5. Ordered'
    <3> SUFFICES ASSUME NEW m \in Slot, NEW k \in Slot, m < k,
                        NEW x \in lines'[m], NEW y \in lines'[k]
                 PROVE  y < x
      BY DEF Ordered
    <3>1. k # 0 /\ y \in lines[k]
      BY <2>1 DEF Slot
    <3>2. CASE x \in lines[m]
      BY <3>1, <3>2 DEF LogInv, Ordered
    <3>3. CASE x = last
      BY <2>2, <3>1, <3>3
    <3>4. QED
      BY <2>1, <3>2, <3>3
  <2>6. Kept' = Kept \union { last }
    BY <1>2, <2>1 DEF Kept
  <2>7. OnlyOldestLost'
    BY <1>2, <2>1, <2>6 DEF LogInv, OnlyOldestLost
  <2>8. SizeBound'
    <3> SUFFICES ASSUME NEW m \in Slot
                 PROVE  bytes'[m] <= maxLogSize \/ \E x \in lines'[m] : lines'[m] = { x }
      BY DEF SizeBound
    <3>1. CASE m # 0
      BY <1>4, <2>1, <3>1 DEF LogInv, SizeBound
    <3>2. CASE m = 0 /\ size = 0
      <4>1. lines[0] = {}
        BY <1>2, <3>2 DEF LogInv, NoFileNoLines
      <4>2. lines'[0] = { last }
        BY <2>1, <4>1
      <4>3. QED
        BY <3>2, <4>2
    <3>3. CASE m = 0 /\ size + len <= maxLogSize
      BY <1>3, <1>4, <3>3, SizeAssumption
    <3>4. QED
      BY <1>2, <3>1, <3>2, <3>3
  <2>9. QED
    BY <1>5, <2>3, <2>4, <2>5, <2>7, <2>8 DEF LogInv
<1>8. QED
  BY <1>3, <1>6, <1>7

-----------------------------------------------------------------------------
(* The theorems *)

\* What every reachable state of the log satisfies, whatever failed and
\* whenever the machine went down: the rotations are orderly.
THEOREM LogInvariant == Spec => []LogInv
<1>1. Init => LogInv
  <2> SUFFICES ASSUME Init PROVE LogInv
    OBVIOUS
  <2>1. TypeOK
    BY BackupsAssumption DEF Init, TypeOK, Slot
  <2>2. Kept = {}
    BY DEF Init, Kept
  <2>3. QED
    BY <2>1, <2>2, SizeAssumption
    DEF Init, LogInv, NoFileNoLines, Numbered, Pending, Freed, Fits, Ordered, OnlyOldestLost,
        SizeBound, SizeTracked
<1>2. LogInv /\ [Next]_vars => LogInv'
  <2> SUFFICES ASSUME LogInv, [Next]_vars
               PROVE  LogInv'
    OBVIOUS
  <2>1. TypeOK'
    BY TypeStep DEF LogInv
  <2>2. QED
    BY <2>1, QuietStep, RemoveKeeps, ShiftKeeps, ReopenKeeps, AppendKeeps DEF Next, Terminated
<1>3. QED
  BY <1>1, <1>2, PTL DEF Spec

\* A segment with a larger number holds older lines only.
THEOREM SegmentsOrdered == Spec => []Ordered
BY LogInvariant, PTL DEF LogInv

\* The lines that are gone are older than all that are kept.
THEOREM OldestEvictedFirst == Spec => []OnlyOldestLost
BY LogInvariant, PTL DEF LogInv

\* No file exceeds the limit, but for a line that is alone in its file.
THEOREM FilesAreBounded == Spec => []SizeBound
BY LogInvariant, PTL DEF LogInv

\* The size in memory is that of the file, whenever a write relies on it.
THEOREM SizeInMemory == Spec => []SizeTracked
BY LogInvariant, PTL DEF LogInv

=============================================================================
