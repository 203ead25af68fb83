------------------------------ MODULE Rotation ------------------------------
(***************************************************************************)
(* internal/vlog: the rotating log file of void-init, over several boots.  *)
(* Slot 0 is the active file, slot n the segment path.n.  Rotation is a    *)
(* series of system calls, and each is an action here: any of them may     *)
(* fail, and the process may die between any two of them, leaving the      *)
(* next boot with whatever names and sizes they had made.                  *)
(*                                                                         *)
(* A log line is a number, larger than those of all earlier lines; what it *)
(* says is left out, and only its length matters.                          *)
(***************************************************************************)
EXTENDS Naturals

CONSTANTS
  maxLogSize,     \* bytes
  maxLogBackups,  \* rotated segments
  Length,         \* lengths a line may have
  MaxLines,       \* bound: lines logged
  MaxStarts       \* bound: boots, that is starts of void-init

ASSUME SizeAssumption    == maxLogSize \in Nat \ {0}
ASSUME BackupsAssumption == maxLogBackups \in Nat \ {0}
ASSUME LengthAssumption  == Length \subseteq Nat \ {0}
ASSUME BoundAssumption   == MaxLines \in Nat /\ MaxStarts \in Nat

Slot == 0 .. maxLogBackups

VARIABLES
  pc,      \* what the logger is doing: see TypeOK
  caller,  \* who called rotateLogFile: openRotatingWriter or Write
  slot,    \* rotateLogFile's loop counter n; 0 is the rename of path itself
  len,     \* len(p) of the line being written
  size,    \* w.size
  exists,  \* the slots whose file exists
  lines,   \* the lines in each file
  bytes,   \* the size of each file
  last,    \* history: the number of the last line logged
  stored,  \* history: the lines that reached the active file
  starts   \* boots so far

fileVars == << exists, lines, bytes >>
histVars == << last, stored, starts >>
vars == << pc, caller, slot, len, size, fileVars, histVars >>

Kept == UNION { lines[n] : n \in Slot }

-----------------------------------------------------------------------------

Init ==
  /\ pc = "off" /\ caller = "open" /\ slot = 0 /\ len = 0 /\ size = 0
  /\ exists = {} /\ lines = [n \in Slot |-> {}] /\ bytes = [n \in Slot |-> 0]
  /\ last = 0 /\ stored = {} /\ starts = 0

\* A system call fails: openRotatingWriter returns an error, and New falls
\* back to stderr; or Write returns an error, and the file stays closed.
Abort ==
  /\ pc' = IF caller = "open" THEN "stderr" ELSE "closed"
  /\ UNCHANGED << caller, slot, len, size, fileVars, histVars >>

\* New: openRotatingWriter begins.  MkdirAll may fail.
New ==
  /\ pc = "off" /\ starts < MaxStarts
  /\ starts' = starts + 1
  /\ pc' \in { "stat", "stderr" } /\ caller' = "open"
  /\ UNCHANGED << slot, len, size, fileVars, last, stored >>

\* openRotatingWriter: rotate first if the file is full already.
Stat ==
  /\ pc = "stat"
  /\ pc' = IF 0 \in exists /\ bytes[0] >= maxLogSize THEN "remove" ELSE "reopen"
  /\ UNCHANGED << caller, slot, len, size, fileVars, histVars >>

\* Mutant of Remove: the loop starts at the slot that was removed.
RemoveStartsTooHigh ==
  /\ pc = "remove" /\ pc' = "shift" /\ slot' = maxLogBackups
  /\ exists' = exists \ { maxLogBackups }
  /\ lines' = [lines EXCEPT ![maxLogBackups] = {}]
  /\ bytes' = [bytes EXCEPT ![maxLogBackups] = 0]
  /\ UNCHANGED << caller, len, size, histVars >>

\* rotateLogFile: os.Remove of the oldest segment, if there is one.
Remove ==
  /\ pc = "remove"
  /\ pc' = "shift" /\ slot' = maxLogBackups - 1
  /\ exists' = exists \ { maxLogBackups }
  /\ lines' = [lines EXCEPT ![maxLogBackups] = {}]
  /\ bytes' = [bytes EXCEPT ![maxLogBackups] = 0]
  /\ UNCHANGED << caller, len, size, histVars >>

\* Mutants of Shift: a failed rename is ignored; the source stays in place.
ShiftIgnoresErrors ==
  /\ pc = "shift"
  /\ \/ /\ slot \in exists
        /\ exists' = (exists \ { slot }) \union { slot + 1 }
        /\ lines' = [lines EXCEPT ![slot + 1] = lines[slot], ![slot] = {}]
        /\ bytes' = [bytes EXCEPT ![slot + 1] = bytes[slot], ![slot] = 0]
     \/ UNCHANGED fileVars
  /\ IF slot = 0 THEN pc' = "reopen" /\ slot' = 0
                 ELSE pc' = "shift" /\ slot' = slot - 1
  /\ UNCHANGED << caller, len, size, histVars >>

ShiftCopies ==
  /\ pc = "shift"
  /\ IF slot \in exists
     THEN /\ exists' = exists \union { slot + 1 }
          /\ lines' = [lines EXCEPT ![slot + 1] = lines[slot]]
          /\ bytes' = [bytes EXCEPT ![slot + 1] = bytes[slot]]
     ELSE UNCHANGED fileVars
  /\ IF slot = 0 THEN pc' = "reopen" /\ slot' = 0
                 ELSE pc' = "shift" /\ slot' = slot - 1
  /\ UNCHANGED << caller, len, size, histVars >>

\* rotateLogFile: os.Rename of slot to slot + 1, which replaces the target;
\* a slot without a file is skipped.  The last one moves path to path.1.
Shift ==
  /\ pc = "shift"
  /\ IF slot \in exists
     THEN /\ exists' = (exists \ { slot }) \union { slot + 1 }
          /\ lines' = [lines EXCEPT ![slot + 1] = lines[slot], ![slot] = {}]
          /\ bytes' = [bytes EXCEPT ![slot + 1] = bytes[slot], ![slot] = 0]
     ELSE UNCHANGED fileVars
  /\ IF slot = 0 THEN pc' = "reopen" /\ slot' = 0
                 ELSE pc' = "shift" /\ slot' = slot - 1
  /\ UNCHANGED << caller, len, size, histVars >>

\* os.OpenFile with O_CREATE and O_APPEND; openRotatingWriter then asks for
\* the size, rotate sets it to 0 and lets Write go on.
Reopen ==
  /\ pc = "reopen"
  /\ exists' = exists \union { 0 }
  /\ pc' = IF caller = "open" THEN "ready" ELSE "append"
  /\ size' = IF caller = "open" THEN bytes[0] ELSE 0
  /\ UNCHANGED << caller, slot, len, lines, bytes, histVars >>

\* One of the calls above, or rotate's file.Close, fails.
Fail ==
  /\ \/ pc \in { "remove", "reopen" }
     \/ pc = "shift" /\ slot \in exists
  /\ Abort

\* Mutant of Write: the length of the new line is not taken into account.
WriteChecksSizeOnly(n) ==
  /\ pc = "ready" /\ last < MaxLines
  /\ last' = last + 1 /\ len' = n /\ caller' = "write"
  /\ IF size > maxLogSize THEN pc' = "remove" ELSE pc' = "append"
  /\ UNCHANGED << slot, size, fileVars, stored, starts >>

\* logf gives a line of n bytes to Write, which rotates first if it does not
\* fit, unless the file is empty.
Write(n) ==
  /\ pc = "ready" /\ last < MaxLines
  /\ last' = last + 1 /\ len' = n
  /\ IF size > 0 /\ size + n > maxLogSize THEN pc' = "remove" ELSE pc' = "append"
  /\ caller' = "write"
  /\ UNCHANGED << slot, size, fileVars, stored, starts >>

\* w.file.Write: all of the line, or less of it (a full disk).
Append ==
  /\ pc = "append"
  /\ \E n \in 0 .. len :
       /\ size' = size + n
       /\ bytes' = [bytes EXCEPT ![0] = @ + n]
       /\ IF n > 0 THEN /\ lines' = [lines EXCEPT ![0] = @ \union { last }]
                        /\ stored' = stored \union { last }
                   ELSE UNCHANGED << lines, stored >>
  /\ pc' = "ready"
  /\ UNCHANGED << caller, slot, len, exists, last, starts >>

\* A line that reaches stderr only: there is no file, or rotate closed it and
\* failed, after which every Write fails and logf ignores the error.
Drop ==
  /\ pc \in { "stderr", "closed" } /\ last < MaxLines
  /\ last' = last + 1
  /\ UNCHANGED << pc, caller, slot, len, size, fileVars, stored, starts >>

\* The process ends: Close after the last line, or a crash or power-off at
\* any point.  The file system keeps what the calls before did.
Stop ==
  /\ pc # "off"
  /\ pc' = "off"
  /\ UNCHANGED << caller, slot, len, size, fileVars, histVars >>

\* The machine is off for good (the bound on starts).
Terminated == pc = "off" /\ starts = MaxStarts /\ UNCHANGED vars

Next ==
  \/ New \/ Stat \/ Remove \/ Shift \/ Reopen \/ Fail
  \/ \E n \in Length : Write(n)
  \/ Append \/ Drop \/ Stop \/ Terminated

Spec == Init /\ [][Next]_vars

-----------------------------------------------------------------------------
(* Properties *)

TypeOK ==
  /\ pc \in { "off", "stat", "remove", "shift", "reopen",
              "ready", "append", "closed", "stderr" }
  /\ caller \in { "open", "write" }
  /\ slot \in 0 .. maxLogBackups - 1
  /\ len \in Nat /\ size \in Nat
  /\ exists \subseteq Slot
  /\ lines \in [Slot -> SUBSET Nat]
  /\ bytes \in [Slot -> Nat]
  /\ last \in Nat /\ stored \subseteq Nat /\ starts \in Nat

\* rotate.go:18-22: a segment with a larger number holds older lines only,
\* also after rotations that failed half-way or were cut short by a crash.
Ordered ==
  \A m, n \in Slot : m < n =>
    \A x \in lines[m], y \in lines[n] : y < x

\* rotate.go:13-16: "oldest evicted first".  Of the lines that reached the
\* file, those that are gone are older than those that are still there.
OnlyOldestLost ==
  \A x \in stored \ Kept, y \in Kept : x < y

\* rotate.go:57-58: no file grows past maxLogSize, except by a line that is
\* alone in its file.
SizeBound ==
  \A n \in Slot : bytes[n] <= maxLogSize \/ \E x \in lines[n] : lines[n] = { x }

\* rotate.go:21-22: the size in memory is the size of the file, although
\* the file is not looked at before a write.
SizeTracked == pc \in { "ready", "append" } => 0 \in exists /\ size = bytes[0]

=============================================================================
