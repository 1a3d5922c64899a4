------------------------------ MODULE LogWriter ------------------------------
(***************************************************************************)
(* internal/logrotate: one captured stream's log file and its backups, the *)
(* drain goroutine that writes lines into it, and a daemon that can be     *)
(* killed between any two of the file operations of a rotation.            *)
(*                                                                         *)
(* Lines are numbered as they are written; only their numbers and lengths  *)
(* are kept. The writer's mutex makes each call of Write and Close one at  *)
(* a time.                                                                 *)
(***************************************************************************)
EXTENDS Naturals, Sequences

CONSTANTS MaxBytes,     \* maxBytes, in units of length (0: never rotate)
          Lengths,      \* lengths of lines
          MaxBackups,   \* bound: the backups settings the daemon is run with
          MaxLines,     \* bound: lines written
          MaxFaults,    \* bound: file operations that fail
          MaxOpens,     \* bound: times the log is opened
          Absent        \* no file of that name

\* What a file holds: the numbers of its lines, and its size.
LogFile == [lines : Seq(Nat), bytes : Nat]
Empty == [lines |-> <<>>, bytes |-> 0]

ASSUME LogAssumption ==
    /\ MaxBytes \in Nat /\ MaxBackups \in Nat /\ MaxLines \in Nat
    /\ MaxFaults \in Nat /\ MaxOpens \in Nat
    /\ Lengths \subseteq Nat \ {0}
    /\ Absent \notin LogFile

VARIABLES
    disk,     \* [0 .. MaxBackups -> a file, or Absent]: 0 is the log itself
    file,     \* Writer.file: "nil", "open", or "dead", a descriptor closed but not nil
    size,     \* Writer.size
    backups,  \* Writer.backups
    pc,       \* the drain goroutine, inside Write and rotate
    i,        \* shiftBackups' loop variable
    due,      \* what prune has still to remove
    line,     \* the length of the line being written, 0 outside Write
    written,  \* lines that Write has accepted
    faults, opens,
    torn      \* history: a prune left a file that it was to remove

logVars == <<disk, file, size, backups, pc, i, due, line, written, faults, opens, torn>>

Files == 0 .. MaxBackups
Content(f) == IF f = Absent THEN Empty ELSE f

LogTypeOK ==
    /\ disk \in [Files -> LogFile \cup {Absent}]
    /\ file \in {"nil", "open", "dead"}
    /\ size \in Nat
    /\ backups \in Files
    /\ pc \in {"closed", "idle", "close", "shift", "reopen", "prune", "remove", "write", "ended"}
    /\ i \in Files /\ due \subseteq Files
    /\ line \in Lengths \cup {0}
    /\ written \in 0 .. MaxLines /\ faults \in 0 .. MaxFaults /\ opens \in 0 .. MaxOpens
    /\ torn \in BOOLEAN

LogInit ==
    /\ disk = [n \in Files |-> Absent]
    /\ file = "nil" /\ size = 0 /\ backups = 0
    /\ pc = "closed" /\ i = 0 /\ due = {} /\ line = 0
    /\ written = 0 /\ faults = 0 /\ opens = 0 /\ torn = FALSE

-----------------------------------------------------------------------------
\* Changed forms of definitions below, each a plausible wrong edit of the code;
\* no action of the specification uses them.
NeedsRotationLate(len) == MaxBytes > 0 /\ size > MaxBytes
AfterFailedRenameGoesOn == "shift"

-----------------------------------------------------------------------------
Fails == faults < MaxFaults /\ faults' = faults + 1

SizeOnReopen(f) == Content(f).bytes

\* NewWriter
Open ==
    /\ pc = "closed" /\ opens < MaxOpens
    /\ opens' = opens + 1
    /\ backups' \in Files
    /\ disk' = [disk EXCEPT ![0] = Content(@)]
    /\ size' = Content(disk[0]).bytes
    /\ file' = "open" /\ pc' = "prune"
    /\ UNCHANGED <<i, due, line, written, faults, torn>>

NeedsRotation(len) == MaxBytes > 0 /\ size > 0 /\ size + len > MaxBytes

\* drainStream reads a line and calls Write.
Line ==
    /\ pc = "idle" /\ written < MaxLines
    /\ \E len \in Lengths :
           /\ line' = len
           /\ pc' = IF NeedsRotation(len) THEN "close" ELSE "write"
    /\ UNCHANGED <<disk, file, size, backups, i, due, written, faults, opens, torn>>

\* rotate closes the descriptor first. When close reports an error the
\* descriptor is gone all the same, and Write goes on with it.
CloseLog ==
    /\ pc = "close"
    /\ file' = "nil" /\ pc' = "shift" /\ i' = IF backups > 0 THEN backups - 1 ELSE 0
    /\ UNCHANGED <<disk, size, backups, due, line, written, faults, opens, torn>>

CloseLogFails ==
    /\ pc = "close" /\ Fails
    /\ file' = "dead" /\ pc' = "write"
    /\ UNCHANGED <<disk, size, backups, i, due, line, written, opens, torn>>

\* shiftBackups: log.i becomes log.i+1, the last first, where there is one.
Shift ==
    /\ pc = "shift" /\ i >= 1
    /\ disk' = IF disk[i] = Absent THEN disk
               ELSE [disk EXCEPT ![i + 1] = disk[i], ![i] = Absent]
    /\ i' = i - 1
    /\ UNCHANGED <<file, size, backups, pc, due, line, written, faults, opens, torn>>

\* A rename that fails ends the shift: moving the rest would destroy a backup.
AfterFailedRename == "reopen"

ShiftFails ==
    /\ pc = "shift" /\ i >= 1 /\ disk[i] # Absent /\ Fails
    /\ pc' = AfterFailedRename /\ i' = i - 1
    /\ UNCHANGED <<disk, file, size, backups, due, line, written, opens, torn>>

\* The log becomes log.1, or is removed where no backups are kept.
ShiftCurrent ==
    /\ pc = "shift" /\ i = 0
    /\ disk' = IF backups = 0 THEN [disk EXCEPT ![0] = Absent]
               ELSE [disk EXCEPT ![1] = disk[0], ![0] = Absent]
    /\ pc' = "reopen"
    /\ UNCHANGED <<file, size, backups, i, due, line, written, faults, opens, torn>>

ShiftCurrentFails ==
    /\ pc = "shift" /\ i = 0 /\ Fails
    /\ pc' = "reopen"
    /\ UNCHANGED <<disk, file, size, backups, i, due, line, written, opens, torn>>

\* "Reopen whatever happened above."
Reopen ==
    /\ pc = "reopen"
    /\ disk' = [disk EXCEPT ![0] = Content(@)]
    /\ size' = SizeOnReopen(disk[0])
    /\ file' = "open" /\ pc' = "prune"
    /\ UNCHANGED <<backups, i, due, line, written, faults, opens, torn>>

\* Without a file Write returns the error, and drainStream ends on it.
ReopenFails ==
    /\ pc = "reopen" /\ Fails
    /\ pc' = "ended" /\ line' = 0
    /\ UNCHANGED <<disk, file, size, backups, i, due, written, opens, torn>>

\* prune: what is past the count, and what is past the age, the older of them
\* having the higher numbers. (A cut past them all is maxAge = 0.)
Expired(n, cut) == n > backups \/ n >= cut

Prune ==
    /\ pc = "prune" /\ pc' = "remove"
    /\ \E cut \in 1 .. MaxBackups + 1 : due' = {n \in Files \ {0} : disk[n] # Absent /\ Expired(n, cut)}
    /\ UNCHANGED <<disk, file, size, backups, i, line, written, faults, opens, torn>>

\* One after the other, in the order of the directory.
Remove ==
    /\ pc = "remove"
    /\ \E n \in due : disk' = [disk EXCEPT ![n] = Absent] /\ due' = due \ {n}
    /\ UNCHANGED <<file, size, backups, pc, i, line, written, faults, opens, torn>>

\* The error is ignored.
RemoveFails ==
    /\ pc = "remove" /\ Fails
    /\ \E n \in due : due' = due \ {n}
    /\ torn' = TRUE
    /\ UNCHANGED <<disk, file, size, backups, pc, i, line, written, opens>>

PruneEnds ==
    /\ pc = "remove" /\ due = {}
    /\ pc' = IF line = 0 THEN "idle" ELSE "write"
    /\ UNCHANGED <<disk, file, size, backups, i, due, line, written, faults, opens, torn>>

WriteLine ==
    /\ pc = "write" /\ file = "open"
    /\ written' = written + 1
    /\ disk' = [disk EXCEPT ![0] = [lines |-> Append(@.lines, written + 1), bytes |-> @.bytes + line]]
    /\ size' = size + line
    /\ pc' = "idle" /\ line' = 0
    /\ UNCHANGED <<file, backups, i, due, faults, opens, torn>>

WriteFails ==
    /\ pc = "write"
    /\ (file = "open" /\ Fails) \/ (file = "dead" /\ UNCHANGED faults)
    /\ pc' = "ended" /\ line' = 0
    /\ UNCHANGED <<disk, file, size, backups, i, due, written, opens, torn>>

\* stopLogging closes the writer once the drain is over.
Close ==
    /\ pc \in {"idle", "ended"}
    /\ file' = "nil" /\ pc' = "closed"
    /\ UNCHANGED <<disk, size, backups, i, due, line, written, faults, opens, torn>>

\* The daemon is killed, at any point. What was written stays.
Killed ==
    /\ pc # "closed"
    /\ file' = "nil" /\ pc' = "closed" /\ line' = 0 /\ due' = {}
    /\ torn' = (torn \/ due # {})
    /\ UNCHANGED <<disk, size, backups, i, written, faults, opens>>

LogNext ==
    \/ Open \/ Line \/ CloseLog \/ CloseLogFails
    \/ Shift \/ ShiftFails \/ ShiftCurrent \/ ShiftCurrentFails
    \/ Reopen \/ ReopenFails
    \/ Prune \/ Remove \/ RemoveFails \/ PruneEnds
    \/ WriteLine \/ WriteFails \/ Close \/ Killed

LogSpec == LogInit /\ [][LogNext]_logVars

-----------------------------------------------------------------------------
(* Properties *)

Lines(n) == Content(disk[n]).lines
Filled == {n \in Files : Lines(n) # <<>>}
Oldest(n) == Lines(n)[1]
Newest(n) == Lines(n)[Len(Lines(n))]

\* rotate and prune: a file has lines as they were written, none missing between,
\* and a higher number has older lines, whatever failed and wherever the daemon
\* was killed.
InOrder ==
    /\ \A n \in Filled : \A m \in DOMAIN Lines(n) : Lines(n)[m] + Len(Lines(n)) = Newest(n) + m
    /\ \A m, n \in Filled : m < n => Newest(n) < Oldest(m)

\* rotate and prune: but for files that are about to be removed, those on disk have
\* the last lines written, with none missing between one file and the next.
\* Rotations interrupted by a kill or by a failing rename, and a backups setting
\* changed between runs, lose only the oldest.
KeepsTheTail ==
    /\ InOrder
    /\ ~torn => \A n \in Filled \ due :
                   Newest(n) = written \/ \E m \in Filled : m < n /\ Oldest(m) = Newest(n) + 1

\* Writer.size is the size of the file, also after a rotation that left the old
\* content where it was: the next rotation is decided by it.
SizeIsTrue == file = "open" => size = Content(disk[0]).bytes

\* README, Log Rotation: as long as no file operation fails, a file is past its
\* maximum by at most the one line it consists of.
FilesBounded ==
    faults = 0 /\ MaxBytes > 0 =>
        \A n \in Files : Content(disk[n]).bytes <= MaxBytes \/ Len(Lines(n)) = 1

\* Write: "a rotation that fails must not stop the process from logging", so
\* with a file still in hand the line is written. It does not hold.
FailedRotationKeepsLogging == file # "dead"
=============================================================================
