----------------------------- MODULE LogRollover -----------------------------
(***************************************************************************)
(* LogFileRollover of common/logger and CompressFileByGzip of              *)
(* common/file_utils: Write, Rotate and Close, which exclude each other by *)
(* a mutex, the background goroutine run that deletes and compresses old   *)
(* backups without that mutex, failures of the file system, and crashes of *)
(* the process between any two operations on files.                        *)
(*                                                                         *)
(* A record counts one unit of size.  A backup is [time, gz, whole, recs]; *)
(* time is the stamp in its name, whole says that it can be read to the    *)
(* end.  Backups get different stamps, which the documentation asks for.   *)
(***************************************************************************)
EXTENDS Integers, Sequences, FiniteSets, Functions

CONSTANTS
  MaxSize,      \* the size limit of a file, in records
  MaxBackups,   \* how many backups are kept, 0: all
  MaxAge,       \* how long a backup is kept, 0: for ever
  Compress,     \* whether backups are compressed
  MaxRecords,   \* bound: records that are written
  MaxTime,      \* bound: the latest stamp
  MaxFaults     \* bound: failures of the file system and crashes

ASSUME RolloverAssumption ==
  /\ MaxSize \in Nat \ {0}
  /\ MaxBackups \in Nat
  /\ MaxAge \in Nat
  /\ Compress \in BOOLEAN
  /\ MaxRecords \in Nat
  /\ MaxTime \in Nat
  /\ MaxFaults \in Nat

\* The log file does not exist (0 is no record).
Absent == <<0>>
Records == 1..MaxRecords
Times == 1..MaxTime

VARIABLES
  active,    \* the log file: a sequence of records, or Absent
  backups,   \* the files with a stamp in their name
  clock,     \* the current time
  file,      \* l.file: "nil", "open", or "closed" when it is a closed handle
  size,      \* l.size
  pc,        \* where the holder of l.mutex is
  op,        \* what it executes: "Write" or "Rotate"
  signal,    \* openNew was called by rotate: rollover follows
  bg,        \* where the goroutine run is
  token,     \* rolloverChan holds an element
  stopped,   \* ctxCancel() and close(rolloverChan) have been called
  doomed,    \* the files this pass has still to delete
  toGz,      \* the stamps this pass has still to compress, newest first
  written,   \* how many records were tried
  acked,     \* the records whose Write returned without error
  dropped,   \* the stamps that were deleted by the retention rules
  gone,      \* the records deleted with them, or truncated away
  told,      \* the stamps that existed when rollover was last called
  seen,      \* the stamps there were when the last pass began
  faults     \* failures and crashes so far

fileVars == <<file, size>>
callVars == <<pc, op, signal>>
passVars == <<doomed, toGz, seen>>
bgVars == <<bg, passVars>>
ackVars == <<written, acked>>
dropVars == <<dropped, gone>>
vars == <<active, backups, clock, fileVars, callVars, bgVars, token, stopped,
          ackVars, dropVars, told, faults>>

Stamps == {b.time : b \in backups}

\* Something the operating system does fails.
Fault == faults < MaxFaults /\ faults' = faults + 1

-----------------------------------------------------------------------------
\* An earlier process may have left its log file.
Init ==
  /\ active \in {Absent, <<>>}
  /\ backups = {}
  /\ clock = 0
  /\ file = "nil"
  /\ size = 0
  /\ pc = "free"
  /\ op = "Write"
  /\ signal = FALSE
  /\ bg = "off"
  /\ token = FALSE
  /\ stopped = FALSE
  /\ doomed = {}
  /\ toGz = <<>>
  /\ written = 0
  /\ acked = {}
  /\ dropped = {}
  /\ gone = {}
  /\ told = {}
  /\ seen = {}
  /\ faults = 0

Tick ==
  /\ clock < MaxTime
  /\ clock' = clock + 1
  /\ UNCHANGED <<active, backups, fileVars, callVars, bgVars, token, stopped,
                 ackVars, dropVars, told, faults>>

-----------------------------------------------------------------------------
(* Write, Rotate and Close.  The one that holds the mutex moves pc.        *)

Write ==
  /\ pc = "free"
  /\ written < MaxRecords
  /\ written' = written + 1
  /\ op' = "Write"
  /\ pc' = IF file = "nil" THEN "stat" ELSE "fit"
  /\ UNCHANGED <<active, backups, clock, fileVars, signal, bgVars, token,
                 stopped, acked, dropVars, told, faults>>

Rotate ==
  /\ pc = "free"
  /\ op' = "Rotate"
  /\ pc' = "closeFile"
  /\ UNCHANGED <<active, backups, clock, fileVars, signal, bgVars, token,
                 stopped, ackVars, dropVars, told, faults>>

\* tryOpenOrCreateFile
Stat ==
  /\ pc = "stat"
  /\ pc' = IF active = Absent THEN "openNew"
           ELSE IF Len(active) + 1 >= MaxSize THEN "closeFile" ELSE "append"
  /\ signal' = FALSE
  /\ UNCHANGED <<active, backups, clock, fileVars, op, bgVars, token, stopped,
                 ackVars, dropVars, told, faults>>

OpenAppend ==
  /\ pc = "append"
  /\ file' = "open"
  /\ size' = Len(active)
  /\ pc' = "rollover"
  /\ UNCHANGED <<active, backups, clock, op, signal, bgVars, token, stopped,
                 ackVars, dropVars, told, faults>>

\* The file cannot be opened: a new one is made.
OpenAppendFails ==
  /\ pc = "append"
  /\ Fault
  /\ pc' = "openNew"
  /\ UNCHANGED <<active, backups, clock, fileVars, op, signal, bgVars, token,
                 stopped, ackVars, dropVars, told>>

\* The record may be too much for the file.
Fit ==
  /\ pc = "fit"
  /\ pc' = IF size + 1 > MaxSize THEN "closeFile" ELSE "write"
  /\ UNCHANGED <<active, backups, clock, fileVars, op, signal, bgVars, token,
                 stopped, ackVars, dropVars, told, faults>>

\* rotate: closeFile.  Closing a handle twice is an error, and the call ends.
CloseFile ==
  /\ pc = "closeFile"
  /\ signal' = TRUE
  /\ file' = IF file = "open" THEN "closed" ELSE file
  /\ pc' = IF file = "closed" THEN "free" ELSE "openNew"
  /\ UNCHANGED <<active, backups, clock, size, op, bgVars, token, stopped,
                 ackVars, dropVars, told, faults>>

\* The handle is closed all the same, but the call ends.
CloseFileFails ==
  /\ pc = "closeFile"
  /\ file = "open"
  /\ Fault
  /\ file' = "closed"
  /\ pc' = "free"
  /\ UNCHANGED <<active, backups, clock, size, op, signal, bgVars, token,
                 stopped, ackVars, dropVars, told>>

\* openNew renames the old file ...
Rename ==
  /\ pc = "openNew"
  /\ active # Absent
  /\ clock < MaxTime
  /\ clock' = clock + 1
  /\ backups' = backups \cup
       {[time |-> clock + 1, gz |-> FALSE, whole |-> TRUE, recs |-> active]}
  /\ active' = Absent
  /\ UNCHANGED <<fileVars, callVars, bgVars, token, stopped, ackVars, dropVars,
                 told, faults>>

\* ... and opens the new one.
OpenNew ==
  /\ pc = "openNew"
  /\ active = Absent
  /\ active' = <<>>
  /\ file' = "open"
  /\ size' = 0
  /\ pc' = IF signal THEN "rollover" ELSE "fit"
  /\ UNCHANGED <<backups, clock, op, signal, bgVars, token, stopped, ackVars,
                 dropVars, told, faults>>

\* The file exists but Stat fails for another reason: it is not renamed, and
\* is truncated.
OpenNewTruncates ==
  /\ pc = "openNew"
  /\ active # Absent
  /\ Fault
  /\ gone' = gone \cup Range(active)
  /\ active' = <<>>
  /\ file' = "open"
  /\ size' = 0
  /\ pc' = IF signal THEN "rollover" ELSE "fit"
  /\ UNCHANGED <<backups, clock, op, signal, bgVars, token, stopped, ackVars,
                 dropped, told>>

\* Stat, a step of openNew or the write fails: the call returns the error.
CallFails ==
  /\ pc \in {"stat", "openNew", "write"}
  /\ Fault
  /\ pc' = "free"
  /\ UNCHANGED <<active, backups, clock, fileVars, op, signal, bgVars, token,
                 stopped, ackVars, dropVars, told>>

\* Faulty variant: the signal is lost when the goroutine is busy.
RolloverIfIdle ==
  /\ pc = "rollover"
  /\ bg' = IF bg = "off" THEN "select" ELSE bg
  /\ token' = (token \/ bg \in {"off", "select"})
  /\ told' = Stamps
  /\ pc' = IF op = "Rotate" THEN "free" ELSE "fit"
  /\ UNCHANGED <<active, backups, clock, fileVars, op, signal, passVars,
                 stopped, ackVars, dropVars, faults>>

\* rollover starts the goroutine the first time, and leaves an element in
\* rolloverChan unless there is one.
Rollover ==
  /\ pc = "rollover"
  /\ bg' = IF bg = "off" THEN "select" ELSE bg
  /\ token' = TRUE
  /\ told' = Stamps
  /\ pc' = IF op = "Rotate" THEN "free" ELSE "fit"
  /\ UNCHANGED <<active, backups, clock, fileVars, op, signal, passVars,
                 stopped, ackVars, dropVars, faults>>

WriteRecord ==
  /\ pc = "write"
  /\ file = "open"
  /\ active' = Append(active, written)
  /\ size' = size + 1
  /\ acked' = acked \cup {written}
  /\ pc' = "free"
  /\ UNCHANGED <<backups, clock, file, op, signal, bgVars, token, stopped,
                 written, dropVars, told, faults>>

\* An earlier call failed after closeFile: the handle is closed.
WriteClosed ==
  /\ pc = "write"
  /\ file = "closed"
  /\ pc' = "free"
  /\ UNCHANGED <<active, backups, clock, fileVars, op, signal, bgVars, token,
                 stopped, ackVars, dropVars, told, faults>>

\* Close; nothing is called after it.  A handle that is closed already makes
\* it return before it stops the goroutine.
Close ==
  /\ pc = "free"
  /\ pc' = "closed"
  /\ file' = IF file = "open" THEN "closed" ELSE file
  /\ stopped' = (file # "closed" /\ bg # "off")
  /\ UNCHANGED <<active, backups, clock, size, op, signal, bgVars, token,
                 ackVars, dropVars, told, faults>>

\* The handle is closed all the same, but Close returns before it stops the
\* goroutine.
CloseFails ==
  /\ pc = "free"
  /\ file = "open"
  /\ Fault
  /\ pc' = "closed"
  /\ file' = "closed"
  /\ UNCHANGED <<active, backups, clock, size, op, signal, bgVars, token,
                 stopped, ackVars, dropVars, told>>

-----------------------------------------------------------------------------
(* The goroutine run.  A closed channel can always be received from.       *)

BgTake ==
  /\ bg = "select"
  /\ token \/ stopped
  /\ token' = FALSE
  /\ bg' = "list"
  /\ UNCHANGED <<active, backups, clock, fileVars, callVars, passVars, stopped,
                 ackVars, dropVars, told, faults>>

BgStop ==
  /\ bg = "select"
  /\ stopped
  /\ bg' = "exited"
  /\ UNCHANGED <<active, backups, clock, fileVars, callVars, passVars, token,
                 stopped, ackVars, dropVars, told, faults>>

\* Faulty variant: one backup too few is kept.
ExcessByOne(t) ==
  MaxBackups > 0 /\ Cardinality({u \in Stamps : u > t}) >= MaxBackups - 1

\* A backup is in excess when there are MaxBackups newer ones; a file and its
\* compressed form are one backup.
Excess(t) ==
  MaxBackups > 0 /\ Cardinality({u \in Stamps : u > t}) >= MaxBackups

Expired(t) == MaxAge > 0 /\ t < clock - MaxAge

\* rolloverExec: loadFileList, and what is to be deleted and compressed.
BgList ==
  LET old == {b \in backups : Excess(b.time) \/ Expired(b.time)}
      plain == {b.time : b \in {c \in backups \ old : ~c.gz}}
  IN /\ bg = "list"
     /\ bg' = "pass"
     /\ seen' = Stamps
     /\ doomed' = old
     /\ toGz' = IF ~Compress THEN <<>>
                ELSE CHOOSE s \in [1..Cardinality(plain) -> plain] :
                       \A i, j \in DOMAIN s : i < j => s[i] > s[j]
     /\ UNCHANGED <<active, backups, clock, fileVars, callVars, token, stopped,
                    ackVars, dropVars, told, faults>>

\* The directory cannot be read: the pass ends, and is not repeated.
BgListFails ==
  /\ bg = "list"
  /\ Fault
  /\ bg' = "select"
  /\ seen' = Stamps
  /\ UNCHANGED <<active, backups, clock, fileVars, callVars, doomed, toGz, token,
                 stopped, ackVars, dropVars, told>>

BgRemove(b) ==
  /\ bg = "pass"
  /\ b \in doomed
  /\ doomed' = doomed \ {b}
  /\ backups' = backups \ {b}
  /\ dropped' = dropped \cup {b.time}
  /\ gone' = gone \cup Range(b.recs)
  /\ UNCHANGED <<active, clock, fileVars, callVars, bg, toGz, seen, token,
                 stopped, ackVars, told, faults>>

BgRemoveFails(b) ==
  /\ bg = "pass"
  /\ b \in doomed
  /\ Fault
  /\ doomed' = doomed \ {b}
  /\ UNCHANGED <<active, backups, clock, fileVars, callVars, bg, toGz, seen,
                 token, stopped, ackVars, dropVars, told>>

GzOf(t) == {b \in backups : b.time = t /\ b.gz}
SrcOf(t) == {b \in backups : b.time = t /\ ~b.gz}

\* CompressFileByGzip opens the target, truncates it and copies.
GzBegin ==
  /\ bg = "pass"
  /\ doomed = {} /\ toGz # <<>>
  /\ \E b \in SrcOf(Head(toGz)) :
       backups' = (backups \ GzOf(b.time))
                    \cup {[b EXCEPT !.gz = TRUE, !.whole = FALSE]}
  /\ bg' = "copy"
  /\ UNCHANGED <<active, clock, fileVars, callVars, passVars, token, stopped,
                 ackVars, dropVars, told, faults>>

\* Faulty variant: the source is removed before the copy is complete.
GzCopiedLate ==
  /\ bg = "copy"
  /\ backups' = backups \ SrcOf(Head(toGz))
  /\ bg' = "removeSrc"
  /\ UNCHANGED <<active, clock, fileVars, callVars, passVars, token, stopped,
                 ackVars, dropVars, told, faults>>

\* The copy is complete and closed.
GzCopied ==
  /\ bg = "copy"
  /\ backups' = (backups \ GzOf(Head(toGz)))
                  \cup {[b EXCEPT !.whole = TRUE] : b \in GzOf(Head(toGz))}
  /\ bg' = "removeSrc"
  /\ UNCHANGED <<active, clock, fileVars, callVars, passVars, token, stopped,
                 ackVars, dropVars, told, faults>>

\* The source is removed.
GzDone ==
  /\ bg = "removeSrc"
  /\ backups' = backups \ SrcOf(Head(toGz))
  /\ toGz' = Tail(toGz)
  /\ bg' = "pass"
  /\ UNCHANGED <<active, clock, fileVars, callVars, doomed, seen, token, stopped,
                 ackVars, dropVars, told, faults>>

\* Any of its steps fails: the target is removed, and the pass goes on.
GzFails ==
  /\ \/ bg \in {"copy", "removeSrc"}
     \/ bg = "pass" /\ doomed = {} /\ toGz # <<>>
  /\ Fault
  /\ backups' = backups \ GzOf(Head(toGz))
  /\ toGz' = Tail(toGz)
  /\ bg' = "pass"
  /\ UNCHANGED <<active, clock, fileVars, callVars, doomed, seen, token, stopped,
                 ackVars, dropVars, told>>

BgPassEnds ==
  /\ bg = "pass"
  /\ doomed = {} /\ toGz = <<>>
  /\ bg' = "select"
  /\ UNCHANGED <<active, backups, clock, fileVars, callVars, passVars, token,
                 stopped, ackVars, dropVars, told, faults>>

-----------------------------------------------------------------------------
\* The process dies and a new one is started: the files are all that is left.
Crash ==
  /\ Fault
  /\ file' = "nil"
  /\ size' = 0
  /\ pc' = "free"
  /\ op' = "Write"
  /\ signal' = FALSE
  /\ bg' = "off"
  /\ token' = FALSE
  /\ stopped' = FALSE
  /\ doomed' = {}
  /\ toGz' = <<>>
  /\ told' = {}
  /\ seen' = {}
  /\ UNCHANGED <<active, backups, clock, ackVars, dropVars>>

CallStep ==
  \/ Stat \/ OpenAppend \/ OpenAppendFails \/ Fit \/ CloseFile
  \/ CloseFileFails \/ Rename \/ OpenNew \/ OpenNewTruncates \/ CallFails
  \/ Rollover \/ WriteRecord \/ WriteClosed

BgStep ==
  \/ BgTake \/ BgStop \/ BgList \/ BgListFails
  \/ \E b \in doomed : BgRemove(b) \/ BgRemoveFails(b)
  \/ GzBegin \/ GzCopied \/ GzDone \/ GzFails \/ BgPassEnds

Next ==
  \/ Tick \/ Write \/ Rotate \/ Close \/ CloseFails \/ CallStep \/ BgStep \/ Crash

Spec == Init /\ [][Next]_vars

\* The goroutine run goes on when it can; nobody has to write.
FairSpec == Spec /\ WF_vars(BgStep)

-----------------------------------------------------------------------------
(* Properties *)

Files == [time : Times, gz : BOOLEAN, whole : BOOLEAN, recs : Seq(Records)]

\* Every variable has its type, and no file is larger than the limit.
TypeOK ==
  /\ \/ active = Absent
     \/ active \in Seq(Records) /\ Len(active) <= MaxSize
  /\ backups \subseteq Files /\ \A b \in backups : Len(b.recs) <= MaxSize
  /\ clock \in 0..MaxTime
  /\ file \in {"nil", "open", "closed"}
  /\ size \in Nat /\ (file = "open" => size = Len(active))
  /\ pc \in {"free", "stat", "append", "fit", "closeFile", "openNew",
             "rollover", "write", "closed"}
  /\ op \in {"Write", "Rotate"}
  /\ signal \in BOOLEAN
  /\ bg \in {"off", "select", "list", "pass", "copy", "removeSrc", "exited"}
  /\ token \in BOOLEAN
  /\ stopped \in BOOLEAN
  /\ doomed \subseteq backups
  /\ toGz \in Seq(Times)
  /\ written \in 0..MaxRecords
  /\ acked \subseteq Records
  /\ dropped \subseteq Times
  /\ gone \subseteq Records
  /\ told \subseteq Times
  /\ seen \subseteq Times
  /\ faults \in 0..MaxFaults

\* The records that can still be read.
Readable ==
  (IF active = Absent THEN {} ELSE Range(active))
    \cup UNION {Range(b.recs) : b \in {c \in backups : c.whole}}

\* No record whose Write succeeded is lost, but with a backup that the rules
\* of retention deleted (or by the truncation of OpenNewTruncates): a failure
\* or a crash between the steps of a rotation or of CompressFileByGzip leaves
\* every record in some file that can be read to its end.
NothingLost == acked \subseteq Readable \cup gone

\* Only a backup is deleted that is too old, or has MaxBackups newer ones.
\* The newest backups stay, also when a rotation comes while the pass runs.
NewestKept ==
  \A t \in dropped :
    \/ Expired(t)
    \/ MaxBackups > 0 /\ Cardinality({u \in Stamps \cup dropped : u > t}) >= MaxBackups

\* No call of rollover is lost: every backup that existed when it was called
\* is there when a later pass begins, also when a pass was under way and the channel was
\* full, unless the log is closed or the process dies.
SignalSeen ==
  \A t \in Times :
    (t \in told) ~> (t \in seen \/ t \notin Stamps \/ pc = "closed" \/ bg = "off")

=============================================================================
