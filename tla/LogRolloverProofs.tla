--------------------------- MODULE LogRolloverProofs ---------------------------
(***************************************************************************)
(* Proofs about module LogRollover, for any limits of size, number and     *)
(* age, any number of records, and any number of failures and crashes.     *)
(*                                                                         *)
(* The inductive invariant is Inv, the type invariant, the two properties  *)
(* NothingLost and NewestKept, and                                         *)
(*   CallInv    what the holder of the mutex has established at each step; *)
(*   BackupInv  the two files of one backup have the same content, and the *)
(*              file that is not compressed is whole;                      *)
(*   PassInv    the pass of the goroutine compresses backups whose source  *)
(*              is there, and none that it deletes;                        *)
(*   DoomInv    what the pass will delete, the rules allow it to delete.   *)
(***************************************************************************)
EXTENDS LogRollover, SequenceTheorems, FiniteSetTheorems, TLAPS

\* The file of a backup that is not compressed is there.
HasSource(t) == \E b \in backups : b.time = t /\ ~b.gz

\* The log file is open when it is written, and no record is too much for it.
CallInv ==
  /\ file = "open" => active # Absent /\ pc \notin {"stat", "append", "openNew"}
  /\ pc \in {"stat", "append"} => file = "nil"
  /\ pc = "append" => active # Absent /\ Len(active) + 1 < MaxSize
  /\ pc = "write" => size < MaxSize
  /\ pc \in {"stat", "append", "fit", "write"} => op = "Write"
  /\ pc = "openNew" /\ op = "Rotate" => signal
  /\ pc \notin {"free", "closed"} /\ op = "Write" => written > 0

\* The files of one stamp are copies of each other.
BackupInv ==
  /\ \A b \in backups : b.time <= clock /\ (~b.gz => b.whole)
  /\ \A b, c \in backups : b.time = c.time => b.recs = c.recs

\* Between the copy and the removal of the source, the copy is there and whole.
PassInv ==
  /\ bg \notin {"pass", "copy", "removeSrc"} => doomed = {} /\ toGz = <<>>
  /\ bg \in {"copy", "removeSrc"} =>
       doomed = {} /\ toGz # <<>> /\ GzOf(Head(toGz)) # {}
  /\ bg = "removeSrc" => \A b \in GzOf(Head(toGz)) : b.whole
  /\ \A i \in 1..Len(toGz) :
       /\ HasSource(toGz[i])
       /\ \A b \in doomed : b.time # toGz[i]
       /\ \A j \in 1..Len(toGz) : i < j => toGz[i] > toGz[j]

\* The rules of retention allow the backup t to be deleted.
MayDrop(t) ==
  \/ Expired(t)
  \/ /\ MaxBackups > 0
     /\ Cardinality({u \in Stamps \cup dropped : u > t}) >= MaxBackups

DoomInv == \A b \in doomed : MayDrop(b.time)

Inv ==
  /\ TypeOK /\ CallInv /\ BackupInv /\ PassInv /\ DoomInv
  /\ NothingLost /\ NewestKept

USE DEF fileVars, callVars, passVars, bgVars, ackVars, dropVars
USE RolloverAssumption DEF RolloverAssumption

-----------------------------------------------------------------------------
(* Sets of stamps and sequences *)

\* A finite set of numbers can be listed in descending order: the pass has a
\* list of what it compresses.
LEMMA Sorted ==
    ASSUME NEW S \in SUBSET Nat, IsFiniteSet(S)
    PROVE  \E s \in [1..Cardinality(S) -> S] :
             \A i, j \in DOMAIN s : i < j => s[i] > s[j]
  <1> DEFINE n == Cardinality(S)
             Above(t) == {u \in S : u > t}
             rank == [t \in S |-> Cardinality(Above(t)) + 1]
             s == [i \in 1..n |-> CHOOSE t \in S : rank[t] = i]
  <1>1. n \in Nat
    BY FS_CardinalityType
  <1>2. ASSUME NEW t \in S
        PROVE  /\ IsFiniteSet(Above(t)) /\ Cardinality(Above(t)) \in Nat
               /\ Cardinality(Above(t)) + 1 <= n
    <2>1. Above(t) \in SUBSET (S \ {t})
      OBVIOUS
    <2>2. IsFiniteSet(S \ {t}) /\ Cardinality(S \ {t}) = n - 1
      BY FS_RemoveElement
    <2> HIDE DEF Above, n
    <2>3. /\ IsFiniteSet(Above(t)) /\ Cardinality(Above(t)) <= n - 1
      BY <2>1, <2>2, FS_Subset
    <2>4. Cardinality(Above(t)) \in Nat
      BY <2>3, FS_CardinalityType
    <2>5. QED
      BY <1>1, <2>3, <2>4
  <1>3. ASSUME NEW t \in S, NEW u \in S, t < u
        PROVE  Cardinality(Above(u)) < Cardinality(Above(t))
    <2>1. Above(u) \in SUBSET Above(t) /\ u \in Above(t) /\ u \notin Above(u)
      <3>1. t \in Nat /\ u \in Nat /\ \A v \in S : v \in Nat
        OBVIOUS
      <3>2. \A v \in S : v > u => v > t
        BY <1>3, <3>1
      <3>3. ~(u > u) /\ u > t
        BY <1>3, <3>1
      <3>4. QED
        BY <3>2, <3>3
    <2>2. IsFiniteSet(Above(t))
      BY <1>2
    <2>3. Cardinality(Above(t)) \in Nat /\ Cardinality(Above(u)) \in Nat
      BY <1>2
    <2> HIDE DEF Above
    <2>4. /\ Cardinality(Above(u)) <= Cardinality(Above(t))
          /\ Cardinality(Above(t)) = Cardinality(Above(u)) => Above(t) = Above(u)
      BY <2>1, <2>2, FS_Subset
    <2>5. QED
      BY <2>1, <2>3, <2>4
  <1>4. /\ rank \in [S -> 1..n]
        /\ \A t, u \in S : t < u => rank[u] < rank[t]
    <2> HIDE DEF Above, n
    <2>1. \A t \in S : rank[t] = Cardinality(Above(t)) + 1 /\ rank[t] \in 1..n
      BY <1>1, <1>2
    <2>2. QED
      BY <1>2, <1>3, <2>1
  <1> HIDE DEF rank
  <1>5. rank \in Injection(S, 1..n)
    <2>1. \A t, u \in S : rank[t] = rank[u] => t = u
      <3>1. \A t, u \in S : t = u \/ t < u \/ u < t
        OBVIOUS
      <3>2. QED
        BY <1>1, <1>4, <3>1
    <2>2. QED
      BY <1>4, <2>1 DEF Injection, IsInjective
  <1>6. rank \in Surjection(S, 1..n)
    <2>1. IsFiniteSet(1..n) /\ Cardinality(1..n) = n
      BY <1>1, FS_Interval
    <2>2. QED
      BY <1>5, <2>1, FS_Injection
  <1>7. \A i \in 1..n : s[i] \in S /\ rank[s[i]] = i
    <2>1. \A i \in 1..n : \E t \in S : rank[t] = i
      BY <1>6 DEF Surjection
    <2>2. QED
      BY <2>1
  <1>8. s \in [1..n -> S] /\ DOMAIN s = 1..n
    BY <1>7
  <1> HIDE DEF s, n
  <1>9. ASSUME NEW i \in 1..n, NEW j \in 1..n, i < j PROVE s[i] > s[j]
    <2>1. s[i] \in Nat /\ s[j] \in Nat
      BY <1>7
    <2>2. s[i] < s[j] => j < i
      BY <1>4, <1>7
    <2>3. s[i] # s[j]
      BY <1>7, <1>9
    <2>4. QED
      BY <1>1, <1>9, <2>1, <2>2, <2>3
  <1>10. QED
    BY <1>8, <1>9 DEF n

\* The stamps are finitely many.
LEMMA FiniteStamps ==
    ASSUME NEW S \in SUBSET Times
    PROVE  IsFiniteSet(S) /\ S \in SUBSET Nat
  <1>1. IsFiniteSet(Times)
    BY FS_Interval DEF Times
  <1>2. IsFiniteSet(S)
    BY <1>1, FS_Subset
  <1>3. QED
    BY <1>2 DEF Times

\* What a file holds after a record was written to it.
LEMMA RangeAppend ==
    ASSUME NEW s \in Seq(Records), NEW r \in Records
    PROVE  Range(s) \cup {r} \subseteq Range(Append(s, r))
  <1>1. /\ Len(s) \in Nat /\ DOMAIN s = 1..Len(s)
        /\ Append(s, r) \in Seq(Records)
        /\ Len(Append(s, r)) = Len(s) + 1
        /\ Append(s, r)[Len(s) + 1] = r
        /\ \A i \in 1..Len(s) : Append(s, r)[i] = s[i]
    BY AppendProperties, LenProperties
  <1>2. DOMAIN Append(s, r) = 1..(Len(s) + 1)
    BY <1>1, LenProperties
  <1>3. QED
    BY <1>1, <1>2 DEF Range

\* A file holds records.
LEMMA RangeRecords == \A s \in Seq(Records) : Range(s) \subseteq Records
  BY LenProperties, ElementOfSeq DEF Range

\* The log file that does not exist is no sequence of records.
LEMMA AbsentNoFile == Absent \notin Seq(Records)
  BY DEF Absent, Records

\* The failures are counted.
LEMMA FaultType == TypeOK /\ Fault => faults' \in 0..MaxFaults
  BY DEF TypeOK, Fault

\* The compressed file that CompressFileByGzip makes, before and after the copy.
LEMMA GzFile ==
    ASSUME NEW b \in Files, NEW done \in BOOLEAN
    PROVE  LET g == [b EXCEPT !.gz = TRUE, !.whole = done]
               w == [b EXCEPT !.whole = TRUE]
           IN  /\ g \in Files /\ g.time = b.time /\ g.recs = b.recs
               /\ g.gz = TRUE /\ g.whole = done
               /\ w \in Files /\ w.time = b.time /\ w.recs = b.recs
               /\ w.gz = b.gz /\ w.whole = TRUE
  BY DEF Files

\* What a pass of the goroutine deletes, and what it compresses: backups that
\* it does not delete, each once.
LEMMA PassList ==
    ASSUME TypeOK, BgList
    PROVE  /\ doomed' = {b \in backups : Excess(b.time) \/ Expired(b.time)}
           /\ toGz' \in Seq(Times)
           /\ \A i \in 1..Len(toGz') :
                /\ \E b \in backups \ doomed' : b.time = toGz'[i] /\ ~b.gz
                /\ \A j \in 1..Len(toGz') : i < j => toGz'[i] > toGz'[j]
  <1> DEFINE old == {b \in backups : Excess(b.time) \/ Expired(b.time)}
             plain == {b.time : b \in {c \in backups \ old : ~c.gz}}
             n == Cardinality(plain)
             s == CHOOSE z \in [1..n -> plain] :
                    \A i, j \in DOMAIN z : i < j => z[i] > z[j]
  <1>1. doomed' = old /\ toGz' = IF ~Compress THEN <<>> ELSE s
    BY DEF BgList
  <1>2. CASE ~Compress
    <2>1. toGz' = <<>> /\ <<>> \in Seq(Times) /\ Len(<<>>) = 0
      BY <1>1, <1>2, EmptySeq
    <2>2. 1..Len(toGz') = {}
      BY <2>1
    <2>3. QED
      BY <1>1, <2>1, <2>2
  <1>3. CASE Compress
    <2>1. plain \in SUBSET Times
      BY DEF TypeOK, Files
    <2>2. \A t \in plain : \E b \in backups \ doomed' : b.time = t /\ ~b.gz
      BY <1>1
    <2> HIDE DEF plain
    <2>3. IsFiniteSet(plain) /\ plain \in SUBSET Nat /\ n \in Nat
      BY <2>1, FiniteStamps, FS_CardinalityType
    <2>4. /\ s \in [1..n -> plain]
          /\ \A i, j \in DOMAIN s : i < j => s[i] > s[j]
      BY <2>3, Sorted
    <2> HIDE DEF s, n
    <2>5. s \in Seq(plain)
      BY <2>3, <2>4, SeqDef
    <2>6. Len(s) = n /\ DOMAIN s = 1..n
      BY <2>3, <2>4, <2>5, LenProperties
    <2>7. s \in Seq(Times)
      BY <2>1, <2>5, SeqMonotonic
    <2>8. toGz' = s
      BY <1>1, <1>3
    <2>9. \A i \in 1..n : s[i] \in plain
      BY <2>4
    <2>10. QED
      BY <1>1, <2>2, <2>4, <2>6, <2>7, <2>8, <2>9
  <1>4. QED
    BY <1>2, <1>3

-----------------------------------------------------------------------------
(* Each part of the invariant is preserved *)

\* No step gives a variable a value of another type.
LEMMA TypeNext == TypeOK /\ CallInv /\ PassInv /\ [Next]_vars => TypeOK'
  <1> SUFFICES ASSUME TypeOK, CallInv, PassInv, [Next]_vars
               PROVE  TypeOK'
    OBVIOUS
  <1> USE DEF TypeOK, CallInv
  <1>1. ASSUME Tick PROVE TypeOK'
    BY <1>1 DEF Tick
  <1>2. ASSUME Write PROVE TypeOK'
    BY <1>2 DEF Write
  <1>3. ASSUME Rotate PROVE TypeOK'
    BY <1>3 DEF Rotate
  <1>4. ASSUME Close PROVE TypeOK'
    BY <1>4 DEF Close
  <1>4a. ASSUME CloseFails PROVE TypeOK'
    BY <1>4a, FaultType DEF CloseFails
  <1>5. ASSUME Stat PROVE TypeOK'
    BY <1>5 DEF Stat
  <1>6. ASSUME OpenAppend PROVE TypeOK'
    BY <1>6 DEF OpenAppend
  <1>7. ASSUME OpenAppendFails PROVE TypeOK'
    BY <1>7, FaultType DEF OpenAppendFails
  <1>8. ASSUME Fit PROVE TypeOK'
    BY <1>8 DEF Fit
  <1>9. ASSUME CloseFile PROVE TypeOK'
    BY <1>9 DEF CloseFile
  <1>10. ASSUME CloseFileFails PROVE TypeOK'
    BY <1>10, FaultType DEF CloseFileFails
  <1>11. ASSUME Rename PROVE TypeOK'
    <2>1. active \in Seq(Records) /\ Len(active) <= MaxSize
      BY <1>11 DEF Rename
    <2>2. clock + 1 \in Times
      BY <1>11 DEF Rename, Times
    <2>3. [time |-> clock + 1, gz |-> FALSE, whole |-> TRUE, recs |-> active]
            \in Files
      BY <2>1, <2>2, Zenon DEF Files
    <2> DEFINE new == [time |-> clock + 1, gz |-> FALSE, whole |-> TRUE,
                       recs |-> active]
    <2>4. new.recs = active
      OBVIOUS
    <2> HIDE DEF new
    <2>5. backups' = backups \cup {new}
      BY <1>11 DEF Rename, new
    <2>6. backups' \subseteq Files /\ \A b \in backups' : Len(b.recs) <= MaxSize
      BY <2>1, <2>3, <2>4, <2>5 DEF new
    <2>7. doomed' \subseteq backups'
      BY <1>11, <2>5 DEF Rename
    <2>8. QED
      BY <1>11, <2>2, <2>6, <2>7 DEF Rename, Times, CallInv
  <1>12. ASSUME OpenNew PROVE TypeOK'
    BY <1>12 DEF OpenNew
  <1>13. ASSUME OpenNewTruncates PROVE TypeOK'
    <2>1. active \in Seq(Records) /\ gone' = gone \cup Range(active)
      BY <1>13 DEF OpenNewTruncates
    <2>2. gone' \subseteq Records
      BY <2>1, RangeRecords
    <2>3. QED
      BY <1>13, <2>2, FaultType DEF OpenNewTruncates
  <1>14. ASSUME CallFails PROVE TypeOK'
    BY <1>14, FaultType DEF CallFails
  <1>15. ASSUME Rollover PROVE TypeOK'
    <2>1. told' \subseteq Times
      BY <1>15 DEF Rollover, Stamps, Files
    <2>2. QED
      BY <1>15, <2>1 DEF Rollover
  <1>16. ASSUME WriteRecord PROVE TypeOK'
    <2>1. /\ written \in Records /\ active \in Seq(Records)
          /\ size = Len(active) /\ size < MaxSize
      BY <1>16 DEF WriteRecord, Records
    <2>2. active' \in Seq(Records) /\ Len(active') = Len(active) + 1
      BY <1>16, <2>1, AppendProperties DEF WriteRecord
    <2>3. QED
      BY <1>16, <2>1, <2>2 DEF WriteRecord
  <1>17. ASSUME WriteClosed PROVE TypeOK'
    BY <1>17 DEF WriteClosed
  <1>18. ASSUME BgTake PROVE TypeOK'
    BY <1>18 DEF BgTake
  <1>19. ASSUME BgStop PROVE TypeOK'
    BY <1>19 DEF BgStop
  <1>20. ASSUME BgList PROVE TypeOK'
    <2>1. doomed' \subseteq backups /\ toGz' \in Seq(Times)
      BY <1>20, PassList
    <2>2. seen' \subseteq Times
      BY <1>20 DEF BgList, Stamps, Files
    <2>3. QED
      BY <1>20, <2>1, <2>2 DEF BgList
  <1>21. ASSUME BgListFails PROVE TypeOK'
    <2>1. seen' \subseteq Times
      BY <1>21 DEF BgListFails, Stamps, Files
    <2>2. QED
      BY <1>21, <2>1, FaultType DEF BgListFails
  <1>22. ASSUME NEW b \in doomed, BgRemove(b) PROVE TypeOK'
    <2>1. b \in Files
      OBVIOUS
    <2>2. b.time \in Times /\ Range(b.recs) \subseteq Records
      BY <2>1, RangeRecords DEF Files
    <2>3. QED
      BY <1>22, <2>2 DEF BgRemove
  <1>23. ASSUME NEW b \in doomed, BgRemoveFails(b) PROVE TypeOK'
    BY <1>23, FaultType DEF BgRemoveFails
  <1>24. ASSUME GzBegin PROVE TypeOK'
    <2>1. PICK b \in SrcOf(Head(toGz)) :
            backups' = (backups \ GzOf(b.time))
                         \cup {[b EXCEPT !.gz = TRUE, !.whole = FALSE]}
      BY <1>24 DEF GzBegin
    <2>2. b \in backups
      BY DEF SrcOf
    <2> DEFINE g == [b EXCEPT !.gz = TRUE, !.whole = FALSE]
    <2>3. g \in Files /\ g.recs = b.recs
      BY <2>2, GzFile
    <2> HIDE DEF g
    <2>4. backups' \subseteq Files /\ \A c \in backups' : Len(c.recs) <= MaxSize
      BY <2>1, <2>2, <2>3 DEF g
    <2>5. QED
      BY <1>24, <2>4 DEF GzBegin
  <1>25. ASSUME GzCopied PROVE TypeOK'
    <2>1. \A b \in GzOf(Head(toGz)) : b \in backups
      BY DEF GzOf
    <2>2. \A c \in backups' \ backups : \E b \in backups :
            c = [b EXCEPT !.whole = TRUE]
      BY <1>25, <2>1 DEF GzCopied
    <2>3. ASSUME NEW c \in backups' \ backups
          PROVE  c \in Files /\ Len(c.recs) <= MaxSize
      <3>1. PICK b \in backups : c = [b EXCEPT !.whole = TRUE]
        BY <2>2
      <3>2. c \in Files /\ c.recs = b.recs
        BY <3>1, GzFile
      <3>3. QED
        BY <3>2
    <2>4. doomed = {}
      BY <1>25 DEF GzCopied, PassInv
    <2>5. QED
      BY <1>25, <2>3, <2>4 DEF GzCopied
  <1>26. ASSUME GzDone PROVE TypeOK'
    <2>1. toGz # <<>> /\ doomed = {}
      BY <1>26 DEF GzDone, PassInv
    <2>2. toGz' \in Seq(Times)
      BY <1>26, <2>1, HeadTailProperties DEF GzDone
    <2>3. QED
      BY <1>26, <2>1, <2>2 DEF GzDone
  <1>27. ASSUME GzFails PROVE TypeOK'
    <2>1. toGz # <<>> /\ doomed = {}
      BY <1>27 DEF GzFails, PassInv
    <2>2. toGz' \in Seq(Times)
      BY <1>27, <2>1, HeadTailProperties DEF GzFails
    <2>3. QED
      BY <1>27, <2>1, <2>2, FaultType DEF GzFails
  <1>28. ASSUME BgPassEnds PROVE TypeOK'
    BY <1>28 DEF BgPassEnds
  <1>29. ASSUME Crash PROVE TypeOK'
    <2>1. toGz' \in Seq(Times)
      BY <1>29, EmptySeq DEF Crash
    <2>2. QED
      BY <1>29, <2>1, FaultType DEF Crash
  <1>30. CASE UNCHANGED vars
    BY <1>30 DEF vars
  <1>31. QED
    BY <1>1, <1>2, <1>3, <1>4, <1>4a, <1>5, <1>6, <1>7, <1>8, <1>9, <1>10,
       <1>11, <1>12, <1>13, <1>14, <1>15, <1>16, <1>17, <1>18, <1>19, <1>20,
       <1>21, <1>22, <1>23, <1>24, <1>25, <1>26, <1>27, <1>28, <1>29,
       <1>30
    DEF Next, CallStep, BgStep

\* The log file is open when it is written, and has room for the record.
LEMMA CallNext == TypeOK /\ CallInv /\ [Next]_vars => CallInv'
  <1> SUFFICES ASSUME TypeOK, CallInv, [Next]_vars
               PROVE  CallInv'
    OBVIOUS
  <1> USE DEF TypeOK, CallInv, Times
  <1>1. ASSUME Tick PROVE CallInv'
    BY <1>1 DEF Tick
  <1>2. ASSUME Write PROVE CallInv'
    BY <1>2 DEF Write
  <1>3. ASSUME Rotate PROVE CallInv'
    BY <1>3 DEF Rotate
  <1>4. ASSUME Close PROVE CallInv'
    BY <1>4 DEF Close
  <1>4a. ASSUME CloseFails PROVE CallInv'
    BY <1>4a DEF CloseFails
  <1>5. ASSUME Stat PROVE CallInv'
    BY <1>5 DEF Stat
  <1>6. ASSUME OpenAppend PROVE CallInv'
    BY <1>6 DEF OpenAppend
  <1>7. ASSUME OpenAppendFails PROVE CallInv'
    BY <1>7 DEF OpenAppendFails
  <1>8. ASSUME Fit PROVE CallInv'
    BY <1>8 DEF Fit
  <1>9. ASSUME CloseFile PROVE CallInv'
    BY <1>9 DEF CloseFile
  <1>10. ASSUME CloseFileFails PROVE CallInv'
    BY <1>10 DEF CloseFileFails
  <1>11. ASSUME Rename PROVE CallInv'
    BY <1>11 DEF Rename
  <1>12. ASSUME OpenNew PROVE CallInv'
    <2>1. active' # Absent
      BY <1>12, EmptySeq, AbsentNoFile DEF OpenNew, OpenNewTruncates
    <2>2. QED
      BY <1>12, <2>1 DEF OpenNew, OpenNewTruncates
  <1>13. ASSUME OpenNewTruncates PROVE CallInv'
    <2>1. active' # Absent
      BY <1>13, EmptySeq, AbsentNoFile DEF OpenNew, OpenNewTruncates
    <2>2. QED
      BY <1>13, <2>1 DEF OpenNew, OpenNewTruncates
  <1>14. ASSUME CallFails PROVE CallInv'
    BY <1>14 DEF CallFails
  <1>15. ASSUME Rollover PROVE CallInv'
    BY <1>15 DEF Rollover
  <1>16. ASSUME WriteRecord PROVE CallInv'
    <2>1. written \in Records /\ active \in Seq(Records)
      BY <1>16 DEF WriteRecord, Records
    <2>2. active' # Absent
      <3>1. Append(active, written) \in Seq(Records)
        BY <2>1, AppendProperties
      <3>2. QED
        BY <1>16, <3>1, AbsentNoFile DEF WriteRecord
    <2>3. QED
      BY <1>16, <2>2 DEF WriteRecord
  <1>17. ASSUME WriteClosed PROVE CallInv'
    BY <1>17 DEF WriteClosed
  <1>18. ASSUME BgTake PROVE CallInv'
    BY <1>18 DEF BgTake
  <1>19. ASSUME BgStop PROVE CallInv'
    BY <1>19 DEF BgStop
  <1>20. ASSUME BgList PROVE CallInv'
    BY <1>20 DEF BgList
  <1>21. ASSUME BgListFails PROVE CallInv'
    BY <1>21 DEF BgListFails
  <1>22. ASSUME NEW b \in doomed, BgRemove(b) PROVE CallInv'
    BY <1>22 DEF BgRemove
  <1>23. ASSUME NEW b \in doomed, BgRemoveFails(b) PROVE CallInv'
    BY <1>23 DEF BgRemoveFails
  <1>24. ASSUME GzBegin PROVE CallInv'
    BY <1>24 DEF GzBegin
  <1>25. ASSUME GzCopied PROVE CallInv'
    BY <1>25 DEF GzCopied
  <1>26. ASSUME GzDone PROVE CallInv'
    BY <1>26 DEF GzDone
  <1>27. ASSUME GzFails PROVE CallInv'
    BY <1>27 DEF GzFails
  <1>28. ASSUME BgPassEnds PROVE CallInv'
    BY <1>28 DEF BgPassEnds
  <1>29. ASSUME Crash PROVE CallInv'
    BY <1>29 DEF Crash
  <1>30. CASE UNCHANGED vars
    BY <1>30 DEF vars
  <1>31. QED
    BY <1>1, <1>2, <1>3, <1>4, <1>4a, <1>5, <1>6, <1>7, <1>8, <1>9, <1>10,
       <1>11, <1>12, <1>13, <1>14, <1>15, <1>16, <1>17, <1>18, <1>19, <1>20,
       <1>21, <1>22, <1>23, <1>24, <1>25, <1>26, <1>27, <1>28, <1>29,
       <1>30
    DEF Next, CallStep, BgStep

\* A step that changes no file, no list of files and no record.
Quiet ==
  /\ UNCHANGED <<active, backups, doomed, toGz, acked, dropVars>>
  /\ clock' \in {clock, clock + 1}
  /\ \/ bg' = bg
     \/ doomed = {} /\ toGz = <<>> /\ bg' \notin {"copy", "removeSrc"}

\* The other steps make, write, delete or compress a file, begin a pass, or are
\* a crash.
LEMMA Steps ==
    ASSUME PassInv, [Next]_vars
    PROVE  \/ Quiet \/ Rename \/ OpenNew \/ OpenNewTruncates \/ WriteRecord
           \/ BgList \/ Crash
           \/ \E b \in doomed : BgRemove(b) \/ BgRemoveFails(b)
           \/ GzBegin \/ GzCopied \/ GzDone \/ GzFails
  <1>1. Tick => Quiet
    BY DEF Tick, Quiet
  <1>2. Write => Quiet
    BY DEF Write, Quiet
  <1>3. Rotate => Quiet
    BY DEF Rotate, Quiet
  <1>4. Close => Quiet
    BY DEF Close, Quiet
  <1>4a. CloseFails => Quiet
    BY DEF CloseFails, Quiet
  <1>5. Stat => Quiet
    BY DEF Stat, Quiet
  <1>6. OpenAppend => Quiet
    BY DEF OpenAppend, Quiet
  <1>7. OpenAppendFails => Quiet
    BY DEF OpenAppendFails, Quiet
  <1>8. Fit => Quiet
    BY DEF Fit, Quiet
  <1>9. CloseFile => Quiet
    BY DEF CloseFile, Quiet
  <1>10. CloseFileFails => Quiet
    BY DEF CloseFileFails, Quiet
  <1>11. CallFails => Quiet
    BY DEF CallFails, Quiet
  <1>12. Rollover => Quiet
    BY DEF Rollover, Quiet, PassInv
  <1>13. WriteClosed => Quiet
    BY DEF WriteClosed, Quiet
  <1>14. BgTake => Quiet
    BY DEF BgTake, Quiet, PassInv
  <1>15. BgStop => Quiet
    BY DEF BgStop, Quiet, PassInv
  <1>16. BgListFails => Quiet
    BY DEF BgListFails, Quiet, PassInv
  <1>17. BgPassEnds => Quiet
    BY DEF BgPassEnds, Quiet, PassInv
  <1>18. UNCHANGED vars => Quiet
    BY DEF vars, Quiet
  <1>19. QED
    BY <1>1, <1>2, <1>3, <1>4, <1>4a, <1>5, <1>6, <1>7, <1>8, <1>9, <1>10,
       <1>11, <1>12, <1>13, <1>14, <1>15, <1>16, <1>17, <1>18
    DEF Next, CallStep, BgStep

\* The shape of the files a step of CompressFileByGzip makes.
LEMMA GzSteps ==
    ASSUME TypeOK, BackupInv, PassInv
    PROVE  /\ GzBegin => \E b \in SrcOf(toGz[1]), g \in Files :
                /\ g.time = toGz[1] /\ g.recs = b.recs /\ g.gz /\ ~g.whole
                /\ backups' = (backups \ GzOf(toGz[1])) \cup {g}
           /\ GzCopied => \A c \in backups' :
                \/ c \in backups
                \/ \E b \in GzOf(toGz[1]) : /\ c.time = b.time /\ c.recs = b.recs
                                            /\ c.gz /\ c.whole
           /\ GzCopied => \A b \in backups : \E c \in backups' :
                /\ c.time = b.time /\ c.recs = b.recs /\ c.gz = b.gz
                /\ b.whole => c.whole
           /\ GzCopied => \A c \in backups' : c.time = toGz[1] /\ c.gz => c.whole
  <1>1. ASSUME GzBegin
        PROVE  \E b \in SrcOf(toGz[1]), g \in Files :
                /\ g.time = toGz[1] /\ g.recs = b.recs /\ g.gz /\ ~g.whole
                /\ backups' = (backups \ GzOf(toGz[1])) \cup {g}
    <2>1. Head(toGz) = toGz[1]
      BY <1>1 DEF GzBegin, TypeOK
    <2>2. PICK b \in SrcOf(toGz[1]) :
            backups' = (backups \ GzOf(b.time))
                         \cup {[b EXCEPT !.gz = TRUE, !.whole = FALSE]}
      BY <1>1, <2>1 DEF GzBegin
    <2>3. b \in Files /\ b.time = toGz[1]
      BY DEF SrcOf, TypeOK
    <2> DEFINE g == [b EXCEPT !.gz = TRUE, !.whole = FALSE]
    <2>4. FALSE \in BOOLEAN
      OBVIOUS
    <2>5. /\ g \in Files /\ g.time = b.time /\ g.recs = b.recs
          /\ g.gz = TRUE /\ g.whole = FALSE
      BY <2>3, <2>4, GzFile
    <2> HIDE DEF g
    <2>6. backups' = (backups \ GzOf(toGz[1])) \cup {g}
      BY <2>2, <2>3 DEF g
    <2>7. QED
      BY <2>3, <2>5, <2>6
  <1>2. ASSUME GzCopied
        PROVE  /\ \A c \in backups' :
                    \/ c \in backups /\ c \notin GzOf(toGz[1])
                    \/ \E b \in GzOf(toGz[1]) : /\ c.time = b.time
                                                /\ c.recs = b.recs
                                                /\ c.gz /\ c.whole
               /\ \A b \in GzOf(toGz[1]) : \E c \in backups' :
                    c.time = b.time /\ c.recs = b.recs /\ c.gz /\ c.whole
               /\ \A b \in backups : b \notin GzOf(toGz[1]) => b \in backups'
    <2>1. Head(toGz) = toGz[1]
      BY <1>2 DEF GzCopied, PassInv, TypeOK
    <2> DEFINE w(b) == [b EXCEPT !.whole = TRUE]
    <2>2. backups' = (backups \ GzOf(toGz[1])) \cup {w(b) : b \in GzOf(toGz[1])}
      BY <1>2, <2>1 DEF GzCopied
    <2>3. \A b \in GzOf(toGz[1]) : b \in Files /\ b.gz
      BY DEF GzOf, TypeOK
    <2>4. ASSUME NEW b \in GzOf(toGz[1])
          PROVE  /\ w(b).time = b.time /\ w(b).recs = b.recs
                 /\ w(b).gz /\ w(b).whole
      <3>1. b \in Files /\ b.gz /\ TRUE \in BOOLEAN
        BY <2>3
      <3>2. QED
        BY <3>1, GzFile
    <2> HIDE DEF w
    <2>5. QED
      BY <2>2, <2>4
  <1>3. \A c \in backups : c.time = toGz[1] /\ c.gz => c \in GzOf(toGz[1])
    BY DEF GzOf
  <1>4. \A b \in GzOf(toGz[1]) : b.time = toGz[1] /\ b \in backups /\ b.gz
    BY DEF GzOf
  <1>5. \A b \in backups : b.gz \in BOOLEAN
    BY DEF TypeOK, Files
  <1>6. QED
    BY <1>1, <1>2, <1>3, <1>4, <1>5

\* The two files of a backup stay equal: a new one gets a stamp of its own.
LEMMA BackupNext ==
    TypeOK /\ BackupInv /\ PassInv /\ [Next]_vars => BackupInv'
  <1> SUFFICES ASSUME TypeOK, BackupInv, PassInv, [Next]_vars
               PROVE  BackupInv'
    OBVIOUS
  <1>1. CASE backups' \subseteq backups /\ clock' \in {clock, clock + 1}
    BY <1>1 DEF BackupInv, TypeOK, Files, Times
  <1>2. CASE Rename
    <2> DEFINE new == [time |-> clock + 1, gz |-> FALSE, whole |-> TRUE,
                       recs |-> active]
    <2>1. new.time = clock + 1 /\ new.whole /\ clock' = clock + 1
      BY <1>2 DEF Rename
    <2>2. backups' = backups \cup {new}
      BY <1>2 DEF Rename
    <2> HIDE DEF new
    <2>3. \A b \in backups : b.time <= clock /\ b.time \in Int
      BY DEF BackupInv, TypeOK, Files, Times
    <2>4. clock \in Int
      BY DEF TypeOK
    <2>5. \A b \in backups : b.time # new.time /\ b.time <= clock'
      BY <2>1, <2>3, <2>4
    <2>6. QED
      BY <2>1, <2>2, <2>4, <2>5 DEF BackupInv
  <1>3. CASE GzBegin
    <2>1. PICK b \in SrcOf(toGz[1]), g \in Files :
            /\ g.time = toGz[1] /\ g.recs = b.recs /\ g.gz /\ ~g.whole
            /\ backups' = (backups \ GzOf(toGz[1])) \cup {g}
      BY <1>3, GzSteps
    <2>2. b \in backups /\ b.time = toGz[1] /\ clock' = clock
      BY <1>3 DEF SrcOf, GzBegin
    <2>3. QED
      BY <2>1, <2>2 DEF BackupInv
  <1>4. CASE GzCopied
    <2>1. \A c \in backups' : \E b \in backups :
            c.time = b.time /\ c.recs = b.recs /\ (c.gz \/ c = b)
      BY <1>4, GzSteps DEF GzOf
    <2>2. clock' = clock
      BY <1>4 DEF GzCopied
    <2>3. QED
      BY <2>1, <2>2 DEF BackupInv
  <1>5. QED
    <2>1. Quiet => backups' \subseteq backups /\ clock' \in {clock, clock + 1}
      BY DEF Quiet
    <2>2. OpenNew \/ OpenNewTruncates \/ WriteRecord \/ BgList \/ Crash
            => backups' \subseteq backups /\ clock' \in {clock, clock + 1}
      BY DEF OpenNew, OpenNewTruncates, WriteRecord, BgList, Crash
    <2>3. (\E b \in doomed : BgRemove(b) \/ BgRemoveFails(b)) \/ GzDone \/ GzFails
            => backups' \subseteq backups /\ clock' \in {clock, clock + 1}
      BY DEF BgRemove, BgRemoveFails, GzDone, GzFails
    <2>4. QED
      BY <1>1, <1>2, <1>3, <1>4, <2>1, <2>2, <2>3, Steps

\* What is compressed has its source, and what is deleted is something else.
LEMMA PassNext ==
    TypeOK /\ BackupInv /\ PassInv /\ [Next]_vars => PassInv'
  <1> SUFFICES ASSUME TypeOK, BackupInv, PassInv, [Next]_vars
               PROVE  PassInv'
    OBVIOUS
  <1>0. toGz \in Seq(Times) /\ Len(toGz) \in Nat
    BY LenProperties DEF TypeOK
  <1>1. CASE UNCHANGED <<bg, doomed, toGz>> /\ backups \subseteq backups'
             /\ \A c \in backups' \ backups : toGz = <<>> \/ ~c.gz
    BY <1>1, <1>0 DEF PassInv, HasSource, GzOf
  <1>2. CASE doomed' = {} /\ toGz' = <<>> /\ bg' \notin {"copy", "removeSrc"}
    <2>1. 1..Len(toGz') = {}
      BY <1>2
    <2>2. QED
      BY <1>2, <2>1 DEF PassInv
  <1>3. CASE BgList
    <2>1. /\ bg' = "pass" /\ backups' = backups
          /\ doomed' = {b \in backups : Excess(b.time) \/ Expired(b.time)}
          /\ toGz' \in Seq(Times)
          /\ \A i \in 1..Len(toGz') :
               /\ \E b \in backups \ doomed' : b.time = toGz'[i] /\ ~b.gz
               /\ \A j \in 1..Len(toGz') : i < j => toGz'[i] > toGz'[j]
      BY <1>3, PassList DEF BgList
    <2>2. \A i \in 1..Len(toGz') : \A b \in doomed' : b.time # toGz'[i]
      BY <2>1
    <2>3. \A i \in 1..Len(toGz') : \E b \in backups' : b.time = toGz'[i] /\ ~b.gz
      BY <2>1 DEF HasSource
    <2>4. QED
      BY <2>1, <2>2, <2>3 DEF PassInv, HasSource
  <1>4. ASSUME NEW b \in doomed, BgRemove(b) \/ BgRemoveFails(b)
        PROVE  PassInv'
    <2>1. /\ bg' = bg /\ toGz' = toGz /\ doomed' \subseteq doomed
          /\ backups \ {b} \subseteq backups' /\ backups' \subseteq backups
          /\ bg = "pass"
      BY <1>4 DEF BgRemove, BgRemoveFails
    <2>2. \A i \in 1..Len(toGz) : b.time # toGz[i]
      BY DEF PassInv
    <2>3. \A i \in 1..Len(toGz) : \E c \in backups' : c.time = toGz[i] /\ ~c.gz
      BY <2>1, <2>2 DEF PassInv, HasSource
    <2>4. QED
      BY <2>1, <2>3 DEF PassInv, HasSource
  <1>5. CASE GzBegin
    <2>1. PICK g \in Files :
            /\ g.time = toGz[1] /\ g.gz
            /\ backups' = (backups \ GzOf(toGz[1])) \cup {g}
      BY <1>5, GzSteps
    <2>2. /\ bg' = "copy" /\ toGz' = toGz /\ doomed' = doomed /\ toGz # <<>>
          /\ doomed = {} /\ Head(toGz) = toGz[1]
      BY <1>5, <1>0 DEF GzBegin
    <2>3. g \in GzOf(Head(toGz))'
      BY <2>1, <2>2 DEF GzOf
    <2>4. \A b \in backups : ~b.gz => b \in backups'
      BY <2>1 DEF GzOf
    <2>5. \A i \in 1..Len(toGz) : \E b \in backups' : b.time = toGz[i] /\ ~b.gz
      BY <2>4 DEF PassInv, HasSource
    <2>6. QED
      BY <2>2, <2>3, <2>5 DEF PassInv, HasSource
  <1>6. CASE GzCopied
    <2>1. /\ bg = "copy" /\ bg' = "removeSrc" /\ toGz' = toGz
          /\ doomed' = doomed /\ toGz # <<>> /\ doomed = {}
          /\ Head(toGz) = toGz[1] /\ GzOf(toGz[1]) # {}
      BY <1>6, <1>0 DEF GzCopied, PassInv
    <2>2. \A b \in backups : \E c \in backups' : c.time = b.time /\ c.gz = b.gz
      BY <1>6, GzSteps
    <2>3. \A c \in backups' : c.time = toGz[1] /\ c.gz => c.whole
      BY <1>6, GzSteps
    <2>4. \A c \in GzOf(Head(toGz))' : c.whole
      BY <2>1, <2>3 DEF GzOf
    <2>5. GzOf(Head(toGz))' # {}
      BY <2>1, <2>2 DEF GzOf
    <2>6. \A i \in 1..Len(toGz) : \E b \in backups' : b.time = toGz[i] /\ ~b.gz
      BY <2>2 DEF PassInv, HasSource
    <2>7. QED
      BY <2>1, <2>4, <2>5, <2>6 DEF PassInv, HasSource
  <1>7. CASE GzDone \/ GzFails
    <2>1. /\ toGz # <<>> /\ Head(toGz) = toGz[1] /\ doomed = {}
          /\ bg' = "pass" /\ toGz' = Tail(toGz) /\ doomed' = doomed
      BY <1>7, <1>0 DEF GzDone, GzFails, PassInv
    <2>2. \A b \in backups : b \in backups' \/ b.time = toGz[1]
      BY <1>7, <2>1 DEF GzDone, GzFails, SrcOf, GzOf
    <2>3. /\ Len(toGz') = Len(toGz) - 1
          /\ \A i \in 1..Len(toGz') : toGz'[i] = toGz[i + 1]
      BY <1>0, <2>1, HeadTailProperties
    <2>4. \A i \in 1..Len(toGz') : /\ i + 1 \in 1..Len(toGz) /\ 1 < i + 1
                                   /\ 1 \in 1..Len(toGz)
      BY <1>0, <2>3
    <2>5. \A i \in 1..Len(toGz) : toGz[i] \in Int
      BY <1>0, ElementOfSeq DEF Times
    <2>6. \A i \in 1..Len(toGz') : toGz'[i] # toGz[1]
      <3>1. \A i \in 1..Len(toGz') : toGz[1] > toGz[i + 1]
        BY <2>4 DEF PassInv
      <3>2. QED
        BY <2>3, <2>4, <2>5, <3>1
    <2>7. \A i \in 1..Len(toGz') : \E b \in backups' : b.time = toGz'[i] /\ ~b.gz
      <3>1. \A i \in 1..Len(toGz') :
              \E b \in backups : b.time = toGz'[i] /\ ~b.gz
        BY <2>3, <2>4 DEF PassInv, HasSource
      <3>2. QED
        BY <2>2, <2>6, <3>1 DEF HasSource
    <2>8. \A i, j \in 1..Len(toGz') : i < j => toGz'[i] > toGz'[j]
      <3>1. \A i, j \in 1..Len(toGz') : i < j => i + 1 < j + 1
        BY <1>0, <2>3
      <3>2. QED
        BY <2>3, <2>4, <3>1 DEF PassInv
    <2>9. QED
      BY <2>1, <2>7, <2>8 DEF PassInv, HasSource
  <1>8. CASE Quiet
    <2>1. CASE bg' = bg
      BY <1>1, <1>8, <2>1 DEF Quiet
    <2>2. CASE bg' # bg
      BY <1>2, <1>8, <2>2 DEF Quiet
    <2>3. QED
      BY <2>1, <2>2
  <1>9. CASE Rename
    <2>1. \A c \in backups' \ backups : ~c.gz
      BY <1>9 DEF Rename
    <2>2. QED
      BY <1>1, <1>9, <2>1 DEF Rename
  <1>10. CASE OpenNew \/ OpenNewTruncates \/ WriteRecord
    BY <1>1, <1>10 DEF OpenNew, OpenNewTruncates, WriteRecord
  <1>11. CASE Crash
    BY <1>2, <1>11 DEF Crash
  <1>12. QED
    BY <1>3, <1>4, <1>5, <1>6, <1>7, <1>8, <1>9, <1>10, <1>11, Steps

\* A record that can be read is in the log file or in a whole backup.
LEMMA ReadableIn ==
    ASSUME NEW r
    PROVE  r \in Readable <=> \/ active # Absent /\ r \in Range(active)
                              \/ \E b \in backups : b.whole /\ r \in Range(b.recs)
  BY DEF Readable

\* A record whose Write succeeded stays where it can be read, or is deleted by
\* the rules.
LEMMA LossNext ==
    TypeOK /\ CallInv /\ BackupInv /\ PassInv /\ NothingLost /\ [Next]_vars
      => NothingLost'
  <1> SUFFICES ASSUME TypeOK, CallInv, BackupInv, PassInv, NothingLost,
                      [Next]_vars
               PROVE  NothingLost'
    OBVIOUS
  <1> DEFINE Held(r) == \/ active # Absent /\ r \in Range(active)
                        \/ \E b \in backups : b.whole /\ r \in Range(b.recs)
  <1>1. \A r \in acked : Held(r) \/ r \in gone
    BY ReadableIn DEF NothingLost
  <1>2. SUFFICES \A r \in acked' : Held(r)' \/ r \in gone'
    BY DEF NothingLost, Readable
  <1>3. CASE /\ UNCHANGED <<active, acked>> /\ gone \subseteq gone'
             /\ \A b \in backups : b.whole =>
                  \/ \E c \in backups' : c.whole /\ c.recs = b.recs
                  \/ Range(b.recs) \subseteq gone'
    BY <1>1, <1>3
  <1>4. CASE Rename
    <2> DEFINE new == [time |-> clock + 1, gz |-> FALSE, whole |-> TRUE,
                       recs |-> active]
    <2>1. new.whole /\ new.recs = active
      OBVIOUS
    <2>2. backups' = backups \cup {new} /\ UNCHANGED <<acked, gone>>
      BY <1>4 DEF Rename
    <2> HIDE DEF new
    <2>3. QED
      BY <1>1, <2>1, <2>2
  <1>5. CASE OpenNew
    BY <1>1, <1>5 DEF OpenNew
  <1>6. CASE OpenNewTruncates
    BY <1>1, <1>6 DEF OpenNewTruncates
  <1>7. CASE WriteRecord
    <2>1. /\ active' = Append(active, written) /\ acked' = acked \cup {written}
          /\ UNCHANGED <<backups, gone>>
      BY <1>7 DEF WriteRecord
    <2>2. active \in Seq(Records) /\ written \in Records
      BY <1>7 DEF WriteRecord, CallInv, TypeOK, Records
    <2>3. Range(active) \cup {written} \subseteq Range(active')
      BY <2>1, <2>2, RangeAppend
    <2>4. active' # Absent
      <3>1. Append(active, written) \in Seq(Records)
        BY <2>2, AppendProperties
      <3>2. QED
        BY <2>1, <3>1, AbsentNoFile
    <2>5. QED
      BY <1>1, <2>1, <2>3, <2>4
  <1>8. ASSUME NEW b \in doomed, BgRemove(b) \/ BgRemoveFails(b)
        PROVE  \A r \in acked' : Held(r)' \/ r \in gone'
    <2>1. /\ UNCHANGED <<active, acked>> /\ gone \subseteq gone'
          /\ \A c \in backups : c \in backups' \/ Range(c.recs) \subseteq gone'
      BY <1>8 DEF BgRemove, BgRemoveFails
    <2>2. QED
      BY <1>3, <2>1
  <1>9. CASE GzBegin
    <2>1. PICK b \in SrcOf(toGz[1]), g \in Files :
            backups' = (backups \ GzOf(toGz[1])) \cup {g}
      BY <1>9, GzSteps
    <2>2. b \in backups /\ b.time = toGz[1] /\ b.whole /\ b \in backups'
      BY <2>1 DEF SrcOf, GzOf, BackupInv
    <2>3. \A c \in backups : c \in backups' \/ c.recs = b.recs
      BY <2>1, <2>2 DEF GzOf, BackupInv
    <2>4. UNCHANGED <<active, acked, gone>>
      BY <1>9 DEF GzBegin
    <2>5. QED
      BY <1>3, <2>2, <2>3, <2>4
  <1>10. CASE GzCopied
    <2>1. \A b \in backups : \E c \in backups' :
            c.recs = b.recs /\ (b.whole => c.whole)
      BY <1>10, GzSteps
    <2>2. UNCHANGED <<active, acked, gone>>
      BY <1>10 DEF GzCopied
    <2>3. QED
      BY <1>3, <2>1, <2>2
  <1>11. CASE GzDone
    <2>1. PICK g \in GzOf(Head(toGz)) : g.whole
      BY <1>11 DEF GzDone, PassInv
    <2>2. backups' = backups \ SrcOf(Head(toGz)) /\ UNCHANGED <<active, acked, gone>>
      BY <1>11 DEF GzDone
    <2>3. g \in backups' /\ g.time = Head(toGz) /\ g \in backups
      BY <2>2 DEF GzOf, SrcOf
    <2>4. \A c \in backups : c \in backups' \/ c.recs = g.recs
      BY <2>2, <2>3 DEF SrcOf, BackupInv
    <2>5. QED
      BY <1>3, <2>1, <2>2, <2>3, <2>4
  <1>12. CASE GzFails
    <2>1. /\ toGz # <<>> /\ Head(toGz) = toGz[1] /\ 1 \in 1..Len(toGz)
      BY <1>12, LenProperties DEF GzFails, PassInv, TypeOK
    <2>2. PICK s \in backups : s.time = toGz[1] /\ ~s.gz
      BY <2>1 DEF PassInv, HasSource
    <2>3. /\ backups' = backups \ GzOf(toGz[1])
          /\ UNCHANGED <<active, acked, gone>>
      BY <1>12, <2>1 DEF GzFails
    <2>4. s \in backups' /\ s.whole
      BY <2>2, <2>3 DEF GzOf, BackupInv
    <2>5. \A c \in backups : c \in backups' \/ c.recs = s.recs
      BY <2>2, <2>3 DEF GzOf, BackupInv
    <2>6. QED
      BY <1>3, <2>3, <2>4, <2>5
  <1>13. CASE Quiet \/ BgList \/ Crash
    BY <1>3, <1>13 DEF Quiet, BgList, Crash
  <1>14. QED
    <2> HIDE DEF Held
    <2>1. QED
      BY <1>4, <1>5, <1>6, <1>7, <1>8, <1>9, <1>10, <1>11, <1>12, <1>13, Steps

\* A stamp that was once there is still there, or was dropped.
LEMMA StampsStay ==
    TypeOK /\ BackupInv /\ PassInv /\ [Next]_vars =>
      /\ Stamps \cup dropped \subseteq Stamps' \cup dropped'
      /\ clock <= clock' /\ clock' \in Int
  <1> SUFFICES ASSUME TypeOK, BackupInv, PassInv, [Next]_vars
               PROVE  /\ Stamps \cup dropped \subseteq Stamps' \cup dropped'
                      /\ clock <= clock' /\ clock' \in Int
    OBVIOUS
  <1>0. clock \in Int
    BY DEF TypeOK
  <1>1. CASE /\ \A b \in backups : \/ \E c \in backups' : c.time = b.time
                                   \/ b.time \in dropped'
             /\ dropped \subseteq dropped' /\ clock' \in {clock, clock + 1}
    BY <1>0, <1>1 DEF Stamps
  <1>2. CASE Quiet \/ OpenNew \/ OpenNewTruncates \/ WriteRecord \/ BgList \/ Crash
    BY <1>1, <1>2 DEF Quiet, OpenNew, OpenNewTruncates, WriteRecord, BgList, Crash
  <1>3. CASE Rename
    BY <1>1, <1>3 DEF Rename
  <1>4. ASSUME NEW b \in doomed, BgRemove(b) \/ BgRemoveFails(b)
        PROVE  /\ Stamps \cup dropped \subseteq Stamps' \cup dropped'
               /\ clock <= clock' /\ clock' \in Int
    BY <1>1, <1>4 DEF BgRemove, BgRemoveFails
  <1>5. CASE GzBegin
    <2>1. PICK g \in Files :
            /\ g.time = toGz[1]
            /\ backups' = (backups \ GzOf(toGz[1])) \cup {g}
      BY <1>5, GzSteps
    <2>2. UNCHANGED <<clock, dropped>>
      BY <1>5 DEF GzBegin
    <2>3. QED
      BY <1>1, <2>1, <2>2 DEF GzOf
  <1>6. CASE GzCopied
    <2>1. UNCHANGED <<clock, dropped>>
      BY <1>6 DEF GzCopied
    <2>2. QED
      BY <1>1, <1>6, <2>1, GzSteps
  <1>7. CASE GzDone
    <2>1. PICK g \in GzOf(Head(toGz)) : g.whole
      BY <1>7 DEF GzDone, PassInv
    <2>2. backups' = backups \ SrcOf(Head(toGz)) /\ UNCHANGED <<clock, dropped>>
      BY <1>7 DEF GzDone
    <2>3. g \in backups' /\ g.time = Head(toGz)
      BY <2>2 DEF GzOf, SrcOf
    <2>4. \A b \in backups : b \in backups' \/ b.time = g.time
      BY <2>2, <2>3 DEF SrcOf
    <2>5. QED
      BY <1>1, <2>2, <2>3, <2>4
  <1>8. CASE GzFails
    <2>1. /\ toGz # <<>> /\ Head(toGz) = toGz[1] /\ 1 \in 1..Len(toGz)
      BY <1>8, LenProperties DEF GzFails, PassInv, TypeOK
    <2>2. PICK s \in backups : s.time = toGz[1] /\ ~s.gz
      BY <2>1 DEF PassInv, HasSource
    <2>3. backups' = backups \ GzOf(toGz[1]) /\ UNCHANGED <<clock, dropped>>
      BY <1>8, <2>1 DEF GzFails
    <2>4. QED
      BY <1>1, <2>2, <2>3 DEF GzOf
  <1>9. QED
    BY <1>2, <1>3, <1>4, <1>5, <1>6, <1>7, <1>8, Steps

\* What is too old stays too old.
LEMMA StillOld ==
    ASSUME NEW t \in Int, NEW now \in Int, NEW later \in Int, NEW age \in Int,
           now <= later, t < now - age
    PROVE  t < later - age
  OBVIOUS

\* What may be deleted may be deleted later too.
LEMMA MayDropStays ==
    ASSUME TypeOK, TypeOK', clock <= clock',
           Stamps \cup dropped \subseteq Stamps' \cup dropped',
           NEW t \in Times, MayDrop(t)
    PROVE  MayDrop(t)'
  <1>1. CASE Expired(t)
    <2>1. clock \in Int /\ clock' \in Int /\ t \in Int
      BY DEF TypeOK, Times
    <2>2. MaxAge \in Int /\ MaxAge > 0 /\ t < clock - MaxAge
      BY <1>1 DEF Expired
    <2>3. t < clock' - MaxAge
      BY <2>1, <2>2, StillOld, Zenon
    <2>4. Expired(t)'
      BY <2>2, <2>3 DEF Expired
    <2>5. QED
      BY <2>4 DEF MayDrop
  <1>2. CASE ~Expired(t)
    <2> DEFINE old == {u \in Stamps \cup dropped : u > t}
               now == {u \in Stamps' \cup dropped' : u > t}
    <2>1. now \in SUBSET Times /\ old \in SUBSET now
      BY DEF TypeOK, Stamps, Files
    <2>2. MaxBackups > 0 /\ Cardinality(old) >= MaxBackups
      BY <1>2 DEF MayDrop
    <2>3. SUFFICES Cardinality(now) >= MaxBackups
      BY <2>2 DEF MayDrop
    <2> HIDE DEF old, now
    <2>4. IsFiniteSet(now) /\ IsFiniteSet(old)
      BY <2>1, FiniteStamps, FS_Subset
    <2>5. /\ Cardinality(now) \in Nat /\ Cardinality(old) \in Nat
          /\ Cardinality(old) <= Cardinality(now)
      BY <2>1, <2>4, FS_Subset, FS_CardinalityType
    <2>6. QED
      BY <2>2, <2>5
  <1>3. QED
    BY <1>1, <1>2

\* The stamps of the files are stamps.
LEMMA StampTypes ==
    TypeOK => /\ Stamps \subseteq Times /\ dropped \subseteq Times
              /\ \A b \in doomed : b.time \in Times
  BY DEF TypeOK, Files, Stamps

\* A pass deletes what the rules allow, also when a rotation comes meanwhile.
LEMMA DropNext ==
    ASSUME TypeOK, BackupInv, PassInv, DoomInv, NewestKept, TypeOK', [Next]_vars
    PROVE  DoomInv' /\ NewestKept'
  <1>1. \A t \in Times : MayDrop(t) => MayDrop(t)'
    BY StampsStay, MayDropStays
  <1>2. \A t \in dropped : MayDrop(t)
    BY DEF NewestKept, MayDrop
  <1>3. \A b \in doomed : MayDrop(b.time)' /\ b.time \in Times
    BY <1>1, StampTypes DEF DoomInv
  <1>4. \A t \in dropped : MayDrop(t)'
    BY <1>1, <1>2, StampTypes
  <1>5. SUFFICES /\ \A b \in doomed' : MayDrop(b.time)'
                 /\ \A t \in dropped' : MayDrop(t)'
    BY DEF DoomInv, NewestKept, MayDrop
  <1> HIDE DEF MayDrop
  <1>6. CASE doomed' \subseteq doomed /\ dropped' = dropped
    BY <1>3, <1>4, <1>6
  <1>7. CASE BgList
    <2>1. /\ doomed' = {b \in backups : Excess(b.time) \/ Expired(b.time)}
          /\ UNCHANGED <<backups, dropped>>
      BY <1>7, PassList DEF BgList
    <2>2. ASSUME NEW b \in backups, Excess(b.time) \/ Expired(b.time)
          PROVE  MayDrop(b.time)'
      <3>1. b.time \in Times
        BY DEF TypeOK, Files
      <3>2. CASE Expired(b.time)
        BY <1>1, <3>1, <3>2 DEF MayDrop
      <3>3. CASE Excess(b.time)
        <4> DEFINE old == {u \in Stamps : u > b.time}
                   all == {u \in Stamps \cup dropped : u > b.time}
        <4>1. old \in SUBSET all /\ all \in SUBSET Times
          BY StampTypes
        <4>2. MaxBackups > 0 /\ Cardinality(old) >= MaxBackups
          BY <3>3 DEF Excess
        <4>3. Cardinality(all) >= MaxBackups => MayDrop(b.time)
          BY <4>2 DEF MayDrop
        <4> HIDE DEF old, all
        <4>4. IsFiniteSet(all) /\ IsFiniteSet(old)
          BY <4>1, FiniteStamps, FS_Subset
        <4>5. /\ Cardinality(all) \in Nat /\ Cardinality(old) \in Nat
              /\ Cardinality(old) <= Cardinality(all)
          BY <4>1, <4>4, FS_Subset, FS_CardinalityType
        <4>6. QED
          BY <1>1, <3>1, <4>2, <4>3, <4>5
      <3>4. QED
        BY <2>2, <3>2, <3>3
    <2>3. QED
      BY <1>4, <2>1, <2>2
  <1>8. ASSUME NEW b \in doomed, BgRemove(b) \/ BgRemoveFails(b)
        PROVE  /\ \A c \in doomed' : MayDrop(c.time)'
               /\ \A t \in dropped' : MayDrop(t)'
    <2>1. doomed' \subseteq doomed /\ dropped' \subseteq dropped \cup {b.time}
      BY <1>8 DEF BgRemove, BgRemoveFails
    <2>2. QED
      BY <1>3, <1>4, <2>1
  <1>9. Quiet \/ Rename \/ OpenNew \/ OpenNewTruncates \/ WriteRecord \/ Crash
          => doomed' \subseteq doomed /\ dropped' = dropped
    BY DEF Quiet, Rename, OpenNew, OpenNewTruncates, WriteRecord, Crash
  <1>10. GzBegin \/ GzCopied \/ GzDone \/ GzFails
          => doomed' \subseteq doomed /\ dropped' = dropped
    BY DEF GzBegin, GzCopied, GzDone, GzFails
  <1>11. QED
    BY <1>6, <1>7, <1>8, <1>9, <1>10, Steps

-----------------------------------------------------------------------------
(* The invariant *)

\* A new process establishes the invariant.
THEOREM InvInit == Init => Inv
  <1> SUFFICES ASSUME Init PROVE Inv
    OBVIOUS
  <1>1. TypeOK
    <2>1. <<>> \in Seq(Records) /\ <<>> \in Seq(Times) /\ Len(<<>>) = 0
      BY EmptySeq
    <2>2. active = Absent \/ (active \in Seq(Records) /\ Len(active) <= MaxSize)
      <3>1. CASE active = Absent
        BY <3>1
      <3>2. CASE active = <<>>
        BY <2>1, <3>2
      <3>3. QED
        BY <3>1, <3>2 DEF Init
    <2>3. /\ backups \subseteq Files /\ \A b \in backups : Len(b.recs) <= MaxSize
          /\ doomed \subseteq backups /\ toGz \in Seq(Times)
      BY <2>1 DEF Init
    <2>4. signal \in BOOLEAN /\ token \in BOOLEAN /\ stopped \in BOOLEAN
      BY Zenon DEF Init
    <2>5. /\ clock \in 0..MaxTime /\ written \in 0..MaxRecords
          /\ faults \in 0..MaxFaults
      BY DEF Init
    <2>6. /\ acked \subseteq Records /\ dropped \subseteq Times
          /\ gone \subseteq Records /\ told \subseteq Times
          /\ seen \subseteq Times
      BY DEF Init
    <2>7. /\ file \in {"nil", "open", "closed"} /\ op \in {"Write", "Rotate"}
          /\ size \in Nat /\ (file = "open" => size = Len(active))
          /\ pc = "free" /\ bg = "off"
      BY DEF Init
    <2>8. QED
      BY <2>2, <2>3, <2>4, <2>5, <2>6, <2>7 DEF TypeOK
  <1>2. CallInv /\ BackupInv /\ DoomInv /\ NothingLost /\ NewestKept
    BY DEF Init, CallInv, BackupInv, DoomInv, NothingLost, NewestKept
  <1>3. PassInv
    <2>1. 1..Len(toGz) = {}
      BY DEF Init
    <2>2. QED
      BY <2>1 DEF Init, PassInv
  <1>4. QED
    BY <1>1, <1>2, <1>3 DEF Inv

\* Every step preserves the invariant.
THEOREM InvNext == Inv /\ [Next]_vars => Inv'
  <1> SUFFICES ASSUME Inv, [Next]_vars PROVE Inv'
    OBVIOUS
  <1>1. /\ TypeOK /\ CallInv /\ BackupInv /\ PassInv /\ DoomInv
        /\ NothingLost /\ NewestKept
    BY DEF Inv
  <1>2. TypeOK' /\ CallInv'
    BY <1>1, TypeNext, CallNext
  <1>3. BackupInv' /\ PassInv' /\ NothingLost'
    BY <1>1, BackupNext, PassNext, LossNext
  <1>4. DoomInv' /\ NewestKept'
    BY <1>1, <1>2, DropNext
  <1>5. QED
    BY <1>2, <1>3, <1>4 DEF Inv

\* The invariant holds in every reachable state.
THEOREM Invariance == Spec => []Inv
  BY InvInit, InvNext, PTL DEF Spec

\* Every variable has its type, and no file exceeds the limit of its size.
THEOREM TypeCorrect == Spec => []TypeOK
  <1>1. Inv => TypeOK
    BY DEF Inv
  <1>2. QED
    BY <1>1, Invariance, PTL

\* No record whose Write succeeded is lost by a rotation, a compression, a
\* failure or a crash: it can be read, or was deleted by the rules.
THEOREM Durable == Spec => []NothingLost
  <1>1. Inv => NothingLost
    BY DEF Inv
  <1>2. QED
    BY <1>1, Invariance, PTL

\* Only a backup is deleted that is too old or has MaxBackups newer ones.
THEOREM Retention == Spec => []NewestKept
  <1>1. Inv => NewestKept
    BY DEF Inv
  <1>2. QED
    BY <1>1, Invariance, PTL

=============================================================================
