---------------------------- MODULE StoreProofs -----------------------------
(* Proofs about Store, for every set of processes, releases and backups.   *)
EXTENDS Store, TLAPS

Copying(b) == job[b].at = "copying"

\* What a process may rely on at each point of migrate(): the schema it read
\* only grows while it runs, so what it has still to apply is an interval that
\* starts no later than the schema ends.
ProcInv(p) ==
  /\ pc[p] = "opened" => 1 <= Len(db.versions)
  /\ pc[p] = "migrating" =>
       \E k \in 1..Len(db.versions) : todo[p] = k..Known[p]
  /\ pc[p] \in {"ready", "copying"} => Known[p] < Len(db.versions)

\* What a backup has read is a database, with all that was due.
JobInv(b) ==
  /\ job[b].due \subseteq db.rows
  /\ Copying(b) =>
       /\ job[b].path \in Path /\ files[job[b].path] = Partial
       /\ job[b].saw \in Databases
       /\ job[b].due \subseteq job[b].saw.rows
       /\ InOrder(job[b].saw.versions)
  /\ job[b].at = "checked" => job[b].path \in Path

\* Nobody else writes the file a backup is writing.
OneWriterPerFile ==
  \A b, c \in Backup : Copying(b) /\ Copying(c) /\ job[b].path = job[c].path => b = c

FileInv(t) ==
  Finished(files[t]) => files[t].due \subseteq files[t].db.rows /\ InOrder(files[t].db.versions)

IInv ==
  /\ TypeOK
  /\ disk = {db}
  /\ InOrder(db.versions)
  /\ acked \subseteq db.rows
  /\ \A p \in Proc : ProcInv(p)
  /\ \A b \in Backup : JobInv(b)
  /\ OneWriterPerFile
  /\ \A t \in Path : FileInv(t)

-----------------------------------------------------------------------------
(* Schemas in order.                                                       *)

\* A schema in order has the versions below its length and no others.
LEMMA InOrderRange ==
  ASSUME NEW s \in Seq(Nat), InOrder(s), NEW m \in Nat
  PROVE  m \in Range(s) <=> m < Len(s)
<1>1. ASSUME m \in Range(s)
      PROVE  m < Len(s)
  <2>1. PICK i \in 1..Len(s) : s[i] = m
    BY <1>1 DEF Range
  <2> QED
    BY <2>1 DEF InOrder
<1>2. ASSUME m < Len(s)
      PROVE  m \in Range(s)
  <2>1. m + 1 \in 1..Len(s)
    BY <1>2
  <2>2. s[m + 1] = m
    BY <2>1 DEF InOrder
  <2> QED
    BY <2>1, <2>2 DEF Range
<1> QED
  BY <1>1, <1>2

\* It stays in order when the version that is next is appended.
LEMMA InOrderAppend ==
  ASSUME NEW s \in Seq(Nat), InOrder(s), NEW m \in Nat, m = Len(s)
  PROVE  /\ Append(s, m) \in Seq(Nat)
         /\ InOrder(Append(s, m))
         /\ Len(Append(s, m)) = Len(s) + 1
  BY DEF InOrder

\* The migrations a process finds pending are an interval that starts where
\* the schema ends, or before.
LEMMA PendingIsInterval ==
  ASSUME NEW p \in Proc, db \in Databases, InOrder(db.versions), 1 <= Len(db.versions)
  PROVE  \E k \in 1..Len(db.versions) : Pending(p) = k..Known[p]
<1>1. Known[p] \in Nat
  BY StoreAssumption
<1>2. \A m \in 1..Known[p] : m \in Pending(p) <=> Len(db.versions) <= m
  BY <1>1, InOrderRange DEF Pending, Databases
<1>3. Pending(p) = Len(db.versions)..Known[p]
  BY <1>1, <1>2 DEF Pending, Databases
<1> QED
  BY <1>3 DEF Databases

\* The first of an interval that is not empty is where it starts.
LEMMA FirstOfInterval ==
  ASSUME NEW k \in Nat, NEW n \in Nat, k <= n
  PROVE  FirstOf(k..n) = k
<1>1. \E m \in k..n : \A i \in k..n : m <= i
  <2>1. k \in k..n /\ \A i \in k..n : k <= i
    OBVIOUS
  <2> QED
    BY <2>1
<1>2. FirstOf(k..n) \in k..n /\ \A i \in k..n : FirstOf(k..n) <= i
  BY <1>1 DEF FirstOf
<1> QED
  BY <1>2

-----------------------------------------------------------------------------
(* The inductive invariant.                                                *)

\* It holds of a database that was never opened.
LEMMA InitIInv == Init => IInv
<1> SUFFICES ASSUME Init
             PROVE  IInv
  OBVIOUS
<1>1. TypeOK
  BY StoreAssumption DEF Init, TypeOK, Databases, Files, Jobs, Idle
<1>2. InOrder(db.versions)
  BY DEF Init, InOrder
<1>3. \A p \in Proc : ProcInv(p)
  BY DEF Init, ProcInv
<1>4. \A b \in Backup : JobInv(b)
  BY DEF Init, JobInv, Copying, Idle
<1>5. OneWriterPerFile
  BY DEF Init, OneWriterPerFile, Copying, Idle
<1>6. \A t \in Path : FileInv(t)
  BY DEF Init, FileInv, Finished
<1> QED
  BY <1>1, <1>2, <1>3, <1>4, <1>5, <1>6 DEF Init, IInv

\* A database that only grows keeps what processes and backups rely on.
Grown == /\ db' \in Databases
         /\ Len(db.versions) <= Len(db'.versions)
         /\ db.rows \subseteq db'.rows
         /\ InOrder(db'.versions)

\* So does one that took on the version that is next.
LEMMA NextVersionGrows ==
  ASSUME db \in Databases, InOrder(db.versions), NEW s \in Seq(Nat), InOrder(s),
         Len(db.versions) <= Len(s), db' = [db EXCEPT !.versions = s]
  PROVE  Grown /\ db'.versions = s /\ db'.rows = db.rows
<1>1. db = [versions |-> db.versions, rows |-> db.rows]
  BY DEF Databases
<1>2. db'.versions = s /\ db'.rows = db.rows
  BY <1>1
<1>3. db' \in Databases
  BY <1>1 DEF Databases
<1> QED
  BY <1>2, <1>3 DEF Grown

LEMMA GrownKeepsProc ==
  ASSUME IInv, Grown, NEW p \in Proc, pc'[p] = pc[p], todo'[p] = todo[p]
  PROVE  ProcInv(p)'
<1>1. Len(db.versions) \in Nat /\ Len(db'.versions) \in Nat /\ Known[p] \in Nat
  BY StoreAssumption DEF IInv, TypeOK, Databases, Grown
<1>2. ProcInv(p)
  BY DEF IInv
<1>3. 1..Len(db.versions) \subseteq 1..Len(db'.versions)
  BY <1>1 DEF Grown
<1> QED
  BY <1>1, <1>2, <1>3 DEF ProcInv, Grown

LEMMA GrownKeepsJobs ==
  ASSUME IInv, Grown, UNCHANGED backups
  PROVE  /\ \A b \in Backup : JobInv(b)'
         /\ OneWriterPerFile'
         /\ \A t \in Path : FileInv(t)'
<1>1. \A b \in Backup : JobInv(b)'
  BY DEF IInv, JobInv, Copying, Grown, backups
<1>2. OneWriterPerFile'
  BY DEF IInv, OneWriterPerFile, Copying, backups
<1>3. \A t \in Path : FileInv(t)'
  BY DEF IInv, FileInv, backups
<1> QED
  BY <1>1, <1>2, <1>3

\* Processes that are down rely on nothing.
LEMMA DownRelyOnNothing ==
  ASSUME NEW p, pc'[p] = "down"
  PROVE  ProcInv(p)'
  BY DEF ProcInv

LEMMA OpenIInv == ASSUME IInv, NEW p \in Proc, Open(p) PROVE IInv'
<1> USE DEF IInv
<1>1. Grown /\ disk' = {db'} /\ 1 <= Len(db'.versions) /\ db'.rows = db.rows
  <2>1. CASE db.versions = <<>>
    <3>1. db' = [db EXCEPT !.versions = <<0>>] /\ disk' = {db'}
      BY <2>1 DEF Open, Commit, LeftByPowerCut
    <3>2. <<0>> \in Seq(Nat) /\ InOrder(<<0>>) /\ Len(<<0>>) = 1
      BY DEF InOrder
    <3>3. db \in Databases /\ Len(db.versions) <= Len(<<0>>)
      BY <2>1 DEF TypeOK
    <3>4. Grown /\ db'.versions = <<0>> /\ db'.rows = db.rows
      BY <3>1, <3>2, <3>3, NextVersionGrows
    <3> QED
      BY <3>1, <3>2, <3>4
  <2>2. CASE db.versions # <<>>
    <3>1. db' = db /\ disk' = disk
      BY <2>2 DEF Open
    <3>2. 1 <= Len(db.versions)
      BY <2>2 DEF TypeOK, Databases
    <3> QED
      BY <3>1, <3>2 DEF Grown, TypeOK, Databases
  <2> QED
    BY <2>1, <2>2
<1>2. TypeOK'
  BY <1>1 DEF TypeOK, Open, Grown, backups
<1>3. \A q \in Proc : ProcInv(q)'
  <2> SUFFICES ASSUME NEW q \in Proc
               PROVE  ProcInv(q)'
    OBVIOUS
  <2>1. CASE q = p
    BY <1>1, <2>1 DEF Open, ProcInv, TypeOK
  <2>2. CASE q # p
    BY <1>1, <2>2, GrownKeepsProc DEF Open, TypeOK
  <2> QED
    BY <2>1, <2>2
<1>4. UNCHANGED backups
  BY DEF Open
<1> QED
  BY <1>1, <1>2, <1>3, <1>4, GrownKeepsJobs DEF Open, Grown

LEMMA SelectIInv == ASSUME IInv, NEW p \in Proc, SelectApplied(p) PROVE IInv'
<1> USE DEF IInv
<1>1. Grown
  BY DEF SelectApplied, Grown, TypeOK, Databases
<1>2. PICK k \in 1..Len(db.versions) : Pending(p) = k..Known[p]
  BY PendingIsInterval DEF SelectApplied, ProcInv, TypeOK
<1>3. TypeOK'
  <2>1. Pending(p) \subseteq Nat
    BY StoreAssumption DEF Pending
  <2> QED
    BY <2>1 DEF TypeOK, SelectApplied, backups
<1>4. \A q \in Proc : ProcInv(q)'
  <2> SUFFICES ASSUME NEW q \in Proc
               PROVE  ProcInv(q)'
    OBVIOUS
  <2>1. CASE q = p
    BY <1>2, <2>1 DEF SelectApplied, ProcInv, TypeOK
  <2>2. CASE q # p
    BY <1>1, <2>2, GrownKeepsProc DEF SelectApplied, TypeOK
  <2> QED
    BY <2>1, <2>2
<1>5. UNCHANGED backups
  BY DEF SelectApplied
<1> QED
  BY <1>1, <1>3, <1>4, <1>5, GrownKeepsJobs DEF SelectApplied

\* Where the migration is new to the schema it is the next one.
LEMMA ApplyIInv == ASSUME IInv, NEW p \in Proc, Apply(p) PROVE IInv'
<1> USE DEF IInv
<1> DEFINE m == FirstOf(todo[p])
<1>1. PICK k \in 1..Len(db.versions) : todo[p] = k..Known[p]
  BY DEF Apply, ProcInv
<1>2. Known[p] \in Nat /\ k \in Nat /\ Len(db.versions) \in Nat /\ k <= Known[p]
  BY <1>1, StoreAssumption DEF Apply, TypeOK, Databases
<1>3. m = k
  BY <1>1, <1>2, FirstOfInterval
<1>4. UNCHANGED <<main, acked, backups, env, kills>>
  BY DEF Apply
<1>5. CASE ~Fails(m)
  <2>1. m = Len(db.versions)
    BY <1>2, <1>3, <1>5, InOrderRange DEF Fails, TypeOK, Databases
  <2>2. /\ db' = [db EXCEPT !.versions = Append(@, m)]
        /\ disk' = {db'}
        /\ todo' = [todo EXCEPT ![p] = @ \ {m}]
        /\ pc' = pc
    BY <1>5 DEF Apply, Commit, LeftByPowerCut
  <2>3. Grown /\ Len(db'.versions) = Len(db.versions) + 1 /\ db'.rows = db.rows
    <3>1. db \in Databases /\ db.versions \in Seq(Nat) /\ m \in Nat
      BY <1>2, <1>3 DEF TypeOK, Databases
    <3>2. /\ Append(db.versions, m) \in Seq(Nat) /\ InOrder(Append(db.versions, m))
          /\ Len(Append(db.versions, m)) = Len(db.versions) + 1
      BY <2>1, <3>1, InOrderAppend
    <3>3. db' = [db EXCEPT !.versions = Append(db.versions, m)]
      BY <2>2
    <3>4. Len(db.versions) <= Len(Append(db.versions, m))
      BY <1>2, <3>2
    <3> HIDE DEF m
    <3> QED
      BY <3>1, <3>2, <3>3, <3>4, NextVersionGrows
  <2>4. TypeOK'
    BY <1>4, <2>2, <2>3 DEF TypeOK, Grown, backups
  <2>5. todo'[p] = (k + 1)..Known[p]
    BY <1>1, <1>2, <1>3, <2>2 DEF TypeOK
  <2>6. \A q \in Proc : ProcInv(q)'
    <3> SUFFICES ASSUME NEW q \in Proc
                 PROVE  ProcInv(q)'
      OBVIOUS
    <3>1. CASE q = p
      <4>1. pc'[p] = "migrating"
        BY <2>2 DEF Apply
      <4>2. k + 1 \in 1..Len(db'.versions)
        BY <1>2, <1>3, <2>1, <2>3
      <4> QED
        BY <2>5, <3>1, <4>1, <4>2 DEF ProcInv
    <3>2. CASE q # p
      BY <2>2, <2>3, <3>2, GrownKeepsProc DEF TypeOK
    <3> QED
      BY <3>1, <3>2
  <2> QED
    BY <1>4, <2>2, <2>3, <2>4, <2>6, GrownKeepsJobs DEF Grown
<1>6. CASE Fails(m)
  <2>1. /\ db' = db /\ disk' = disk
        /\ todo' = [todo EXCEPT ![p] = {}]
        /\ pc' = [pc EXCEPT ![p] = "down"]
    BY <1>6 DEF Apply, AfterError
  <2>2. Grown
    BY <2>1 DEF Grown, TypeOK, Databases
  <2>3. TypeOK'
    BY <1>4, <2>1 DEF TypeOK, backups
  <2>4. \A q \in Proc : ProcInv(q)'
    BY <2>1, <2>2, GrownKeepsProc, DownRelyOnNothing DEF TypeOK
  <2> QED
    BY <1>4, <2>1, <2>2, <2>3, <2>4, GrownKeepsJobs
<1> QED
  BY <1>5, <1>6

\* migrate() returns once nothing is left: the interval is empty.
LEMMA UpToDateIInv == ASSUME IInv, NEW p \in Proc, UpToDate(p) PROVE IInv'
<1> USE DEF IInv
<1>1. PICK k \in 1..Len(db.versions) : todo[p] = k..Known[p]
  BY DEF UpToDate, ProcInv
<1>2. Known[p] \in Nat /\ k \in Nat /\ Len(db.versions) \in Nat
  BY StoreAssumption DEF TypeOK, Databases
<1>3. Known[p] < Len(db.versions)
  <2>1. k \notin k..Known[p]
    BY <1>1 DEF UpToDate
  <2> QED
    BY <1>2, <2>1
<1>4. Grown
  BY DEF UpToDate, Grown, TypeOK, Databases
<1>5. TypeOK'
  BY DEF TypeOK, UpToDate, backups
<1>6. \A q \in Proc : ProcInv(q)'
  <2> SUFFICES ASSUME NEW q \in Proc
               PROVE  ProcInv(q)'
    OBVIOUS
  <2>1. CASE q = p
    BY <1>3, <2>1 DEF UpToDate, ProcInv, TypeOK
  <2>2. CASE q # p
    BY <1>4, <2>2, GrownKeepsProc DEF UpToDate, TypeOK
  <2> QED
    BY <2>1, <2>2
<1>7. UNCHANGED backups
  BY DEF UpToDate
<1> QED
  BY <1>4, <1>5, <1>6, <1>7, GrownKeepsJobs DEF UpToDate

LEMMA WriteRowIInv == ASSUME IInv, NEW p \in Proc, WriteRow(p) PROVE IInv'
<1> USE DEF IInv
<1>1. PICK n \in 1..MaxWrites : /\ db' = [db EXCEPT !.rows = @ \cup {n}]
                                /\ disk' = {db'}
                                /\ acked' = acked \cup {n}
  BY DEF WriteRow, Commit, LeftByPowerCut
<1>2. db = [versions |-> db.versions, rows |-> db.rows]
  BY DEF TypeOK, Databases
<1>3. db'.versions = db.versions /\ db'.rows = db.rows \cup {n}
  BY <1>1, <1>2
<1>4. db' \in Databases
  BY <1>1, <1>2 DEF TypeOK, Databases
<1>5. Grown
  BY <1>3, <1>4 DEF Grown, TypeOK, Databases
<1>6. TypeOK'
  BY <1>1, <1>4 DEF TypeOK, WriteRow, backups
<1>7. \A q \in Proc : ProcInv(q)'
  BY <1>5, GrownKeepsProc DEF WriteRow
<1>8. UNCHANGED backups
  BY DEF WriteRow
<1> QED
  BY <1>1, <1>3, <1>5, <1>6, <1>7, <1>8, GrownKeepsJobs DEF Grown

\* Steps that leave the database and the backups as they are and move one
\* process to where it relies on no more than it did.
LEMMA QuietIInv ==
  ASSUME IInv, TypeOK', UNCHANGED <<db, disk, acked, backups>>,
         NEW p \in Proc, \A q \in Proc \ {p} : pc'[q] = pc[q] /\ todo'[q] = todo[q],
         \/ pc'[p] = "down"
         \/ pc'[p] = "copying" /\ pc[p] = "ready"
  PROVE  IInv'
<1> USE DEF IInv
<1>1. Grown
  BY DEF Grown, TypeOK, Databases
<1>2. \A q \in Proc : ProcInv(q)'
  <2> SUFFICES ASSUME NEW q \in Proc
               PROVE  ProcInv(q)'
    OBVIOUS
  <2>1. CASE q = p
    BY <2>1 DEF ProcInv
  <2>2. CASE q # p
    BY <1>1, <2>2, GrownKeepsProc
  <2> QED
    BY <2>1, <2>2
<1>3. UNCHANGED backups
  OBVIOUS
<1> QED
  BY <1>1, <1>2, <1>3, GrownKeepsJobs

LEMMA ProcessIInv ==
  ASSUME IInv, NEW p \in Proc, Close(p) \/ InitLooks(p) \/ InitCopies(p) \/ Kill(p)
  PROVE  IInv'
<1> USE DEF IInv
<1>1. CASE Close(p)
  <2>1. TypeOK'
    BY <1>1 DEF TypeOK, Close, backups
  <2> QED
    BY <1>1, <2>1, QuietIInv DEF Close, TypeOK
<1>2. CASE InitLooks(p)
  <2>1. TypeOK'
    BY <1>2 DEF TypeOK, InitLooks, backups
  <2> QED
    BY <1>2, <2>1, QuietIInv DEF InitLooks, TypeOK
<1>3. CASE InitCopies(p)
  <2>1. TypeOK'
    BY <1>3 DEF TypeOK, InitCopies, backups
  <2> QED
    BY <1>3, <2>1, QuietIInv DEF InitCopies, TypeOK
<1>4. CASE Kill(p)
  <2>1. TypeOK'
    BY <1>4, StoreAssumption DEF TypeOK, Kill, backups
  <2> QED
    BY <1>4, <2>1, QuietIInv DEF Kill, TypeOK
<1> QED
  BY <1>1, <1>2, <1>3, <1>4

\* Steps of the backups, which leave the database and the processes alone.
LEMMA BackupStepIInv ==
  ASSUME IInv, TypeOK', UNCHANGED <<db, disk, pc, todo, acked>>,
         \A b \in Backup : JobInv(b)', OneWriterPerFile', \A t \in Path : FileInv(t)'
  PROVE  IInv'
<1>1. \A p \in Proc : ProcInv(p)'
  BY DEF IInv, ProcInv
<1> QED
  BY <1>1 DEF IInv

LEMMA BackupCheckIInv ==
  ASSUME IInv, NEW b \in Backup, NEW t \in Path, BackupCheck(b, t) PROVE IInv'
<1> USE DEF IInv
<1> DEFINE new == [at |-> "checked", path |-> t, saw |-> Absent, due |-> acked]
<1>1. job' = [job EXCEPT ![b] = new] /\ UNCHANGED <<db, disk, pc, todo, acked, files>>
  BY DEF BackupCheck
<1>2. TypeOK'
  BY <1>1 DEF BackupCheck, TypeOK, Jobs
<1>3. \A c \in Backup : JobInv(c)'
  BY <1>1 DEF JobInv, Copying, TypeOK
<1>4. OneWriterPerFile'
  BY <1>1 DEF OneWriterPerFile, Copying, TypeOK
<1>5. \A u \in Path : FileInv(u)'
  BY <1>1 DEF FileInv
<1> QED
  BY <1>1, <1>2, <1>3, <1>4, <1>5, BackupStepIInv

\* The file is taken while it is vacant, so no other backup writes it.
LEMMA BackupStartsIInv ==
  ASSUME IInv, NEW b \in Backup, BackupStarts(b) PROVE IInv'
<1> USE DEF IInv
<1> DEFINE t == job[b].path
<1>1. t \in Path /\ job[b] \in Jobs /\ UNCHANGED <<db, disk, pc, todo, acked>>
  BY DEF BackupStarts, JobInv, TypeOK
<1>2. CASE Vacant(t)
  <2> DEFINE new == [job[b] EXCEPT !.at = "copying", !.saw = db]
  <2>1. /\ files' = [files EXCEPT ![t] = Partial]
        /\ job' = [job EXCEPT ![b] = new]
    BY <1>2 DEF BackupStarts, Visible
  <2>2. /\ new.at = "copying" /\ new.path = t /\ new.saw = db /\ new.due = job[b].due
        /\ new \in Jobs
    BY <1>1 DEF Jobs, TypeOK
  <2>3. \A c \in Backup \ {b} : Copying(c) => job[c].path # t
    BY <1>2, StoreAssumption DEF JobInv, Vacant
  <2>4. TypeOK'
    BY <1>1, <2>1, <2>2 DEF BackupStarts, TypeOK, Files
  <2> HIDE DEF new
  <2>5. job'[b] = new /\ \A c \in Backup \ {b} : job'[c] = job[c]
    BY <2>1 DEF TypeOK
  <2>6. files'[t] = Partial /\ \A u \in Path \ {t} : files'[u] = files[u]
    BY <1>1, <2>1 DEF TypeOK
  <2>7. \A c \in Backup : JobInv(c)'
    BY <1>1, <2>2, <2>3, <2>5, <2>6 DEF JobInv, Copying, TypeOK
  <2>8. OneWriterPerFile'
    BY <2>2, <2>3, <2>5 DEF OneWriterPerFile, Copying
  <2>9. \A u \in Path : FileInv(u)'
    BY <1>1, <2>6 DEF FileInv, Finished
  <2> QED
    BY <1>1, <2>4, <2>7, <2>8, <2>9, BackupStepIInv
<1>3. CASE ~Vacant(t)
  <2>1. job' = [job EXCEPT ![b] = Idle] /\ files' = files
    BY <1>3 DEF BackupStarts
  <2>2. TypeOK'
    BY <1>1, <2>1 DEF BackupStarts, TypeOK, Jobs, Idle
  <2>3. \A c \in Backup : JobInv(c)'
    BY <1>1, <2>1 DEF JobInv, Copying, TypeOK, Idle
  <2>4. OneWriterPerFile'
    BY <2>1 DEF OneWriterPerFile, Copying, TypeOK, Idle
  <2>5. \A u \in Path : FileInv(u)'
    BY <2>1 DEF FileInv
  <2> QED
    BY <1>1, <2>2, <2>3, <2>4, <2>5, BackupStepIInv
<1> QED
  BY <1>2, <1>3

LEMMA BackupEndsIInv ==
  ASSUME IInv, NEW b \in Backup, BackupEnds(b) PROVE IInv'
<1> USE DEF IInv
<1> DEFINE t == job[b].path
           done == [db |-> job[b].saw, due |-> job[b].due]
<1>1. /\ Copying(b) /\ job[b] \in Jobs /\ JobInv(b)
      /\ UNCHANGED <<db, disk, pc, todo, acked>>
      /\ files' = [files EXCEPT ![t] = done]
      /\ job' = [job EXCEPT ![b] = Idle]
  BY DEF BackupEnds, Copying, TypeOK
<1>2. done \in Files /\ t \in Path
  BY <1>1 DEF JobInv, Jobs, Files
<1>3. TypeOK'
  BY <1>1, <1>2 DEF BackupEnds, TypeOK, Jobs, Idle
<1>4. \A c \in Backup \ {b} : Copying(c) => job[c].path # t
  BY <1>1 DEF OneWriterPerFile
<1>5. done.due \subseteq done.db.rows /\ InOrder(done.db.versions)
  BY <1>1 DEF JobInv
<1>6. files'[t] = done /\ \A u \in Path \ {t} : files'[u] = files[u]
  BY <1>1, <1>2 DEF TypeOK
<1> HIDE DEF done
<1>7. \A c \in Backup : JobInv(c)'
  BY <1>1, <1>4, <1>6 DEF JobInv, Copying, TypeOK, Idle
<1>8. OneWriterPerFile'
  BY <1>1 DEF OneWriterPerFile, Copying, TypeOK, Idle
<1>9. \A u \in Path : FileInv(u)'
  BY <1>5, <1>6 DEF FileInv
<1> QED
  BY <1>1, <1>3, <1>7, <1>8, <1>9, BackupStepIInv

LEMMA KillBackupIInv ==
  ASSUME IInv, NEW b \in Backup, KillBackup(b) PROVE IInv'
<1> USE DEF IInv
<1>1. job' = [job EXCEPT ![b] = Idle] /\ UNCHANGED <<db, disk, pc, todo, acked, files>>
  BY DEF KillBackup
<1>2. TypeOK'
  BY <1>1, StoreAssumption DEF KillBackup, TypeOK, Jobs, Idle
<1>3. \A c \in Backup : JobInv(c)'
  BY <1>1 DEF JobInv, Copying, TypeOK, Idle
<1>4. OneWriterPerFile'
  BY <1>1 DEF OneWriterPerFile, Copying, TypeOK, Idle
<1>5. \A u \in Path : FileInv(u)'
  BY <1>1 DEF FileInv
<1> QED
  BY <1>1, <1>2, <1>3, <1>4, <1>5, BackupStepIInv

LEMMA TakenAwayIInv ==
  ASSUME IInv, NEW t \in Path, TakenAway(t) PROVE IInv'
<1> USE DEF IInv
<1>1. files' = [files EXCEPT ![t] = Absent] /\ UNCHANGED <<db, disk, pc, todo, acked, job>>
  BY DEF TakenAway
<1>2. TypeOK'
  BY <1>1 DEF TakenAway, TypeOK, Files
<1>3. files'[t] = Absent /\ \A u \in Path \ {t} : files'[u] = files[u]
  BY <1>1 DEF TypeOK
<1>4. \A c \in Backup : JobInv(c)'
  BY <1>1, <1>3 DEF TakenAway, JobInv, Copying
<1>5. OneWriterPerFile'
  BY <1>1 DEF OneWriterPerFile, Copying
<1>6. \A u \in Path : FileInv(u)'
  BY <1>3 DEF FileInv, Finished
<1> QED
  BY <1>1, <1>2, <1>4, <1>5, <1>6, BackupStepIInv

\* synchronous = FULL leaves a power cut nothing to take.
LEMMA PowerCutIInv == ASSUME IInv, PowerCut PROVE IInv'
<1> USE DEF IInv
<1>1. db' = db /\ disk' = {db'}
  BY DEF PowerCut
<1>2. TypeOK'
  BY <1>1, StoreAssumption DEF PowerCut, TypeOK, Jobs, Idle
<1>3. \A p \in Proc : ProcInv(p)'
  BY DownRelyOnNothing DEF PowerCut
<1>4. \A b \in Backup : JobInv(b)' /\ ~Copying(b)'
  BY DEF PowerCut, JobInv, Copying, Idle
<1>5. \A t \in Path : FileInv(t)'
  BY DEF PowerCut, FileInv
<1> QED
  BY <1>1, <1>2, <1>3, <1>4, <1>5 DEF PowerCut, OneWriterPerFile

\* No step disturbs the inductive invariant.
LEMMA NextIInv == IInv /\ [Next]_vars => IInv'
<1> SUFFICES ASSUME IInv, [Next]_vars
             PROVE  IInv'
  OBVIOUS
<1>1. CASE \E p \in Proc : Migrating(p)
  BY <1>1, OpenIInv, SelectIInv, ApplyIInv, UpToDateIInv DEF Migrating
<1>2. CASE \E p \in Proc : WriteRow(p) \/ Close(p) \/ InitLooks(p) \/ InitCopies(p) \/ Kill(p)
  BY <1>2, WriteRowIInv, ProcessIInv
<1>3. CASE \E b \in Backup : \/ \E t \in Path : BackupCheck(b, t)
                            \/ BackupStarts(b) \/ BackupEnds(b) \/ KillBackup(b)
  BY <1>3, BackupCheckIInv, BackupStartsIInv, BackupEndsIInv, KillBackupIInv
<1>4. CASE \E t \in Path : TakenAway(t)
  BY <1>4, TakenAwayIInv
<1>5. CASE PowerCut
  BY <1>5, PowerCutIInv
<1>6. CASE Checkpoint \/ OperatorEdits \/ UNCHANGED vars
  <2>1. UNCHANGED <<db, disk, pc, todo, acked, backups>>
    BY <1>6 DEF Checkpoint, OperatorEdits, vars, backups, IInv
  <2>2. TypeOK'
    BY <1>6, <2>1 DEF Checkpoint, OperatorEdits, vars, backups, IInv, TypeOK
  <2>3. /\ \A b \in Backup : JobInv(b)'
        /\ OneWriterPerFile'
        /\ \A t \in Path : FileInv(t)'
    BY <2>1 DEF IInv, backups, JobInv, OneWriterPerFile, FileInv, Copying
  <2> QED
    BY <2>1, <2>2, <2>3, BackupStepIInv
<1> QED
  BY <1>1, <1>2, <1>3, <1>4, <1>5, <1>6 DEF Next

-----------------------------------------------------------------------------
(* The theorems.                                                           *)

\* The inductive invariant holds of every behaviour.
THEOREM SpecIInv == Spec => []IInv
  BY InitIInv, NextIInv, PTL DEF Spec

\* Every variable keeps its type.
THEOREM SpecTypeOK == Spec => []TypeOK
<1>1. IInv => TypeOK
  BY DEF IInv
<1> QED
  BY <1>1, SpecIInv, PTL

\* Any number of processes of any releases migrate one database: what is
\* applied is an initial segment, each migration once (migrate.ts:23-60).
THEOREM SpecSchemaInOrder == Spec => []SchemaInOrder
<1>1. IInv => SchemaInOrder
  BY DEF IInv, SchemaInOrder
<1> QED
  BY <1>1, SpecIInv, PTL

\* A process past migrate() has the whole schema of its release, whoever
\* applied it (migrate.ts:23-60).
THEOREM SpecReadyIsMigrated == Spec => []ReadyIsMigrated
<1>1. IInv => ReadyIsMigrated
  <2> SUFFICES ASSUME IInv, NEW p \in Proc, pc[p] \in {"ready", "copying"},
                      NEW m \in 1..Known[p]
               PROVE  m \in Range(db.versions)
    BY DEF ReadyIsMigrated
  <2>1. Known[p] < Len(db.versions) /\ Known[p] \in Nat /\ Len(db.versions) \in Nat
    BY StoreAssumption DEF IInv, ProcInv, TypeOK, Databases
  <2>2. db.versions \in Seq(Nat) /\ InOrder(db.versions)
    BY DEF IInv, TypeOK, Databases
  <2>3. m \in Nat /\ m < Len(db.versions)
    BY <2>1
  <2> QED
    BY <2>2, <2>3, InOrderRange
<1> QED
  BY <1>1, SpecIInv, PTL

\* No crash or power cut takes back a write that was acknowledged
\* (database.ts:31-42).
THEOREM SpecAcknowledgedSurvives == Spec => []AcknowledgedSurvives
<1>1. IInv => AcknowledgedSurvives
  BY DEF IInv, AcknowledgedSurvives
<1> QED
  BY <1>1, SpecIInv, PTL

\* Any number of backups to any paths, beside any processes: a file that was
\* reported holds what was due and is not written again (backup.ts:25-59).
THEOREM SpecBackupIsComplete == Spec => BackupIsComplete
<1>1. IInv => \A t \in Path : Finished(files[t]) =>
                files[t].due \subseteq files[t].db.rows /\ InOrder(files[t].db.versions)
  BY DEF IInv, FileInv
<1>2. IInv /\ [Next]_vars =>
        [\A t \in Path : Finished(files[t]) => files'[t] \in {files[t], Absent}]_files
  <2> SUFFICES ASSUME IInv, [Next]_vars, NEW t \in Path, Finished(files[t])
               PROVE  files'[t] \in {files[t], Absent}
    OBVIOUS
  <2>1. CASE \E b \in Backup : BackupStarts(b)
    <3>1. PICK b \in Backup : BackupStarts(b)
      BY <2>1
    <3>2. files[job[b].path] = Absent => job[b].path # t
      BY DEF Finished
    <3> QED
      BY <3>1, <3>2 DEF BackupStarts, Vacant, IInv, TypeOK
  <2>2. CASE \E b \in Backup : BackupEnds(b)
    <3>1. PICK b \in Backup : BackupEnds(b)
      BY <2>2
    <3>2. job[b].path # t
      BY <3>1 DEF IInv, JobInv, Copying, BackupEnds, Finished
    <3> QED
      BY <3>1, <3>2 DEF BackupEnds, IInv, TypeOK
  <2>3. CASE \E u \in Path : TakenAway(u)
    BY <2>3 DEF TakenAway, IInv, TypeOK
  <2>4. CASE \E p \in Proc : Migrating(p) \/ WriteRow(p) \/ Close(p)
                             \/ InitLooks(p) \/ InitCopies(p) \/ Kill(p)
    BY <2>4 DEF Migrating, Open, SelectApplied, Apply, UpToDate, WriteRow, Close,
                InitLooks, InitCopies, Kill, backups
  <2>5. CASE \E b \in Backup : (\E u \in Path : BackupCheck(b, u)) \/ KillBackup(b)
    BY <2>5 DEF BackupCheck, KillBackup
  <2>6. CASE Checkpoint \/ OperatorEdits \/ PowerCut \/ UNCHANGED vars
    BY <2>6 DEF Checkpoint, OperatorEdits, PowerCut, vars, backups
  <2> QED
    BY <2>1, <2>2, <2>3, <2>4, <2>5, <2>6 DEF Next
<1> QED
  BY <1>1, <1>2, SpecIInv, PTL DEF Spec, BackupIsComplete
=============================================================================
