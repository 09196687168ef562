------------------------------- MODULE Store --------------------------------
(***************************************************************************)
(* The accounting database as the orchestrator and the commands share it   *)
(* (packages/db: database.ts, migrate.ts; cli/backup.ts, cli/init.ts):     *)
(* every process brings the schema up to date before it writes, backups    *)
(* are taken beside them, processes die and the power fails.  SQLite is    *)
(* external: transactions are atomic and one at a time, a commit is first  *)
(* in the write-ahead log and later, by a checkpoint, in the main file.    *)
(***************************************************************************)
EXTENDS Naturals, Sequences, Functions

CONSTANTS
  Proc,       \* the orchestrator, and commands that write
  Known,      \* Known[p]: the last migration of the release p belongs to
  Backup,     \* backup commands
  Path,       \* where backups are asked to be written
  MaxWrites,  \* bound: rows written
  MaxKills,   \* bound: processes killed, power cuts
  Absent, Partial

ASSUME StoreAssumption ==
  /\ Known \in [Proc -> Nat]
  /\ MaxWrites \in Nat /\ MaxKills \in Nat
  /\ Absent # Partial

VARIABLES
  db,      \* what a reader of the database sees
  disk,    \* what may be left of it by a power cut
  main,    \* what its main file holds, without the log beside it
  pc,      \* pc[p]: where process p is
  todo,    \* todo[p]: the migrations p has still to apply
  acked,   \* the rows whose writer was told they are written
  files,   \* files[t]: what is at a path backups are written to
  job,     \* job[b]: where a backup command is, and what it copies
  env,     \* the .env file: Absent, as copied, or edited by the operator
  kills

vars == <<db, disk, main, pc, todo, acked, files, job, env, kills>>
backups == <<files, job>>

\* Version 0 is the table schema_migrations itself.
Databases == [versions: Seq(Nat), rows: SUBSET (1..MaxWrites)]

Jobs == [at: {"idle", "checked", "copying"}, path: Path \cup {Absent},
         saw: Databases \cup {Absent}, due: SUBSET (1..MaxWrites)]
Files == {Absent, Partial} \cup [db: Databases, due: SUBSET (1..MaxWrites)]

Idle == [at |-> "idle", path |-> Absent, saw |-> Absent, due |-> {}]

TypeOK ==
  /\ db \in Databases /\ main \in Databases
  /\ disk \subseteq Databases
  /\ pc \in [Proc -> {"down", "opened", "migrating", "ready", "copying"}]
  /\ todo \in [Proc -> SUBSET Nat]
  /\ acked \subseteq 1..MaxWrites
  /\ files \in [Path -> Files]
  /\ job \in [Backup -> Jobs]
  /\ env \in {Absent, "example", "edited"}
  /\ kills \in 0..MaxKills

Init ==
  /\ db = [versions |-> <<>>, rows |-> {}]
  /\ main = db /\ disk = {db}
  /\ pc = [p \in Proc |-> "down"]
  /\ todo = [p \in Proc |-> {}]
  /\ acked = {}
  /\ files = [t \in Path |-> Absent]
  /\ job = [b \in Backup |-> Idle]
  /\ env = Absent
  /\ kills = 0

-----------------------------------------------------------------------------
(* database.ts                                                             *)

\* synchronous = FULL: a commit is on disk before it returns.
\* Mutant: NORMAL, under which the log is synced by checkpoints alone.
LeftByNormal(new) == disk \cup {new}
LeftByPowerCut(new) == {new}

Commit(new) == /\ db' = new
               /\ disk' = LeftByPowerCut(new)

\* A checkpoint, or the last connection closing: the log goes into the file.
Checkpoint ==
  /\ main # db \/ disk # {db}
  /\ main' = db /\ disk' = {db}
  /\ UNCHANGED <<db, pc, todo, acked, backups, env, kills>>

-----------------------------------------------------------------------------
(* migrate.ts                                                              *)

\* CREATE TABLE IF NOT EXISTS schema_migrations, a commit of its own.
Open(p) ==
  /\ pc[p] = "down"
  /\ IF db.versions = <<>> THEN Commit([db EXCEPT !.versions = <<0>>])
     ELSE UNCHANGED <<db, disk>>
  /\ pc' = [pc EXCEPT ![p] = "opened"]
  /\ UNCHANGED <<main, todo, acked, backups, env, kills>>

\* Mutant: every migration, as if none had been applied.
AllKnown(p) == 1..Known[p]
Pending(p) == {m \in 1..Known[p] : m \notin Range(db.versions)}

SelectApplied(p) ==
  /\ pc[p] = "opened"
  /\ todo' = [todo EXCEPT ![p] = Pending(p)]
  /\ pc' = [pc EXCEPT ![p] = "migrating"]
  /\ UNCHANGED <<db, disk, main, acked, backups, env, kills>>

\* Mutant: in an order that puts later ones first.
LastOf(S) == CHOOSE m \in S : \A n \in S : n <= m
FirstOf(S) == CHOOSE m \in S : \A n \in S : m <= n

\* The SQL of an applied migration fails on what it created or added.
\* Mutant: it is written to pass over what is there.
NeverFails(m) == FALSE
Fails(m) == m \in Range(db.versions)

\* migrate() throws, and nothing catches it.  Mutant: logged, and p goes on.
GoesOn == "ready"
AfterError == "down"

\* One migration and its row, in one transaction, or an error that ends p.
Apply(p) ==
  LET m == FirstOf(todo[p]) IN
  /\ pc[p] = "migrating" /\ todo[p] # {}
  /\ \/ /\ ~Fails(m)
        /\ Commit([db EXCEPT !.versions = Append(@, m)])
        /\ todo' = [todo EXCEPT ![p] = @ \ {m}]
        /\ UNCHANGED pc
     \/ /\ Fails(m)
        /\ todo' = [todo EXCEPT ![p] = {}]
        /\ pc' = [pc EXCEPT ![p] = AfterError]
        /\ UNCHANGED <<db, disk>>
  /\ UNCHANGED <<main, acked, backups, env, kills>>

\* migrate() returns; the process begins what it was started for.
UpToDate(p) ==
  /\ pc[p] = "migrating" /\ todo[p] = {}
  /\ pc' = [pc EXCEPT ![p] = "ready"]
  /\ UNCHANGED <<db, disk, main, todo, acked, backups, env, kills>>

\* A share, a round, a step of a payment: committed, and its writer goes on.
WriteRow(p) ==
  /\ pc[p] = "ready"
  /\ \E n \in 1..MaxWrites :
       /\ n \notin db.rows \cup acked
       /\ Commit([db EXCEPT !.rows = @ \cup {n}])
       /\ acked' = acked \cup {n}
  /\ UNCHANGED <<main, pc, todo, backups, env, kills>>

\* A command is done, or its process stops in good order.
Close(p) ==
  /\ pc[p] = "ready"
  /\ pc' = [pc EXCEPT ![p] = "down"]
  /\ UNCHANGED <<db, disk, main, todo, acked, backups, env, kills>>

-----------------------------------------------------------------------------
(* cli/init.ts, after its migrate().                                       *)

InitLooks(p) ==
  /\ pc[p] = "ready" /\ env = Absent
  /\ pc' = [pc EXCEPT ![p] = "copying"]
  /\ UNCHANGED <<db, disk, main, todo, acked, backups, env, kills>>

InitCopies(p) ==
  /\ pc[p] = "copying"
  /\ env' = "example"
  /\ pc' = [pc EXCEPT ![p] = "down"]
  /\ UNCHANGED <<db, disk, main, todo, acked, backups, kills>>

OperatorEdits ==
  /\ env = "example" /\ env' = "edited"
  /\ UNCHANGED <<db, disk, main, pc, todo, acked, backups, kills>>

-----------------------------------------------------------------------------
(* cli/backup.ts                                                           *)

\* The new file is empty only when nothing is there: checked in words first,
\* and by VACUUM INTO again.  Mutant: whatever is there is replaced.
Replaceable(t) == TRUE
Vacant(t) == files[t] = Absent

BackupCheck(b, t) ==
  /\ job[b].at = "idle"
  /\ Vacant(t) /\ db.versions # <<>>
  /\ job' = [job EXCEPT ![b] = [at |-> "checked", path |-> t, saw |-> Absent,
                                due |-> acked]]
  /\ UNCHANGED <<db, disk, main, pc, todo, acked, files, env, kills>>

\* What VACUUM INTO reads.  Mutant: the main file, as a plain copy would.
MainFile == main
Visible == db

BackupStarts(b) ==
  LET t == job[b].path IN
  /\ job[b].at = "checked"
  /\ \/ /\ Vacant(t)
        /\ files' = [files EXCEPT ![t] = Partial]
        /\ job' = [job EXCEPT ![b].at = "copying", ![b].saw = Visible]
     \/ /\ ~Vacant(t)
        /\ job' = [job EXCEPT ![b] = Idle]
        /\ UNCHANGED files
  /\ UNCHANGED <<db, disk, main, pc, todo, acked, env, kills>>

\* It prints the path: the backup is good.
BackupEnds(b) ==
  /\ job[b].at = "copying"
  /\ files' = [files EXCEPT ![job[b].path] = [db |-> job[b].saw, due |-> job[b].due]]
  /\ job' = [job EXCEPT ![b] = Idle]
  /\ UNCHANGED <<db, disk, main, pc, todo, acked, env, kills>>

\* The operator takes a file away, and never one that is being written.
TakenAway(t) ==
  /\ files[t] # Absent
  /\ \A b \in Backup : job[b].at = "copying" => job[b].path # t
  /\ files' = [files EXCEPT ![t] = Absent]
  /\ UNCHANGED <<db, disk, main, pc, todo, acked, job, env, kills>>

-----------------------------------------------------------------------------
(* Faults.                                                                 *)

\* A transaction under way is rolled back; so nothing of it shows.
Kill(p) ==
  /\ pc[p] # "down" /\ kills < MaxKills
  /\ pc' = [pc EXCEPT ![p] = "down"]
  /\ todo' = [todo EXCEPT ![p] = {}]
  /\ kills' = kills + 1
  /\ UNCHANGED <<db, disk, main, acked, backups, env>>

KillBackup(b) ==
  /\ job[b].at # "idle" /\ kills < MaxKills
  /\ job' = [job EXCEPT ![b] = Idle]
  /\ kills' = kills + 1
  /\ UNCHANGED <<db, disk, main, pc, todo, acked, files, env>>

PowerCut ==
  /\ kills < MaxKills /\ kills' = kills + 1
  /\ \E left \in disk : db' = left /\ disk' = {left}
  /\ pc' = [p \in Proc |-> "down"]
  /\ todo' = [p \in Proc |-> {}]
  /\ job' = [b \in Backup |-> Idle]
  /\ UNCHANGED <<main, acked, files, env>>

Migrating(p) == Open(p) \/ SelectApplied(p) \/ Apply(p) \/ UpToDate(p)

Next ==
  \/ \E p \in Proc :
       \/ Migrating(p)
       \/ WriteRow(p) \/ Close(p) \/ InitLooks(p) \/ InitCopies(p) \/ Kill(p)
  \/ \E b \in Backup :
       \/ \E t \in Path : BackupCheck(b, t)
       \/ BackupStarts(b) \/ BackupEnds(b) \/ KillBackup(b)
  \/ \E t \in Path : TakenAway(t)
  \/ Checkpoint \/ OperatorEdits \/ PowerCut

Spec == Init /\ [][Next]_vars

\* A process that is not up is started again (compose.yaml restarts the
\* orchestrator, an operator repeats a command that failed) and runs; it is not
\* killed for ever (MaxKills).
FairSpec == Spec /\ \A p \in Proc : WF_vars(Migrating(p))

-----------------------------------------------------------------------------
(* What must hold.                                                         *)

\* However many processes of whichever releases find the same migrations
\* pending, and wherever they die, each is applied once, in order, with
\* nothing left out between two (migrate.ts:23-27, 89-90).
InOrder(versions) == \A i \in 1..Len(versions) : versions[i] = i - 1

SchemaInOrder == InOrder(db.versions)

\* A process that is past migrate() has every table and column its release
\* knows, though another may have taken the work from under it, and keeps
\* them while it runs (migrate.ts:23-27).
ReadyIsMigrated ==
  \A p \in Proc : pc[p] \in {"ready", "copying"} => 1..Known[p] \subseteq Range(db.versions)

\* What a process was told is written survives every crash and power cut: a
\* payment's record is on disk before the payment goes on (database.ts:31-33).
AcknowledgedSurvives == acked \subseteq db.rows

\* A file that backup reported holds everything that was committed before the
\* command began, under a schema in order, and is not written to again
\* (backup.ts:8-17, 39-43).
Finished(f) == f \notin {Absent, Partial}

BackupIsComplete ==
  /\ [](\A t \in Path : Finished(files[t]) =>
          files[t].due \subseteq files[t].db.rows /\ InOrder(files[t].db.versions))
  /\ [][\A t \in Path : Finished(files[t]) => files'[t] \in {files[t], Absent}]_files

\* A process started against any database ends up running: one that lost a
\* race for a migration finds it applied when it is started again.
ComesUp == \A p \in Proc : pc[p] = "down" ~> pc[p] = "ready"

\* Claimed at database.ts:10-12: one process has the database open to write.
OneWriter == \A p, q \in Proc : pc[p] # "down" /\ pc[q] # "down" => p = q

\* Claimed at init.ts:63: the file the operator filled in is never replaced.
EnvIsKept == [][env = "edited" => env' = "edited"]_vars
=============================================================================
