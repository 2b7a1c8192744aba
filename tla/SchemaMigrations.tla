-------------------------- MODULE SchemaMigrations --------------------------
(***************************************************************************)
(* The script that brings the schema of the Airtable base to what the      *)
(* synchronisation needs: it applies migration files in order, table by    *)
(* table and field by field, each with a request of its own, and records   *)
(* in a ledger kept in the base itself those that went through.  It is run *)
(* by hand, again and again, perhaps by two people at once; its requests   *)
(* fail or lose their answers, it dies half way, and files are edited.     *)
(*                                                                         *)
(* Nothing is ever deleted from the base ("No se borran tablas por script. *)
(* No se borran campos por script"), and the model deletes nothing by hand *)
(* either.  An ensure_table is one step for the table with its first field *)
(* and one for each other field; an ensure_field is one step.              *)
(***************************************************************************)
EXTENDS Naturals, Sequences, FiniteSets

CONSTANTS
    Tables, Fields, NoTable,
    Primary,       \* the first field of each table
    LedgerSteps,   \* the table of the ledger and its columns
    Migrations,    \* for each file, in the order of the names, its successive versions
    Runners,       \* people who run the script
    MaxRuns,       \* bound: runs
    MaxFaults      \* bound: failed requests and deaths

EnsureTable == "ensure_table"
DirectField == "field of ensure_table"
LateField   == "ensure_field"
Unsupported == "unsupported"

Step == [op : {EnsureTable, DirectField, LateField, Unsupported},
         table : Tables, field : Fields, link : Tables \cup {NoTable}]

Version == [destructive : BOOLEAN, steps : Seq(Step)]

\* An ensure_table begins with the first field of its table; the steps for
\* its other fields come after it.
WellFormed(steps) ==
    \A s \in DOMAIN steps :
        /\ steps[s].op = EnsureTable => steps[s].field = Primary[steps[s].table]
        /\ steps[s].op = DirectField =>
              \E i \in 1..(s - 1) : steps[i].op = EnsureTable /\ steps[i].table = steps[s].table

ASSUME MigrationsAssumption ==
    /\ NoTable \notin Tables
    /\ Primary \in [Tables -> Fields]
    /\ LedgerSteps \in Seq(Step) \ {<<>>} /\ WellFormed(LedgerSteps)
    /\ Migrations \in Seq(Seq(Version) \ {<<>>})
    /\ \A m \in DOMAIN Migrations : \A v \in DOMAIN Migrations[m] :
          WellFormed(Migrations[m][v].steps)
    /\ {MaxRuns, MaxFaults} \subseteq Nat

VARIABLES
    base,      \* the fields of the base, each with its table
    recorded,  \* the records of the ledger: which migration, in which version
    file,      \* the version each migration file is in
    run,       \* what each runner's script holds
    runs, faults

vars == <<base, recorded, file, run, runs, faults>>

Files == DOMAIN Migrations
FileVersions == {versions \in [Files -> Nat] : \A m \in Files : versions[m] \in DOMAIN Migrations[m]}
Ledger == 0    \* stands for the ledger where a migration is expected

Stopped == "stopped"
Looking == "looking"
Working == "steps"
Applied == "applied"
Reading == "reading"
Choosing == "choosing"
Recording == "recording"
Done == "done"

NoRun == [at |-> Stopped, files |-> [m \in Files |-> 1], known |-> {}, index |-> {},
          migration |-> Ledger, step |-> 1, errors |-> FALSE, clean |-> TRUE, quiet |-> FALSE]

Init ==
    /\ base = {}
    /\ recorded = {}
    /\ file = [m \in Files |-> 1]
    /\ run = [r \in Runners |-> NoRun]
    /\ runs = 0 /\ faults = 0

-----------------------------------------------------------------------------
(* The base and what a run knows of it.                                    *)

TableIn(fields, t) == \E f \in Fields : <<t, f>> \in fields

Needs(step) == <<step.table, step.field>>

\* check_drift: what a version asks for and the base lacks.
Missing(version) ==
    {Needs(version.steps[s]) : s \in DOMAIN version.steps} \ base

StepsOf(c) == IF c.migration = Ledger THEN LedgerSteps
              ELSE Migrations[c.migration][c.files[c.migration]].steps

Current(c) == StepsOf(c)[c.step]

\* [Defect] A late field is created without looking whether it is there.
PresentUnlessLate(c) ==
    IF Current(c).op = EnsureTable THEN TableIn(c.index, Current(c).table)
    ELSE Current(c).op # LateField /\ Needs(Current(c)) \in c.index

\* A table that exists is not looked into for its first field.
Present(c) ==
    IF Current(c).op = EnsureTable THEN TableIn(c.index, Current(c).table)
    ELSE Needs(Current(c)) \in c.index

\* Refused by the script itself: an operation it does not know, a late field
\* of a table it has not seen, or a link it cannot resolve (an ensure_table
\* resolves none).
Impossible(c) ==
    \/ Current(c).op = Unsupported
    \/ Current(c).op \in {EnsureTable, DirectField} /\ Current(c).link # NoTable
    \/ /\ Current(c).op = LateField
       /\ \/ ~TableIn(c.index, Current(c).table)
          \/ Current(c).link # NoTable /\ ~TableIn(c.index, Current(c).link)

\* Refused by Airtable: a name that is taken, or a table it does not have.
Refused(c) ==
    IF Current(c).op = EnsureTable THEN TableIn(base, Current(c).table)
    ELSE Needs(Current(c)) \in base \/ ~TableIn(base, Current(c).table)

-----------------------------------------------------------------------------
(* A run.                                                                  *)

Running(r) == run[r].at \notin {Stopped, Done}

Killed(c) == [c EXCEPT !.at = Stopped, !.known = {}, !.index = {}, !.quiet = FALSE,
                       !.migration = Ledger, !.step = 1]

NextMigration(c) == [c EXCEPT !.at = Choosing, !.migration = @ + 1, !.step = 1]

\* The step is over: the ledger is ready, a migration that had no error is
\* recorded, one that had is left for another run.
StepOver(c) ==
    IF c.step < Len(StepsOf(c)) THEN [c EXCEPT !.step = @ + 1]
    ELSE IF c.migration = Ledger THEN [c EXCEPT !.at = Applied]
    ELSE IF c.clean THEN [c EXCEPT !.at = Recording]
    ELSE NextMigration(c)

\* [Defect] The errors of a migration do not keep it out of the ledger.
FailedUnmarked(c) ==
    IF c.migration = Ledger \/ Current(c).op = EnsureTable THEN Killed(c)
    ELSE StepOver([c EXCEPT !.errors = TRUE])

\* An error in the ledger or in creating a table ends the script; that of a
\* field is kept and the next step taken.
Failed(c) ==
    IF c.migration = Ledger \/ Current(c).op = EnsureTable THEN Killed(c)
    ELSE StepOver([c EXCEPT !.errors = TRUE, !.clean = FALSE])

\* load_migrations; the runs that go on at the same time are not left alone.
Begin(r) ==
    /\ ~Running(r)
    /\ runs < MaxRuns
    /\ LET others == {q \in Runners \ {r} : Running(q)}
       IN  run' = [q \in Runners |->
                     IF q = r THEN [NoRun EXCEPT !.at = Looking, !.files = file,
                                                 !.quiet = (others = {})]
                     ELSE [run[q] EXCEPT !.quiet = FALSE]]
    /\ runs' = runs + 1
    /\ UNCHANGED <<base, recorded, file, faults>>

\* ensure_ledger_table begins with the schema as it is.
LookForLedger(r) ==
    /\ run[r].at = Looking
    /\ run' = [run EXCEPT ![r].at = Working, ![r].index = base]
    /\ UNCHANGED <<base, recorded, file, runs, faults>>

\* A step that needs no request.
SkipStep(r) ==
    /\ run[r].at = Working
    /\ Present(run[r])
    /\ run' = [run EXCEPT ![r] = StepOver(@)]
    /\ UNCHANGED <<base, recorded, file, runs, faults>>

RejectStep(r) ==
    /\ run[r].at = Working
    /\ ~Present(run[r])
    /\ Impossible(run[r]) \/ Refused(run[r])
    /\ run' = [run EXCEPT ![r] = Failed(@)]
    /\ UNCHANGED <<base, recorded, file, runs, faults>>

CanCreate(r) ==
    /\ run[r].at = Working
    /\ ~Present(run[r]) /\ ~Impossible(run[r]) /\ ~Refused(run[r])

Created(r) == base \cup {Needs(Current(run[r]))}

\* create_meta_table, create_meta_field; the schema is read again, but not
\* while the ledger is made.
CreateStep(r) ==
    /\ CanCreate(r)
    /\ base' = Created(r)
    /\ LET seen == IF run[r].migration = Ledger THEN run[r].index ELSE Created(r)
       IN  run' = [run EXCEPT ![r] = StepOver([@ EXCEPT !.index = seen])]
    /\ UNCHANGED <<recorded, file, runs, faults>>

\* The request is refused after its retries, or it was carried out and its
\* answer, or the schema asked for next, is lost: sent again, it is refused.
CreateFails(r) ==
    /\ CanCreate(r)
    /\ faults < MaxFaults
    /\ base' \in {base, Created(r)}
    /\ \E failed \in {Failed(run[r]), Killed(run[r])} :
          run' = [run EXCEPT ![r] = [failed EXCEPT !.quiet = FALSE]]
    /\ faults' = faults + 1
    /\ UNCHANGED <<recorded, file, runs>>

\* applied_revisions: of two records of one migration, either counts.
OnePerFile(records) ==
    {one \in SUBSET records :
        \A a \in records : Cardinality({b \in one : b[1] = a[1]}) = 1}

ReadApplied(r) ==
    /\ run[r].at = Applied
    /\ \E known \in OnePerFile(recorded) :
          run' = [run EXCEPT ![r].at = Reading, ![r].known = known]
    /\ UNCHANGED <<base, recorded, file, runs, faults>>

ReadSchema(r) ==
    /\ run[r].at = Reading
    /\ run' = [run EXCEPT ![r].index = base, ![r].at = Choosing, ![r].migration = 1, ![r].step = 1]
    /\ UNCHANGED <<base, recorded, file, runs, faults>>

KnownIn(c, m) == \E k \in c.known : k[1] = m

\* Recorded under another checksum, or destructive.
Blocked(c) ==
    LET m == c.migration
    IN  IF KnownIn(c, m) THEN <<m, c.files[m]>> \notin c.known
        ELSE Migrations[m][c.files[m]].destructive

Choose(r) ==
    /\ run[r].at = Choosing
    /\ LET c == run[r]
       IN  run' = [run EXCEPT ![r] =
             IF c.migration > Len(Migrations)
             THEN [c EXCEPT !.at = Done, !.known = {}, !.index = {}]
             ELSE IF KnownIn(c, c.migration) \/ Blocked(c)
             THEN NextMigration([c EXCEPT !.errors = @ \/ Blocked(c)])
             ELSE IF StepsOf(c) = <<>> THEN [c EXCEPT !.at = Recording, !.clean = TRUE]
             ELSE [c EXCEPT !.at = Working, !.clean = TRUE]]
    /\ UNCHANGED <<base, recorded, file, runs, faults>>

ThisRecord(r) == <<run[r].migration, run[r].files[run[r].migration]>>

\* mark_migration_applied
Record(r) ==
    /\ run[r].at = Recording
    /\ recorded' = recorded \cup {ThisRecord(r)}
    /\ run' = [run EXCEPT ![r] = NextMigration(@)]
    /\ UNCHANGED <<base, file, runs, faults>>

\* Any other request fails, or the script dies; the record may be there.
Die(r) ==
    /\ Running(r)
    /\ faults < MaxFaults
    /\ \/ UNCHANGED recorded
       \/ run[r].at = Recording /\ recorded' = recorded \cup {ThisRecord(r)}
    /\ run' = [run EXCEPT ![r] = Killed(@)]
    /\ faults' = faults + 1
    /\ UNCHANGED <<base, file, runs>>

EditFile(m) ==
    /\ file[m] < Len(Migrations[m])
    /\ file' = [file EXCEPT ![m] = @ + 1]
    /\ UNCHANGED <<base, recorded, run, runs, faults>>

RunStep(r) ==
    \/ Begin(r) \/ LookForLedger(r)
    \/ SkipStep(r) \/ RejectStep(r) \/ CreateStep(r) \/ CreateFails(r)
    \/ ReadApplied(r) \/ ReadSchema(r) \/ Choose(r) \/ Record(r) \/ Die(r)

Next == (\E r \in Runners : RunStep(r)) \/ (\E m \in Files : EditFile(m))

Spec == Init /\ [][Next]_vars

-----------------------------------------------------------------------------
(* Properties.                                                             *)

RunRow == [at : {Stopped, Looking, Working, Applied, Reading, Choosing, Recording, Done},
           files : FileVersions, known : SUBSET (Nat \X Nat), index : SUBSET (Tables \X Fields),
           migration : Nat, step : Nat \ {0}, errors : BOOLEAN, clean : BOOLEAN, quiet : BOOLEAN]

TypeOK ==
    /\ base \subseteq Tables \X Fields
    /\ recorded \subseteq {k \in Nat \X Nat : k[1] \in Files /\ k[2] \in DOMAIN Migrations[k[1]]}
    /\ file \in FileVersions
    /\ run \in [Runners -> RunRow]
    /\ runs \in Nat /\ faults \in Nat

\* A migration is in the ledger only if all it asks for is in the base, for
\* ever, whatever failed, died or ran beside the run that recorded it: the
\* drift check has nothing to report of what was recorded
\* (execute_migrations, check_drift).
LedgerIsTrue == \A k \in recorded : Missing(Migrations[k[1]][k[2]]) = {}

\* The version of migration m that run c holds.
Held(c, m) == Migrations[m][c.files[m]]

\* Migrations that records hold in another version than c does.
Edited(c, records) == {m \in Files : \E k \in records : k[1] = m /\ k[2] # c.files[m]}

\* The tables that are made before step s of migration m: by an earlier step
\* of it, or by an earlier migration that nothing holds back.
TablesBefore(c, records, m, s) ==
    {t \in Tables : \E n \in 1..m : \E i \in DOMAIN Held(c, n).steps :
        /\ IF n < m THEN n \notin Edited(c, records) /\ ~Held(c, n).destructive ELSE i < s
        /\ Held(c, n).steps[i].op = EnsureTable /\ Held(c, n).steps[i].table = t}

\* A migration that can be applied, those before it being done or left.
Applicable(c, records, m) ==
    /\ ~Held(c, m).destructive
    /\ \A s \in DOMAIN Held(c, m).steps :
          LET step == Held(c, m).steps[s]
          IN  /\ step.op # Unsupported
              /\ step.op \in {EnsureTable, DirectField} => step.link = NoTable
              /\ step.op = LateField =>
                    {step.table, step.link} \ {NoTable} \subseteq TablesBefore(c, records, m, s)

\* Whatever state earlier runs left the base and the ledger in, a run that
\* is left alone and meets no fault brings both up to date: every migration
\* that can be applied is recorded and there, and the run reports an error
\* only for those that cannot, or were edited after they were recorded
\* (execute_migrations and what it ensures).
RerunCompletes ==
    \A r \in Runners : LET c == run[r]
                           edited == Edited(c, recorded)
                       IN  c.at = Done /\ c.quiet =>
        /\ \A m \in Files \ edited : Applicable(c, recorded, m) =>
              <<m, c.files[m]>> \in recorded /\ Missing(Held(c, m)) = {}
        /\ c.errors => \E m \in Files : m \in edited \/ ~Applicable(c, recorded, m)

=============================================================================
