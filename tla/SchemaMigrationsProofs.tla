----------------------- MODULE SchemaMigrationsProofs -----------------------
(***************************************************************************)
(* What the ledger says was applied is in the base, for any migration      *)
(* files, any number of people who run the script, and any faults.         *)
(*                                                                         *)
(* A record is written at the end of a run through the steps of its        *)
(* migration, so the invariant has to follow each run step by step: as     *)
(* long as none of them failed, what they asked for is in the base, be it  *)
(* because the run created it or because the schema it had read showed it. *)
(* A table is only looked up by its name, so the second case needs that a  *)
(* table never is without its first field.                                 *)
(***************************************************************************)
EXTENDS SchemaMigrations, TLAPS

\* A table came with its first field.
PrimaryThere == \A t \in Tables : TableIn(base, t) => <<t, Primary[t]>> \in base

\* What a run knows is so, and what it went through without an error is in b.
RunIsTrue(c, b) ==
    /\ c.index \subseteq b
    /\ c.at \in {Working, Recording} /\ c.migration # Ledger => c.migration \in Files
    /\ c.at = Looking => c.migration = Ledger /\ c.step = 1
    /\ c.at \in {Choosing, Recording} => c.migration # Ledger
    /\ c.at = Choosing => c.step = 1
    /\ c.at = Working => c.step \in DOMAIN StepsOf(c)
    /\ c.at = Working /\ c.migration # Ledger /\ c.clean =>
          \A i \in 1..(c.step - 1) : Needs(StepsOf(c)[i]) \in b
    /\ c.at = Recording => \A i \in DOMAIN StepsOf(c) : Needs(StepsOf(c)[i]) \in b

IInv ==
    /\ TypeOK
    /\ PrimaryThere
    /\ \A r \in Runners : RunIsTrue(run[r], base)
    /\ LedgerIsTrue

-----------------------------------------------------------------------------
(* Steps and versions.                                                     *)

\* The first field of a table is the one its step asks for.
FirstField(step) == step.op = EnsureTable => step.field = Primary[step.table]

LEMMA VersionSteps ==
    ASSUME NEW m \in Files, NEW v \in DOMAIN Migrations[m]
    PROVE  /\ Migrations[m][v] \in Version
           /\ Migrations[m][v].steps \in Seq(Step)
           /\ \A s \in DOMAIN Migrations[m][v].steps : FirstField(Migrations[m][v].steps[s])
<1>1. Migrations[m] \in Seq(Version) \ {<<>>}
  BY MigrationsAssumption DEF Files
<1>2. Migrations[m][v] \in Version
  BY <1>1
<1>3. \A s \in DOMAIN Migrations[m][v].steps : FirstField(Migrations[m][v].steps[s])
  BY MigrationsAssumption DEF Files, FirstField, WellFormed
<1> QED BY <1>2, <1>3 DEF Version

\* A run that works has its steps before it.
LEMMA StepsOfRun ==
    ASSUME NEW c \in RunRow, c.migration = Ledger \/ c.migration \in Files
    PROVE  /\ StepsOf(c) \in Seq(Step)
           /\ \A s \in DOMAIN StepsOf(c) : FirstField(StepsOf(c)[s])
<1>1. CASE c.migration = Ledger
  BY <1>1, MigrationsAssumption DEF StepsOf, FirstField, WellFormed
<1>2. CASE c.migration \in Files /\ c.migration # Ledger
  <2>1. c.files[c.migration] \in DOMAIN Migrations[c.migration]
    BY <1>2 DEF RunRow, FileVersions
  <2>2. StepsOf(c) = Migrations[c.migration][c.files[c.migration]].steps
    BY <1>2 DEF StepsOf
  <2> QED BY <1>2, <2>1, <2>2, VersionSteps
<1> QED BY <1>1, <1>2

LEMMA CurrentStep ==
    ASSUME NEW c \in RunRow, NEW b, RunIsTrue(c, b), c.at = Working
    PROVE  /\ Current(c) \in Step
           /\ FirstField(Current(c))
           /\ Needs(Current(c)) \in Tables \X Fields
<1>1. c.migration = Ledger \/ c.migration \in Files
  BY DEF RunIsTrue
<1>2. c.step \in DOMAIN StepsOf(c)
  BY DEF RunIsTrue
<1>3. Current(c) \in Step /\ FirstField(Current(c))
  BY <1>1, <1>2, StepsOfRun DEF Current
<1> QED BY <1>3 DEF Needs, Step

-----------------------------------------------------------------------------
(* One run.                                                                *)

\* The base only grows.
LEMMA TrueInMore ==
    ASSUME NEW c, NEW b, NEW more, RunIsTrue(c, b), b \subseteq more
    PROVE  RunIsTrue(c, more)
  BY DEF RunIsTrue

LEMMA KilledIsTrue ==
    ASSUME NEW c \in RunRow, NEW b
    PROVE  Killed(c) \in RunRow /\ RunIsTrue(Killed(c), b)
<1>1. Killed(c) \in RunRow
  <2>1. Ledger \in Nat /\ 1 \in Nat \ {0}
    BY DEF Ledger
  <2>2. {} \in SUBSET (Nat \X Nat) /\ {} \in SUBSET (Tables \X Fields)
    OBVIOUS
  <2>3. [c EXCEPT !.at = Stopped, !.known = {}, !.index = {}] \in RunRow
    BY <2>2 DEF RunRow
  <2> DEFINE d == [c EXCEPT !.at = Stopped, !.known = {}, !.index = {}]
  <2>4. [d EXCEPT !.quiet = FALSE, !.migration = Ledger, !.step = 1] \in RunRow
    BY <2>1, <2>3 DEF RunRow
  <2>5. Killed(c) = [d EXCEPT !.quiet = FALSE, !.migration = Ledger, !.step = 1]
    BY DEF Killed, RunRow
  <2> QED BY <2>4, <2>5
<1>2. Killed(c).at = Stopped /\ Killed(c).index = {}
  BY DEF Killed, RunRow
<1> QED BY <1>1, <1>2 DEF RunIsTrue, Stopped, Looking, Working, Recording, Choosing

\* A run stays true when it stops being left alone.
LEMMA DisturbedIsTrue ==
    ASSUME NEW c \in RunRow, NEW b, RunIsTrue(c, b)
    PROVE  /\ [c EXCEPT !.quiet = FALSE] \in RunRow
           /\ RunIsTrue([c EXCEPT !.quiet = FALSE], b)
<1> DEFINE d == [c EXCEPT !.quiet = FALSE]
<1>1. d \in RunRow
  BY DEF RunRow
<1>2. /\ d.at = c.at /\ d.files = c.files /\ d.index = c.index
      /\ d.migration = c.migration /\ d.step = c.step /\ d.clean = c.clean
  BY DEF RunRow
<1>3. StepsOf(d) = StepsOf(c)
  BY <1>2 DEF StepsOf
<1> QED BY <1>1, <1>2, <1>3 DEF RunIsTrue

LEMMA NextMigrationIsTrue ==
    ASSUME NEW c \in RunRow, NEW b, c.index \subseteq b
    PROVE  NextMigration(c) \in RunRow /\ RunIsTrue(NextMigration(c), b)
<1> DEFINE d == NextMigration(c)
<1>1. d \in RunRow
  <2>1. c.migration + 1 \in Nat /\ 1 \in Nat \ {0}
    BY DEF RunRow
  <2> QED BY <2>1 DEF NextMigration, RunRow
<1>2. d.at = Choosing /\ d.index = c.index /\ d.migration = c.migration + 1 /\ d.step = 1
  BY DEF NextMigration, RunRow
<1>3. d.migration # Ledger
  BY <1>2 DEF RunRow, Ledger
<1> QED BY <1>1, <1>2, <1>3 DEF RunIsTrue, Looking, Working, Recording, Choosing

\* A step is over whose need is in the base, or that was marked as failed.
LEMMA StepOverIsTrue ==
    ASSUME NEW c \in RunRow, NEW b, RunIsTrue(c, b), c.at = Working,
           c.migration # Ledger /\ c.clean => Needs(Current(c)) \in b
    PROVE  StepOver(c) \in RunRow /\ RunIsTrue(StepOver(c), b)
<1>1. c.migration = Ledger \/ c.migration \in Files
  BY DEF RunIsTrue
<1>2. StepsOf(c) \in Seq(Step) /\ c.step \in 1..Len(StepsOf(c))
  BY <1>1, StepsOfRun DEF RunIsTrue
<1>3. CASE c.step < Len(StepsOf(c))
  <2> DEFINE d == [c EXCEPT !.step = @ + 1]
  <2>1. StepOver(c) = d
    BY <1>3 DEF StepOver
  <2>2. d \in RunRow
    BY <1>2 DEF RunRow
  <2>3. /\ d.at = c.at /\ d.files = c.files /\ d.index = c.index
        /\ d.migration = c.migration /\ d.step = c.step + 1 /\ d.clean = c.clean
    BY DEF RunRow
  <2>4. StepsOf(d) = StepsOf(c)
    BY <2>3 DEF StepsOf
  <2>5. d.step \in DOMAIN StepsOf(d)
    BY <1>2, <1>3, <2>3, <2>4
  <2>6. ASSUME d.migration # Ledger, d.clean, NEW i \in 1..(d.step - 1)
        PROVE  Needs(StepsOf(d)[i]) \in b
    <3>1. i \in 1..(c.step - 1) \/ i = c.step
      BY <1>2, <2>3
    <3>2. CASE i \in 1..(c.step - 1)
      BY <2>3, <2>4, <2>6, <3>2 DEF RunIsTrue
    <3>3. CASE i = c.step
      BY <2>3, <2>4, <2>6, <3>3 DEF Current
    <3> QED BY <3>1, <3>2, <3>3
  <2>7. d.at = Working
    BY <2>3
  <2>8. RunIsTrue(d, b)
    BY <1>1, <2>3, <2>5, <2>6, <2>7 DEF RunIsTrue, Looking, Working, Recording, Choosing
  <2> QED BY <2>1, <2>2, <2>8
<1>4. CASE c.step = Len(StepsOf(c)) /\ c.migration = Ledger
  <2> DEFINE d == [c EXCEPT !.at = Applied]
  <2>1. StepOver(c) = d
    BY <1>2, <1>4 DEF StepOver
  <2>2. d \in RunRow /\ d.at = Applied /\ d.index = c.index
    BY DEF RunRow, Applied
  <2> QED BY <2>1, <2>2 DEF RunIsTrue, Applied, Looking, Working, Recording, Choosing
<1>5. CASE c.step = Len(StepsOf(c)) /\ c.migration # Ledger /\ c.clean
  <2> DEFINE d == [c EXCEPT !.at = Recording]
  <2>1. StepOver(c) = d
    BY <1>2, <1>5 DEF StepOver
  <2>2. /\ d \in RunRow /\ d.at = Recording /\ d.index = c.index
        /\ d.migration = c.migration /\ d.files = c.files
    BY DEF RunRow, Recording
  <2>3. StepsOf(d) = StepsOf(c)
    BY <2>2 DEF StepsOf
  <2>4. ASSUME NEW i \in DOMAIN StepsOf(c) PROVE Needs(StepsOf(c)[i]) \in b
    <3>1. i \in 1..(c.step - 1) \/ i = c.step
      BY <1>2, <1>5
    <3> QED BY <1>5, <3>1 DEF RunIsTrue, Current
  <2> QED BY <1>1, <1>5, <2>1, <2>2, <2>3, <2>4 DEF RunIsTrue, Looking, Working, Recording, Choosing
<1>6. CASE c.step = Len(StepsOf(c)) /\ c.migration # Ledger /\ ~c.clean
  <2>1. StepOver(c) = NextMigration(c)
    BY <1>2, <1>6 DEF StepOver
  <2> QED BY <2>1, NextMigrationIsTrue DEF RunIsTrue
<1> QED BY <1>2, <1>3, <1>4, <1>5, <1>6

LEMMA FailedIsTrue ==
    ASSUME NEW c \in RunRow, NEW b, RunIsTrue(c, b), c.at = Working
    PROVE  Failed(c) \in RunRow /\ RunIsTrue(Failed(c), b)
<1>1. CASE c.migration = Ledger \/ Current(c).op = EnsureTable
  BY <1>1, KilledIsTrue DEF Failed
<1>2. CASE ~(c.migration = Ledger \/ Current(c).op = EnsureTable)
  <2> DEFINE d == [c EXCEPT !.errors = TRUE, !.clean = FALSE]
  <2>1. d \in RunRow
    BY DEF RunRow
  <2>2. /\ d.at = c.at /\ d.files = c.files /\ d.index = c.index
        /\ d.migration = c.migration /\ d.step = c.step /\ d.clean = FALSE
    BY DEF RunRow
  <2>3. StepsOf(d) = StepsOf(c)
    BY <2>2 DEF StepsOf
  <2>4. RunIsTrue(d, b)
    BY <2>2, <2>3 DEF RunIsTrue, Looking, Working, Recording, Choosing
  <2>5. StepOver(d) \in RunRow /\ RunIsTrue(StepOver(d), b)
    BY <2>1, <2>2, <2>4, StepOverIsTrue
  <2> QED BY <1>2, <2>5 DEF Failed
<1> QED BY <1>1, <1>2

-----------------------------------------------------------------------------
(* The base and the ledger.                                                *)

LEMMA Types ==
    ASSUME IInv
    PROVE  /\ \A r \in Runners : run[r] \in RunRow /\ RunIsTrue(run[r], base)
           /\ base \subseteq Tables \X Fields
           /\ runs \in Nat /\ faults \in Nat /\ file \in FileVersions
  BY DEF IInv, TypeOK

\* What was recorded stays true while the base grows.
LEMMA LedgerStaysTrue ==
    ASSUME IInv, base \subseteq base', recorded' = recorded
    PROVE  LedgerIsTrue'
<1> SUFFICES ASSUME NEW k \in recorded PROVE (Missing(Migrations[k[1]][k[2]]))' = {}
  BY DEF LedgerIsTrue
<1>1. Missing(Migrations[k[1]][k[2]]) = {}
  BY DEF IInv, LedgerIsTrue
<1> QED BY <1>1 DEF Missing

\* The record of a run that comes to write it is true.
LEMMA NewRecordIsTrue ==
    ASSUME IInv, NEW r \in Runners, run[r].at = Recording
    PROVE  LET k == ThisRecord(r)
           IN  /\ k \in {j \in Nat \X Nat : j[1] \in Files /\ j[2] \in DOMAIN Migrations[j[1]]}
               /\ Missing(Migrations[k[1]][k[2]]) = {}
<1> DEFINE c == run[r]
           k == ThisRecord(r)
<1>1. c \in RunRow /\ RunIsTrue(c, base)
  BY Types
<1>2. c.migration \in Files /\ c.migration # Ledger
  BY <1>1 DEF RunIsTrue
<1>3. c.files \in [Files -> Nat] /\ c.files[c.migration] \in DOMAIN Migrations[c.migration]
  BY <1>1, <1>2 DEF RunRow, FileVersions
<1>4. k = <<c.migration, c.files[c.migration]>> /\ k[1] = c.migration /\ k[2] = c.files[c.migration]
  BY DEF ThisRecord
<1>5. k \in Nat \X Nat
  BY <1>1, <1>2, <1>3, <1>4 DEF RunRow
<1>6. StepsOf(c) = Migrations[k[1]][k[2]].steps
  BY <1>2, <1>4 DEF StepsOf
<1>7. Missing(Migrations[k[1]][k[2]]) = {}
  BY <1>1, <1>6 DEF RunIsTrue, Missing
<1> QED BY <1>2, <1>3, <1>4, <1>5, <1>7

\* A step of one run.
LEMMA RunChanged ==
    ASSUME IInv, NEW r \in Runners, NEW d \in RunRow, RunIsTrue(d, base'),
           run' = [run EXCEPT ![r] = d],
           base \subseteq base', base' \subseteq Tables \X Fields, PrimaryThere',
           recorded' \subseteq {j \in Nat \X Nat : j[1] \in Files /\ j[2] \in DOMAIN Migrations[j[1]]},
           LedgerIsTrue', file' = file, runs' \in Nat, faults' \in Nat
    PROVE  IInv'
<1>1. \A q \in Runners : run[q] \in RunRow /\ RunIsTrue(run[q], base)
  BY Types
<1>2. run \in [Runners -> RunRow]
  BY DEF IInv, TypeOK
<1>3. \A q \in Runners : run'[q] \in RunRow /\ RunIsTrue(run'[q], base')
  <2> TAKE q \in Runners
  <2>1. CASE q = r
    BY <1>2, <2>1
  <2>2. CASE q # r
    <3>1. run'[q] = run[q]
      BY <1>2, <2>2
    <3> QED BY <1>1, <3>1, TrueInMore
  <2> QED BY <2>1, <2>2
<1>4. run' \in [Runners -> RunRow]
  BY <1>2
<1>5. TypeOK'
  BY <1>4, Types DEF TypeOK
<1> QED BY <1>3, <1>5 DEF IInv

\* A step of one run that leaves the base and the ledger as they are.
LEMMA OnlyRunChanged ==
    ASSUME IInv, NEW r \in Runners, NEW d \in RunRow, RunIsTrue(d, base),
           run' = [run EXCEPT ![r] = d],
           UNCHANGED <<base, recorded, file>>, runs' \in Nat, faults' \in Nat
    PROVE  IInv'
<1>1. LedgerIsTrue'
  BY LedgerStaysTrue
<1>2. PrimaryThere'
  BY DEF IInv, PrimaryThere
<1>3. base' \subseteq Tables \X Fields /\ recorded' \subseteq
        {j \in Nat \X Nat : j[1] \in Files /\ j[2] \in DOMAIN Migrations[j[1]]}
  BY DEF IInv, TypeOK
<1> QED BY <1>1, <1>2, <1>3, RunChanged

\* A table or field that is created brings no table without its first field.
LEMMA CreatedKeepsPrimary ==
    ASSUME IInv, NEW r \in Runners, CanCreate(r)
    PROVE  /\ Created(r) \subseteq Tables \X Fields
           /\ base \subseteq Created(r)
           /\ Needs(Current(run[r])) \in Created(r)
           /\ base' = Created(r) => PrimaryThere'
<1> DEFINE step == Current(run[r])
<1>1. step \in Step /\ FirstField(step) /\ Needs(step) \in Tables \X Fields
  BY Types, CurrentStep DEF CanCreate
<1>2. Created(r) \subseteq Tables \X Fields /\ base \subseteq Created(r) /\ Needs(step) \in Created(r)
  BY <1>1, Types DEF Created
<1>3. ASSUME base' = Created(r), NEW t \in Tables, TableIn(base', t)
      PROVE  <<t, Primary[t]>> \in base'
  <2>1. CASE TableIn(base, t)
    BY <1>2, <1>3, <2>1 DEF IInv, PrimaryThere
  <2>2. CASE ~TableIn(base, t)
    <3>1. PICK f \in Fields : <<t, f>> \in Created(r)
      BY <1>3 DEF TableIn
    <3>2. <<t, f>> = Needs(step)
      BY <2>2, <3>1 DEF Created, TableIn
    <3>3. step.table = t /\ step.field = f
      BY <3>2 DEF Needs
    <3>4. step.op = EnsureTable
      BY <2>2, <3>3 DEF CanCreate, Refused
    <3>5. f = Primary[t]
      BY <1>1, <3>3, <3>4 DEF FirstField
    <3> QED BY <1>3, <3>1, <3>5
  <2> QED BY <2>1, <2>2
<1>4. base' = Created(r) => PrimaryThere'
  BY <1>3 DEF PrimaryThere, TableIn
<1> QED BY <1>2, <1>4

-----------------------------------------------------------------------------
(* The actions.                                                            *)

LEMMA NoRunIsARun ==
    /\ NoRun \in RunRow
    /\ NoRun.at = Stopped /\ NoRun.index = {} /\ NoRun.migration = Ledger /\ NoRun.step = 1
<1>1. [m \in Files |-> 1] \in FileVersions
  BY MigrationsAssumption DEF Files, FileVersions
<1>2. Ledger \in Nat /\ 1 \in Nat \ {0} /\ {} \in SUBSET (Nat \X Nat) /\ {} \in SUBSET (Tables \X Fields)
  BY DEF Ledger
<1> QED BY <1>1, <1>2 DEF NoRun, RunRow

LEMMA InitIInv == Init => IInv
<1> SUFFICES ASSUME Init PROVE IInv
  OBVIOUS
<1>1. [m \in Files |-> 1] \in FileVersions
  BY MigrationsAssumption DEF Files, FileVersions
<1>2. RunIsTrue(NoRun, base)
  BY NoRunIsARun DEF RunIsTrue, Stopped, Looking, Working, Recording, Choosing
<1>3. TypeOK
  BY <1>1, NoRunIsARun DEF Init, TypeOK
<1>4. PrimaryThere /\ LedgerIsTrue
  BY DEF Init, PrimaryThere, LedgerIsTrue, TableIn
<1> QED BY <1>2, <1>3, <1>4 DEF IInv, Init

LEMMA BeginKeeps ==
    ASSUME IInv, NEW r \in Runners, Begin(r)
    PROVE  IInv'
<1> DEFINE fresh(alone) == [NoRun EXCEPT !.at = Looking, !.files = file, !.quiet = alone]
<1>1. ASSUME NEW alone \in BOOLEAN PROVE fresh(alone) \in RunRow /\ RunIsTrue(fresh(alone), base)
  <2>1. fresh(alone) \in RunRow
    BY NoRunIsARun, Types DEF RunRow
  <2>2. /\ fresh(alone).at = Looking /\ fresh(alone).index = {}
        /\ fresh(alone).migration = Ledger /\ fresh(alone).step = 1
    BY NoRunIsARun DEF RunRow
  <2> QED BY <2>1, <2>2 DEF RunIsTrue, Looking, Working, Recording, Choosing
<1>2. \A q \in Runners : run[q] \in RunRow /\ RunIsTrue(run[q], base)
  BY Types
<1>3. \A q \in Runners \ {r} : run'[q] = [run[q] EXCEPT !.quiet = FALSE]
  BY DEF Begin
<1>4. PICK alone \in BOOLEAN : run'[r] = fresh(alone)
  BY DEF Begin
<1>5. \A q \in Runners : run'[q] \in RunRow /\ RunIsTrue(run'[q], base)
  <2> TAKE q \in Runners
  <2>1. CASE q = r
    BY <1>1, <1>4, <2>1
  <2>2. CASE q # r
    <3>1. run'[q] = [run[q] EXCEPT !.quiet = FALSE]
      BY <1>3, <2>2
    <3>2. /\ [run[q] EXCEPT !.quiet = FALSE] \in RunRow
          /\ RunIsTrue([run[q] EXCEPT !.quiet = FALSE], base)
      BY <1>2, DisturbedIsTrue
    <3> QED BY <3>1, <3>2
  <2> QED BY <2>1, <2>2
<1>6. run' \in [Runners -> RunRow]
  <2>1. /\ DOMAIN run' = Runners
        /\ run' = [q \in Runners |-> run'[q]]
    BY DEF Begin
  <2> QED BY <1>5, <2>1
<1>7. base' = base /\ recorded' = recorded /\ file' = file /\ faults' = faults /\ runs' = runs + 1
  BY DEF Begin
<1>8. TypeOK'
  BY <1>6, <1>7 DEF IInv, TypeOK
<1>9. PrimaryThere' /\ LedgerIsTrue'
  BY <1>7, LedgerStaysTrue DEF IInv, PrimaryThere
<1> QED BY <1>5, <1>7, <1>8, <1>9 DEF IInv

LEMMA LookKeeps ==
    ASSUME IInv, NEW r \in Runners, LookForLedger(r)
    PROVE  IInv'
<1> DEFINE c == run[r]
           d == [c EXCEPT !.at = Working, !.index = base]
<1>1. c \in RunRow /\ RunIsTrue(c, base) /\ base \in SUBSET (Tables \X Fields) /\ run \in [Runners -> RunRow]
  BY Types DEF IInv, TypeOK
<1>2. run' = [run EXCEPT ![r] = d]
  BY <1>1 DEF LookForLedger
<1>3. d \in RunRow
  BY <1>1 DEF RunRow
<1>4. d.at = Working /\ d.index = base /\ d.migration = Ledger /\ d.step = 1
  BY <1>1 DEF RunRow, RunIsTrue, LookForLedger
<1>5. d.step \in DOMAIN StepsOf(d)
  BY <1>4, MigrationsAssumption DEF StepsOf
<1>6. RunIsTrue(d, base)
  BY <1>4, <1>5 DEF RunIsTrue, Looking, Working, Recording, Choosing
<1>7. UNCHANGED <<base, recorded, file>> /\ runs' \in Nat /\ faults' \in Nat
  BY Types DEF LookForLedger
<1> QED BY <1>2, <1>3, <1>6, <1>7, OnlyRunChanged

\* What is skipped is there: a table that exists has its first field.
LEMMA SkipKeeps ==
    ASSUME IInv, NEW r \in Runners, SkipStep(r)
    PROVE  IInv'
<1> DEFINE c == run[r]
           d == StepOver(c)
<1>1. c \in RunRow /\ RunIsTrue(c, base) /\ c.at = Working
  BY Types DEF SkipStep
<1>2. Current(c) \in Step /\ FirstField(Current(c))
  BY <1>1, CurrentStep
<1>3. Needs(Current(c)) \in base
  <2>1. c.index \subseteq base
    BY <1>1 DEF RunIsTrue
  <2>2. CASE Current(c).op = EnsureTable
    <3>1. TableIn(base, Current(c).table)
      BY <2>1, <2>2 DEF SkipStep, Present, TableIn
    <3>2. <<Current(c).table, Primary[Current(c).table]>> \in base
      BY <1>2, <3>1 DEF IInv, PrimaryThere, Step
    <3> QED BY <1>2, <2>2, <3>2 DEF FirstField, Needs
  <2>3. CASE Current(c).op # EnsureTable
    BY <2>1, <2>3 DEF SkipStep, Present
  <2> QED BY <2>2, <2>3
<1>4. d \in RunRow /\ RunIsTrue(d, base)
  BY <1>1, <1>3, StepOverIsTrue
<1>5. /\ run' = [run EXCEPT ![r] = d]
      /\ UNCHANGED <<base, recorded, file>> /\ runs' \in Nat /\ faults' \in Nat
  BY Types DEF SkipStep
<1> QED BY <1>4, <1>5, OnlyRunChanged

LEMMA RejectKeeps ==
    ASSUME IInv, NEW r \in Runners, RejectStep(r)
    PROVE  IInv'
<1>1. run[r] \in RunRow /\ RunIsTrue(run[r], base) /\ run[r].at = Working
  BY Types DEF RejectStep
<1>2. Failed(run[r]) \in RunRow /\ RunIsTrue(Failed(run[r]), base)
  BY <1>1, FailedIsTrue
<1>3. /\ run' = [run EXCEPT ![r] = Failed(run[r])]
      /\ UNCHANGED <<base, recorded, file>> /\ runs' \in Nat /\ faults' \in Nat
  BY Types DEF RejectStep
<1> QED BY <1>2, <1>3, OnlyRunChanged

LEMMA CreateKeeps ==
    ASSUME IInv, NEW r \in Runners, CreateStep(r)
    PROVE  IInv'
<1> DEFINE c == run[r]
           seen == IF c.migration = Ledger THEN c.index ELSE Created(r)
           b == [c EXCEPT !.index = seen]
           d == StepOver(b)
<1>1. CanCreate(r) /\ base' = Created(r) /\ run' = [run EXCEPT ![r] = d]
  BY DEF CreateStep
<1>2. c \in RunRow /\ RunIsTrue(c, base) /\ c.at = Working
  BY <1>1, Types DEF CanCreate
<1>3. /\ Created(r) \subseteq Tables \X Fields /\ base \subseteq base' /\ PrimaryThere'
      /\ Needs(Current(c)) \in base'
  BY <1>1, CreatedKeepsPrimary
<1>4. RunIsTrue(c, base')
  BY <1>2, <1>3, TrueInMore
<1>5. seen \in SUBSET (Tables \X Fields) /\ seen \subseteq base'
  BY <1>1, <1>2, <1>3, <1>4 DEF RunRow, RunIsTrue
<1>6. b \in RunRow
  BY <1>2, <1>5 DEF RunRow
<1>7. /\ b.at = c.at /\ b.files = c.files /\ b.index = seen /\ b.migration = c.migration
      /\ b.step = c.step /\ b.clean = c.clean
  BY <1>2 DEF RunRow
<1>8. StepsOf(b) = StepsOf(c) /\ Current(b) = Current(c)
  BY <1>7 DEF StepsOf, Current
<1>9. RunIsTrue(b, base')
  BY <1>4, <1>5, <1>7, <1>8 DEF RunIsTrue
<1>10. d \in RunRow /\ RunIsTrue(d, base')
  BY <1>2, <1>3, <1>6, <1>7, <1>8, <1>9, StepOverIsTrue
<1>11. /\ recorded' = recorded /\ file' = file /\ runs' \in Nat /\ faults' \in Nat
       /\ recorded' \subseteq {j \in Nat \X Nat : j[1] \in Files /\ j[2] \in DOMAIN Migrations[j[1]]}
  BY Types DEF CreateStep, IInv, TypeOK
<1>12. LedgerIsTrue'
  BY <1>3, <1>11, LedgerStaysTrue
<1> QED BY <1>1, <1>3, <1>10, <1>11, <1>12, RunChanged

LEMMA CreateFailsKeeps ==
    ASSUME IInv, NEW r \in Runners, CreateFails(r)
    PROVE  IInv'
<1> DEFINE c == run[r]
<1>1. CanCreate(r) /\ base' \in {base, Created(r)}
  BY DEF CreateFails
<1>2. c \in RunRow /\ RunIsTrue(c, base) /\ c.at = Working
  BY <1>1, Types DEF CanCreate
<1>3. base \subseteq base' /\ base' \subseteq Tables \X Fields /\ PrimaryThere'
  <2>1. CASE base' = Created(r)
    BY <1>1, <2>1, CreatedKeepsPrimary
  <2>2. CASE base' = base
    BY <2>2, Types DEF IInv, PrimaryThere
  <2> QED BY <1>1, <2>1, <2>2
<1>4. RunIsTrue(c, base')
  BY <1>2, <1>3, TrueInMore
<1>5. PICK failed \in {Failed(c), Killed(c)} : run' = [run EXCEPT ![r] = [failed EXCEPT !.quiet = FALSE]]
  BY DEF CreateFails
<1>6. failed \in RunRow /\ RunIsTrue(failed, base')
  BY <1>2, <1>4, <1>5, FailedIsTrue, KilledIsTrue
<1>7. [failed EXCEPT !.quiet = FALSE] \in RunRow /\ RunIsTrue([failed EXCEPT !.quiet = FALSE], base')
  BY <1>6, DisturbedIsTrue
<1>8. /\ recorded' = recorded /\ file' = file /\ runs' \in Nat /\ faults' \in Nat
      /\ recorded' \subseteq {j \in Nat \X Nat : j[1] \in Files /\ j[2] \in DOMAIN Migrations[j[1]]}
  BY Types DEF CreateFails, IInv, TypeOK
<1>9. LedgerIsTrue'
  BY <1>3, <1>8, LedgerStaysTrue
<1> QED BY <1>3, <1>5, <1>7, <1>8, <1>9, RunChanged

LEMMA ReadAppliedKeeps ==
    ASSUME IInv, NEW r \in Runners, ReadApplied(r)
    PROVE  IInv'
<1>1. PICK known \in OnePerFile(recorded) :
          run' = [run EXCEPT ![r].at = Reading, ![r].known = known]
  BY DEF ReadApplied
<1> DEFINE d == [run[r] EXCEPT !.at = Reading, !.known = known]
<1>2. known \in SUBSET (Nat \X Nat)
  BY <1>1 DEF OnePerFile, IInv, TypeOK
<1>3. run[r] \in RunRow /\ RunIsTrue(run[r], base) /\ run \in [Runners -> RunRow]
  BY Types DEF IInv, TypeOK
<1>4. run' = [run EXCEPT ![r] = d]
  BY <1>1, <1>3
<1>5. d \in RunRow /\ d.at = Reading /\ d.index = run[r].index
  BY <1>2, <1>3 DEF RunRow
<1>6. RunIsTrue(d, base)
  BY <1>3, <1>5 DEF RunIsTrue, Reading, Looking, Working, Recording, Choosing
<1>7. UNCHANGED <<base, recorded, file>> /\ runs' \in Nat /\ faults' \in Nat
  BY Types DEF ReadApplied
<1> QED BY <1>4, <1>5, <1>6, <1>7, OnlyRunChanged

LEMMA ReadSchemaKeeps ==
    ASSUME IInv, NEW r \in Runners, ReadSchema(r)
    PROVE  IInv'
<1> DEFINE d == [run[r] EXCEPT !.index = base, !.at = Choosing, !.migration = 1, !.step = 1]
<1>1. /\ run[r] \in RunRow /\ RunIsTrue(run[r], base) /\ run \in [Runners -> RunRow]
      /\ base \in SUBSET (Tables \X Fields)
  BY Types DEF IInv, TypeOK
<1>2. run' = [run EXCEPT ![r] = d]
  BY <1>1 DEF ReadSchema
<1>3. 1 \in Nat /\ 1 \in Nat \ {0}
  OBVIOUS
<1>4. d \in RunRow /\ d.at = Choosing /\ d.index = base /\ d.migration = 1 /\ d.step = 1
  BY <1>1, <1>3 DEF RunRow
<1>5. RunIsTrue(d, base)
  BY <1>4 DEF RunIsTrue, Ledger, Looking, Working, Recording, Choosing
<1>6. UNCHANGED <<base, recorded, file>> /\ runs' \in Nat /\ faults' \in Nat
  BY Types DEF ReadSchema
<1> QED BY <1>2, <1>4, <1>5, <1>6, OnlyRunChanged

LEMMA ChooseKeeps ==
    ASSUME IInv, NEW r \in Runners, Choose(r)
    PROVE  IInv'
<1> DEFINE c == run[r]
           over == [c EXCEPT !.at = Done, !.known = {}, !.index = {}]
           passed == [c EXCEPT !.errors = @ \/ Blocked(c)]
           empty == [c EXCEPT !.at = Recording, !.clean = TRUE]
           taken == [c EXCEPT !.at = Working, !.clean = TRUE]
           d == IF c.migration > Len(Migrations) THEN over
                ELSE IF KnownIn(c, c.migration) \/ Blocked(c) THEN NextMigration(passed)
                ELSE IF StepsOf(c) = <<>> THEN empty
                ELSE taken
<1>1. c \in RunRow /\ RunIsTrue(c, base) /\ c.at = Choosing /\ run \in [Runners -> RunRow]
  BY Types DEF IInv, TypeOK, Choose
<1>2. run' = [run EXCEPT ![r] = d]
  BY DEF Choose
<1>3. c.migration \in Nat /\ c.migration # Ledger /\ c.step = 1 /\ c.index \subseteq base
  BY <1>1 DEF RunIsTrue, RunRow
<1>4. over \in RunRow /\ RunIsTrue(over, base)
  <2>1. {} \in SUBSET (Nat \X Nat) /\ {} \in SUBSET (Tables \X Fields)
    OBVIOUS
  <2>2. over \in RunRow /\ over.at = Done /\ over.index = {}
    BY <1>1, <2>1 DEF RunRow
  <2> QED BY <2>2 DEF RunIsTrue, Done, Looking, Working, Recording, Choosing
<1>5. NextMigration(passed) \in RunRow /\ RunIsTrue(NextMigration(passed), base)
  <2>1. (c.errors \/ Blocked(c)) \in BOOLEAN
    OBVIOUS
  <2>2. passed \in RunRow /\ passed.index = c.index
    BY <1>1, <2>1 DEF RunRow
  <2> QED BY <1>3, <2>2, NextMigrationIsTrue
<1>6. ASSUME ~(c.migration > Len(Migrations))
      PROVE  /\ c.migration \in Files
             /\ StepsOf(c) \in Seq(Step)
             /\ StepsOf(empty) = StepsOf(c) /\ StepsOf(taken) = StepsOf(c)
  <2>1. c.migration \in Files
    BY <1>3, <1>6, MigrationsAssumption DEF Files, Ledger
  <2>2. /\ empty.migration = c.migration /\ empty.files = c.files
        /\ taken.migration = c.migration /\ taken.files = c.files
    BY <1>1 DEF RunRow
  <2>3. StepsOf(empty) = StepsOf(c) /\ StepsOf(taken) = StepsOf(c)
    BY <2>2 DEF StepsOf
  <2> QED BY <1>1, <2>1, <2>3, StepsOfRun
<1>7. ASSUME ~(c.migration > Len(Migrations)), StepsOf(c) = <<>>
      PROVE  empty \in RunRow /\ RunIsTrue(empty, base)
  <2>1. /\ empty \in RunRow /\ empty.at = Recording /\ empty.index = c.index
        /\ empty.migration = c.migration
    BY <1>1 DEF RunRow
  <2>2. DOMAIN StepsOf(empty) = {}
    BY <1>6, <1>7
  <2> QED BY <1>3, <1>6, <1>7, <2>1, <2>2 DEF RunIsTrue, Looking, Working, Recording, Choosing
<1>8. ASSUME ~(c.migration > Len(Migrations)), StepsOf(c) # <<>>
      PROVE  taken \in RunRow /\ RunIsTrue(taken, base)
  <2>1. /\ taken \in RunRow /\ taken.at = Working /\ taken.index = c.index
        /\ taken.migration = c.migration /\ taken.step = 1
    BY <1>1, <1>3 DEF RunRow
  <2>2. 1 \in DOMAIN StepsOf(taken)
    BY <1>6, <1>8
  <2>3. 1 .. (taken.step - 1) = {}
    BY <2>1
  <2> QED BY <1>3, <1>6, <1>8, <2>1, <2>2, <2>3 DEF RunIsTrue, Looking, Working, Recording, Choosing
<1>9. d \in RunRow /\ RunIsTrue(d, base)
  BY <1>4, <1>5, <1>7, <1>8
<1>10. UNCHANGED <<base, recorded, file>> /\ runs' \in Nat /\ faults' \in Nat
  BY Types DEF Choose
<1> QED BY <1>2, <1>9, <1>10, OnlyRunChanged

\* The record a run writes is one more true record.
LEMMA RecordedKeeps ==
    ASSUME IInv, NEW r \in Runners, NEW d \in RunRow, RunIsTrue(d, base),
           run[r].at = Recording, recorded' = recorded \cup {ThisRecord(r)},
           run' = [run EXCEPT ![r] = d],
           base' = base, file' = file, runs' \in Nat, faults' \in Nat
    PROVE  IInv'
<1> DEFINE k == ThisRecord(r)
<1>1. /\ k \in {j \in Nat \X Nat : j[1] \in Files /\ j[2] \in DOMAIN Migrations[j[1]]}
      /\ Missing(Migrations[k[1]][k[2]]) = {}
  BY NewRecordIsTrue
<1>2. recorded' \subseteq {j \in Nat \X Nat : j[1] \in Files /\ j[2] \in DOMAIN Migrations[j[1]]}
  BY <1>1 DEF IInv, TypeOK
<1>3. \A j \in recorded' : Missing(Migrations[j[1]][j[2]]) = {}
  BY <1>1 DEF IInv, LedgerIsTrue
<1>4. \A j \in recorded' : Missing(Migrations[j[1]][j[2]])' = {}
  BY <1>3 DEF Missing
<1>5. LedgerIsTrue'
  BY <1>4 DEF LedgerIsTrue
<1>6. PrimaryThere' /\ base' \subseteq Tables \X Fields
  BY DEF IInv, TypeOK, PrimaryThere
<1> QED BY <1>2, <1>5, <1>6, RunChanged

LEMMA RecordKeeps ==
    ASSUME IInv, NEW r \in Runners, Record(r)
    PROVE  IInv'
<1>1. run[r] \in RunRow /\ run[r].index \subseteq base
  BY Types DEF RunIsTrue
<1>2. NextMigration(run[r]) \in RunRow /\ RunIsTrue(NextMigration(run[r]), base)
  BY <1>1, NextMigrationIsTrue
<1>3. /\ run[r].at = Recording /\ recorded' = recorded \cup {ThisRecord(r)}
      /\ run' = [run EXCEPT ![r] = NextMigration(run[r])]
      /\ base' = base /\ file' = file /\ runs' \in Nat /\ faults' \in Nat
  BY Types DEF Record
<1> QED BY <1>2, <1>3, RecordedKeeps

LEMMA DieKeeps ==
    ASSUME IInv, NEW r \in Runners, Die(r)
    PROVE  IInv'
<1>1. run[r] \in RunRow
  BY Types
<1>2. Killed(run[r]) \in RunRow /\ RunIsTrue(Killed(run[r]), base)
  BY <1>1, KilledIsTrue
<1>3. /\ run' = [run EXCEPT ![r] = Killed(run[r])]
      /\ base' = base /\ file' = file /\ runs' \in Nat /\ faults' \in Nat
  BY Types DEF Die
<1>4. CASE recorded' = recorded
  BY <1>2, <1>3, <1>4, OnlyRunChanged
<1>5. CASE run[r].at = Recording /\ recorded' = recorded \cup {ThisRecord(r)}
  BY <1>2, <1>3, <1>5, RecordedKeeps
<1> QED BY <1>4, <1>5 DEF Die

\* An edited file changes nothing of the runs that have read it.
LEMMA EditKeeps ==
    ASSUME IInv, NEW m \in Files, EditFile(m)
    PROVE  IInv'
<1>1. Migrations[m] \in Seq(Version) /\ file[m] \in 1..Len(Migrations[m]) /\ file \in [Files -> Nat]
  BY Types, MigrationsAssumption DEF Files, FileVersions
<1>2. file' = [file EXCEPT ![m] = file[m] + 1] /\ file[m] < Len(Migrations[m])
  BY DEF EditFile
<1>3. file' \in [Files -> Nat]
  BY <1>1, <1>2
<1>4. ASSUME NEW n \in Files PROVE file'[n] \in DOMAIN Migrations[n]
  <2>1. CASE n = m
    BY <1>1, <1>2, <2>1
  <2>2. CASE n # m
    BY <1>1, <1>2, <2>2, Types DEF FileVersions
  <2> QED BY <2>1, <2>2
<1>5. base' = base /\ recorded' = recorded /\ run' = run /\ runs' = runs /\ faults' = faults
  BY DEF EditFile
<1>6. TypeOK'
  BY <1>3, <1>4, <1>5 DEF IInv, TypeOK, FileVersions
<1>7. PrimaryThere' /\ LedgerIsTrue'
  BY <1>5, LedgerStaysTrue DEF IInv, PrimaryThere
<1> QED BY <1>5, <1>6, <1>7 DEF IInv

LEMMA NextIInv == IInv /\ [Next]_vars => IInv'
<1> SUFFICES ASSUME IInv, [Next]_vars PROVE IInv'
  OBVIOUS
<1>1. ASSUME NEW r \in Runners, RunStep(r) PROVE IInv'
  BY <1>1, BeginKeeps, LookKeeps, SkipKeeps, RejectKeeps, CreateKeeps, CreateFailsKeeps,
     ReadAppliedKeeps, ReadSchemaKeeps, ChooseKeeps, RecordKeeps, DieKeeps DEF RunStep
<1>2. ASSUME NEW m \in Files, EditFile(m) PROVE IInv'
  BY <1>2, EditKeeps
<1>3. CASE UNCHANGED vars
  <2>1. /\ base' = base /\ recorded' = recorded /\ run' = run
        /\ file' = file /\ runs' = runs /\ faults' = faults
    BY <1>3 DEF vars
  <2>2. TypeOK' /\ PrimaryThere' /\ LedgerIsTrue'
    BY <2>1, LedgerStaysTrue DEF IInv, TypeOK, PrimaryThere
  <2> QED BY <2>1, <2>2 DEF IInv
<1> QED BY <1>1, <1>2, <1>3 DEF Next

-----------------------------------------------------------------------------
(* The results.                                                            *)

\* Every reachable state satisfies the inductive invariant.
THEOREM Invariant == Spec => []IInv
  BY InitIInv, NextIInv, PTL DEF Spec

\* The base, the ledger, the files and the runs keep their shape.
THEOREM TypeCorrect == Spec => []TypeOK
<1>1. IInv => TypeOK
  BY DEF IInv
<1> QED BY <1>1, Invariant, PTL

\* All that a recorded migration asked for is in the base, whatever failed,
\* died or ran beside the run that recorded it (execute_migrations).
THEOREM LedgerIsAlwaysTrue == Spec => []LedgerIsTrue
<1>1. IInv => LedgerIsTrue
  BY DEF IInv
<1> QED BY <1>1, Invariant, PTL

-----------------------------------------------------------------------------
(* A run that is left alone.                                               *)

TablesMade(steps, last, b) ==
    \A i \in 1..last : i \in DOMAIN steps /\ steps[i].op = EnsureTable => TableIn(b, steps[i].table)

\* A migration the run has passed: unless something held it back its tables
\* are made, and it is recorded if it could be applied.
Achieved(c, b, records, n) ==
    n \notin Edited(c, records) /\ ~Held(c, n).destructive =>
        /\ \A i \in DOMAIN Held(c, n).steps :
              Held(c, n).steps[i].op = EnsureTable => TableIn(b, Held(c, n).steps[i].table)
        /\ Applicable(c, records, n) => <<n, c.files[n]>> \in records

Excused(c, records) == \E m \in Files : m \in Edited(c, records) \/ ~Applicable(c, records, m)

\* The migration in hand: it has no error unless it could not be applied.
InHand(c, b, records) ==
    /\ ~Held(c, c.migration).destructive
    /\ TablesMade(StepsOf(c), c.step - 1, b)
    /\ Applicable(c, records, c.migration) /\ c.migration \notin Edited(c, records) => c.clean

\* What a run that is left alone has come to.
UpToDate(c, b, records) ==
    /\ c.known \subseteq records
    /\ c.at \in {Working, Choosing, Recording} /\ c.migration # Ledger => c.index = b
    /\ c.at = Done => c.migration > Len(Migrations)
    /\ c.errors => Excused(c, records)
    /\ \A n \in Files : n < c.migration => Achieved(c, b, records, n)
    /\ c.at = Working /\ c.migration # Ledger => InHand(c, b, records)

QuietRuns ==
    \A r \in Runners : run[r].quiet =>
        /\ UpToDate(run[r], base, recorded)
        /\ \A q \in Runners \ {r} : ~Running(q)

LEMMA TypeOfHeld ==
    ASSUME NEW c \in RunRow, NEW m \in Files
    PROVE  /\ Held(c, m) \in Version /\ Held(c, m).steps \in Seq(Step)
           /\ WellFormed(Held(c, m).steps)
           /\ c.migration = m /\ m # Ledger => StepsOf(c) = Held(c, m).steps
<1>1. c.files[m] \in DOMAIN Migrations[m] BY DEF RunRow, FileVersions
<1>2. WellFormed(Held(c, m).steps) BY <1>1, MigrationsAssumption DEF Files, Held
<1> QED BY <1>1, <1>2, VersionSteps DEF Held, StepsOf

\* Runs that hold the same files say the same of migrations.
LEMMA SameFiles ==
    ASSUME NEW c, NEW d, d.files = c.files, NEW records
    PROVE  /\ \A m \in Files : Held(d, m) = Held(c, m)
           /\ Edited(d, records) = Edited(c, records)
           /\ \A m \in Files : Applicable(d, records, m) <=> Applicable(c, records, m)
<1>1. \A m : Held(d, m) = Held(c, m) BY DEF Held
<1>2. Edited(d, records) = Edited(c, records) BY DEF Edited
<1>3. \A m, s : TablesBefore(d, records, m, s) = TablesBefore(c, records, m, s)
  BY <1>1, <1>2 DEF TablesBefore
<1>4. \A m : Applicable(d, records, m) <=> Applicable(c, records, m)
  BY <1>1, <1>3 DEF Applicable
<1> QED BY <1>1, <1>2, <1>4

\* More records excuse more.
LEMMA MoreRecords ==
    ASSUME NEW c, NEW records, NEW more, records \subseteq more
    PROVE  /\ Edited(c, records) \subseteq Edited(c, more)
           /\ \A m \in Files : Applicable(c, more, m) => Applicable(c, records, m)
<1>1. Edited(c, records) \subseteq Edited(c, more) BY DEF Edited
<1>2. \A m, s : TablesBefore(c, more, m, s) \subseteq TablesBefore(c, records, m, s)
  BY <1>1 DEF TablesBefore
<1>3. \A m : Applicable(c, more, m) => Applicable(c, records, m)
  BY <1>2 DEF Applicable
<1> QED BY <1>1, <1>3

LEMMA AchievedInMore ==
    ASSUME NEW c, NEW d, d.files = c.files, NEW b, NEW wider, b \subseteq wider,
           NEW records, NEW more, records \subseteq more,
           NEW n \in Files, Achieved(c, b, records, n)
    PROVE  Achieved(d, wider, more, n)
<1>1. /\ Held(d, n) = Held(c, n) /\ Edited(d, more) = Edited(c, more)
      /\ Applicable(d, more, n) <=> Applicable(c, more, n)
  BY SameFiles
<1>2. /\ Edited(c, records) \subseteq Edited(c, more)
      /\ Applicable(c, more, n) => Applicable(c, records, n)
  BY MoreRecords
<1>3. \A t : TableIn(b, t) => TableIn(wider, t) BY DEF TableIn
<1> QED BY <1>1, <1>2, <1>3 DEF Achieved

LEMMA ExcusedInMore ==
    ASSUME NEW c, NEW d, d.files = c.files, NEW records, NEW more, records \subseteq more,
           Excused(c, records)
    PROVE  Excused(d, more)
<1>1. PICK m \in Files : m \in Edited(c, records) \/ ~Applicable(c, records, m) BY DEF Excused
<1>2. m \in Edited(c, more) \/ ~Applicable(c, more, m) BY <1>1, MoreRecords
<1>3. m \in Edited(d, more) \/ ~Applicable(d, more, m) BY <1>2, SameFiles
<1> QED BY <1>3 DEF Excused

\* The script comes to no migration unless it has passed those before it.
LEMMA NextIsUpToDate ==
    ASSUME NEW c \in RunRow, NEW b, NEW records, NEW more, records \subseteq more,
           UpToDate(c, b, records), c.index = b, c.migration \in Files,
           Achieved(c, b, more, c.migration)
    PROVE  UpToDate(NextMigration(c), b, more)
<1> DEFINE d == NextMigration(c)
<1>1. /\ d.at = Choosing /\ d.index = c.index /\ d.migration = c.migration + 1
      /\ d.files = c.files /\ d.known = c.known /\ d.errors = c.errors
  BY DEF NextMigration, RunRow
<1>2. c.migration \in Nat BY DEF RunRow
<1> HIDE DEF d
<1>3. \A n \in Files : n < d.migration => Achieved(d, b, more, n)
  <2> SUFFICES ASSUME NEW n \in Files, n < d.migration PROVE Achieved(d, b, more, n)
    OBVIOUS
  <2>0. n \in Nat BY MigrationsAssumption DEF Files
  <2>1. n = c.migration \/ n < c.migration BY <1>1, <1>2, <2>0
  <2>2. Achieved(c, b, more, n)
    <3>1. CASE n = c.migration BY <3>1
    <3>2. CASE n < c.migration
      <4>1. Achieved(c, b, records, n) BY <3>2 DEF UpToDate
      <4> QED BY <4>1, AchievedInMore
    <3> QED BY <2>1, <3>1, <3>2
  <2> QED BY <1>1, <2>2, AchievedInMore
<1>4. d.errors => Excused(d, more)
  BY <1>1, ExcusedInMore DEF UpToDate
<1> QED BY <1>1, <1>3, <1>4 DEF UpToDate, d, Working, Choosing, Recording, Done

\* A step is over that made its table.
LEMMA StepOverUpToDate ==
    ASSUME NEW c \in RunRow, NEW b, NEW records, RunIsTrue(c, b), UpToDate(c, b, records),
           c.at = Working,
           c.migration # Ledger /\ Current(c).op = EnsureTable => TableIn(b, Current(c).table)
    PROVE  UpToDate(StepOver(c), b, records)
<1>1. c.migration = Ledger \/ c.migration \in Files BY DEF RunIsTrue
<1>2. StepsOf(c) \in Seq(Step) /\ c.step \in 1..Len(StepsOf(c)) /\ c.migration \in Nat
  BY <1>1, StepsOfRun DEF RunIsTrue, RunRow
<1>3. c.migration # Ledger => TablesMade(StepsOf(c), c.step, b)
  <2> SUFFICES ASSUME c.migration # Ledger, NEW i \in 1..c.step, StepsOf(c)[i].op = EnsureTable
               PROVE  TableIn(b, StepsOf(c)[i].table)
    BY DEF TablesMade
  <2>1. TablesMade(StepsOf(c), c.step - 1, b) BY DEF UpToDate, InHand
  <2>2. CASE i = c.step BY <2>2 DEF Current
  <2>3. CASE i # c.step
    <3>1. i \in 1..(c.step - 1) /\ i \in DOMAIN StepsOf(c) BY <1>2, <2>3
    <3> QED BY <2>1, <3>1 DEF TablesMade
  <2> QED BY <2>2, <2>3
<1>4. CASE c.step < Len(StepsOf(c))
  <2> DEFINE d == [c EXCEPT !.step = @ + 1]
  <2>1. StepOver(c) = d BY <1>4 DEF StepOver
  <2>2. /\ d.at = c.at /\ d.files = c.files /\ d.index = c.index /\ d.known = c.known
        /\ d.migration = c.migration /\ d.step = c.step + 1 /\ d.clean = c.clean
        /\ d.errors = c.errors
    BY DEF RunRow
  <2>3. StepsOf(d) = StepsOf(c) /\ d.step - 1 = c.step BY <1>2, <2>2 DEF StepsOf
  <2> HIDE DEF d
  <2>4. d.migration # Ledger => InHand(d, b, records)
    <3>1. SUFFICES ASSUME c.migration # Ledger PROVE InHand(d, b, records)
      BY <2>2
    <3>2. InHand(c, b, records) BY <3>1 DEF UpToDate
    <3>3. c.migration \in Files BY <1>1, <3>1
    <3> QED BY <1>3, <2>2, <2>3, <3>1, <3>2, <3>3, SameFiles DEF InHand
  <2>5. \A n \in Files : n < d.migration => Achieved(d, b, records, n)
    BY <2>2, AchievedInMore DEF UpToDate
  <2>6. d.errors => Excused(d, records) BY <2>2, ExcusedInMore DEF UpToDate
  <2>7. UpToDate(d, b, records)
    BY <2>2, <2>4, <2>5, <2>6 DEF UpToDate, Working, Done
  <2> QED BY <2>1, <2>7
<1>5. CASE c.step = Len(StepsOf(c)) /\ c.migration = Ledger
  <2> DEFINE d == [c EXCEPT !.at = Applied]
  <2>1. StepOver(c) = d BY <1>2, <1>5 DEF StepOver
  <2>2. /\ d.at = Applied /\ d.files = c.files /\ d.known = c.known
        /\ d.migration = c.migration /\ d.errors = c.errors
    BY DEF RunRow
  <2> HIDE DEF d
  <2>3. \A n \in Files : n < d.migration => Achieved(d, b, records, n)
    BY <2>2, AchievedInMore DEF UpToDate
  <2>4. d.errors => Excused(d, records) BY <2>2, ExcusedInMore DEF UpToDate
  <2> QED BY <1>5, <2>1, <2>2, <2>3, <2>4 DEF UpToDate, Applied, Working, Choosing, Recording, Done
<1>6. CASE c.step = Len(StepsOf(c)) /\ c.migration # Ledger /\ c.clean
  <2> DEFINE d == [c EXCEPT !.at = Recording]
  <2>1. StepOver(c) = d BY <1>2, <1>6 DEF StepOver
  <2>2. /\ d.at = Recording /\ d.files = c.files /\ d.known = c.known /\ d.index = c.index
        /\ d.migration = c.migration /\ d.errors = c.errors
    BY DEF RunRow
  <2> HIDE DEF d
  <2>3. \A n \in Files : n < d.migration => Achieved(d, b, records, n)
    BY <2>2, AchievedInMore DEF UpToDate
  <2>4. d.errors => Excused(d, records) BY <2>2, ExcusedInMore DEF UpToDate
  <2>5. d.index = b BY <1>6, <2>2 DEF UpToDate
  <2>6. d.known \subseteq records BY <2>2 DEF UpToDate
  <2> QED BY <2>1, <2>2, <2>3, <2>4, <2>5, <2>6 DEF UpToDate, Working, Recording, Done
<1>7. CASE c.step = Len(StepsOf(c)) /\ c.migration # Ledger /\ ~c.clean
  <2>1. StepOver(c) = NextMigration(c) BY <1>2, <1>7 DEF StepOver
  <2>2. c.migration \in Files BY <1>1, <1>7
  <2>3. StepsOf(c) = Held(c, c.migration).steps BY <1>7, <2>2, TypeOfHeld
  <2>4. InHand(c, b, records) /\ c.index = b BY <1>7 DEF UpToDate
  <2>5. Achieved(c, b, records, c.migration)
    <3>1. \A i \in DOMAIN StepsOf(c) : i \in 1..c.step BY <1>2, <1>7
    <3>2. \A i \in DOMAIN StepsOf(c) :
             StepsOf(c)[i].op = EnsureTable => TableIn(b, StepsOf(c)[i].table)
      BY <1>3, <1>7, <3>1 DEF TablesMade
    <3> QED BY <1>7, <2>3, <2>4, <3>2 DEF Achieved, InHand
  <2> QED BY <2>1, <2>2, <2>4, <2>5, NextIsUpToDate
<1> QED BY <1>2, <1>4, <1>5, <1>6, <1>7


\* No step of a migration that can be applied is refused.
LEMMA SoundStepsSucceed ==
    ASSUME NEW c \in RunRow, NEW b, NEW records, RunIsTrue(c, b), UpToDate(c, b, records),
           c.at = Working, c.migration \in Files, c.migration # Ledger,
           Current(c).op # EnsureTable, ~Present(c),
           \/ Impossible(c)
           \/ Needs(Current(c)) \in b \/ ~TableIn(b, Current(c).table)
    PROVE  ~Applicable(c, records, c.migration) \/ c.migration \in Edited(c, records)
<1> DEFINE m == c.migration
           step == Current(c)
           s == c.step
<1> SUFFICES ASSUME Applicable(c, records, m), m \notin Edited(c, records) PROVE FALSE
  OBVIOUS
<1>1. /\ StepsOf(c) = Held(c, m).steps /\ StepsOf(c) \in Seq(Step)
      /\ WellFormed(StepsOf(c)) /\ s \in DOMAIN StepsOf(c)
  BY TypeOfHeld DEF RunIsTrue
<1>2. step = Held(c, m).steps[s] /\ step \in Step BY <1>1 DEF Current
<1>3. c.index = b /\ TablesMade(StepsOf(c), s - 1, b) BY DEF UpToDate, InHand
<1>4. Needs(step) \notin b BY <1>3 DEF Present
<1>5. /\ step.op # Unsupported
      /\ step.op \in {EnsureTable, DirectField} => step.link = NoTable
      /\ step.op = LateField => {step.table, step.link} \ {NoTable} \subseteq TablesBefore(c, records, m, s)
  BY <1>1, <1>2 DEF Applicable
<1>6. s \in Nat \ {0} /\ m \in Nat BY DEF RunRow
<1>7. CASE step.op = DirectField
  <2>1. ~Impossible(c) BY <1>5, <1>7 DEF Impossible, DirectField, Unsupported, LateField
  <2>2. PICK i \in 1..(s - 1) : StepsOf(c)[i].op = EnsureTable /\ StepsOf(c)[i].table = step.table
    BY <1>1, <1>2, <1>7 DEF WellFormed
  <2>3. i \in DOMAIN StepsOf(c) BY <1>1, <1>6
  <2>4. TableIn(b, step.table) BY <1>3, <2>2, <2>3 DEF TablesMade
  <2> QED BY <1>4, <2>1, <2>4
<1>8. ASSUME NEW t \in TablesBefore(c, records, m, s) PROVE TableIn(b, t)
  <2>0. PICK n \in 1..m : \E i \in DOMAIN Held(c, n).steps :
           /\ IF n < m THEN n \notin Edited(c, records) /\ ~Held(c, n).destructive ELSE i < s
           /\ Held(c, n).steps[i].op = EnsureTable /\ Held(c, n).steps[i].table = t
    BY DEF TablesBefore
  <2>1. PICK i \in DOMAIN Held(c, n).steps :
           /\ IF n < m THEN n \notin Edited(c, records) /\ ~Held(c, n).destructive ELSE i < s
           /\ Held(c, n).steps[i].op = EnsureTable /\ Held(c, n).steps[i].table = t
    BY <2>0
  <2>2. n \in Files
    <3>1. m \in 1..Len(Migrations) /\ Len(Migrations) \in Nat BY MigrationsAssumption DEF Files
    <3>2. n \in 1..Len(Migrations) BY <1>6, <3>1
    <3> QED BY <3>2, MigrationsAssumption DEF Files
  <2>3. CASE n < m
    <3>1. Achieved(c, b, records, n) BY <2>2, <2>3 DEF UpToDate
    <3> QED BY <2>1, <2>3, <3>1 DEF Achieved
  <2>4. CASE ~(n < m)
    <3>1. n = m BY <1>6, <2>4
    <3>2. i \in DOMAIN StepsOf(c) /\ i < s BY <1>1, <2>1, <2>4, <3>1
    <3>3. i \in 1..(s - 1) BY <1>1, <1>6, <3>2
    <3> QED BY <1>1, <1>3, <2>1, <3>1, <3>2, <3>3 DEF TablesMade
  <2> QED BY <2>3, <2>4
<1>9. CASE step.op = LateField
  <2>1. step.table # NoTable BY <1>2, MigrationsAssumption DEF Step
  <2>2. TableIn(b, step.table) BY <1>5, <1>8, <1>9, <2>1
  <2>3. step.link # NoTable => TableIn(b, step.link) BY <1>5, <1>8, <1>9
  <2>4. ~Impossible(c)
    BY <1>3, <1>9, <2>2, <2>3 DEF Impossible, EnsureTable, DirectField, Unsupported, LateField
  <2> QED BY <1>4, <2>2, <2>4
<1> QED BY <1>2, <1>5, <1>7, <1>9 DEF Step

\* A run that a step ended is not one that was left alone.
LEMMA KilledIsNotQuiet ==
    ASSUME NEW c \in RunRow
    PROVE  Killed(c).quiet = FALSE
  BY DEF Killed, RunRow

\* A refused step leaves its migration for another run, which is excused.
LEMMA FailedUpToDate ==
    ASSUME NEW c \in RunRow, NEW b, NEW records, RunIsTrue(c, b), UpToDate(c, b, records),
           c.at = Working, ~Present(c),
           \/ Impossible(c)
           \/ Current(c).op # EnsureTable /\ (Needs(Current(c)) \in b \/ ~TableIn(b, Current(c).table))
           \/ Current(c).op = EnsureTable,
           Failed(c).quiet
    PROVE  UpToDate(Failed(c), b, records)
<1>1. ~(c.migration = Ledger \/ Current(c).op = EnsureTable)
  BY KilledIsNotQuiet DEF Failed
<1>2. c.migration \in Files BY <1>1 DEF RunIsTrue
<1>3. ~Applicable(c, records, c.migration) \/ c.migration \in Edited(c, records)
  BY <1>1, <1>2, SoundStepsSucceed
<1> DEFINE d == [c EXCEPT !.errors = TRUE, !.clean = FALSE]
<1>4. Failed(c) = StepOver(d) BY <1>1 DEF Failed
<1>5. d \in RunRow
  BY DEF RunRow
<1>6. /\ d.at = c.at /\ d.files = c.files /\ d.index = c.index /\ d.known = c.known
      /\ d.migration = c.migration /\ d.step = c.step
  BY DEF RunRow
<1>7. d.errors = TRUE /\ d.clean = FALSE BY DEF RunRow
<1> HIDE DEF d
<1>8. StepsOf(d) = StepsOf(c) BY <1>6 DEF StepsOf
<1>9. RunIsTrue(d, b)
  BY <1>6, <1>7, <1>8 DEF RunIsTrue, Looking, Working, Recording, Choosing
<1>10. Excused(d, records)
  <2>1. Excused(c, records) BY <1>2, <1>3 DEF Excused
  <2> QED BY <1>6, <2>1, ExcusedInMore
<1>11. \A n \in Files : n < d.migration => Achieved(d, b, records, n)
  BY <1>6, AchievedInMore DEF UpToDate
<1>12. InHand(d, b, records)
  <2>1. InHand(c, b, records) BY <1>1 DEF UpToDate
  <2>2. /\ Held(d, c.migration) = Held(c, c.migration) /\ Edited(d, records) = Edited(c, records)
        /\ Applicable(d, records, c.migration) <=> Applicable(c, records, c.migration)
    BY <1>2, <1>6, SameFiles
  <2> QED BY <1>3, <1>6, <1>8, <2>1, <2>2 DEF InHand
<1>13. UpToDate(d, b, records)
  BY <1>6, <1>7, <1>10, <1>11, <1>12 DEF UpToDate, Working, Done
<1>14. Current(d) = Current(c) BY <1>6, <1>8 DEF Current
<1>15. UpToDate(StepOver(d), b, records)
  <2>1. d.at = Working /\ Current(d).op # EnsureTable BY <1>1, <1>6, <1>14
  <2> QED BY <1>5, <1>9, <1>13, <2>1, StepOverUpToDate
<1> QED BY <1>4, <1>15

LEMMA QuietInits == Init => QuietRuns
<1>1. NoRun.quiet = FALSE BY DEF NoRun
<1> QED BY <1>1 DEF Init, QuietRuns

\* Only the runs that go on can disturb each other.
LEMMA QuietStep ==
    ASSUME IInv, QuietRuns, NEW r \in Runners, Running(r), NEW d,
           run' = [run EXCEPT ![r] = d],
           d.quiet => run[r].quiet /\ UpToDate(d, base', recorded')
    PROVE  QuietRuns'
<1>1. run \in [Runners -> RunRow] BY DEF IInv, TypeOK
<1>2. run'[r] = d /\ \A q \in Runners \ {r} : run'[q] = run[q] BY <1>1
<1>3. \A q \in Runners \ {r} : ~run[q].quiet BY DEF QuietRuns
<1>4. d.quiet => \A q \in Runners \ {r} : ~Running(q)' BY <1>2 DEF QuietRuns, Running
<1>5. d.quiet => UpToDate(run'[r], base', recorded') BY <1>2
<1>6. ASSUME NEW q \in Runners, run'[q].quiet
      PROVE  UpToDate(run'[q], base', recorded') /\ \A p \in Runners \ {q} : ~Running(p)'
  <2>1. q = r BY <1>2, <1>3, <1>6
  <2> QED BY <1>2, <1>4, <1>5, <1>6, <2>1
<1> QED BY <1>6 DEF QuietRuns

LEMMA BeginQuiet ==
    ASSUME IInv, NEW r \in Runners, Begin(r)
    PROVE  QuietRuns'
<1> DEFINE fresh == run'[r]
<1>1. run \in [Runners -> RunRow] BY DEF IInv, TypeOK
<1>2. \A q \in Runners \ {r} : run'[q] = [run[q] EXCEPT !.quiet = FALSE]
  BY DEF Begin
<1>3. ASSUME NEW q \in Runners \ {r} PROVE run'[q].quiet = FALSE /\ run'[q].at = run[q].at
  BY <1>1, <1>2 DEF RunRow
<1>4. fresh = [NoRun EXCEPT !.at = Looking, !.files = file,
                             !.quiet = ({q \in Runners \ {r} : Running(q)} = {})]
  BY <1>1 DEF Begin
<1>5. /\ fresh.at = Looking /\ fresh.known = {} /\ fresh.migration = Ledger
      /\ fresh.errors = FALSE
      /\ fresh.quiet = ({q \in Runners \ {r} : Running(q)} = {})
  BY <1>4 DEF NoRun
<1> HIDE DEF fresh
<1>6. UpToDate(fresh, base', recorded')
  <2>1. \A n \in Files : ~(n < Ledger) BY MigrationsAssumption DEF Files, Ledger
  <2>2. fresh.known \subseteq recorded' /\ ~fresh.errors /\ fresh.at \notin {Working, Recording, Done}
    BY <1>5 DEF Looking, Working, Recording, Done
  <2>3. \A n \in Files : ~(n < fresh.migration) BY <1>5, <2>1
  <2> QED BY <1>5, <2>2, <2>3 DEF UpToDate, Looking, Working, Choosing, Recording, Done
<1>7. fresh.quiet => \A q \in Runners \ {r} : ~Running(q)'
  <2>1. fresh.quiet => \A q \in Runners \ {r} : ~Running(q) BY <1>5
  <2>2. \A q \in Runners \ {r} : Running(q)' <=> Running(q) BY <1>3 DEF Running
  <2> QED BY <2>1, <2>2
<1>8. fresh = run'[r] BY DEF fresh
<1>9. ASSUME NEW q \in Runners, run'[q].quiet
      PROVE  UpToDate(run'[q], base', recorded') /\ \A p \in Runners \ {q} : ~Running(p)'
  <2>1. q = r BY <1>3, <1>9
  <2> QED BY <1>6, <1>7, <1>8, <1>9, <2>1
<1> QED BY <1>9 DEF QuietRuns

LEMMA LookQuiet ==
    ASSUME IInv, QuietRuns, NEW r \in Runners, LookForLedger(r)
    PROVE  QuietRuns'
<1> DEFINE c == run[r]
           d == [c EXCEPT !.at = Working, !.index = base]
<1>1. c \in RunRow /\ RunIsTrue(c, base) /\ run \in [Runners -> RunRow] BY Types DEF IInv, TypeOK
<1>2. run' = [run EXCEPT ![r] = d] /\ UNCHANGED <<base, recorded>> /\ c.at = Looking
  BY <1>1 DEF LookForLedger
<1>3. /\ d.at = Working /\ d.files = c.files /\ d.known = c.known /\ d.migration = Ledger
      /\ d.errors = c.errors /\ d.quiet = c.quiet
  BY <1>1, <1>2 DEF RunRow, RunIsTrue
<1>4. ASSUME c.quiet PROVE UpToDate(d, base', recorded')
  <2>1. UpToDate(c, base, recorded) BY <1>4 DEF QuietRuns
  <2>2. \A n \in Files : ~(n < Ledger) BY MigrationsAssumption DEF Files, Ledger
  <2>3. c.files = d.files /\ d.files = c.files BY <1>3
  <2> HIDE DEF d
  <2>4. d.errors => Excused(d, recorded) BY <1>3, <2>1, <2>3, ExcusedInMore DEF UpToDate
  <2>5. UpToDate(d, base, recorded)
    BY <1>3, <2>1, <2>2, <2>4 DEF UpToDate, Working, Done
  <2> QED BY <1>2, <2>5
<1>5. Running(r) BY <1>2 DEF Running, Looking, Stopped, Done
<1> HIDE DEF d
<1> QED BY <1>2, <1>3, <1>4, <1>5, QuietStep

LEMMA StepOverKeepsQuiet ==
    ASSUME NEW c \in RunRow
    PROVE  StepOver(c).quiet = c.quiet
  BY DEF StepOver, NextMigration, RunRow

LEMMA SkipQuiet ==
    ASSUME IInv, QuietRuns, NEW r \in Runners, SkipStep(r)
    PROVE  QuietRuns'
<1> DEFINE c == run[r]
           d == StepOver(c)
<1>1. c \in RunRow /\ RunIsTrue(c, base) /\ c.at = Working BY Types DEF SkipStep
<1>2. run' = [run EXCEPT ![r] = d] /\ UNCHANGED <<base, recorded>> BY DEF SkipStep
<1>3. ASSUME c.quiet PROVE UpToDate(d, base', recorded')
  <2>1. UpToDate(c, base, recorded) BY <1>3 DEF QuietRuns
  <2>2. Current(c).op = EnsureTable => TableIn(base, Current(c).table)
    BY <1>1 DEF SkipStep, Present, TableIn, RunIsTrue
  <2>3. UpToDate(d, base, recorded) BY <1>1, <2>1, <2>2, StepOverUpToDate
  <2> QED BY <1>2, <2>3
<1>4. d.quiet = c.quiet BY <1>1, StepOverKeepsQuiet
<1>5. Running(r) BY <1>1 DEF Running, Working, Stopped, Done
<1> HIDE DEF d
<1> QED BY <1>2, <1>3, <1>4, <1>5, QuietStep

LEMMA RejectQuiet ==
    ASSUME IInv, QuietRuns, NEW r \in Runners, RejectStep(r)
    PROVE  QuietRuns'
<1> DEFINE c == run[r]
           d == Failed(c)
<1>1. c \in RunRow /\ RunIsTrue(c, base) /\ c.at = Working BY Types DEF RejectStep
<1>2. run' = [run EXCEPT ![r] = d] /\ UNCHANGED <<base, recorded>> BY DEF RejectStep
<1>3. d.quiet => c.quiet
  <2>1. CASE c.migration = Ledger \/ Current(c).op = EnsureTable
    BY <1>1, <2>1, KilledIsNotQuiet DEF Failed
  <2>2. CASE ~(c.migration = Ledger \/ Current(c).op = EnsureTable)
    <3> DEFINE e == [c EXCEPT !.errors = TRUE, !.clean = FALSE]
    <3>1. e \in RunRow /\ e.quiet = c.quiet BY <1>1 DEF RunRow
    <3>2. d = StepOver(e) BY <2>2 DEF Failed
    <3> HIDE DEF e, d
    <3> QED BY <3>1, <3>2, StepOverKeepsQuiet
  <2> QED BY <2>1, <2>2
<1>4. ASSUME d.quiet PROVE UpToDate(d, base', recorded')
  <2>1. UpToDate(c, base, recorded) BY <1>3, <1>4 DEF QuietRuns
  <2>2. ~Present(c) /\ (Impossible(c) \/ Refused(c)) BY DEF RejectStep
  <2>3. UpToDate(d, base, recorded) BY <1>1, <1>4, <2>1, <2>2, FailedUpToDate DEF Refused
  <2> QED BY <1>2, <2>3
<1>5. Running(r) BY <1>1 DEF Running, Working, Stopped, Done
<1> HIDE DEF d
<1> QED BY <1>2, <1>3, <1>4, <1>5, QuietStep

LEMMA CreateQuiet ==
    ASSUME IInv, QuietRuns, NEW r \in Runners, CreateStep(r)
    PROVE  QuietRuns'
<1> DEFINE c == run[r]
           seen == IF c.migration = Ledger THEN c.index ELSE Created(r)
           e == [c EXCEPT !.index = seen]
           d == StepOver(e)
<1>1. CanCreate(r) /\ base' = Created(r) /\ run' = [run EXCEPT ![r] = d] /\ recorded' = recorded
  BY DEF CreateStep
<1>2. c \in RunRow /\ RunIsTrue(c, base) /\ c.at = Working BY <1>1, Types DEF CanCreate
<1>3. /\ Created(r) \subseteq Tables \X Fields /\ base \subseteq base'
      /\ Needs(Current(c)) \in base' /\ Current(c) \in Step
  BY <1>1, <1>2, CreatedKeepsPrimary, CurrentStep
<1>4. RunIsTrue(c, base') BY <1>2, <1>3, TrueInMore
<1>5. seen \in SUBSET (Tables \X Fields) /\ seen \subseteq base'
  BY <1>1, <1>2, <1>3, <1>4 DEF RunRow, RunIsTrue
<1>6. e \in RunRow BY <1>2, <1>5 DEF RunRow
<1>7. /\ e.at = c.at /\ e.files = c.files /\ e.index = seen /\ e.migration = c.migration
      /\ e.step = c.step /\ e.clean = c.clean /\ e.known = c.known /\ e.errors = c.errors
      /\ e.quiet = c.quiet
  BY <1>2 DEF RunRow
<1>8. e.migration # Ledger => e.index = base' BY <1>1, <1>7
<1> HIDE DEF e
<1>9. StepsOf(e) = StepsOf(c) /\ Current(e) = Current(c) BY <1>7 DEF StepsOf, Current
<1>10. RunIsTrue(e, base') BY <1>4, <1>5, <1>7, <1>9 DEF RunIsTrue
<1>11. ASSUME c.quiet PROVE UpToDate(d, base', recorded')
  <2>1. UpToDate(c, base, recorded) BY <1>11 DEF QuietRuns
  <2>2. \A n \in Files : n < e.migration => Achieved(e, base', recorded, n)
    BY <1>3, <1>7, <2>1, AchievedInMore DEF UpToDate
  <2>3. e.errors => Excused(e, recorded) BY <1>7, <2>1, ExcusedInMore DEF UpToDate
  <2>4. ASSUME c.migration # Ledger PROVE InHand(e, base', recorded)
    <3>1. InHand(c, base, recorded) BY <1>2, <2>1, <2>4 DEF UpToDate
    <3>2. c.migration \in Files BY <1>2, <2>4 DEF RunIsTrue
    <3>3. /\ Held(e, c.migration) = Held(c, c.migration) /\ Edited(e, recorded) = Edited(c, recorded)
          /\ Applicable(e, recorded, c.migration) <=> Applicable(c, recorded, c.migration)
      BY <1>7, <3>2, SameFiles
    <3>4. \A t : TableIn(base, t) => TableIn(base', t) BY <1>3 DEF TableIn
    <3> QED BY <1>7, <1>9, <3>1, <3>3, <3>4 DEF InHand, TablesMade
  <2>5. e.known \subseteq recorded /\ e.at # Done BY <1>2, <1>7, <2>1 DEF UpToDate, Working, Done
  <2>6. UpToDate(e, base', recorded)
    BY <1>7, <1>8, <2>2, <2>3, <2>4, <2>5 DEF UpToDate
  <2>7. TableIn(base', Current(e).table) BY <1>3, <1>9 DEF Needs, TableIn, Step
  <2>8. e.at = Working BY <1>2, <1>7
  <2>9. UpToDate(d, base', recorded) BY <1>6, <1>10, <2>6, <2>7, <2>8, StepOverUpToDate
  <2> QED BY <1>1, <2>9
<1>12. d.quiet = c.quiet BY <1>6, <1>7, StepOverKeepsQuiet
<1>13. Running(r) BY <1>2 DEF Running, Working, Stopped, Done
<1> HIDE DEF d
<1> QED BY <1>1, <1>11, <1>12, <1>13, QuietStep

LEMMA CreateFailsQuiet ==
    ASSUME IInv, QuietRuns, NEW r \in Runners, CreateFails(r)
    PROVE  QuietRuns'
<1> DEFINE c == run[r]
<1>1. c \in RunRow /\ RunIsTrue(c, base) /\ c.at = Working
  BY Types DEF CreateFails, CanCreate
<1>2. PICK failed \in {Failed(c), Killed(c)} : run' = [run EXCEPT ![r] = [failed EXCEPT !.quiet = FALSE]]
  BY DEF CreateFails
<1> DEFINE d == [failed EXCEPT !.quiet = FALSE]
<1>3. failed \in RunRow BY <1>1, <1>2, FailedIsTrue, KilledIsTrue
<1>4. ~d.quiet BY <1>3 DEF RunRow
<1>5. run' = [run EXCEPT ![r] = d] BY <1>2
<1>6. Running(r) BY <1>1 DEF Running, Working, Stopped, Done
<1> HIDE DEF d
<1> QED BY <1>4, <1>5, <1>6, QuietStep

LEMMA DieQuiet ==
    ASSUME IInv, QuietRuns, NEW r \in Runners, Die(r)
    PROVE  QuietRuns'
<1> DEFINE d == Killed(run[r])
<1>1. run' = [run EXCEPT ![r] = d] /\ Running(r) BY DEF Die
<1>2. ~d.quiet BY Types, KilledIsNotQuiet
<1> HIDE DEF d
<1> QED BY <1>1, <1>2, QuietStep

LEMMA ReadAppliedQuiet ==
    ASSUME IInv, QuietRuns, NEW r \in Runners, ReadApplied(r)
    PROVE  QuietRuns'
<1> DEFINE c == run[r]
<1>1. PICK known \in OnePerFile(recorded) :
          run' = [run EXCEPT ![r].at = Reading, ![r].known = known]
  BY DEF ReadApplied
<1> DEFINE d == [c EXCEPT !.at = Reading, !.known = known]
<1>2. c \in RunRow /\ RunIsTrue(c, base) /\ run \in [Runners -> RunRow] BY Types DEF IInv, TypeOK
<1>3. run' = [run EXCEPT ![r] = d] /\ UNCHANGED <<base, recorded>> /\ c.at = Applied
  BY <1>1, <1>2 DEF ReadApplied
<1>4. /\ d.at = Reading /\ d.files = c.files /\ d.known = known /\ d.migration = c.migration
      /\ d.errors = c.errors /\ d.quiet = c.quiet
  BY <1>2 DEF RunRow
<1>5. known \subseteq recorded BY <1>1 DEF OnePerFile
<1> HIDE DEF d
<1>6. ASSUME c.quiet PROVE UpToDate(d, base', recorded')
  <2>1. UpToDate(c, base, recorded) BY <1>6 DEF QuietRuns
  <2>2. \A n \in Files : n < d.migration => Achieved(d, base, recorded, n)
    BY <1>4, <2>1, AchievedInMore DEF UpToDate
  <2>3. d.errors => Excused(d, recorded) BY <1>4, <2>1, ExcusedInMore DEF UpToDate
  <2>4. UpToDate(d, base, recorded)
    BY <1>4, <1>5, <2>2, <2>3 DEF UpToDate, Reading, Working, Choosing, Recording, Done
  <2> QED BY <1>3, <2>4
<1>7. Running(r) BY <1>3 DEF Running, Applied, Stopped, Done
<1> QED BY <1>3, <1>4, <1>6, <1>7, QuietStep

LEMMA ReadSchemaQuiet ==
    ASSUME IInv, QuietRuns, NEW r \in Runners, ReadSchema(r)
    PROVE  QuietRuns'
<1> DEFINE c == run[r]
           d == [c EXCEPT !.index = base, !.at = Choosing, !.migration = 1, !.step = 1]
<1>1. c \in RunRow /\ RunIsTrue(c, base) /\ run \in [Runners -> RunRow] BY Types DEF IInv, TypeOK
<1>2. run' = [run EXCEPT ![r] = d] /\ UNCHANGED <<base, recorded>> /\ c.at = Reading
  BY <1>1 DEF ReadSchema
<1>3. /\ d.at = Choosing /\ d.files = c.files /\ d.known = c.known /\ d.migration = 1
      /\ d.errors = c.errors /\ d.quiet = c.quiet /\ d.index = base
  BY <1>1 DEF RunRow
<1> HIDE DEF d
<1>4. ASSUME c.quiet PROVE UpToDate(d, base', recorded')
  <2>1. UpToDate(c, base, recorded) BY <1>4 DEF QuietRuns
  <2>2. \A n \in Files : ~(n < 1) BY MigrationsAssumption DEF Files
  <2>3. d.errors => Excused(d, recorded) BY <1>3, <2>1, ExcusedInMore DEF UpToDate
  <2>4. UpToDate(d, base, recorded)
    BY <1>3, <2>1, <2>2, <2>3 DEF UpToDate, Choosing, Working, Done
  <2> QED BY <1>2, <2>4
<1>5. Running(r) BY <1>2 DEF Running, Reading, Stopped, Done
<1> QED BY <1>2, <1>3, <1>4, <1>5, QuietStep

\* What holds a migration back excuses the run.
LEMMA BlockedIsExcused ==
    ASSUME NEW c \in RunRow, NEW b, NEW records, records \subseteq Nat \X Nat,
           UpToDate(c, b, records), c.migration \in Files, Blocked(c)
    PROVE  /\ Excused(c, records)
           /\ Achieved(c, b, records, c.migration)
<1> DEFINE m == c.migration
<1>1. c.known \subseteq records BY DEF UpToDate
<1>2. CASE KnownIn(c, m)
  <2>1. PICK k \in c.known : k[1] = m BY <1>2 DEF KnownIn
  <2>2. <<m, c.files[m]>> \notin c.known BY <1>2 DEF Blocked
  <2>3. \A p \in Nat \X Nat : p = <<p[1], p[2]>> OBVIOUS
  <2>4. k = <<m, k[2]>> BY <1>1, <2>1, <2>3
  <2>5. k[2] # c.files[m] BY <2>1, <2>2, <2>4
  <2>6. m \in Edited(c, records) BY <1>1, <2>1, <2>5 DEF Edited
  <2> QED BY <2>6 DEF Excused, Achieved
<1>3. CASE ~KnownIn(c, m)
  <2>1. Held(c, m).destructive BY <1>3 DEF Blocked, Held
  <2>2. ~Applicable(c, records, m) BY <2>1 DEF Applicable
  <2> QED BY <2>1, <2>2 DEF Excused, Achieved
<1> QED BY <1>2, <1>3

\* What was recorded has its tables.
LEMMA RecordedIsAchieved ==
    ASSUME IInv, NEW c \in RunRow, NEW m \in Files, <<m, c.files[m]>> \in recorded
    PROVE  Achieved(c, base, recorded, m)
<1>1. Missing(Held(c, m)) = {} BY DEF IInv, LedgerIsTrue, Held
<1>2. \A i \in DOMAIN Held(c, m).steps : Needs(Held(c, m).steps[i]) \in base
  BY <1>1 DEF Missing
<1>3. \A i \in DOMAIN Held(c, m).steps : TableIn(base, Held(c, m).steps[i].table)
  <2> TAKE i \in DOMAIN Held(c, m).steps
  <2>1. Held(c, m).steps[i] \in Step BY TypeOfHeld
  <2> QED BY <1>2, <2>1 DEF Needs, TableIn, Step
<1> QED BY <1>3 DEF Achieved

LEMMA ChooseQuiet ==
    ASSUME IInv, QuietRuns, NEW r \in Runners, Choose(r)
    PROVE  QuietRuns'
<1> DEFINE c == run[r]
           m == c.migration
           over == [c EXCEPT !.at = Done, !.known = {}, !.index = {}]
           passed == [c EXCEPT !.errors = @ \/ Blocked(c)]
           empty == [c EXCEPT !.at = Recording, !.clean = TRUE]
           taken == [c EXCEPT !.at = Working, !.clean = TRUE]
           d == IF m > Len(Migrations) THEN over
                ELSE IF KnownIn(c, m) \/ Blocked(c) THEN NextMigration(passed)
                ELSE IF StepsOf(c) = <<>> THEN empty
                ELSE taken
<1>1. c \in RunRow /\ RunIsTrue(c, base) /\ c.at = Choosing /\ run \in [Runners -> RunRow]
  BY Types DEF IInv, TypeOK, Choose
<1>2. run' = [run EXCEPT ![r] = d] /\ UNCHANGED <<base, recorded>>
  BY DEF Choose
<1>3. m \in Nat /\ m # Ledger /\ c.step = 1 BY <1>1 DEF RunIsTrue, RunRow
<1>4. recorded \subseteq Nat \X Nat BY DEF IInv, TypeOK
<1>5. ~(m > Len(Migrations)) => m \in Files
  BY <1>3, MigrationsAssumption DEF Files, Ledger
<1>6. over.quiet = c.quiet /\ empty.quiet = c.quiet /\ taken.quiet = c.quiet BY <1>1 DEF RunRow
<1>7. NextMigration(passed).quiet = c.quiet
  <2>1. passed \in RunRow /\ passed.quiet = c.quiet
    <3>1. (c.errors \/ Blocked(c)) \in BOOLEAN OBVIOUS
    <3> QED BY <1>1, <3>1 DEF RunRow
  <2> HIDE DEF passed
  <2> QED BY <2>1 DEF NextMigration, RunRow
<1>8. ASSUME c.quiet PROVE UpToDate(d, base', recorded')
  <2>0. UpToDate(c, base, recorded) /\ c.index = base
    BY <1>1, <1>3, <1>8 DEF QuietRuns, UpToDate
  <2>1. ASSUME NEW e, e.files = c.files, e.known \subseteq c.known, e.migration = m,
               e.errors = c.errors
        PROVE  /\ e.known \subseteq recorded
               /\ e.errors => Excused(e, recorded)
               /\ \A n \in Files : n < e.migration => Achieved(e, base, recorded, n)
    BY <2>0, <2>1, AchievedInMore, ExcusedInMore DEF UpToDate
  <2>2. CASE m > Len(Migrations)
    <3>1. /\ over.at = Done /\ over.files = c.files /\ over.known = {} /\ over.migration = m
          /\ over.errors = c.errors
      BY <1>1 DEF RunRow
    <3>2. d = over BY <2>2
    <3> HIDE DEF over, d
    <3>3. /\ over.known \subseteq recorded /\ (over.errors => Excused(over, recorded))
          /\ \A n \in Files : n < over.migration => Achieved(over, base, recorded, n)
      BY <2>1, <3>1
    <3>4. UpToDate(over, base, recorded)
      BY <2>2, <3>1, <3>3 DEF UpToDate, Done, Working, Choosing, Recording
    <3> QED BY <1>2, <3>2, <3>4
  <2>3. CASE ~(m > Len(Migrations)) /\ (KnownIn(c, m) \/ Blocked(c))
    <3>1. m \in Files BY <1>5, <2>3
    <3>2. /\ passed \in RunRow /\ passed.at = Choosing /\ passed.files = c.files
          /\ passed.known = c.known /\ passed.migration = m /\ passed.index = c.index
      <4>1. (c.errors \/ Blocked(c)) \in BOOLEAN OBVIOUS
      <4> QED BY <1>1, <4>1 DEF RunRow
    <3>3. passed.errors => c.errors \/ Blocked(c) BY <1>1 DEF RunRow
    <3>4. d = NextMigration(passed) BY <2>3
    <3> HIDE DEF passed, d
    <3>5. Blocked(c) => Excused(c, recorded) /\ Achieved(c, base, recorded, m)
      BY <1>1, <1>4, <2>0, <3>1, BlockedIsExcused
    <3>6. Achieved(c, base, recorded, m)
      <4>1. CASE Blocked(c) BY <3>5, <4>1
      <4>2. CASE ~Blocked(c)
        <5>1. <<m, c.files[m]>> \in recorded BY <2>0, <2>3, <4>2 DEF Blocked, UpToDate
        <5> QED BY <1>1, <3>1, <5>1, RecordedIsAchieved
      <4> QED BY <4>1, <4>2
    <3>7. passed.errors => Excused(passed, recorded)
      <4>1. c.errors => Excused(c, recorded) BY <2>0 DEF UpToDate
      <4> QED BY <3>2, <3>3, <3>5, <4>1, ExcusedInMore
    <3>8. /\ Achieved(passed, base, recorded, m)
          /\ \A n \in Files : n < passed.migration => Achieved(passed, base, recorded, n)
      BY <2>0, <3>1, <3>2, <3>6, AchievedInMore DEF UpToDate
    <3>9. UpToDate(passed, base, recorded)
      BY <2>0, <3>2, <3>7, <3>8 DEF UpToDate, Done, Working, Choosing, Recording
    <3>10. UpToDate(NextMigration(passed), base, recorded)
      BY <2>0, <3>1, <3>2, <3>8, <3>9, NextIsUpToDate
    <3> QED BY <1>2, <3>4, <3>10
  <2>4. CASE ~(m > Len(Migrations)) /\ ~(KnownIn(c, m) \/ Blocked(c)) /\ StepsOf(c) = <<>>
    <3>1. /\ empty.at = Recording /\ empty.files = c.files /\ empty.known = c.known
          /\ empty.migration = m /\ empty.errors = c.errors /\ empty.index = c.index
      BY <1>1 DEF RunRow
    <3>2. d = empty BY <2>4
    <3> HIDE DEF empty, d
    <3>3. /\ empty.known \subseteq recorded /\ (empty.errors => Excused(empty, recorded))
          /\ \A n \in Files : n < empty.migration => Achieved(empty, base, recorded, n)
      BY <2>1, <3>1
    <3>4. UpToDate(empty, base, recorded)
      BY <2>0, <3>1, <3>3 DEF UpToDate, Done, Working, Choosing, Recording
    <3> QED BY <1>2, <3>2, <3>4
  <2>5. CASE ~(m > Len(Migrations)) /\ ~(KnownIn(c, m) \/ Blocked(c)) /\ StepsOf(c) # <<>>
    <3>1. /\ taken.at = Working /\ taken.files = c.files /\ taken.known = c.known
          /\ taken.migration = m /\ taken.errors = c.errors /\ taken.index = c.index
          /\ taken.step = 1 /\ taken.clean = TRUE
      BY <1>1, <1>3 DEF RunRow
    <3>2. d = taken BY <2>5
    <3> HIDE DEF taken, d
    <3>3. /\ taken.known \subseteq recorded /\ (taken.errors => Excused(taken, recorded))
          /\ \A n \in Files : n < taken.migration => Achieved(taken, base, recorded, n)
      BY <2>1, <3>1
    <3>4. InHand(taken, base, recorded)
      <4>1. ~Held(c, m).destructive BY <2>5 DEF Blocked, Held
      <4>2. Held(taken, m) = Held(c, m) BY <3>1 DEF Held
      <4>3. 1..(taken.step - 1) = {} BY <3>1
      <4> QED BY <3>1, <4>1, <4>2, <4>3 DEF InHand, TablesMade
    <3>5. UpToDate(taken, base, recorded)
      BY <2>0, <3>1, <3>3, <3>4 DEF UpToDate, Done, Working, Choosing, Recording
    <3> QED BY <1>2, <3>2, <3>5
  <2> QED BY <2>2, <2>3, <2>4, <2>5
<1>9. d.quiet = c.quiet
  <2> HIDE DEF over, passed, empty, taken
  <2> QED BY <1>6, <1>7
<1>10. Running(r) BY <1>1 DEF Running, Choosing, Stopped, Done
<1> HIDE DEF d
<1> QED BY <1>2, <1>8, <1>9, <1>10, QuietStep

LEMMA RecordQuiet ==
    ASSUME IInv, QuietRuns, NEW r \in Runners, Record(r)
    PROVE  QuietRuns'
<1> DEFINE c == run[r]
           m == c.migration
           d == NextMigration(c)
<1>1. c \in RunRow /\ RunIsTrue(c, base) /\ c.at = Recording BY Types DEF Record
<1>2. /\ run' = [run EXCEPT ![r] = d] /\ base' = base
      /\ recorded' = recorded \cup {<<m, c.files[m]>>}
  BY DEF Record, ThisRecord
<1>3. m \in Files /\ m # Ledger BY <1>1 DEF RunIsTrue
<1>4. StepsOf(c) = Held(c, m).steps BY <1>1, <1>3, TypeOfHeld
<1>5. ASSUME c.quiet PROVE UpToDate(d, base', recorded')
  <2>1. UpToDate(c, base, recorded) /\ c.index = base
    BY <1>1, <1>3, <1>5 DEF QuietRuns, UpToDate
  <2>2. Achieved(c, base, recorded', m)
    <3>1. \A i \in DOMAIN Held(c, m).steps : TableIn(base, Held(c, m).steps[i].table)
      <4> TAKE i \in DOMAIN Held(c, m).steps
      <4>1. Held(c, m).steps[i] \in Step BY <1>1, <1>3, TypeOfHeld
      <4>2. Needs(Held(c, m).steps[i]) \in base BY <1>1, <1>4 DEF RunIsTrue
      <4> QED BY <4>1, <4>2 DEF Needs, TableIn, Step
    <3> QED BY <1>2, <3>1 DEF Achieved
  <2>3. recorded \subseteq recorded' BY <1>2
  <2>4. UpToDate(d, base, recorded') BY <1>1, <1>3, <2>1, <2>2, <2>3, NextIsUpToDate
  <2> QED BY <1>2, <2>4
<1>6. d.quiet = c.quiet BY <1>1 DEF NextMigration, RunRow
<1>7. Running(r) BY <1>1 DEF Running, Recording, Stopped, Done
<1> HIDE DEF d
<1> QED BY <1>2, <1>5, <1>6, <1>7, QuietStep

LEMMA NextQuiet == ASSUME IInv, QuietRuns, [Next]_vars PROVE QuietRuns'
<1>1. ASSUME NEW r \in Runners, RunStep(r) PROVE QuietRuns'
  BY <1>1, BeginQuiet, LookQuiet, SkipQuiet, RejectQuiet, CreateQuiet, CreateFailsQuiet,
     ReadAppliedQuiet, ReadSchemaQuiet, ChooseQuiet, RecordQuiet, DieQuiet DEF RunStep
<1>2. ASSUME UNCHANGED <<base, recorded, run>> PROVE QuietRuns'
  BY <1>2 DEF QuietRuns, Running
<1>3. ASSUME NEW m \in Files, EditFile(m) PROVE QuietRuns'
  BY <1>2, <1>3 DEF EditFile
<1>4. CASE UNCHANGED vars
  BY <1>2, <1>4 DEF vars
<1> QED BY <1>1, <1>3, <1>4 DEF Next

\* A run that was left alone to its end has passed every migration.
LEMMA DoneIsComplete == ASSUME IInv, QuietRuns PROVE RerunCompletes
<1> SUFFICES ASSUME NEW r \in Runners, run[r].at = Done, run[r].quiet
             PROVE  LET c == run[r]
                        edited == Edited(c, recorded)
                    IN  /\ \A m \in Files \ edited : Applicable(c, recorded, m) =>
                              <<m, c.files[m]>> \in recorded /\ Missing(Held(c, m)) = {}
                        /\ c.errors => \E m \in Files : m \in edited \/ ~Applicable(c, recorded, m)
  BY DEF RerunCompletes
<1> DEFINE c == run[r]
<1>1. c \in RunRow /\ UpToDate(c, base, recorded) BY Types DEF QuietRuns
<1>2. c.migration > Len(Migrations) /\ c.migration \in Nat BY <1>1 DEF UpToDate, RunRow
<1>3. \A m \in Files : m < c.migration
  BY <1>2, MigrationsAssumption DEF Files
<1>4. ASSUME NEW m \in Files, m \notin Edited(c, recorded), Applicable(c, recorded, m)
      PROVE  <<m, c.files[m]>> \in recorded /\ Missing(Held(c, m)) = {}
  <2>1. Achieved(c, base, recorded, m) BY <1>1, <1>3 DEF UpToDate
  <2>2. ~Held(c, m).destructive BY <1>4 DEF Applicable
  <2>3. <<m, c.files[m]>> \in recorded BY <1>4, <2>1, <2>2 DEF Achieved
  <2>4. Missing(Held(c, m)) = {} BY <2>3 DEF IInv, LedgerIsTrue, Held
  <2> QED BY <2>3, <2>4
<1>5. c.errors => Excused(c, recorded) BY <1>1 DEF UpToDate
<1> QED BY <1>4, <1>5 DEF Excused

\* A run that is left alone and meets no fault brings the base and the ledger
\* up to date, whatever earlier runs left there (execute_migrations).
THEOREM RerunsComplete == Spec => []RerunCompletes
<1>1. IInv /\ QuietRuns => RerunCompletes BY DoneIsComplete
<1>2. IInv /\ QuietRuns /\ [Next]_vars => QuietRuns' BY NextQuiet
<1> QED BY <1>1, <1>2, QuietInits, Invariant, PTL DEF Spec

=============================================================================
