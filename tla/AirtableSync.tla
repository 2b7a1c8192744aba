---------------------------- MODULE AirtableSync ----------------------------
(***************************************************************************)
(* Synchronisation with Airtable.  One cycle at a time, started by a timer *)
(* or by a request, pulls the catalogue into SQLite and pushes the         *)
(* operation of the restaurant to a mirror in Airtable, while the          *)
(* restaurant keeps working, the back office keeps editing, calls to       *)
(* Airtable fail or lose their answer, and the process may die.            *)
(*                                                                         *)
(* Of the catalogue the module keeps the employees and the ADMIN role, the *)
(* rows a pull can lock everybody out with; of the operation, rows that    *)
(* refer to one another (a ticket to its shift), to the employee who       *)
(* opened them and, once settled, to the one who closed them.  A row is    *)
(* identified by its id_sqlite in the mirror and by its code or key,       *)
(* whatever its capitals, in the catalogue.  The rows of one table fit in  *)
(* one request.                                                            *)
(***************************************************************************)
EXTENDS Naturals, FiniteSets

CONSTANTS
    Employees,      \* employee codes, whatever their capitals
    FirstAdmin,     \* the only one at the start, left by the seed
    Rows,           \* operational rows: shifts, tickets
    Parent,         \* the row each refers to, NoRow if none
    Author,         \* the employee who opens each
    Closers,        \* those who close it, the optional links of a settled row
    Level,          \* place of each row's table in TABLE_SPECS
    LastLevel,
    NoRow,
    PullEnabled, PushEnabled,  \* directions of the scheduled cycles
    SkipPull,       \* airtable_sync_skip_pull_during_active_shift
    MaxEdits,       \* bound: edits in the back office
    MaxManuals,     \* bound: cycles asked for by hand
    MaxFaults       \* bound: failed pushes and deaths of the process

ASSUME SyncAssumption ==
    /\ FirstAdmin \in Employees
    /\ NoRow \notin Rows
    /\ Rows \cap Employees = {}
    /\ Author \in [Rows -> Employees]
    /\ Closers \in [Rows -> SUBSET Employees]
    /\ LastLevel \in Nat \ {0}
    /\ Level \in [Rows -> 1 .. LastLevel]
    /\ Parent \in [Rows -> Rows \cup {NoRow}]
    /\ \A r \in Rows : Parent[r] # NoRow => Level[Parent[r]] < Level[r]
    /\ {PullEnabled, PushEnabled, SkipPull} \subseteq BOOLEAN
    /\ PullEnabled \/ PushEnabled
    /\ {MaxEdits, MaxManuals, MaxFaults} \subseteq Nat

VARIABLES
    local,     \* operational rows of SQLite: Absent, Live or Settled
    mirror,    \* their records in Airtable: how many, and how fresh
    staff,     \* employees and ADMIN role in SQLite
    airtable,  \* the same in Airtable
    record,    \* number of the record that last stood for the role there
    cycle,     \* the cycle that holds _cycle_lock
    edits, manuals, faults

vars == <<local, mirror, staff, airtable, record, cycle, edits, manuals, faults>>

-----------------------------------------------------------------------------
(* Rows.                                                                   *)

Absent == 0
Live == 1
Settled == 2
Freshness == {Absent, Live, Settled}

\* A text field: Airtable leaves an empty one out, and shows one with nothing
\* but spaces.
Given == "given"
LeftOut == "left out"
Blank == "blank"

\* The ADMIN role: active or not, or a record that does not exist.  Its key
\* may be spelled with other capitals.
On == "on"
Off == "off"
NoRole == "none"

\* An employee's row, or a row that does not exist.  In Airtable a record
\* may lose the code that identifies it.
EmployeeRow == [known : {TRUE}, active : BOOLEAN, admin : BOOLEAN, capitals : BOOLEAN,
                keyed : BOOLEAN, name : {Given, LeftOut, Blank}]
NoEmployee == [known |-> FALSE, active |-> FALSE, admin |-> FALSE, capitals |-> FALSE,
               keyed |-> FALSE, name |-> LeftOut]
Catalogue == [role : {On, Off, NoRole}, exact : BOOLEAN,
              people : [Employees -> EmployeeRow \cup {NoEmployee}]]

IsActiveAdmin(row) == row.known /\ row.active /\ row.admin

\* Somebody can administer: the role is looked up by its exact key.
HasAdmin(catalogue) ==
    /\ catalogue.role = On
    /\ catalogue.exact
    /\ \E e \in Employees : IsActiveAdmin(catalogue.people[e])

\* A shift is open or a ticket of it is being served or charged.
HasActiveOperation == \E r \in Rows : local[r] = Live

\* [Defect] Records are found by their content and not by their id_sqlite.
MirroredAsIs == {r \in Rows : mirror[r].copies > 0 /\ mirror[r].value = local[r]}

Mirrored == {r \in Rows : mirror[r].copies > 0}
Duplicated == {r \in Rows : mirror[r].copies > 1}

-----------------------------------------------------------------------------
(* What a cycle holds while it runs.                                       *)

NoCatalogue == [role |-> On, exact |-> TRUE, people |-> [e \in Employees |-> NoEmployee]]
NoRows == [r \in Rows |-> Absent]
Idle == [at |-> "idle", push |-> FALSE, dry |-> FALSE, force |-> FALSE, failed |-> FALSE,
         level |-> 0, plan |-> NoCatalogue, record |-> 0, listed |-> {}, sent |-> NoRows,
         since |-> NoRows]
NewEmployee(admin) ==
    [known |-> TRUE, active |-> TRUE, admin |-> admin, capitals |-> TRUE, keyed |-> TRUE,
     name |-> Given]
Seeded == [NoCatalogue EXCEPT !.people[FirstAdmin] = NewEmployee(TRUE)]

\* The tables of the catalogue, read one after the other in the order of
\* TABLE_SPECS: a table comes after those its links refer to.
ReadOrder == <<"roles", "staff">>

\* At "resend" a creation was carried out and its answer lost: the client
\* is about to send the same request again.
Points == {"idle", "check", ReadOrder[1], ReadOrder[2], "apply", "list", "push", "resend",
           "finish"}
Cycles ==
    [at : Points, push : BOOLEAN, dry : BOOLEAN, force : BOOLEAN, failed : BOOLEAN,
     level : 0 .. LastLevel, plan : Catalogue, record : Nat,
     listed : SUBSET (Rows \cup Employees), sent : [Rows -> Freshness],
     since : [Rows -> Freshness]]

TypeOK ==
    /\ local \in [Rows -> Freshness]
    /\ mirror \in [Rows -> [copies : Nat, value : Freshness]]
    /\ staff \in Catalogue
    /\ airtable \in Catalogue
    /\ record \in Nat
    /\ cycle \in Cycles
    /\ {edits, manuals, faults} \subseteq Nat

\* The links to a record go with it.
WithoutRole(catalogue) ==
    [role |-> NoRole, exact |-> TRUE,
     people |-> [e \in Employees |-> IF catalogue.people[e].known
                                    THEN [catalogue.people[e] EXCEPT !.admin = FALSE]
                                    ELSE NoEmployee]]

\* What the seed leaves, and an Airtable that agrees or has yet to be given
\* the role.
Init ==
    /\ local = NoRows
    /\ mirror = [r \in Rows |-> [copies |-> 0, value |-> Absent]]
    /\ staff = Seeded
    /\ airtable \in {staff, WithoutRole(staff)}
    /\ record = 0
    /\ cycle = Idle
    /\ edits = 0 /\ manuals = 0 /\ faults = 0

-----------------------------------------------------------------------------
(* The restaurant and the back office.                                     *)

OpenRow(r) ==
    /\ local[r] = Absent
    /\ staff.people[Author[r]].active
    /\ Parent[r] # NoRow => local[Parent[r]] = Live
    /\ local' = [local EXCEPT ![r] = Live]
    /\ UNCHANGED <<mirror, staff, airtable, record, cycle, edits, manuals, faults>>

SettleRow(r) ==
    /\ local[r] = Live
    /\ \A s \in Rows : Parent[s] = r => local[s] # Live
    /\ \A e \in Closers[r] : staff.people[e].active
    /\ local' = [local EXCEPT ![r] = Settled]
    /\ UNCHANGED <<mirror, staff, airtable, record, cycle, edits, manuals, faults>>

\* What one edit makes of an employee's record; a record that is deleted
\* by hand is gone.  Only a role that exists can be linked.
Edited(row) ==
    IF row.known
    THEN {NoEmployee,
          [row EXCEPT !.active = ~@], [row EXCEPT !.capitals = ~@], [row EXCEPT !.keyed = ~@]}
         \cup {[row EXCEPT !.name = n] : n \in {Given, LeftOut, Blank} \ {row.name}}
         \cup {[row EXCEPT !.admin = ~@] : x \in {airtable.role} \ {NoRole}}
    ELSE {NewEmployee(admin) : admin \in {FALSE, airtable.role # NoRole}}

EditEmployee ==
    /\ \E e \in Employees : \E row \in Edited(airtable.people[e]) :
          airtable' = [airtable EXCEPT !.people[e] = row]
    /\ record' = record

\* The role is switched, spelled otherwise, or given a new record.
EditRole ==
    /\ \E role \in {On, Off}, exact \in BOOLEAN :
          /\ airtable' = [airtable EXCEPT !.role = role, !.exact = exact]
          /\ airtable' # airtable
    /\ record' = IF airtable.role = NoRole THEN record + 1 ELSE record

DeleteRole ==
    /\ airtable.role # NoRole
    /\ airtable' = WithoutRole(airtable)
    /\ record' = record

EditAirtable ==
    /\ edits < MaxEdits
    /\ EditEmployee \/ EditRole \/ DeleteRole
    /\ edits' = edits + 1
    /\ UNCHANGED <<local, mirror, staff, cycle, manuals, faults>>

-----------------------------------------------------------------------------
(* Cycles.                                                                 *)

Start(pull, push, dry, force) ==
    /\ cycle = Idle
    /\ pull \/ push
    /\ cycle' = [Idle EXCEPT !.at = IF pull THEN "check" ELSE "list",
                             !.push = push, !.dry = dry, !.force = force]
    /\ UNCHANGED <<local, mirror, staff, airtable, record, edits, faults>>

\* The timer; a cycle that finds the lock taken is skipped.
LoopCycle == Start(PullEnabled, PushEnabled, FALSE, FALSE) /\ UNCHANGED manuals

\* run_manual, which a request may ask to leave everything as it is (dry) or
\* to pull although the restaurant is working (force).
RunManual(pull, push) ==
    /\ manuals < MaxManuals
    /\ \E dry, force \in BOOLEAN : Start(pull, push, dry, force)
    /\ manuals' = manuals + 1

RequestPull == RunManual(TRUE, FALSE)
RequestPush == RunManual(FALSE, TRUE)
RequestRun  == RunManual(TRUE, TRUE)

RequestSync == RequestPull \/ RequestPush \/ RequestRun

AfterPull(c) == [c EXCEPT !.at = IF c.push THEN "list" ELSE "finish", !.force = FALSE,
                          !.plan = NoCatalogue, !.record = 0]
PullFailed(c) == AfterPull([c EXCEPT !.failed = TRUE])
CycleFailed(c) == [c EXCEPT !.at = "finish", !.failed = TRUE, !.listed = {}, !.level = 0,
                            !.sent = NoRows]

CheckOperation ==
    /\ cycle.at = "check"
    /\ cycle' = IF SkipPull /\ ~cycle.force /\ HasActiveOperation
                THEN AfterPull(cycle)
                ELSE [cycle EXCEPT !.at = ReadOrder[1]]
    /\ UNCHANGED <<local, mirror, staff, airtable, record, edits, manuals, faults>>

\* The role as the validation expects it: active by its record or, without
\* a record that has the exact key, by the row that has it.
RoleExpected(now, plan) ==
    IF plan.role # NoRole /\ plan.exact THEN plan.role = On ELSE now.role = On /\ now.exact

\* The validation looks employees up by their exact code, so a code whose
\* capitals changed counts once as it is and once as it would become.
Replaced(now, plan, e) ==
    plan.people[e].known /\ plan.people[e].capitals = now.people[e].capitals

\* [Defect] The validation looks at who holds the role and not at who is
\* still active.
LockoutRiskHolders(now, plan) ==
    ~ /\ RoleExpected(now, plan)
      /\ \E e \in Employees :
            \/ plan.exact /\ plan.people[e].admin
            \/ now.exact /\ now.people[e].admin /\ ~Replaced(now, plan, e)

\* Nobody would be an active administrator, counting the links to the role
\* as the table they are read from spells its key.
LockoutRisk(now, plan) ==
    ~ /\ RoleExpected(now, plan)
      /\ \E e \in Employees :
            \/ plan.exact /\ IsActiveAdmin(plan.people[e])
            \/ now.exact /\ IsActiveAdmin(now.people[e]) /\ ~Replaced(now, plan, e)

\* build_remote_indexes, prepare_records: one record without its code, with a
\* text of spaces, or with a link to a record that was not there when its
\* table was read, spoils the whole pull.
Indexable(plan) == \A e \in Employees : plan.people[e].known => plan.people[e].keyed

Convertible(plan) == \A e \in Employees : plan.people[e].name # Blank

Resolvable(plan) == cycle.record = record \/ \A e \in Employees : ~plan.people[e].admin

FetchRoles ==
    /\ cycle.at = ReadOrder[1]
    /\ \/ cycle' = PullFailed(cycle)
       \/ cycle' = [cycle EXCEPT !.at = ReadOrder[2], !.plan.role = airtable.role,
                                 !.plan.exact = airtable.exact, !.record = record]
    /\ UNCHANGED <<local, mirror, staff, airtable, record, edits, manuals, faults>>

\* The last table is read; the records are normalised and compared with
\* SQLite.
FetchAndPlan ==
    /\ cycle.at = ReadOrder[2]
    /\ \/ cycle' = PullFailed(cycle)
       \/ LET plan == [cycle.plan EXCEPT !.people = airtable.people]
          IN  IF \/ ~Indexable(plan) \/ ~Convertible(plan) \/ ~Resolvable(plan)
                 \/ LockoutRisk(staff, plan)
              THEN cycle' = PullFailed(cycle)
              ELSE IF cycle.dry THEN cycle' = AfterPull(cycle)
              ELSE cycle' = [cycle EXCEPT !.at = "apply", !.plan = plan]
    /\ UNCHANGED <<local, mirror, staff, airtable, record, edits, manuals, faults>>

\* An answer of Airtable that never comes is not among the errors a pull
\* expects: the whole cycle ends, and nothing is pushed.
PullAborted ==
    /\ cycle.at \in {ReadOrder[1], ReadOrder[2]}
    /\ faults < MaxFaults
    /\ cycle' = CycleFailed(cycle)
    /\ faults' = faults + 1
    /\ UNCHANGED <<local, mirror, staff, airtable, record, edits, manuals>>

\* What an employee's row becomes: a field left out keeps its value.
Written(row) == [row EXCEPT !.name = Given]

\* The row that has the code of a record, whatever the capitals of either.
Found(now, e) == now.people[e].known

Same(now, plan, e) == Found(now, e) /\ now.people[e] = Written(plan.people[e])

\* Records without a row, or whose row differs.
Changed(now, plan) == {e \in Employees : plan.people[e].known /\ ~Same(now, plan, e)}

\* A row that does not exist yet needs a name.
Creatable(now, plan) ==
    \A e \in Changed(now, plan) : Found(now, e) \/ plan.people[e].name = Given

\* Rows are created or overwritten, never deleted; the role's row is found
\* whatever its capitals, and takes those of its record.
Upserted(now, plan) ==
    [role |-> IF plan.role = NoRole THEN now.role ELSE plan.role,
     exact |-> IF plan.role = NoRole THEN now.exact ELSE plan.exact,
     people |-> [e \in Employees |->
                   IF e \in Changed(now, plan) THEN Written(plan.people[e]) ELSE now.people[e]]]

\* One transaction, rolled back as a whole by any exception.
ApplyPlan ==
    /\ cycle.at = "apply"
    /\ \/ Creatable(staff, cycle.plan) /\ staff' = Upserted(staff, cycle.plan)
          /\ cycle' = AfterPull(cycle)
       \/ staff' = staff /\ cycle' = PullFailed(cycle)
    /\ UNCHANGED <<local, mirror, airtable, record, edits, manuals, faults>>

\* What a push finds in Airtable: the mirror, and the employees with a code.
Listing == Mirrored \cup {e \in Employees : airtable.people[e].known /\ airtable.people[e].keyed}

\* The records that a row refers to: it needs them all, and the optional
\* ones besides when its table is pushed.
Required(r) == {Author[r]} \cup ({Parent[r]} \ {NoRow})
Optional(r) == IF local[r] = Settled THEN Closers[r] ELSE {}

\* Rows that refer to an employee without a record.
Orphans == {r \in Rows : local[r] # Absent /\ Author[r] \notin Listing}
Stranded == Orphans \cup {r \in Rows : ~(Optional(r) \subseteq Listing)}

\* The mirror is read and the whole push planned, the links to rows still to
\* be created left pending; two records with one id_sqlite, or a required
\* link that cannot resolve, are an error.
ListMirror ==
    /\ cycle.at = "list"
    /\ cycle' = IF Duplicated # {} \/ Orphans # {} THEN CycleFailed(cycle)
                ELSE IF cycle.dry THEN [cycle EXCEPT !.at = "finish"]
                ELSE [cycle EXCEPT !.at = "push", !.level = 1, !.listed = Listing,
                                   !.since = local]
    /\ UNCHANGED <<local, mirror, staff, airtable, record, edits, manuals, faults>>

\* The rows as the table is planned: as they are now or, when its creation
\* is sent again, as they were when it was first sent.
Planned(r) == IF cycle.at = "resend" THEN cycle.sent[r] ELSE local[r]

LevelRows == {r \in Rows : Level[r] = cycle.level /\ Planned(r) # Absent}

\* [Defect] The links are those of the plan made before the first table.
UnlinkedPending ==
    {r \in LevelRows :
        \E x \in Required(r) : x \notin cycle.listed \cup {s \in Rows : local[s] # Absent}}

\* A link that does not resolve ends the push at its table, also an optional
\* one.
Unlinked == {r \in LevelRows : ~(Required(r) \cup Optional(r) \subseteq cycle.listed)}

Creates == LevelRows \ cycle.listed

\* [Defect] Only rows in operation are compared with the mirror.
UpdatesLive == {r \in LevelRows \cap cycle.listed : local[r] = Live /\ mirror[r].value # Live}

Updates == {r \in LevelRows \cap cycle.listed : mirror[r].value # Planned(r)}

\* The mirror once a record of each new row was created, and the rows of ups
\* were updated.
MirrorWith(ups) ==
    [r \in Rows |->
        IF r \in Creates THEN [copies |-> mirror[r].copies + 1, value |-> Planned(r)]
        ELSE IF r \in ups THEN [mirror[r] EXCEPT !.value = Planned(r)]
        ELSE mirror[r]]

\* What a push that fails, or dies, at this level may have done.
CutShort == {mirror, MirrorWith({}), MirrorWith(Updates)}

\* A table is being written: it is planned again before its first request,
\* so that the rows created before it can be linked.
Pushing == cycle.at = "resend" \/ (cycle.at = "push" /\ Unlinked = {})

LevelDone ==
    cycle' = IF cycle.level = LastLevel
             THEN [cycle EXCEPT !.at = "finish", !.listed = {}, !.level = 0, !.sent = NoRows]
             ELSE [cycle EXCEPT !.at = "push", !.level = @ + 1, !.listed = @ \cup Creates,
                                !.sent = NoRows]

\* One table, or what is left of it when its creation is sent again.
PushLevel ==
    /\ Pushing
    /\ mirror' = MirrorWith(Updates)
    /\ LevelDone
    /\ UNCHANGED <<local, staff, airtable, record, edits, manuals, faults>>

PushUnlinked ==
    /\ cycle.at = "push"
    /\ Unlinked # {}
    /\ cycle' = CycleFailed(cycle)
    /\ UNCHANGED <<local, mirror, staff, airtable, record, edits, manuals, faults>>

\* Airtable carries out the creation and answers with a server error, or the
\* connection breaks: the client will send the request again.
CreateUnanswered ==
    /\ Pushing
    /\ Creates # {}
    /\ faults < MaxFaults
    /\ mirror' = MirrorWith({})
    /\ cycle' = [cycle EXCEPT !.at = "resend", !.sent = [r \in Rows |-> Planned(r)]]
    /\ faults' = faults + 1
    /\ UNCHANGED <<local, staff, airtable, record, edits, manuals>>

\* A request is refused after its retries, or its answer is lost.
PushCutShort ==
    /\ cycle.at = "list" \/ Pushing
    /\ faults < MaxFaults
    /\ IF Pushing THEN mirror' \in CutShort ELSE UNCHANGED mirror
    /\ cycle' = CycleFailed(cycle)
    /\ faults' = faults + 1
    /\ UNCHANGED <<local, staff, airtable, record, edits, manuals>>

Finish ==
    /\ cycle.at = "finish"
    /\ cycle' = Idle
    /\ UNCHANGED <<local, mirror, staff, airtable, record, edits, manuals, faults>>

\* The process dies; the next one starts with the lock free.
Die ==
    /\ cycle # Idle
    /\ faults < MaxFaults
    /\ IF Pushing THEN mirror' \in CutShort ELSE UNCHANGED mirror
    /\ cycle' = Idle
    /\ faults' = faults + 1
    /\ UNCHANGED <<local, staff, airtable, record, edits, manuals>>

CycleStep ==
    \/ CheckOperation \/ FetchRoles \/ FetchAndPlan \/ ApplyPlan
    \/ ListMirror \/ PushLevel \/ PushUnlinked \/ Finish

Next ==
    \/ \E r \in Rows : OpenRow(r) \/ SettleRow(r)
    \/ EditAirtable
    \/ LoopCycle \/ RequestSync
    \/ CycleStep
    \/ PullAborted \/ PushCutShort \/ CreateUnanswered \/ Die

Spec == Init /\ [][Next]_vars

\* The timer fires again and again and a cycle that started goes on.
FairSpec == Spec /\ WF_vars(LoopCycle) /\ WF_vars(CycleStep)

-----------------------------------------------------------------------------
(* Properties.                                                             *)

\* A pull may take away any administrator but the last one who is active,
\* whatever was edited before it was planned and before it was applied; it
\* takes that one only when it also changes the capitals of the role's key
\* or of an employee's code (validate_active_admin_projection, apply_plan).
AdminsRemain ==
    [][(HasAdmin(staff) /\ ~HasAdmin(staff')) =>
          \/ staff'.exact # staff.exact
          \/ \E e \in Employees :
                staff.people[e].known /\ staff'.people[e].capitals # staff.people[e].capitals
      ]_vars

\* A row gets a second record from nothing but the request that gave it the
\* first, sent again because its answer was lost; no later table, push or
\* restart creates it, whatever failed half way (_request, create_records;
\* execute_sequential starts from a new reading of the mirror).
OnlyResendsDuplicate ==
    [][\A r \in Rows :
          mirror'[r].copies > mirror[r].copies /\ mirror[r].copies > 0 =>
              /\ cycle.at = "resend"
              /\ Level[r] = cycle.level
              /\ r \notin cycle.listed]_vars

\* The mirror never shows a record whose parent it lacks, nor anything the
\* restaurant has not reached; and a cycle that ends without failure has
\* mirrored whatever there was when it read the mirror, however the
\* restaurant worked meanwhile (plan_push, execute_sequential).
MirrorFollows ==
    /\ \A r \in Mirrored : Parent[r] # NoRow => Parent[r] \in Mirrored
    /\ \A r \in Rows : mirror[r].value <= local[r]
    /\ cycle.at = "finish" /\ ~cycle.failed =>
          \A r \in Rows : cycle.since[r] <= mirror[r].value

\* Once the faults are over the mirror catches up with the restaurant and
\* stays there, unless two records of one row, or a row whose author or
\* closer has no record any more, keep stopping every push (_run_loop;
\* plan_push, execute_sequential).
MirrorCatchesUp ==
    <>[](\/ Duplicated # {} \/ Stranded # {}
         \/ \A r \in Rows : mirror[r].value = local[r])
=============================================================================
