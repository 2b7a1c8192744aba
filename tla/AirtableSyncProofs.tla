------------------------- MODULE AirtableSyncProofs -------------------------
(***************************************************************************)
(* Proofs about AirtableSync, for any employees, rows, tables, edits,      *)
(* manual cycles and faults: the types, that only a request sent again     *)
(* gives a row a second record, that the mirror follows the restaurant,    *)
(* and that a pull leaves an administrator.                                *)
(***************************************************************************)
EXTENDS AirtableSync, TLAPS

-----------------------------------------------------------------------------
(* The inductive invariant.                                                *)

\* The references of the mirror resolve inside it.
LinksResolve == \A r \in Mirrored : Parent[r] # NoRow => Parent[r] \in Mirrored

\* Airtable knows nothing the restaurant has not reached.
NeverAhead == \A r \in Rows : mirror[r].value <= local[r]

\* A push has read the mirror and not gone through all of its tables.
Underway == cycle.at \in {"push", "resend"}

\* What the request to be sent again has already created.
Unanswered == IF cycle.at = "resend" THEN Creates ELSE {}

\* While a push runs nobody else writes the mirror: the records it listed,
\* those it created, and those whose answer was lost are all there are.
PushKnowsMirror ==
    Underway =>
        /\ cycle.level \in 1 .. LastLevel
        /\ Mirrored = (cycle.listed \cap Rows) \cup Unanswered

\* What there was when the push began is mirrored for the tables it has
\* gone through, and for all of them once it ended well; what it sends again
\* is no older than that, and no newer than the restaurant.
SinceIsMirrored ==
    /\ Underway =>
          \A r \in Rows : /\ cycle.since[r] <= Planned(r)
                          /\ Planned(r) <= local[r]
                          /\ Level[r] < cycle.level => cycle.since[r] <= mirror[r].value
    /\ cycle.at = "finish" /\ ~cycle.failed =>
          \A r \in Rows : cycle.since[r] <= mirror[r].value
    /\ cycle.at \notin {"push", "resend", "finish"} => \A r \in Rows : cycle.since[r] = Absent

\* A plan that waits to be applied passed the validation against the
\* employees there still are: only ApplyPlan changes them.
PlanIsSafe == cycle.at = "apply" => ~LockoutRisk(staff, cycle.plan)

IInv ==
    /\ TypeOK
    /\ LinksResolve
    /\ NeverAhead
    /\ PushKnowsMirror
    /\ SinceIsMirrored
    /\ PlanIsSafe

-----------------------------------------------------------------------------
(* Type correctness.                                                       *)

LEMMA LevelBounds ==
  LastLevel \in Nat /\ 0 \in 0 .. LastLevel /\ 1 \in 0 .. LastLevel /\ 1 \in 1 .. LastLevel
<1>1. LastLevel \in Nat \ {0}
  BY SyncAssumption
<1> QED BY <1>1

LEMMA ReadPoints == ReadOrder[1] = "roles" /\ ReadOrder[2] = "staff"
  BY DEF ReadOrder

LEMMA NewEmployeeType ==
  ASSUME NEW admin \in BOOLEAN
  PROVE  NewEmployee(admin) \in EmployeeRow
  BY DEF NewEmployee, EmployeeRow

LEMMA NoCatalogueType == NoCatalogue \in Catalogue /\ Seeded \in Catalogue
<1>1. NoCatalogue \in Catalogue
  BY DEF NoCatalogue, Catalogue
<1>2. Seeded \in Catalogue
  BY <1>1, NewEmployeeType, SyncAssumption DEF Seeded, NoCatalogue, Catalogue
<1> QED BY <1>1, <1>2

LEMMA WithoutRoleType ==
  ASSUME NEW catalogue \in Catalogue
  PROVE  WithoutRole(catalogue) \in Catalogue
<1>1. ASSUME NEW e \in Employees, catalogue.people[e].known
      PROVE  [catalogue.people[e] EXCEPT !.admin = FALSE] \in EmployeeRow
  <2>1. catalogue.people[e] \in EmployeeRow
    BY <1>1 DEF Catalogue, NoEmployee
  <2> QED BY <2>1 DEF EmployeeRow
<1> QED BY <1>1 DEF WithoutRole, Catalogue

LEMMA NoRowsType == NoRows \in [Rows -> Freshness]
  BY DEF NoRows, Freshness

LEMMA IdleType == Idle \in Cycles
  BY NoCatalogueType, NoRowsType, SyncAssumption DEF Idle, Cycles, Points

\* What ends a pull or a cycle leaves a cycle.
LEMMA CycleTypes ==
  ASSUME NEW c \in Cycles
  PROVE  /\ AfterPull(c) \in Cycles
         /\ PullFailed(c) \in Cycles
         /\ CycleFailed(c) \in Cycles
<1>1. ASSUME NEW d \in Cycles PROVE AfterPull(d) \in Cycles
  BY NoCatalogueType DEF AfterPull, Cycles, Points
<1>2. [c EXCEPT !.failed = TRUE] \in Cycles
  BY DEF Cycles
<1>3. PullFailed(c) \in Cycles
  BY <1>1, <1>2 DEF PullFailed
<1>4. CycleFailed(c) \in Cycles
  BY LevelBounds, NoRowsType DEF CycleFailed, Cycles, Points
<1> QED BY <1>1, <1>3, <1>4

\* Where a cycle stands after its pull, and what it read of the mirror.
LEMMA CyclePoints ==
  ASSUME NEW c \in Cycles
  PROVE  /\ AfterPull(c).at \in {"list", "finish"}
         /\ PullFailed(c).at \in {"list", "finish"}
         /\ CycleFailed(c).at = "finish" /\ CycleFailed(c).failed
         /\ AfterPull(c).since = c.since
         /\ PullFailed(c).since = c.since
<1>1. ASSUME NEW d \in Cycles
      PROVE  AfterPull(d).at \in {"list", "finish"} /\ AfterPull(d).since = d.since
  BY DEF AfterPull, Cycles
<1>2. [c EXCEPT !.failed = TRUE] \in Cycles /\ [c EXCEPT !.failed = TRUE].since = c.since
  BY DEF Cycles
<1>3. PullFailed(c).at \in {"list", "finish"} /\ PullFailed(c).since = c.since
  BY <1>1, <1>2 DEF PullFailed
<1>4. CycleFailed(c).at = "finish" /\ CycleFailed(c).failed
  BY DEF CycleFailed, Cycles
<1> QED BY <1>1, <1>3, <1>4

LEMMA PlannedType ==
  ASSUME TypeOK, NEW r \in Rows
  PROVE  Planned(r) \in Freshness
  BY DEF Planned, TypeOK, Cycles

\* A push leaves a mirror.
LEMMA MirrorType ==
  ASSUME TypeOK, NEW ups
  PROVE  MirrorWith(ups) \in [Rows -> [copies : Nat, value : Freshness]]
<1>1. ASSUME NEW r \in Rows
      PROVE  /\ [copies |-> mirror[r].copies + 1, value |-> Planned(r)]
                   \in [copies : Nat, value : Freshness]
             /\ [mirror[r] EXCEPT !.value = Planned(r)] \in [copies : Nat, value : Freshness]
             /\ mirror[r] \in [copies : Nat, value : Freshness]
  BY PlannedType DEF TypeOK
<1> QED BY <1>1 DEF MirrorWith

LEMMA CutShortType ==
  ASSUME TypeOK, NEW m \in CutShort
  PROVE  m \in [Rows -> [copies : Nat, value : Freshness]]
<1>1. mirror \in [Rows -> [copies : Nat, value : Freshness]]
  BY DEF TypeOK
<1>2. /\ MirrorWith({}) \in [Rows -> [copies : Nat, value : Freshness]]
      /\ MirrorWith(Updates) \in [Rows -> [copies : Nat, value : Freshness]]
  BY MirrorType
<1> QED BY <1>1, <1>2 DEF CutShort

LEMMA LevelDoneType ==
  ASSUME TypeOK, cycle.level \in 1 .. LastLevel, LevelDone
  PROVE  cycle' \in Cycles
<1>1. CASE cycle.level = LastLevel
  BY <1>1, LevelBounds, NoRowsType DEF LevelDone, TypeOK, Cycles, Points
<1>2. CASE cycle.level # LastLevel
  <2>1. cycle.level + 1 \in 0 .. LastLevel
    BY <1>2, LevelBounds
  <2>2. cycle.listed \cup Creates \in SUBSET (Rows \cup Employees)
    BY DEF TypeOK, Cycles, Creates, LevelRows
  <2> QED BY <1>2, <2>1, <2>2, NoRowsType DEF LevelDone, TypeOK, Cycles, Points
<1> QED BY <1>1, <1>2

LEMMA UpsertedType ==
  ASSUME NEW now \in Catalogue, NEW plan \in Catalogue
  PROVE  Upserted(now, plan) \in Catalogue
<1>1. ASSUME NEW e \in Changed(now, plan)
      PROVE  Written(plan.people[e]) \in EmployeeRow
  <2>1. plan.people[e] \in EmployeeRow
    BY DEF Changed, Catalogue, NoEmployee
  <2> QED BY <2>1 DEF Written, EmployeeRow
<1>2. /\ (IF plan.role = NoRole THEN now.role ELSE plan.role) \in {On, Off, NoRole}
      /\ (IF plan.role = NoRole THEN now.exact ELSE plan.exact) \in BOOLEAN
  BY DEF Catalogue
<1> QED BY <1>1, <1>2 DEF Upserted, Catalogue

LEMMA EditedType ==
  ASSUME NEW row \in EmployeeRow \cup {NoEmployee}, NEW new \in Edited(row)
  PROVE  new \in EmployeeRow \cup {NoEmployee}
<1>1. CASE row.known
  <2>1. row \in EmployeeRow
    BY <1>1 DEF NoEmployee
  <2>2. NoEmployee \in EmployeeRow \cup {NoEmployee}
    OBVIOUS
  <2>3. CASE \E n \in {Given, LeftOut, Blank} : new = [row EXCEPT !.name = n]
    BY <2>1, <2>3 DEF EmployeeRow
  <2>4. CASE new \in {[row EXCEPT !.active = ~@], [row EXCEPT !.capitals = ~@],
                     [row EXCEPT !.keyed = ~@], [row EXCEPT !.admin = ~@]}
    BY <2>1, <2>4 DEF EmployeeRow
  <2> QED BY <1>1, <2>2, <2>3, <2>4 DEF Edited
<1>2. CASE ~row.known
  <2>1. PICK admin \in BOOLEAN : new = NewEmployee(admin)
    BY <1>2 DEF Edited
  <2> QED BY <2>1, NewEmployeeType
<1> QED BY <1>1, <1>2

LEMMA InitTypeOK == Init => TypeOK
  BY NoCatalogueType, WithoutRoleType, IdleType, NoRowsType DEF Init, TypeOK, Freshness, Absent

\* A cycle asked for by hand is a cycle like any other.
LEMMA ManualStarts ==
  RequestSync => /\ \E pull, push, dry, force \in BOOLEAN : Start(pull, push, dry, force)
                 /\ manuals < MaxManuals /\ manuals' = manuals + 1
BY DEF RequestSync, RequestPull, RequestPush, RequestRun, RunManual

LEMMA StartType ==
  ASSUME TypeOK, NEW pull \in BOOLEAN, NEW push \in BOOLEAN, NEW dry \in BOOLEAN,
         NEW force \in BOOLEAN, Start(pull, push, dry, force)
  PROVE  cycle' \in Cycles
  BY IdleType DEF Start, Cycles, Points

LEMMA NextTypeOK == TypeOK /\ PushKnowsMirror /\ [Next]_vars => TypeOK'
<1> SUFFICES ASSUME TypeOK, PushKnowsMirror, [Next]_vars PROVE TypeOK'
  OBVIOUS
<1> USE DEF TypeOK
<1>1. ASSUME NEW r \in Rows, OpenRow(r) \/ SettleRow(r) PROVE TypeOK'
  BY <1>1 DEF OpenRow, SettleRow, Freshness, Live, Settled
<1>2. CASE EditAirtable
  <2>1. CASE EditEmployee
    <3>1. PICK e \in Employees : \E row \in Edited(airtable.people[e]) :
             airtable' = [airtable EXCEPT !.people[e] = row]
      BY <2>1 DEF EditEmployee
    <3>2. PICK row \in Edited(airtable.people[e]) :
             airtable' = [airtable EXCEPT !.people[e] = row]
      BY <3>1
    <3>3. row \in EmployeeRow \cup {NoEmployee}
      BY EditedType DEF Catalogue
    <3>4. airtable' \in Catalogue
      BY <3>2, <3>3 DEF Catalogue
    <3> QED BY <1>2, <2>1, <3>4 DEF EditAirtable, EditEmployee
  <2>2. CASE EditRole
    <3>1. PICK role \in {On, Off}, exact \in BOOLEAN :
             airtable' = [airtable EXCEPT !.role = role, !.exact = exact]
      BY <2>2 DEF EditRole
    <3>2. airtable' \in Catalogue
      BY <3>1 DEF Catalogue
    <3>3. record' \in Nat
      BY <2>2 DEF EditRole
    <3> QED BY <1>2, <3>2, <3>3 DEF EditAirtable
  <2>3. CASE DeleteRole
    <3>1. airtable' \in Catalogue /\ record' \in Nat
      BY <2>3, WithoutRoleType DEF DeleteRole
    <3> QED BY <1>2, <3>1 DEF EditAirtable
  <2> QED BY <1>2, <2>1, <2>2, <2>3 DEF EditAirtable
<1>3. CASE LoopCycle
  <2>1. cycle' \in Cycles
    BY <1>3, StartType, SyncAssumption DEF LoopCycle
  <2> QED BY <1>3, <2>1 DEF LoopCycle, Start
<1>4. CASE RequestSync
  <2>1. cycle' \in Cycles
    BY ManualStarts, <1>4, StartType
  <2>2. manuals' \in Nat
    BY ManualStarts, <1>4
  <2>3. UNCHANGED <<local, mirror, staff, airtable, record, edits, faults>>
    BY ManualStarts, <1>4 DEF Start
  <2> QED BY <2>1, <2>2, <2>3
<1>5. CASE CheckOperation
  <2>1. [cycle EXCEPT !.at = ReadOrder[1]] \in Cycles
    BY DEF Cycles, Points
  <2>2. cycle' \in Cycles
    BY <1>5, <2>1, CycleTypes DEF CheckOperation
  <2> QED BY <1>5, <2>2 DEF CheckOperation
<1>6. CASE FetchRoles \/ FetchAndPlan
  <2>1. [cycle EXCEPT !.at = ReadOrder[2], !.plan.role = airtable.role,
                      !.plan.exact = airtable.exact, !.record = record] \in Cycles
    BY DEF Cycles, Points, Catalogue
  <2>2. [cycle.plan EXCEPT !.people = airtable.people] \in Catalogue
    BY DEF Cycles, Catalogue
  <2>3. [cycle EXCEPT !.at = "apply", !.plan = [cycle.plan EXCEPT !.people = airtable.people]]
           \in Cycles
    BY <2>2 DEF Cycles, Points
  <2>4. cycle' \in Cycles
    BY <1>6, <2>1, <2>3, CycleTypes DEF FetchRoles, FetchAndPlan
  <2> QED BY <1>6, <2>4 DEF FetchRoles, FetchAndPlan
<1>7. CASE ApplyPlan
  <2>1. cycle' \in Cycles
    BY <1>7, CycleTypes DEF ApplyPlan
  <2>2. cycle.plan \in Catalogue
    BY DEF Cycles
  <2>3. staff' \in Catalogue
    BY <1>7, <2>2, UpsertedType DEF ApplyPlan
  <2> QED BY <1>7, <2>1, <2>3 DEF ApplyPlan
<1>8. CASE ListMirror
  <2>1. Listing \in SUBSET (Rows \cup Employees)
    BY DEF Listing, Mirrored
  <2>2. /\ [cycle EXCEPT !.at = "finish"] \in Cycles
        /\ [cycle EXCEPT !.at = "push", !.level = 1, !.listed = Listing, !.since = local]
              \in Cycles
    BY <2>1, LevelBounds DEF Cycles, Points
  <2>3. cycle' \in Cycles
    BY <1>8, <2>2, CycleTypes DEF ListMirror
  <2> QED BY <1>8, <2>3 DEF ListMirror
<1>9. CASE PushLevel
  <2>1. cycle.level \in 1 .. LastLevel
    BY <1>9 DEF PushKnowsMirror, Underway, PushLevel, Pushing
  <2>2. cycle' \in Cycles
    BY <1>9, <2>1, LevelDoneType DEF PushLevel
  <2>3. mirror' \in [Rows -> [copies : Nat, value : Freshness]]
    BY <1>9, MirrorType DEF PushLevel
  <2> QED BY <1>9, <2>2, <2>3 DEF PushLevel
<1>16. CASE CreateUnanswered
  <2>1. mirror' \in [Rows -> [copies : Nat, value : Freshness]]
    BY <1>16, MirrorType DEF CreateUnanswered
  <2>2. [r \in Rows |-> Planned(r)] \in [Rows -> Freshness]
    BY PlannedType
  <2>3. cycle' \in Cycles
    BY <1>16, <2>2 DEF CreateUnanswered, Cycles, Points
  <2> QED BY <1>16, <2>1, <2>3 DEF CreateUnanswered
<1>10. CASE PushUnlinked
  BY <1>10, CycleTypes DEF PushUnlinked
<1>11. CASE PullAborted
  BY <1>11, CycleTypes DEF PullAborted
<1>12. CASE PushCutShort
  <2>1. mirror' \in [Rows -> [copies : Nat, value : Freshness]]
    BY <1>12, CutShortType DEF PushCutShort
  <2> QED BY <1>12, <2>1, CycleTypes DEF PushCutShort
<1>13. CASE Finish
  BY <1>13, IdleType DEF Finish
<1>14. CASE Die
  <2>1. mirror' \in [Rows -> [copies : Nat, value : Freshness]]
    BY <1>14, CutShortType DEF Die
  <2> QED BY <1>14, <2>1, IdleType DEF Die
<1>15. CASE UNCHANGED vars
  BY <1>15 DEF vars
<1> QED
  BY <1>1, <1>2, <1>3, <1>4, <1>5, <1>6, <1>7, <1>8, <1>9, <1>10, <1>11, <1>12, <1>13,
     <1>14, <1>15, <1>16 DEF Next, CycleStep

-----------------------------------------------------------------------------
(* What steps do to the mirror and to the operation.                       *)

\* A mirror that a push may leave: records are added for the rows it
\* creates, which only a request sent again finds there, and shown rows
\* become what they were when the table was planned.
Pushed(m) ==
    /\ \A r \in Rows : mirror[r].copies > 0 =>
          \/ m[r].copies = mirror[r].copies
          \/ cycle.at = "resend" /\ r \in Creates /\ m[r].copies > 0
    /\ \A r \in Rows : m[r].value \in {mirror[r].value, Planned(r)}
    /\ \A r \in Rows : m[r].copies > 0 => r \in Mirrored \cup Creates

LEMMA PushedWith ==
  ASSUME TypeOK, PushKnowsMirror, Pushing, NEW ups
  PROVE  Pushed(MirrorWith(ups))
<1> DEFINE m == MirrorWith(ups)
<1>1. cycle.at # "resend" => Creates \cap Mirrored = {}
  BY DEF PushKnowsMirror, Underway, Unanswered, Pushing, Creates, LevelRows
<1>2. ASSUME NEW r \in Rows, r \in Creates
      PROVE  m[r].copies = mirror[r].copies + 1 /\ m[r].value = Planned(r)
  BY <1>2 DEF MirrorWith
<1>3. ASSUME NEW r \in Rows, r \notin Creates
      PROVE  m[r].copies = mirror[r].copies /\ m[r].value \in {mirror[r].value, Planned(r)}
  BY <1>3 DEF MirrorWith, TypeOK
<1>4. ASSUME NEW r \in Rows, mirror[r].copies > 0 PROVE r \in Mirrored
  BY <1>4 DEF Mirrored
<1>5. \A r \in Rows : mirror[r].copies \in Nat
  BY DEF TypeOK
<1> HIDE DEF m
<1>6. ASSUME NEW r \in Rows, mirror[r].copies > 0
      PROVE  \/ m[r].copies = mirror[r].copies
             \/ cycle.at = "resend" /\ r \in Creates /\ m[r].copies > 0
  <2>1. CASE r \in Creates
    <3>1. m[r].copies > 0
      BY <1>2, <1>5, <2>1
    <3>2. cycle.at = "resend"
      BY <1>1, <1>4, <1>6, <2>1
    <3> QED BY <2>1, <3>1, <3>2
  <2>2. CASE r \notin Creates
    BY <1>3, <2>2
  <2> QED BY <2>1, <2>2
<1>7. \A r \in Rows : m[r].value \in {mirror[r].value, Planned(r)}
  BY <1>2, <1>3
<1>8. \A r \in Rows : m[r].copies > 0 => r \in Mirrored \cup Creates
  BY <1>3, <1>4
<1> QED BY <1>6, <1>7, <1>8 DEF Pushed, m

LEMMA PushedCutShort ==
  ASSUME TypeOK, PushKnowsMirror, Pushing, NEW m \in CutShort
  PROVE  Pushed(m)
<1>1. Pushed(mirror)
  BY DEF Pushed, Mirrored
<1>2. Pushed(MirrorWith({})) /\ Pushed(MirrorWith(Updates))
  BY PushedWith
<1> QED BY <1>1, <1>2 DEF CutShort

\* The mirror is written by pushes alone, and only when every link of the
\* table resolves.
LEMMA OnlyPushesWrite ==
  ASSUME TypeOK, PushKnowsMirror, [Next]_vars
  PROVE  \/ mirror' = mirror
         \/ Pushing /\ Pushed(mirror') /\ local' = local
<1>1. CASE PushLevel \/ CreateUnanswered
  BY <1>1, PushedWith DEF PushLevel, CreateUnanswered
<1>2. CASE PushCutShort
  BY <1>2, PushedCutShort DEF PushCutShort
<1>3. CASE Die
  BY <1>3, PushedCutShort DEF Die
<1>4. CASE UNCHANGED vars
  BY <1>4 DEF vars
<1>5. CASE (\E r \in Rows : OpenRow(r) \/ SettleRow(r)) \/ EditAirtable \/ LoopCycle \/ RequestSync
  BY ManualStarts, <1>5 DEF OpenRow, SettleRow, EditAirtable, LoopCycle, Start
<1>6. CASE CheckOperation \/ FetchRoles \/ FetchAndPlan \/ ApplyPlan \/ ListMirror \/ PushUnlinked \/ Finish
           \/ PullAborted
  BY <1>6 DEF CheckOperation, FetchRoles, FetchAndPlan, ApplyPlan, ListMirror, PushUnlinked, Finish, PullAborted
<1> QED BY <1>1, <1>2, <1>3, <1>4, <1>5, <1>6 DEF Next, CycleStep

\* The restaurant only moves forward, and no cycle writes it.
LEMMA LocalGrows ==
  ASSUME TypeOK, [Next]_vars
  PROVE  /\ \A r \in Rows : local[r] <= local'[r]
         /\ local' # local => UNCHANGED cycle
<1>1. ASSUME NEW r \in Rows, OpenRow(r) \/ SettleRow(r)
      PROVE  cycle' = cycle /\ \A s \in Rows : local[s] <= local'[s]
  BY <1>1 DEF OpenRow, SettleRow, TypeOK, Freshness, Absent, Live, Settled
<1>2. CASE UNCHANGED local
  BY <1>2 DEF TypeOK, Freshness, Absent, Live, Settled
<1>3. CASE EditAirtable \/ LoopCycle \/ RequestSync
  BY ManualStarts, <1>2, <1>3 DEF EditAirtable, LoopCycle, Start
<1>4. CASE CheckOperation \/ FetchRoles \/ FetchAndPlan \/ ApplyPlan \/ ListMirror \/ PushUnlinked \/ Finish
           \/ PullAborted
  BY <1>2, <1>4 DEF CheckOperation, FetchRoles, FetchAndPlan, ApplyPlan, ListMirror, PushUnlinked, Finish,
                     PullAborted
<1>5. CASE PushLevel \/ CreateUnanswered \/ PushCutShort \/ Die \/ UNCHANGED vars
  BY <1>2, <1>5 DEF PushLevel, CreateUnanswered, PushCutShort, Die, vars
<1> QED BY <1>1, <1>3, <1>4, <1>5 DEF Next, CycleStep

\* A step of the restaurant or of the back office leaves the cycle, the
\* mirror and the employees alone.
LEMMA OutsideSteps ==
  ASSUME NEW r \in Rows, OpenRow(r) \/ SettleRow(r) \/ EditAirtable \/ UNCHANGED vars
  PROVE  UNCHANGED <<mirror, cycle, staff>>
  BY DEF OpenRow, SettleRow, EditAirtable, vars

-----------------------------------------------------------------------------
(* The parts of the invariant.                                             *)

LEMMA LinksPreserved == TypeOK /\ PushKnowsMirror /\ LinksResolve /\ [Next]_vars => LinksResolve'
<1> SUFFICES ASSUME TypeOK, PushKnowsMirror, LinksResolve, [Next]_vars PROVE LinksResolve'
  OBVIOUS
<1>1. CASE mirror' = mirror
  BY <1>1 DEF LinksResolve, Mirrored
<1>2. CASE Pushing /\ Pushed(mirror') /\ local' = local
  <2>1. ASSUME NEW r \in Mirrored PROVE r \in Mirrored'
    <3>1. r \in Rows /\ mirror[r].copies > 0
      BY <2>1 DEF Mirrored
    <3>2. mirror'[r].copies > 0
      BY <1>2, <3>1 DEF Pushed
    <3> QED BY <3>1, <3>2 DEF Mirrored
  <2>2. ASSUME NEW r \in Mirrored', Parent[r] # NoRow PROVE Parent[r] \in Mirrored
    <3>1. r \in Rows /\ r \in Mirrored \cup Creates
      BY <1>2 DEF Pushed, Mirrored
    <3>2. CASE r \in Mirrored
      BY <2>2, <3>2 DEF LinksResolve
    <3>3. CASE r \in Creates /\ cycle.at = "resend"
      <4>1. r \in Mirrored
        BY <3>3 DEF PushKnowsMirror, Underway, Unanswered
      <4> QED BY <2>2, <4>1 DEF LinksResolve
    <3>4. CASE r \in Creates /\ cycle.at = "push" /\ Unlinked = {}
      <4>1. Required(r) \subseteq cycle.listed
        BY <3>4 DEF Creates, Unlinked
      <4>2. Parent[r] \in cycle.listed /\ Parent[r] \in Rows
        BY <2>2, <3>1, <4>1, SyncAssumption DEF Required
      <4> QED BY <3>4, <4>2 DEF PushKnowsMirror, Underway
    <3> QED BY <1>2, <3>1, <3>2, <3>3, <3>4 DEF Pushing
  <2> QED BY <2>1, <2>2 DEF LinksResolve
<1> QED BY <1>1, <1>2, OnlyPushesWrite

LEMMA NeverAheadPreserved == IInv /\ [Next]_vars => NeverAhead'
<1> SUFFICES ASSUME IInv, [Next]_vars, NEW r \in Rows
             PROVE  mirror'[r].value <= local'[r]
  BY DEF NeverAhead
<1>0. TypeOK /\ PushKnowsMirror
  BY DEF IInv
<1>1. local[r] <= local'[r] /\ mirror[r].value <= local[r]
  BY <1>0, LocalGrows DEF IInv, NeverAhead
<1>2. TypeOK'
  BY <1>0, NextTypeOK
<1>3. mirror[r].value \in Nat /\ local[r] \in Nat /\ local'[r] \in Nat /\ Planned(r) \in Nat
  BY <1>0, <1>2, PlannedType DEF TypeOK, Freshness, Absent, Live, Settled
<1>4. CASE mirror' = mirror
  BY <1>1, <1>3, <1>4
<1>5. CASE Pushing /\ Pushed(mirror')
  <2>1. mirror'[r].value = mirror[r].value \/ mirror'[r].value = Planned(r)
    BY <1>5 DEF Pushed
  <2>2. Planned(r) <= local[r]
    BY <1>5 DEF Pushing, IInv, SinceIsMirrored, Underway
  <2> QED BY <1>1, <1>3, <2>1, <2>2
<1> QED BY <1>0, <1>4, <1>5, OnlyPushesWrite

\* What is to be sent again is kept in the cycle and does not change with
\* the restaurant.
LEMMA UnansweredKept ==
  ASSUME UNCHANGED cycle
  PROVE  Unanswered' = Unanswered
<1>1. CASE cycle.at = "resend"
  BY <1>1 DEF Unanswered, Creates, LevelRows, Planned
<1>2. CASE cycle.at # "resend"
  BY <1>2 DEF Unanswered
<1> QED BY <1>1, <1>2

\* Writing a table gives its new rows their records.
LEMMA CreatesRecords ==
  ASSUME TypeOK, NEW ups, mirror' = MirrorWith(ups)
  PROVE  Mirrored' = Mirrored \cup Creates
<1>1. ASSUME NEW r \in Rows
      PROVE  mirror'[r].copies > 0 <=> r \in Mirrored \cup Creates
  <2>1. CASE r \in Creates
    <3>1. mirror'[r].copies = mirror[r].copies + 1 /\ mirror[r].copies \in Nat
      BY <2>1 DEF MirrorWith, TypeOK
    <3> QED BY <2>1, <3>1
  <2>2. CASE r \notin Creates
    <3>1. mirror'[r].copies = mirror[r].copies
      BY <2>2 DEF MirrorWith, TypeOK
    <3> QED BY <2>2, <3>1 DEF Mirrored
  <2> QED BY <2>1, <2>2
<1>2. Mirrored \cup Creates \subseteq Rows
  BY DEF Mirrored, Creates, LevelRows
<1> QED BY <1>1, <1>2 DEF Mirrored

LEMMA KnowsPreserved == TypeOK /\ PushKnowsMirror /\ [Next]_vars => PushKnowsMirror'
<1> SUFFICES ASSUME TypeOK, PushKnowsMirror, [Next]_vars PROVE PushKnowsMirror'
  OBVIOUS
<1>0. cycle \in Cycles
  BY DEF TypeOK
<1>1. ASSUME UNCHANGED <<cycle, mirror>> PROVE PushKnowsMirror'
  <2>1. Unanswered' = Unanswered
    BY <1>1, UnansweredKept
  <2> QED BY <1>1, <2>1 DEF PushKnowsMirror, Underway, Mirrored
<1>2. CASE (\E r \in Rows : OpenRow(r) \/ SettleRow(r)) \/ EditAirtable \/ UNCHANGED vars
  BY <1>1, <1>2, OutsideSteps DEF EditAirtable, vars
<1>3. CASE LoopCycle \/ RequestSync
  BY ManualStarts, <1>3 DEF LoopCycle, Start, Idle, PushKnowsMirror, Underway
<1>4. CASE CheckOperation \/ FetchRoles \/ FetchAndPlan \/ ApplyPlan
  <2>1. ~Underway'
    BY <1>0, <1>4, CyclePoints, ReadPoints
       DEF CheckOperation, FetchRoles, FetchAndPlan, ApplyPlan, Cycles, Underway
  <2> QED BY <2>1 DEF PushKnowsMirror
<1>5. CASE ListMirror
  <2>1. Mirrored' = Mirrored
    BY <1>5 DEF ListMirror, Mirrored
  <2>2. ASSUME Underway'
        PROVE  cycle'.at = "push" /\ cycle'.level = 1 /\ cycle'.listed = Listing
    BY <1>0, <1>5, <2>2, CyclePoints DEF ListMirror, Cycles, Underway
  <2>3. Listing \cap Rows = Mirrored
    BY SyncAssumption DEF Listing, Mirrored
  <2> QED BY <2>1, <2>2, <2>3, LevelBounds DEF PushKnowsMirror, Unanswered
<1>6. CASE PushLevel
  <2>1. Underway /\ mirror' = MirrorWith(Updates) /\ LevelDone
    BY <1>6 DEF PushLevel, Pushing, Underway
  <2>2. CASE cycle.level = LastLevel
    BY <1>0, <2>1, <2>2 DEF LevelDone, PushKnowsMirror, Underway, Cycles
  <2>3. CASE cycle.level # LastLevel
    <3>1. cycle.level + 1 \in 1 .. LastLevel
      BY <2>1, <2>3, LevelBounds DEF PushKnowsMirror
    <3>2. Mirrored' = Mirrored \cup Creates
      BY <2>1, CreatesRecords
    <3>3. /\ cycle'.at = "push"
          /\ cycle'.level = cycle.level + 1
          /\ cycle'.listed = cycle.listed \cup Creates
      BY <1>0, <2>1, <2>3 DEF LevelDone, Cycles
    <3>4. Creates \subseteq Rows /\ Unanswered \subseteq Creates
      BY DEF Creates, LevelRows, Unanswered
    <3>5. Mirrored = (cycle.listed \cap Rows) \cup Unanswered
      BY <2>1 DEF PushKnowsMirror
    <3> QED BY <3>1, <3>2, <3>3, <3>4, <3>5 DEF PushKnowsMirror, Unanswered
  <2> QED BY <2>2, <2>3
<1>7. CASE CreateUnanswered
  <2>1. Underway /\ mirror' = MirrorWith({})
    BY <1>7 DEF CreateUnanswered, Pushing, Underway
  <2>2. /\ cycle'.at = "resend" /\ cycle'.sent = [r \in Rows |-> Planned(r)]
        /\ cycle'.level = cycle.level /\ cycle'.listed = cycle.listed
    BY <1>0, <1>7 DEF CreateUnanswered, Cycles
  <2>3. \A r \in Rows : Planned(r)' = Planned(r)
    BY <2>2 DEF Planned
  <2>4. Unanswered' = Creates
    BY <2>2, <2>3 DEF Unanswered, Creates, LevelRows
  <2>5. Mirrored' = Mirrored \cup Creates
    BY <2>1, CreatesRecords
  <2>6. Unanswered \subseteq Creates
    BY DEF Unanswered
  <2> QED BY <2>1, <2>2, <2>4, <2>5, <2>6 DEF PushKnowsMirror
<1>8. CASE PushUnlinked \/ PullAborted \/ PushCutShort
  <2>1. cycle'.at = "finish"
    BY <1>0, <1>8, CyclePoints DEF PushUnlinked, PullAborted, PushCutShort
  <2> QED BY <2>1 DEF PushKnowsMirror, Underway
<1>9. CASE Finish \/ Die
  BY <1>9 DEF Finish, Die, Idle, PushKnowsMirror, Underway
<1> QED BY <1>2, <1>3, <1>4, <1>5, <1>6, <1>7, <1>8, <1>9 DEF Next, CycleStep

LEMMA SincePreserved == IInv /\ [Next]_vars => SinceIsMirrored'
<1> SUFFICES ASSUME IInv, [Next]_vars PROVE SinceIsMirrored'
  OBVIOUS
<1>0. TypeOK /\ PushKnowsMirror /\ SinceIsMirrored /\ cycle \in Cycles
  BY DEF IInv, TypeOK
<1>n. ASSUME NEW r \in Rows
      PROVE  /\ mirror[r].value \in Nat /\ local[r] \in Nat /\ local'[r] \in Nat
             /\ cycle.since[r] \in Nat /\ Level[r] \in Nat /\ Planned(r) \in Nat
  <2>1. TypeOK'
    BY <1>0, NextTypeOK
  <2>2. Level[r] \in 1 .. LastLevel
    BY SyncAssumption
  <2> QED BY <1>0, <2>1, <2>2, LevelBounds, PlannedType
          DEF TypeOK, Cycles, Freshness, Absent, Live, Settled
<1>g. \A r \in Rows : local[r] <= local'[r]
  BY <1>0, LocalGrows
<1>1. ASSUME UNCHANGED <<cycle, mirror>> PROVE SinceIsMirrored'
  <2>1. ASSUME Underway, NEW r \in Rows
        PROVE  cycle.since[r] <= Planned(r)' /\ Planned(r)' <= local'[r]
    <3>1. cycle.since[r] <= Planned(r) /\ Planned(r) <= local[r]
      BY <1>0, <2>1 DEF SinceIsMirrored
    <3>2. Planned(r)' = Planned(r) \/ (Planned(r) = local[r] /\ Planned(r)' = local'[r])
      BY <1>1 DEF Planned
    <3> QED BY <1>n, <1>g, <3>1, <3>2
  <2> QED BY <1>0, <1>1, <2>1 DEF SinceIsMirrored, Underway
<1>2. CASE (\E r \in Rows : OpenRow(r) \/ SettleRow(r)) \/ EditAirtable \/ UNCHANGED vars
  BY <1>1, <1>2, OutsideSteps DEF EditAirtable, vars
<1>3. CASE LoopCycle \/ RequestSync
  <2>1. cycle'.at \in {"check", "list"} /\ cycle'.since = NoRows
    BY ManualStarts, <1>3 DEF LoopCycle, Start, Idle
  <2> QED BY <2>1 DEF SinceIsMirrored, Underway, NoRows
<1>4. CASE CheckOperation \/ FetchRoles \/ FetchAndPlan \/ ApplyPlan
  <2>1. /\ cycle.at \notin {"push", "resend", "finish"} /\ cycle'.at \notin {"push", "resend"}
        /\ cycle'.since = cycle.since
    <3>1. CASE CheckOperation BY <1>0, <3>1, CyclePoints, ReadPoints DEF CheckOperation, Cycles
    <3>2. CASE FetchRoles BY <1>0, <3>2, CyclePoints, ReadPoints DEF FetchRoles, Cycles
    <3>3. CASE FetchAndPlan
      <4>1. cycle.at = "staff"
        BY <3>3, ReadPoints DEF FetchAndPlan
      <4>2. \/ cycle' = PullFailed(cycle)
            \/ cycle' = AfterPull(cycle)
            \/ \E plan : cycle' = [cycle EXCEPT !.at = "apply", !.plan = plan]
        BY <3>3 DEF FetchAndPlan
      <4>3. ASSUME NEW plan, cycle' = [cycle EXCEPT !.at = "apply", !.plan = plan]
            PROVE  cycle'.at = "apply" /\ cycle'.since = cycle.since
        BY <1>0, <4>3 DEF Cycles
      <4> QED BY <1>0, <4>1, <4>2, <4>3, CyclePoints
    <3>4. CASE ApplyPlan BY <1>0, <3>4, CyclePoints, ReadPoints DEF ApplyPlan, Cycles
    <3> QED BY <1>4, <3>1, <3>2, <3>3, <3>4
  <2>2. \A r \in Rows : cycle'.since[r] = Absent
    BY <1>0, <2>1 DEF SinceIsMirrored
  <2>3. UNCHANGED mirror
    BY <1>4 DEF CheckOperation, FetchRoles, FetchAndPlan, ApplyPlan
  <2> QED BY <1>n, <2>1, <2>2, <2>3 DEF SinceIsMirrored, Underway, Absent
<1>5. CASE ListMirror
  <2>1. UNCHANGED <<mirror, local>>
    BY <1>5 DEF ListMirror
  <2>2. CASE Duplicated # {} \/ Orphans # {}
    BY <1>0, <1>5, <2>2, CyclePoints DEF ListMirror, SinceIsMirrored, Underway
  <2>3. CASE Duplicated = {} /\ Orphans = {} /\ cycle.dry
    <3>1. cycle'.at = "finish" /\ cycle'.since = cycle.since /\ cycle.at = "list"
      BY <1>0, <1>5, <2>3 DEF ListMirror, Cycles
    <3>2. \A r \in Rows : cycle'.since[r] = Absent
      BY <1>0, <3>1 DEF SinceIsMirrored
    <3> QED BY <1>n, <2>1, <3>1, <3>2 DEF SinceIsMirrored, Underway, Absent
  <2>4. CASE Duplicated = {} /\ Orphans = {} /\ ~cycle.dry
    <3>1. cycle'.at = "push" /\ cycle'.since = local /\ cycle'.level = 1
      BY <1>0, <1>5, <2>4 DEF ListMirror, Cycles
    <3>2. \A r \in Rows : ~(Level[r] < 1) /\ Planned(r)' = local[r]
      BY <2>1, <3>1, SyncAssumption DEF Planned
    <3> QED BY <1>n, <2>1, <3>1, <3>2 DEF SinceIsMirrored, Underway
  <2> QED BY <2>2, <2>3, <2>4
<1>6. CASE PushLevel
  <2>1. Underway /\ mirror' = MirrorWith(Updates) /\ LevelDone /\ UNCHANGED local
    BY <1>6 DEF PushLevel, Pushing, Underway
  <2>3. ASSUME NEW r \in Rows
        PROVE  /\ cycle.since[r] <= Planned(r) /\ Planned(r) <= local[r]
               /\ cycle.since[r] <= local[r]
               /\ Level[r] < cycle.level => cycle.since[r] <= mirror[r].value
    <3>1. /\ cycle.since[r] <= Planned(r) /\ Planned(r) <= local[r]
          /\ Level[r] < cycle.level => cycle.since[r] <= mirror[r].value
      BY <1>0, <2>1 DEF SinceIsMirrored
    <3> QED BY <1>n, <3>1
  <2>4. ASSUME NEW r \in Rows, Level[r] <= cycle.level PROVE cycle.since[r] <= mirror'[r].value
    <3>1. CASE r \in LevelRows
      <4>1. CASE r \in Creates \/ r \in Updates
        <5>1. mirror'[r].value = Planned(r)
          BY <1>0, <2>1, <4>1 DEF MirrorWith, TypeOK
        <5> QED BY <2>3, <5>1
      <4>2. CASE r \notin Creates /\ r \notin Updates
        <5>1. mirror'[r] = mirror[r] /\ mirror[r].value = Planned(r)
          BY <2>1, <3>1, <4>2 DEF MirrorWith, Creates, Updates
        <5> QED BY <2>3, <5>1
      <4> QED BY <4>1, <4>2
    <3>2. CASE r \notin LevelRows
      <4>1. mirror'[r] = mirror[r]
        BY <2>1, <3>2 DEF MirrorWith, Creates, Updates
      <4>2. CASE Level[r] = cycle.level
        <5>1. Planned(r) = 0
          BY <3>2, <4>2 DEF LevelRows, Absent
        <5> QED BY <1>n, <2>3, <4>1, <5>1
      <4>3. CASE Level[r] # cycle.level
        <5>1. Level[r] < cycle.level
          BY <1>0, <1>n, <2>1, <2>4, <4>3, LevelBounds DEF PushKnowsMirror
        <5> QED BY <2>3, <4>1, <5>1
      <4> QED BY <4>2, <4>3
    <3> QED BY <3>1, <3>2
  <2>5. CASE cycle.level = LastLevel
    <3>1. cycle'.at = "finish" /\ cycle'.since = cycle.since
      BY <1>0, <2>1, <2>5 DEF LevelDone, Cycles
    <3>2. \A r \in Rows : Level[r] <= cycle.level
      BY <2>5, SyncAssumption
    <3> QED BY <2>4, <3>1, <3>2 DEF SinceIsMirrored, Underway
  <2>6. CASE cycle.level # LastLevel
    <3>1. cycle'.at = "push" /\ cycle'.since = cycle.since /\ cycle'.level = cycle.level + 1
      BY <1>0, <2>1, <2>6 DEF LevelDone, Cycles
    <3>2. \A r \in Rows : Level[r] < cycle.level + 1 => Level[r] <= cycle.level
      BY <1>0, <1>n, <2>1 DEF PushKnowsMirror
    <3>3. \A r \in Rows : Planned(r)' = local[r] /\ local[r] <= local[r]
      BY <1>n, <2>1, <3>1 DEF Planned
    <3> QED BY <2>1, <2>3, <2>4, <3>1, <3>2, <3>3 DEF SinceIsMirrored, Underway
  <2> QED BY <2>5, <2>6
<1>7. CASE CreateUnanswered
  <2>1. Underway /\ mirror' = MirrorWith({}) /\ UNCHANGED local
    BY <1>7 DEF CreateUnanswered, Pushing, Underway
  <2>2. /\ cycle'.at = "resend" /\ cycle'.sent = [r \in Rows |-> Planned(r)]
        /\ cycle'.level = cycle.level /\ cycle'.since = cycle.since
    BY <1>0, <1>7 DEF CreateUnanswered, Cycles
  <2>3. \A r \in Rows : Planned(r)' = Planned(r)
    BY <2>2 DEF Planned
  <2>4. ASSUME NEW r \in Rows, Level[r] < cycle.level PROVE mirror'[r] = mirror[r]
    <3>1. r \notin Creates
      BY <1>0, <1>n, <2>1, <2>4, LevelBounds DEF Creates, LevelRows, PushKnowsMirror
    <3> QED BY <2>1, <3>1 DEF MirrorWith
  <2> QED BY <1>0, <2>1, <2>2, <2>3, <2>4 DEF SinceIsMirrored, Underway
<1>8. CASE PushUnlinked \/ PullAborted \/ PushCutShort
  <2>1. cycle'.at = "finish" /\ cycle'.failed
    BY <1>0, <1>8, CyclePoints DEF PushUnlinked, PullAborted, PushCutShort
  <2> QED BY <2>1 DEF SinceIsMirrored, Underway
<1>9. CASE Finish \/ Die
  BY <1>9 DEF Finish, Die, Idle, SinceIsMirrored, Underway, NoRows
<1> QED BY <1>2, <1>3, <1>4, <1>5, <1>6, <1>7, <1>8, <1>9 DEF Next, CycleStep

LEMMA PlanPreserved == TypeOK /\ PlanIsSafe /\ [Next]_vars => PlanIsSafe'
<1> SUFFICES ASSUME TypeOK, PlanIsSafe, [Next]_vars, cycle'.at = "apply"
             PROVE  ~LockoutRisk(staff, cycle.plan)'
  BY DEF PlanIsSafe
<1>0. cycle \in Cycles
  BY DEF TypeOK
<1>1. ASSUME NEW r \in Rows, OpenRow(r) \/ SettleRow(r) PROVE ~LockoutRisk(staff, cycle.plan)'
  BY <1>1 DEF OpenRow, SettleRow, PlanIsSafe, LockoutRisk, Replaced, RoleExpected
<1>2. CASE EditAirtable \/ UNCHANGED vars
  BY <1>2 DEF EditAirtable, vars, PlanIsSafe, LockoutRisk, Replaced, RoleExpected
<1>3. CASE FetchAndPlan
  <2> DEFINE plan == [cycle.plan EXCEPT !.people = airtable.people]
  <2>1. cycle' = [cycle EXCEPT !.at = "apply", !.plan = plan]
    BY <1>0, <1>3, CyclePoints DEF FetchAndPlan
  <2>2. ~LockoutRisk(staff, plan) /\ UNCHANGED staff
    BY <1>0, <1>3, CyclePoints DEF FetchAndPlan
  <2>3. cycle'.plan = plan
    BY <1>0, <2>1 DEF Cycles
  <2> QED BY <2>2, <2>3 DEF LockoutRisk, Replaced, RoleExpected
<1>4. CASE LoopCycle \/ RequestSync \/ Finish \/ Die
  <2>1. cycle'.at \in {"check", "list", "idle"}
    <3>1. CASE LoopCycle \/ RequestSync
      BY ManualStarts, <3>1 DEF LoopCycle, Start, Idle
    <3>2. CASE Finish \/ Die
      BY <3>2 DEF Finish, Die, Idle
    <3> QED BY <1>4, <3>1, <3>2
  <2> QED BY <2>1
<1>5. CASE CheckOperation \/ FetchRoles \/ ApplyPlan
  <2>1. cycle'.at # "apply"
    BY <1>0, <1>5, CyclePoints, ReadPoints DEF CheckOperation, FetchRoles, ApplyPlan, Cycles
  <2> QED BY <2>1
<1>6. CASE ListMirror \/ PushUnlinked \/ PullAborted \/ PushCutShort
  <2>1. cycle'.at \in {"push", "finish"}
    <3>1. CASE ListMirror
      BY <1>0, <3>1, CyclePoints DEF ListMirror, Cycles
    <3>2. CASE PushUnlinked \/ PullAborted \/ PushCutShort
      BY <1>0, <3>2, CyclePoints DEF PushUnlinked, PullAborted, PushCutShort
    <3> QED BY <1>6, <3>1, <3>2
  <2> QED BY <2>1
<1>7. CASE PushLevel \/ CreateUnanswered
  <2>1. cycle'.at \in {"push", "resend", "finish"}
    BY <1>0, <1>7 DEF PushLevel, CreateUnanswered, LevelDone, Cycles
  <2> QED BY <2>1
<1> QED BY <1>1, <1>2, <1>3, <1>4, <1>5, <1>6, <1>7 DEF Next, CycleStep

LEMMA InitIInv == Init => IInv
<1> SUFFICES ASSUME Init PROVE IInv
  OBVIOUS
<1>1. TypeOK
  BY InitTypeOK
<1>2. cycle.at = "idle" /\ cycle.since = NoRows /\ Mirrored = {}
  BY DEF Init, Idle, Mirrored
<1>3. NeverAhead
  BY DEF Init, NeverAhead, NoRows, Absent
<1> QED BY <1>1, <1>2, <1>3
        DEF IInv, LinksResolve, PushKnowsMirror, SinceIsMirrored, Underway, NoRows, PlanIsSafe

LEMMA NextIInv == IInv /\ [Next]_vars => IInv'
  BY NextTypeOK, LinksPreserved, NeverAheadPreserved, KnowsPreserved, SincePreserved, PlanPreserved
     DEF IInv

LEMMA Inductive == Spec => []IInv
  BY InitIInv, NextIInv, PTL DEF Spec

-----------------------------------------------------------------------------
(* The theorems.                                                           *)

\* Rows, records and cycles keep their shape.
THEOREM TypeCorrect == Spec => []TypeOK
  BY Inductive, PTL DEF IInv

\* The mirror follows the restaurant: its references resolve, it is never
\* ahead, and a cycle without failure has mirrored all it set out to
\* (plan_push, execute_sequential).
THEOREM MirrorAlwaysFollows == Spec => []MirrorFollows
<1>1. IInv => MirrorFollows
  BY DEF IInv, LinksResolve, NeverAhead, SinceIsMirrored, MirrorFollows
<1> QED BY <1>1, Inductive, PTL

\* Whatever fails or dies in between, a row that has a record is given
\* another one only by the request that created it, when it is sent again
\* (_request, create_records, execute_sequential).
THEOREM OnlyAResendDuplicates == Spec => OnlyResendsDuplicate
<1>1. ASSUME IInv, [Next]_vars, NEW r \in Rows,
             mirror'[r].copies > mirror[r].copies, mirror[r].copies > 0
      PROVE  cycle.at = "resend" /\ Level[r] = cycle.level /\ r \notin cycle.listed
  <2>1. mirror[r].copies \in Nat
    BY <1>1 DEF IInv, TypeOK
  <2>2. mirror'[r].copies # mirror[r].copies
    BY <1>1, <2>1
  <2>3. mirror' = mirror \/ Pushed(mirror')
    BY <1>1, OnlyPushesWrite DEF IInv
  <2>4. cycle.at = "resend" /\ r \in Creates
    BY <1>1, <2>2, <2>3 DEF Pushed
  <2> QED BY <2>4 DEF Creates, LevelRows
<1>2. IInv /\ [Next]_vars =>
        [\A r \in Rows :
            mirror'[r].copies > mirror[r].copies /\ mirror[r].copies > 0 =>
                /\ cycle.at = "resend"
                /\ Level[r] = cycle.level
                /\ r \notin cycle.listed]_vars
  BY <1>1
<1> QED BY <1>2, Inductive, PTL DEF Spec, OnlyResendsDuplicate

\* A pull leaves an active administrator if there was one, unless it
\* changes the capitals of the role's key or of a code
\* (validate_active_admin_projection, apply_plan).
THEOREM AnAdminRemains == Spec => AdminsRemain
<1> DEFINE Recapitalised ==
             \/ staff'.exact # staff.exact
             \/ \E e \in Employees :
                   staff.people[e].known /\ staff'.people[e].capitals # staff.people[e].capitals
<1>1. ASSUME IInv, ApplyPlan, HasAdmin(staff), ~HasAdmin(staff'), staff'.exact = staff.exact
      PROVE  \E e \in Employees :
                staff.people[e].known /\ staff'.people[e].capitals # staff.people[e].capitals
  <2>1. staff' = Upserted(staff, cycle.plan) /\ ~LockoutRisk(staff, cycle.plan)
    BY <1>1 DEF ApplyPlan, IInv, PlanIsSafe, HasAdmin
  <2>2. staff \in Catalogue /\ cycle.plan \in Catalogue
    BY <1>1 DEF IInv, TypeOK, Cycles
  <2> DEFINE plan == cycle.plan
  <2>3. /\ RoleExpected(staff, plan)
        /\ \E e \in Employees :
              \/ plan.exact /\ IsActiveAdmin(plan.people[e])
              \/ staff.exact /\ IsActiveAdmin(staff.people[e]) /\ ~Replaced(staff, plan, e)
    BY <2>1 DEF LockoutRisk
  <2>4. PICK e \in Employees :
           \/ plan.exact /\ IsActiveAdmin(plan.people[e])
           \/ staff.exact /\ IsActiveAdmin(staff.people[e]) /\ ~Replaced(staff, plan, e)
    BY <2>3
  <2>r. staff'.role = On /\ staff'.exact
    <3>1. staff.role = On /\ staff.exact
      BY <1>1 DEF HasAdmin
    <3>2. /\ staff'.role = IF plan.role = NoRole THEN staff.role ELSE plan.role
          /\ staff'.exact = IF plan.role = NoRole THEN staff.exact ELSE plan.exact
      BY <2>1 DEF Upserted
    <3> QED BY <1>1, <2>3, <3>1, <3>2 DEF RoleExpected
  <2>5. ~IsActiveAdmin(staff'.people[e])
    BY <1>1, <2>r DEF HasAdmin
  <2>6. staff'.people[e] = IF e \in Changed(staff, plan) THEN Written(plan.people[e])
                                                         ELSE staff.people[e]
    BY <2>1, <2>2 DEF Upserted
  <2>w. ASSUME plan.people[e].known
        PROVE  /\ IsActiveAdmin(Written(plan.people[e])) <=> IsActiveAdmin(plan.people[e])
               /\ Written(plan.people[e]).capitals = plan.people[e].capitals
    <3>1. plan.people[e] \in EmployeeRow
      BY <2>2, <2>w DEF Catalogue, NoEmployee
    <3> QED BY <3>1 DEF Written, IsActiveAdmin, EmployeeRow
  <2>7. CASE IsActiveAdmin(plan.people[e])
    <3>1. plan.people[e].known
      BY <2>7 DEF IsActiveAdmin
    <3> QED BY <2>5, <2>6, <2>7, <2>w, <3>1 DEF Changed, Same
  <2>8. CASE IsActiveAdmin(staff.people[e]) /\ ~Replaced(staff, plan, e)
    <3>1. staff.people[e].known
      BY <2>8 DEF IsActiveAdmin
    <3>2. e \in Changed(staff, plan) /\ plan.people[e].known
      BY <2>5, <2>6, <2>8 DEF Changed
    <3> QED BY <2>6, <2>8, <2>w, <3>1, <3>2 DEF Replaced
  <2> QED BY <2>4, <2>7, <2>8
<1>2. ASSUME IInv, [Next]_vars, ~ApplyPlan PROVE UNCHANGED staff
  BY ManualStarts, <1>2 DEF Next, CycleStep, OpenRow, SettleRow, EditAirtable, LoopCycle, Start,
              CheckOperation, FetchRoles, FetchAndPlan, ListMirror, PushLevel, PushUnlinked, Finish,
              PullAborted, PushCutShort, CreateUnanswered, Die, vars
<1>3. IInv /\ [Next]_vars => [(HasAdmin(staff) /\ ~HasAdmin(staff')) => Recapitalised]_vars
  BY <1>1, <1>2
<1> QED BY <1>3, Inductive, PTL DEF Spec, AdminsRemain
=============================================================================
