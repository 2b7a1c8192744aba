------------------------ MODULE MCSchemaMigrations ------------------------
(***************************************************************************)
(* SchemaMigrations on three files: the first gains a field after it may   *)
(* have been recorded, the second links to a table nobody makes until it   *)
(* is repaired, the third is destructive until it is rewritten.            *)
(***************************************************************************)
EXTENDS SchemaMigrations, TLC

Table(t) == [op |-> EnsureTable, table |-> t, field |-> "key", link |-> NoTable]
Direct(t, f) == [op |-> DirectField, table |-> t, field |-> f, link |-> NoTable]
Late(t, f, to) == [op |-> LateField, table |-> t, field |-> f, link |-> to]
Unknown(t) == [op |-> Unsupported, table |-> t, field |-> "key", link |-> NoTable]
Plain(steps) == [destructive |-> FALSE, steps |-> steps]

const_Tables == {"ledger", "people", "roles", "nowhere"}
const_Fields == {"key", "name", "role"}
const_Primary == [t \in const_Tables |-> "key"]
const_LedgerSteps == <<Table("ledger"), Direct("ledger", "name")>>

const_First == <<Table("people"), Table("roles")>>
const_Migrations ==
    << <<Plain(const_First), Plain(const_First \o <<Late("people", "role", "roles")>>)>>,
       <<Plain(<<Late("people", "name", "nowhere")>>), Plain(<<Late("people", "name", NoTable)>>)>>,
       <<[destructive |-> TRUE, steps |-> <<Unknown("roles")>>],
         Plain(<<Table("roles"), Direct("roles", "role")>>)>> >>

Symmetry == Permutations(Runners)
=============================================================================
