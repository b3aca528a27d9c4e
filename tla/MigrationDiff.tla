---------------------------- MODULE MigrationDiff ----------------------------
(* diff.rs of crates/sql-orm-migrate, the plan, its reversal and the         *)
(* destructive check of crates/sql-orm-cli/src/main.rs, and the refusals of  *)
(* crates/sql-orm-sqlserver/src/migration.rs.  Operators only.               *)
(*                                                                           *)
(* Names are numbers, ordered as the strings are.  A snapshot is a function  *)
(* from schema names to functions from table names to tables:                *)
(*   table   [from, cols, idx, fks], the last three functions from names     *)
(*   column  [from, type, len, scale, null, key, def, comp]                  *)
(*   index   a set of columns;  foreign key  [col, ref |-> <<schema, table>>]*)
(* from is renamed_from, or None.  len is the length of an nvarchar, scale   *)
(* the one of a decimal, None where the model gives none.  key also stands   *)
(* for identity and rowversion: what an ALTER COLUMN is refused for.         *)
EXTENDS Naturals, Sequences, FiniteSets, SequencesExt

None == 0

(* A BTreeMap's keys, in the order it is iterated.                           *)
Ordered(S) ==
    [i \in 1..Cardinality(S) |->
        CHOOSE n \in S : Cardinality({m \in S : m <= n}) = i]

(* The operations pushed for each name, one name after the other.            *)
ForEach(S, Pushed(_)) ==
    LET names == Ordered(S)
    IN  FlattenSeq([i \in DOMAIN names |-> Pushed(names[i])])

Op(kind, s, t, rest) == [kind |-> kind, s |-> s, t |-> t, x |-> rest]
CreateSchema(s) == Op("CreateSchema", s, None, None)
DropSchema(s) == Op("DropSchema", s, None, None)
CreateTable(s, t, table) == Op("CreateTable", s, t, table)
DropTable(s, t) == Op("DropTable", s, t, None)
RenameTable(s, from, to) == Op("RenameTable", s, to, [from |-> from])
RenameColumn(s, t, from, to) == Op("RenameColumn", s, t, [from |-> from, to |-> to])
AddColumn(s, t, c, column) == Op("AddColumn", s, t, [name |-> c, column |-> column])
DropColumn(s, t, c) == Op("DropColumn", s, t, [name |-> c])
AlterColumn(s, t, c, old, new) ==
    Op("AlterColumn", s, t, [name |-> c, old |-> old, new |-> new])
CreateIndex(s, t, i, index) == Op("CreateIndex", s, t, [name |-> i, index |-> index])
DropIndex(s, t, i) == Op("DropIndex", s, t, [name |-> i])
AddForeignKey(s, t, f, key) == Op("AddForeignKey", s, t, [name |-> f, key |-> key])
DropForeignKey(s, t, f) == Op("DropForeignKey", s, t, [name |-> f])

-----------------------------------------------------------------------------
(* Tables: old and new are the two sides of one schema.                      *)

(* The explicit rename of a table is believed when the old name is gone and  *)
(* the new one is new.                                                       *)
RenameHint(old, new, t) ==
    /\ new[t].from # None /\ new[t].from # t
    /\ new[t].from \notin DOMAIN new
    /\ t \notin DOMAIN old
    /\ new[t].from \in DOMAIN old
(* consumed_previous_tables: the first table to claim an old name has it.    *)
Renamed(old, new, t) ==
    /\ RenameHint(old, new, t)
    /\ ~\E u \in DOMAIN new : u < t /\ RenameHint(old, new, u) /\ new[u].from = new[t].from
(* matched_table_pairs: the tables present on both sides, and the name that  *)
(* each has on the old one.                                                  *)
Matched(old, new) == {t \in DOMAIN new : t \in DOMAIN old \/ Renamed(old, new, t)}
OldName(old, new, t) == IF t \in DOMAIN old THEN t ELSE new[t].from

(* A new schema comes with its tables, a dropped one after its tables.       *)
TableOperations(prev, cur) ==
    LET changed(s) ==
            LET old == prev[s]
                new == cur[s]
                consumed == {OldName(old, new, t) : t \in Matched(old, new)}
            IN  ForEach(DOMAIN new, LAMBDA t :
                    IF t \in DOMAIN old THEN <<>>
                    ELSE IF Renamed(old, new, t) THEN <<RenameTable(s, new[t].from, t)>>
                    ELSE <<CreateTable(s, t, new[t])>>)
                \o ForEach(DOMAIN old \ (DOMAIN new \cup consumed),
                           LAMBDA t : <<DropTable(s, t)>>)
    IN  ForEach(DOMAIN cur, LAMBDA s :
            IF s \in DOMAIN prev THEN changed(s)
            ELSE <<CreateSchema(s)>>
                 \o ForEach(DOMAIN cur[s], LAMBDA t : <<CreateTable(s, t, cur[s][t])>>))
        \o ForEach(DOMAIN prev \ DOMAIN cur, LAMBDA s :
            ForEach(DOMAIN prev[s], LAMBDA t : <<DropTable(s, t)>>) \o <<DropSchema(s)>>)

-----------------------------------------------------------------------------
(* Mutant: a change of nullability alone is not seen.                        *)
EqualButNull(old, new) == [old EXCEPT !.null = FALSE] = [new EXCEPT !.from = None, !.null = FALSE]

(* Columns.  columns_equal_for_diff forgets the hint of the current side     *)
(* only.                                                                     *)
EqualForDiff(old, new) == old = [new EXCEPT !.from = None]

(* A column whose expression changed is dropped and added again.             *)
FollowUp(s, t, c, old, new) ==
    IF EqualForDiff(old, new) THEN <<>>
    ELSE IF old.comp # new.comp THEN <<DropColumn(s, t, c), AddColumn(s, t, c, new)>>
    ELSE <<AlterColumn(s, t, c, old, new)>>

ColumnHint(old, new, c) ==
    /\ new[c].from # None /\ new[c].from # c
    /\ new[c].from \notin DOMAIN new
    /\ new[c].from \in DOMAIN old

(* Mutant: the old column of a rename is not consumed.                       *)
ColumnsNotConsumed(s, t, old, new) ==
    ForEach(DOMAIN new, LAMBDA c :
        IF ColumnHint(old, new, c)
        THEN <<RenameColumn(s, t, new[c].from, c)>>
             \o FollowUp(s, t, c, old[new[c].from], new[c])
        ELSE IF c \in DOMAIN old THEN FollowUp(s, t, c, old[c], new[c])
        ELSE <<AddColumn(s, t, c, new[c])>>)
    \o ForEach(DOMAIN old \ DOMAIN new, LAMBDA c : <<DropColumn(s, t, c)>>)

ColumnsOfTable(s, t, old, new) ==
    LET consumed == {new[c].from : c \in {d \in DOMAIN new : ColumnHint(old, new, d)}}
    IN  ForEach(DOMAIN new, LAMBDA c :
            IF ColumnHint(old, new, c)
            THEN <<RenameColumn(s, t, new[c].from, c)>>
                 \o FollowUp(s, t, c, old[new[c].from], new[c])
            ELSE IF c \in DOMAIN old THEN FollowUp(s, t, c, old[c], new[c])
            ELSE <<AddColumn(s, t, c, new[c])>>)
        \o ForEach(DOMAIN old \ (DOMAIN new \cup consumed), LAMBDA c : <<DropColumn(s, t, c)>>)

ColumnOperations(prev, cur) ==
    ForEach(DOMAIN cur \cap DOMAIN prev, LAMBDA s :
        ForEach(Matched(prev[s], cur[s]), LAMBDA t :
            ColumnsOfTable(s, t, prev[s][OldName(prev[s], cur[s], t)].cols, cur[s][t].cols)))

-----------------------------------------------------------------------------
(* Indexes and foreign keys: compared by name, replaced when they differ.    *)
Replaced(old, new, Added(_), Removed(_)) ==
    ForEach(DOMAIN new, LAMBDA n :
        IF n \notin DOMAIN old THEN <<Added(n)>>
        ELSE IF old[n] # new[n] THEN <<Removed(n), Added(n)>> ELSE <<>>)
    \o ForEach(DOMAIN old \ DOMAIN new, LAMBDA n : <<Removed(n)>>)

CreateRelational(s, t, table) ==
    ForEach(DOMAIN table.idx, LAMBDA i : <<CreateIndex(s, t, i, table.idx[i])>>)
    \o ForEach(DOMAIN table.fks, LAMBDA f : <<AddForeignKey(s, t, f, table.fks[f])>>)

(* The last loop leaves out every table whose hint names an old table, even  *)
(* when it was created and not renamed.                                      *)
RelationalOperations(prev, cur) ==
    LET changed(s) ==
            LET old == prev[s]
                new == cur[s]
            IN  ForEach(Matched(old, new), LAMBDA t :
                    LET was == old[OldName(old, new, t)]
                    IN  Replaced(was.idx, new[t].idx,
                            LAMBDA i : CreateIndex(s, t, i, new[t].idx[i]),
                            LAMBDA i : DropIndex(s, t, i))
                        \o Replaced(was.fks, new[t].fks,
                            LAMBDA f : AddForeignKey(s, t, f, new[t].fks[f]),
                            LAMBDA f : DropForeignKey(s, t, f)))
                \o ForEach({t \in DOMAIN new \ DOMAIN old : new[t].from \notin DOMAIN old},
                           LAMBDA t : CreateRelational(s, t, new[t]))
    IN  ForEach(DOMAIN cur, LAMBDA s :
            IF s \in DOMAIN prev THEN changed(s)
            ELSE ForEach(DOMAIN cur[s], LAMBDA t : CreateRelational(s, t, cur[s][t])))

(* build_migration_plan.                                                     *)
Diff(prev, cur) ==
    TableOperations(prev, cur) \o ColumnOperations(prev, cur) \o RelationalOperations(prev, cur)

-----------------------------------------------------------------------------
(* compile_alter_column refuses more than a change of type and nullability,  *)
(* and computed columns.                                                     *)
Compiles(op) ==
    /\ op.kind = "AlterColumn" =>
        /\ op.x.old.def = op.x.new.def
        /\ op.x.old.key = op.x.new.key
        /\ op.x.new.comp = None
    /\ op.kind = "CreateIndex" => op.x.index # {}
PlanCompiles(ops) == \A i \in DOMAIN ops : Compiles(ops[i])

(* Mutant: a dropped column is not a loss.                                   *)
DestructiveTablesOnly(op) ==
    \/ op.kind = "DropTable"
    \/ /\ op.kind = "AlterColumn"
       /\ \/ op.x.old.type # op.x.new.type
          \/ op.x.old.len # None /\ op.x.new.len # None /\ op.x.new.len < op.x.old.len
          \/ op.x.old.null /\ ~op.x.new.null /\ op.x.new.def = None

(* first_destructive_migration_operation: a length is compared only when     *)
(* both sides give one, a scale never.                                       *)
Destructive(op) ==
    \/ op.kind \in {"DropTable", "DropColumn"}
    \/ /\ op.kind = "AlterColumn"
       /\ \/ op.x.old.type # op.x.new.type
          \/ op.x.old.len # None /\ op.x.new.len # None /\ op.x.new.len < op.x.old.len
          \/ op.x.old.null /\ ~op.x.new.null /\ op.x.new.def = None
IsDestructive(ops) == \E i \in DOMAIN ops : Destructive(ops[i])
(* reverse_migration_operation: a dropped object cannot be given back.       *)
Reversible(op) == op.kind \notin {"DropTable", "DropColumn", "DropIndex", "DropForeignKey"}
Reverse1(op) ==
    CASE op.kind = "CreateSchema" -> DropSchema(op.s)
      [] op.kind = "DropSchema" -> CreateSchema(op.s)
      [] op.kind = "CreateTable" -> DropTable(op.s, op.t)
      [] op.kind = "RenameTable" -> RenameTable(op.s, op.t, op.x.from)
      [] op.kind = "RenameColumn" -> RenameColumn(op.s, op.t, op.x.to, op.x.from)
      [] op.kind = "AddColumn" -> DropColumn(op.s, op.t, op.x.name)
      [] op.kind = "AlterColumn" -> AlterColumn(op.s, op.t, op.x.name, op.x.new, op.x.old)
      [] op.kind = "CreateIndex" -> DropIndex(op.s, op.t, op.x.name)
      [] op.kind = "AddForeignKey" -> DropForeignKey(op.s, op.t, op.x.name)

(* Mutant: the operations are reversed one by one, in their old order.       *)
ReversalInOrder(ops) == [i \in 1..Len(ops) |-> Reverse1(ops[i])]

(* The operations of down.sql, or a manual one when any cannot be reversed;  *)
(* migration add fails when the reversal does not compile.                   *)
PlanReversible(ops) == \A i \in DOMAIN ops : Reversible(ops[i])
Reversal(ops) == [i \in 1..Len(ops) |-> Reverse1(ops[Len(ops) + 1 - i])]
=============================================================================
