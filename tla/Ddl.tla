--------------------------------- MODULE Ddl ---------------------------------
(* What SQL Server does with the statements of migration.rs, for the objects *)
(* of MigrationDiff.  External: the server is not part of the repository.    *)
(*                                                                           *)
(* A database is [schemas, tables], tables a function from <<schema, name>>  *)
(* to [cols, idx, fks, pk].  The server's dictionary tracks objects, not     *)
(* names: a rename carries indexes and foreign keys along.                   *)
EXTENDS MigrationDiff

CONSTANT SystemSchemas      \* schemas that exist and cannot be dropped

PhysicalColumn(column) == [column EXCEPT !.from = None, !.key = FALSE]
KeyOf(cols) == {c \in DOMAIN cols : cols[c].key}
PhysicalColumns(cols) == [c \in DOMAIN cols |-> PhysicalColumn(cols[c])]

(* The database a model stands for.                                          *)
Deployed(model) ==
    LET at == UNION {{<<s, t>> : t \in DOMAIN model[s]} : s \in DOMAIN model}
        table(p) == model[p[1]][p[2]]
    IN  [schemas |-> SystemSchemas \cup DOMAIN model,
         tables |-> [p \in at |->
            [cols |-> PhysicalColumns(table(p).cols), pk |-> KeyOf(table(p).cols),
             idx |-> table(p).idx, fks |-> table(p).fks]]]

Without(f, n) == [m \in DOMAIN f \ {n} |-> f[m]]
With(f, n, v) == [m \in DOMAIN f \cup {n} |-> IF m = n THEN v ELSE f[m]]
(* f with the name a replaced by b.                                          *)
Moved(f, a, b) == [m \in (DOMAIN f \ {a}) \cup {b} |-> IF m = b THEN f[a] ELSE f[m]]
As(a, b, x) == IF x = a THEN b ELSE x

Referenced(db, p) ==
    \E q \in DOMAIN db.tables \ {p} :
        \E f \in DOMAIN db.tables[q].fks : db.tables[q].fks[f].ref = p

(* A column another object of its table needs.                               *)
Indexed(table, c) == c \in table.pk \/ \E i \in DOMAIN table.idx : c \in table.idx[i]
Keyed(table, c) == c \in table.pk \/ \E f \in DOMAIN table.fks : table.fks[f].col = c
Needed(table, c) == Indexed(table, c) \/ Keyed(table, c)

(* What the compiler writes for an nvarchar without a length, and for a      *)
(* decimal without a scale.                                                  *)
DefaultLength == 255
DefaultScale == 2
Length(column) == IF column.len = None THEN DefaultLength ELSE column.len
Scale(column) == IF column.scale = None THEN DefaultScale ELSE column.scale

-----------------------------------------------------------------------------
(* Why a statement would fail: an object that is missing or already there,   *)
(* or one that another object depends on.                                    *)
Finds(db, op) ==
    LET p == <<op.s, op.t>>
        here == p \in DOMAIN db.tables
        table == db.tables[p]
    IN  CASE op.kind = "CreateSchema" -> TRUE
          [] op.kind = "DropSchema" -> op.s \in db.schemas
          [] op.kind = "CreateTable" -> op.s \in db.schemas /\ ~here
          [] op.kind = "DropTable" -> here
          [] op.kind = "RenameTable" -> ~here /\ <<op.s, op.x.from>> \in DOMAIN db.tables
          [] op.kind = "RenameColumn" ->
                here /\ op.x.from \in DOMAIN table.cols /\ op.x.to \notin DOMAIN table.cols
          [] op.kind = "AddColumn" -> here /\ op.x.name \notin DOMAIN table.cols
          [] op.kind \in {"DropColumn", "AlterColumn"} -> here /\ op.x.name \in DOMAIN table.cols
          [] op.kind = "CreateIndex" ->
                here /\ op.x.name \notin DOMAIN table.idx /\ op.x.index \subseteq DOMAIN table.cols
          [] op.kind = "DropIndex" -> here /\ op.x.name \in DOMAIN table.idx
          [] op.kind = "AddForeignKey" ->
                here /\ op.x.name \notin DOMAIN table.fks /\ op.x.key.col \in DOMAIN table.cols
                /\ op.x.key.ref \in DOMAIN db.tables
          [] op.kind = "DropForeignKey" -> here /\ op.x.name \in DOMAIN table.fks

(* A column with a default keeps its type, one with an index may only become *)
(* longer, and one of a key keeps its type and size.                         *)
Alterable(table, c, new) ==
    LET was == table.cols[c]
        resized == Length(new) # Length(was) \/ Scale(new) # Scale(was)
    IN  /\ new.type # was.type => ~Needed(table, c) /\ was.def = None
        /\ resized => ~Keyed(table, c)
        /\ resized /\ Indexed(table, c) =>
              Length(new) >= Length(was) /\ Scale(new) = Scale(was)

Unneeded(db, op) ==
    LET p == <<op.s, op.t>>
        table == db.tables[p]
    IN  CASE op.kind = "DropSchema" ->
                op.s \notin SystemSchemas /\ ~\E q \in DOMAIN db.tables : q[1] = op.s
          [] op.kind = "DropTable" -> ~Referenced(db, p)
          [] op.kind = "DropColumn" ->
                ~Needed(table, op.x.name) /\ table.cols[op.x.name].def = None
          [] op.kind = "AlterColumn" -> Alterable(table, op.x.name, op.x.new)
          [] OTHER -> TRUE

Succeeds(db, op) == Finds(db, op) /\ Unneeded(db, op)

(* A statement that fails on some rows and not on others: a column that can  *)
(* no longer hold what they have, or that they have no value for; a foreign  *)
(* key or a unique index they break.                                         *)
DependsOnRows(db, op) ==
    CASE op.kind = "AlterColumn" ->
            LET was == db.tables[<<op.s, op.t>>].cols[op.x.name]
            IN  \/ op.x.new.type # was.type \/ (was.null /\ ~op.x.new.null)
                \/ Length(op.x.new) < Length(was) \/ Scale(op.x.new) > Scale(was)
      [] op.kind = "AddColumn" ->
            ~op.x.column.null /\ op.x.column.def = None /\ op.x.column.comp = None
      [] OTHER -> op.kind \in {"CreateIndex", "AddForeignKey"}

(* Rows may lose values they had, or digits or characters of them.           *)
Loses(db, op) ==
    CASE op.kind = "DropTable" -> TRUE
      [] op.kind = "DropColumn" -> db.tables[<<op.s, op.t>>].cols[op.x.name].comp = None
      [] op.kind = "AlterColumn" ->
            LET was == db.tables[<<op.s, op.t>>].cols[op.x.name]
            IN  \/ was.type # op.x.new.type
                \/ Length(op.x.new) < Length(was) \/ Scale(op.x.new) < Scale(was)
      [] OTHER -> FALSE

Foreign(table, from, to) ==
    [table EXCEPT !.fks = [f \in DOMAIN table.fks |->
        [table.fks[f] EXCEPT !.ref = As(from, to, table.fks[f].ref)]]]
Renaming(table, a, b) ==
    [cols |-> Moved(table.cols, a, b),
     pk |-> {As(a, b, c) : c \in table.pk},
     idx |-> [i \in DOMAIN table.idx |-> {As(a, b, c) : c \in table.idx[i]}],
     fks |-> [f \in DOMAIN table.fks |->
                [table.fks[f] EXCEPT !.col = As(a, b, table.fks[f].col)]]]

(* The database after a statement that succeeds.                             *)
Apply(db, op) ==
    LET p == <<op.s, op.t>>
        table == db.tables[p]
        put(new) == [db EXCEPT !.tables = With(db.tables, p, new)]
    IN  CASE op.kind = "CreateSchema" -> [db EXCEPT !.schemas = @ \cup {op.s}]
          [] op.kind = "DropSchema" -> [db EXCEPT !.schemas = @ \ {op.s}]
          [] op.kind = "CreateTable" ->
                put([cols |-> PhysicalColumns(op.x.cols), pk |-> KeyOf(op.x.cols),
                     idx |-> <<>>, fks |-> <<>>])
          [] op.kind = "DropTable" -> [db EXCEPT !.tables = Without(@, p)]
          [] op.kind = "RenameTable" ->
                LET from == <<op.s, op.x.from>>
                    moved == Moved(db.tables, from, p)
                IN  [db EXCEPT !.tables = [q \in DOMAIN moved |-> Foreign(moved[q], from, p)]]
          [] op.kind = "RenameColumn" -> put(Renaming(table, op.x.from, op.x.to))
          [] op.kind = "AddColumn" ->
                put([table EXCEPT !.cols = With(@, op.x.name, PhysicalColumn(op.x.column))])
          [] op.kind = "DropColumn" -> put([table EXCEPT !.cols = Without(@, op.x.name)])
          [] op.kind = "AlterColumn" ->
                put([table EXCEPT !.cols[op.x.name] =
                    [@ EXCEPT !.type = op.x.new.type, !.len = op.x.new.len,
                              !.scale = op.x.new.scale, !.null = op.x.new.null]])
          [] op.kind = "CreateIndex" -> put([table EXCEPT !.idx = With(@, op.x.name, op.x.index)])
          [] op.kind = "DropIndex" -> put([table EXCEPT !.idx = Without(@, op.x.name)])
          [] op.kind = "AddForeignKey" -> put([table EXCEPT !.fks = With(@, op.x.name, op.x.key)])
          [] op.kind = "DropForeignKey" -> put([table EXCEPT !.fks = Without(@, op.x.name)])
=============================================================================
