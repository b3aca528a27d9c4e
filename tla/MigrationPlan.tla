---------------------------- MODULE MigrationPlan ----------------------------
(* The life of one migration: `migration add` plans it from two snapshots,   *)
(* `database update` runs up.sql on a database that stands where the         *)
(* previous snapshot says, `database downgrade` runs down.sql.  A script is  *)
(* one transaction: a statement that fails takes back the ones before it.    *)
EXTENDS Ddl

CONSTANT Pairs          \* the previous and current snapshots considered

VARIABLES
    prev, cur,      \* the two snapshots
    allow,          \* --allow-destructive
    again,          \* this is the second migration of the same model
    phase,          \* where the migration stands
    todo,           \* the statements of the script still to run
    before,         \* the database when the script's transaction began
    db,             \* the database
    lost            \* the statements of up.sql that lost values

vars == <<prev, cur, allow, again, phase, todo, before, db, lost>>

(* A failed script ends "missing" when a statement named an object that is   *)
(* not there or is there already, "needed" when it touched one that another  *)
(* object depends on, "rows" when the rows of a table were in its way.       *)
Failures == [up |-> {"missing", "needed", "rows"},
             down |-> {"downMissing", "downNeeded", "downRows"}]
Phases == {"planning", "refused", "up", "applied", "down", "reverted"}
          \cup UNION {Failures[p] : p \in DOMAIN Failures}

Plan == Diff(prev, cur)

Init ==
    /\ \E pair \in Pairs : prev = pair[1] /\ cur = pair[2]
    /\ allow \in BOOLEAN /\ again = FALSE
    /\ phase = "planning"
    /\ todo = <<>>
    /\ db = Deployed(prev) /\ before = db
    /\ lost = {}

(* The plan and its reversal must compile; losses must have been allowed.    *)
Accepted ==
    /\ PlanCompiles(Plan)
    /\ PlanReversible(Plan) => PlanCompiles(Reversal(Plan))
    /\ IsDestructive(Plan) => allow

MigrationAdd ==
    /\ phase = "planning"
    /\ IF Accepted THEN phase' = "up" /\ todo' = Plan
                   ELSE phase' = "refused" /\ todo' = <<>>
    /\ UNCHANGED <<prev, cur, allow, again, before, db, lost>>

(* A statement of up.sql or down.sql.                                        *)
Execute ==
    /\ phase \in {"up", "down"} /\ todo # <<>>
    /\ Succeeds(db, Head(todo))
    /\ db' = Apply(db, Head(todo))
    /\ lost' = lost \cup {op \in {Head(todo)} : phase = "up" /\ Loses(db, op)}
    /\ todo' = Tail(todo)
    /\ UNCHANGED <<prev, cur, allow, again, phase, before>>

EndsAs(up, down) ==
    /\ phase' = IF phase = "up" THEN up ELSE down
    /\ db' = before /\ lost' = {}
    /\ todo' = <<>>
    /\ UNCHANGED <<prev, cur, allow, again, before>>
Fails ==
    /\ phase \in {"up", "down"} /\ todo # <<>>
    /\ \/ ~Finds(db, Head(todo)) /\ EndsAs("missing", "downMissing")
       \/ /\ Finds(db, Head(todo)) /\ ~Unneeded(db, Head(todo))
          /\ EndsAs("needed", "downNeeded")
       \/ /\ Succeeds(db, Head(todo)) /\ DependsOnRows(db, Head(todo))
          /\ EndsAs("rows", "downRows")

Commit ==
    /\ phase \in {"up", "down"} /\ todo = <<>>
    /\ phase' = IF phase = "up" THEN "applied" ELSE "reverted"
    /\ UNCHANGED <<prev, cur, allow, again, todo, before, db, lost>>

(* An unresolved or empty down.sql is refused.                               *)
Downgrade ==
    /\ phase = "applied" /\ ~again
    /\ PlanReversible(Plan) /\ Plan # <<>>
    /\ phase' = "down"
    /\ todo' = Reversal(Plan)
    /\ before' = db
    /\ UNCHANGED <<prev, cur, allow, again, db, lost>>

(* The model, with its rename hints or without them, is migrated once more:  *)
(* the snapshot of the migration just applied is now the previous one.       *)
Unhinted(model) ==
    [s \in DOMAIN model |-> [t \in DOMAIN model[s] |->
        [model[s][t] EXCEPT !.from = None,
                            !.cols = [c \in DOMAIN @ |-> [@[c] EXCEPT !.from = None]]]]]
AddAgain ==
    /\ phase = "applied" /\ ~again
    /\ again' = TRUE
    /\ prev' = cur /\ cur' \in {cur, Unhinted(cur)}
    /\ phase' = "planning"
    /\ before' = db /\ lost' = {}
    /\ UNCHANGED <<allow, todo, db>>

Next == MigrationAdd \/ Execute \/ Fails \/ Commit \/ Downgrade \/ AddAgain

Spec == Init /\ [][Next]_vars

-----------------------------------------------------------------------------
TypeOK ==
    /\ phase \in Phases
    /\ allow \in BOOLEAN /\ again \in BOOLEAN
    /\ lost # {} => phase \notin UNION Range(Failures)
    /\ phase \notin {"up", "down"} => todo = <<>>
    /\ phase \in {"up", "down"} => PlanCompiles(todo)

(* A rename hint is spent when it names an object of the previous snapshot   *)
(* that this plan does not rename: it was renamed by another, or kept.       *)
HintsAreFresh ==
    \A s \in DOMAIN prev \cap DOMAIN cur :
        /\ \A t \in DOMAIN cur[s] \ DOMAIN prev[s] :
              cur[s][t].from \in DOMAIN prev[s] => t \in Matched(prev[s], cur[s])
        /\ \A t \in Matched(prev[s], cur[s]) :
              LET old == prev[s][OldName(prev[s], cur[s], t)].cols
              IN  \A c \in DOMAIN old : c \in DOMAIN cur[s][t].cols =>
                      ~ColumnHint(old, cur[s][t].cols, c)

(* diff.rs plans tables, columns and constraints in separate passes.  Run in *)
(* that order on the database of the previous snapshot, no statement names   *)
(* an object that a pass has not made yet, has renamed, or has removed.      *)
PlanFindsObjects == HintsAreFresh /\ ~again => phase # "missing"

(* docs/migrations.md: the diff supports tables, columns, indexes, foreign   *)
(* keys and explicit renames.  A plan that runs to its end leaves the        *)
(* database of the current snapshot, whatever was renamed, replaced or       *)
(* dropped together.                                                         *)
PlanReachesModel == HintsAreFresh /\ ~again /\ phase = "applied" => db = Deployed(cur)

(* docs/migrations.md: down.sql is generated only when the full plan can be  *)
(* reversed.  The reversal finds every object where the plan left it, and    *)
(* ends where the plan began.                                                *)
DownRestores ==
    HintsAreFresh /\ ~again =>
        /\ phase # "downMissing"
        /\ phase = "reverted" => db = Deployed(prev)

(* docs/migrations.md: migration add blocks destructive plans.  No script    *)
(* that was not allowed to loses values, but in two places that the check of *)
(* main.rs does not look at: a length that was or is left to the compiler's  *)
(* default, and the scale of a decimal, whose values are then rounded.       *)
Unchecked(op) ==
    /\ op.kind = "AlterColumn"
    /\ op.x.old.type = op.x.new.type
    /\ None \in {op.x.old.len, op.x.new.len}
LossesAreFlagged == allow \/ \A op \in lost : Unchecked(op)

(* docs/migrations.md: the example's second migration is a no-op.  Migrating *)
(* to the same model again, with the hints of the last rename still there or *)
(* removed, does not change the database, and no statement of it fails.  It  *)
(* is refused in one case: the diff forgets the rename hint of the current   *)
(* side only, so it alters a column that was renamed once more, and an ALTER *)
(* COLUMN of a computed column does not compile.                             *)
HintedComputed ==
    \E s \in DOMAIN prev : \E t \in DOMAIN prev[s] :
        \E column \in Range(prev[s][t].cols) : column.comp # None /\ column.from # None
RepeatKeepsDatabase ==
    again =>
        /\ db = before /\ lost = {}
        /\ phase \notin Failures.up
        /\ phase # "planning" => (phase = "refused" <=> HintedComputed)

(* A script that the dependencies of an object stop removes, retypes or      *)
(* resizes something that another object of the previous database holds on   *)
(* to, or removes the schema dbo; the order of the passes leaves no other    *)
(* way to fail on one.                                                       *)
HeldTable(s, t) ==
    /\ s \notin DOMAIN cur \/ ~\E u \in Matched(prev[s], cur[s]) : OldName(prev[s], cur[s], u) = t
    /\ Referenced(Deployed(prev), <<s, t>>)
(* What column c may have become.                                            *)
Heirs(new, c) ==
    {new[d] : d \in {e \in DOMAIN new : e = c \/ (c \notin DOMAIN new /\ new[e].from = c)}}
Retyped(old, new, c) ==
    \A heir \in Heirs(new, c) : <<heir.type, heir.comp>> # <<old[c].type, old[c].comp>>
Narrowed(old, new, c) ==
    \A heir \in Heirs(new, c) :
        Length(heir) < Length(old[c]) \/ Scale(heir) # Scale(old[c])
Resized(old, new, c) ==
    \A heir \in Heirs(new, c) :
        <<Length(heir), Scale(heir)>> # <<Length(old[c]), Scale(old[c])>>
HeldColumn(s, u) ==
    LET t == OldName(prev[s], cur[s], u)
        old == Deployed(prev).tables[<<s, t>>]
        new == cur[s][u].cols
    IN  \E c \in DOMAIN old.cols :
            \/ (Needed(old, c) \/ old.cols[c].def # None) /\ Retyped(old.cols, new, c)
            \/ Indexed(old, c) /\ Narrowed(old.cols, new, c)
            \/ Keyed(old, c) /\ Resized(old.cols, new, c)
FailureHasHolder ==
    HintsAreFresh /\ ~again /\ phase = "needed" =>
        \/ SystemSchemas \cap (DOMAIN prev \ DOMAIN cur) # {}
        \/ \E s \in DOMAIN prev : \E t \in DOMAIN prev[s] : HeldTable(s, t)
        \/ \E s \in DOMAIN prev \cap DOMAIN cur :
               \E u \in Matched(prev[s], cur[s]) : HeldColumn(s, u)
(* The passes of a plan work together: every statement finds its objects,    *)
(* and what still stops one is an object that something else holds.          *)
PlanRuns == TypeOK /\ PlanFindsObjects /\ FailureHasHolder

(* Where plans lead: to the model, and nowhere when they are planned again.  *)
PlanLeads == PlanReachesModel /\ RepeatKeepsDatabase
=============================================================================
