---------------------------- MODULE Relationships ----------------------------
(* What save_changes makes of the changes recorded in navigation wrappers:  *)
(* it collects them as commands (crates/sql-orm/src/context.rs), reconciles *)
(* the commands with the tracker (tracking.rs), executes the plan and then  *)
(* runs its ordinary Added, Modified and Deleted phases (the save_changes   *)
(* that derive(DbContext) generates).                                       *)
(*                                                                          *)
(* A context of two types: principals with a has_many, and dependents whose *)
(* foreign key names a principal and which have the belongs_to.  In some    *)
(* contexts principals have a has_one as well.  Keys are identity columns;  *)
(* the foreign key is an ordinary column, so the generated insert_values    *)
(* and update_changes always hold the entity's own value of it.             *)
(*                                                                          *)
(* An entry is what the registry holds of a live Tracked handle; both move  *)
(* together here, ChangeTracker has the handles apart.  A save is one step: *)
(* it runs in the transaction it opens, rolled back when it fails.          *)
EXTENDS NavigationWrappers, FiniteSetsExt

CONSTANTS
    Null,            \* the SQL value
    Contexts,        \* the contexts to check: [required, lazy, has_one, wired]
    Loaded,          \* principals and dependents the application starts with
    MaxIds, MaxSteps, MaxStatements   \* bounds

VARIABLES
    context,    \* the context at work
    entry,      \* registration id -> registry entry
    nextId,     \* next_registration_id
    db,         \* the keys of the principals, the dependents' foreign keys
    nextKey,    \* the identity counters of the two tables
    answer,     \* what the last step's save_changes answered
    intact,     \* no save has failed after its plan was accepted
    steps

vars == <<context, entry, nextId, db, nextKey, answer, intact, steps>>

Registered == DOMAIN entry
OfType(entries, type) == {i \in DOMAIN entries : entries[i].type = type}

(* A wrapper as an entity materialized from a row holds it.                 *)
FreshNavigation == IF context.lazy THEN UnloadedNavigation ELSE EmptyNavigation
FreshCollection == IF context.lazy THEN UnloadedCollection ELSE EmptyCollection

(* An entity that is not in the table yet has key 0.                        *)
Entity(type, key, fk, state) ==
    [type |-> type, state |-> state, key |-> key, fk |-> fk, orig |-> fk,
     nav |-> FreshNavigation, many |-> FreshCollection]

(* What the application starts with: everything loaded, the dependents of   *)
(* principal 1.  In a wired context the wrappers already show one another:  *)
(* changes made and drained before, and a save that accepted the entities.  *)
LoadedEntry(i) ==
    LET e == IF i <= Loaded.principals THEN Entity("principal", i, Null, "Unchanged")
             ELSE Entity("dependent", i - Loaded.principals, 1, "Unchanged")
    IN  IF ~context.wired THEN e
        ELSE IF i > Loaded.principals
        THEN [e EXCEPT !.nav = Navigation(Related(1, 1))]
        ELSE IF i = 1 THEN [e EXCEPT !.many =
               [EmptyCollection EXCEPT !.values =
                  [k \in 1 .. Loaded.dependents |->
                     Related(Loaded.principals + k, Loaded.principals + k)]]]
        ELSE e

Init ==
    /\ context \in Contexts
    /\ db = [principal |-> 1 .. Loaded.principals,
             dependent |-> [k \in 1 .. Loaded.dependents |-> 1]]
    /\ entry = [i \in 1 .. Loaded.principals + Loaded.dependents |-> LoadedEntry(i)]
    /\ nextId = Loaded.principals + Loaded.dependents + 1
    /\ nextKey = [principal |-> Loaded.principals + 1, dependent |-> Loaded.dependents + 1]
    /\ answer = "none"
    /\ intact = TRUE
    /\ steps = 0

-----------------------------------------------------------------------------
(* What the application does to its entities *)

Step ==
    /\ steps < MaxSteps
    /\ steps' = steps + 1
    /\ answer' = "none"
    /\ UNCHANGED <<context, db, nextKey, intact>>

(* DerefMut for Tracked                                                     *)
Touched(e) == [e EXCEPT !.state = IF @ = "Unchanged" THEN "Modified" ELSE @]
Edit(i, e) == entry' = [entry EXCEPT ![i] = Touched(e)] /\ UNCHANGED nextId

Principals == OfType(entry, "principal")
DependentIds == OfType(entry, "dependent")

AddTracked(type, fk) ==
    /\ Step /\ nextId <= MaxIds
    /\ entry' = [i \in Registered \cup {nextId} |->
                   IF i = nextId THEN Entity(type, 0, fk, "Added") ELSE entry[i]]
    /\ nextId' = nextId + 1

EditForeignKey(d, fk) ==
    /\ Step /\ fk # entry[d].fk /\ Edit(d, [entry[d] EXCEPT !.fk = fk])

Without(entries, i) == [j \in DOMAIN entries \ {i} |-> entries[j]]

(* DbSet::remove_tracked: an Added entity is cancelled.                     *)
RemoveTracked(i) ==
    /\ Step
    /\ entry' = IF entry[i].state = "Added" THEN Without(entry, i)
                ELSE [entry EXCEPT ![i].state = "Deleted"]
    /\ UNCHANGED nextId

(* DbSet::detach_tracked, or an unchanged handle is dropped.                *)
DetachTracked(i) == Step /\ entry' = Without(entry, i) /\ UNCHANGED nextId

(* The wrapper of a dependent's belongs_to, or of a principal's has_one, is *)
(* set to a tracked entity, to an untracked copy of one, or to nothing.     *)
Navigates(i, r) ==
    IF entry[i].type = "dependent" THEN r \in Principals \cup {None}
    ELSE context.has_one /\ r \in DependentIds \cup {None}

SetTracked(i, r) ==
    /\ Step /\ Navigates(i, r)
    /\ Edit(i, [entry[i] EXCEPT !.nav = IF context.lazy THEN LazySetTrackedRelated(@, r, r)
                                        ELSE SetTrackedRelated(@, r, r)])
SetUntracked(i, r) ==
    /\ Step /\ Navigates(i, r)
    /\ Edit(i, [entry[i] EXCEPT !.nav = IF context.lazy THEN LazySetRelated(@, r)
                                        ELSE SetRelated(@, r)])
(* set, set_loaded and clear replace what a wrapper shows.                  *)
ReplaceQuietly(i) ==
    /\ Step /\ entry[i].nav.related # Nothing
    /\ \/ ~context.lazy /\ Edit(i, [entry[i] EXCEPT !.nav = SetNavigation(@, None)])
       \/ context.lazy /\ Edit(i, [entry[i] EXCEPT !.nav = LazySetLoaded(@, None)])
       \/ context.lazy /\ Edit(i, [entry[i] EXCEPT !.nav = LazyClear(@)])
ClearCollection(p) ==
    /\ Step /\ context.lazy /\ entry[p].many.values # <<>>
    /\ Edit(p, [entry[p] EXCEPT !.many = LazyClearCollection(@)])

Push(p, d) ==
    /\ Step
    /\ Edit(p, [entry[p] EXCEPT !.many = IF context.lazy THEN LazyPushTrackedRelated(@, d, d)
                                         ELSE PushTrackedRelated(@, d, d)])
PushUntracked(p, d) ==
    /\ Step
    /\ Edit(p, [entry[p] EXCEPT !.many = IF context.lazy THEN LazyPushRelated(@, d)
                                         ELSE PushRelated(@, d)])
Take(p, k) ==
    /\ Step
    /\ Edit(p, [entry[p] EXCEPT !.many = IF context.lazy THEN LazyRemoveRelatedAt(@, k)
                                         ELSE RemoveRelatedAt(@, k)])

(* The application drains the log itself.                                   *)
Drain(i) ==
    /\ Step /\ entry[i].nav.log \o entry[i].many.log # <<>>
    /\ Edit(i, [entry[i] EXCEPT !.nav = Drained(@), !.many = Drained(@)])

(* explicit_collection_query: the dependents whose foreign key is the key.  *)
CollectionQuery(p) == {k \in DOMAIN db.dependent : db.dependent[k] = entry[p].key}
(* load_collection_tracked: the state is not touched, the wrapper is new.   *)
LoadCollection(p) ==
    /\ Step /\ entry[p].key \in db.principal
    /\ entry' = [entry EXCEPT ![p].many = CollectionOf(SetToSortSeq(CollectionQuery(p), <))]
    /\ UNCHANGED nextId

-----------------------------------------------------------------------------
(* relationship_commands_from_batch *)

AttachCommand(p, d, value) ==
    [kind |-> "attach", from |-> None, principal |-> p, dependent |-> d, value |-> value]
MoveCommand(from, p, d, value) ==
    [kind |-> "move", from |-> from, principal |-> p, dependent |-> d, value |-> value]
RemoveCommand(p, d) ==
    [kind |-> "remove", from |-> None, principal |-> p, dependent |-> d, value |-> Null]

(* A change of a has_many, collected from its principal.                    *)
ListCommand(p, change) ==
    IF change.kind = "added" THEN AttachCommand(p, change.current.identity, entry[p].key)
    ELSE RemoveCommand(p, change.current.identity)

(* append_navigation_set_commands, collected from the dependent: what it    *)
(* was related to and what it is related to now, as far as it is tracked.   *)
SetCommands(d, change) ==
    LET from == change.previous.identity
        to == change.current.identity
        key == IF to \in Principals THEN entry[to].key ELSE Null
    IN  IF to # None
        THEN <<IF from # None THEN MoveCommand(from, to, d, key) ELSE AttachCommand(to, d, key)>>
        ELSE IF from # None THEN <<RemoveCommand(from, d)>> ELSE <<>>

Logged(type) == SetToSortSeq(OfType(entry, type), <)
MapSeq(seq, Op(_)) == [k \in DOMAIN seq |-> Op(seq[k])]

(* collect_has_many_relationship_commands and then                          *)
(* collect_dependent_relationship_commands, each in registration order      *)
Commands ==
    LET OfPrincipal(p) == MapSeq(entry[p].many.log, LAMBDA c : ListCommand(p, c))
        OfDependent(d) == FlattenSeq(MapSeq(entry[d].nav.log, LAMBDA c : SetCommands(d, c)))
    IN  FlattenSeq(MapSeq(Logged("principal"), OfPrincipal))
        \o FlattenSeq(MapSeq(Logged("dependent"), OfDependent))

(* dependent_relationship_column looks for the foreign key on the entity    *)
(* that holds the navigation: a has_one of the principal has none there.    *)
ColumnMissing(i) == entry[i].nav.log # <<>> /\ entry[i].type = "principal"
(* A collection is refused: the principal of a changed has_many has no key  *)
(* yet, a change of a has_many names no tracked entity, a dependent's new   *)
(* principal has left the tracker, or a has_one changed.                    *)
CollectionRefused ==
    \/ \E p \in Principals :
         \/ entry[p].many.log # <<>> /\ entry[p].state = "Added"
         \/ \E c \in Range(entry[p].many.log) : c.current.identity = None
         \/ ColumnMissing(p)
    \/ \E d \in DependentIds : \E c \in Range(entry[d].nav.log) :
         c.current.identity \notin Principals \cup {None}

-----------------------------------------------------------------------------
(* reconcile_relationship_commands *)

(* The accumulator: the entries as marked so far, the plan (an operation    *)
(* for each dependent), and whether a command was refused.                  *)
Draft == [entry |-> entry, plan |-> [d \in {} |-> None], refused |-> FALSE]
Refuse(draft) == [draft EXCEPT !.refused = TRUE]

(* Mutant: the last value assigned to a foreign key wins.                   *)
PushOrReplace(draft, d, op) ==
    [draft EXCEPT !.plan =
        [x \in DOMAIN draft.plan \cup {d} |-> IF x = d THEN op ELSE draft.plan[x]]]

(* RelationshipReconciliationPlan::push_or_merge                            *)
PushOrMerge(draft, d, op) ==
    IF d \in DOMAIN draft.plan
    THEN IF draft.plan[d] = op THEN draft ELSE Refuse(draft)
    ELSE [draft EXCEPT !.plan =
            [x \in DOMAIN draft.plan \cup {d} |-> IF x = d THEN op ELSE draft.plan[x]]]

(* Mutant: the entry is marked before its state is looked at.               *)
AssignMarksFirst(draft, d, value) ==
    PushOrMerge([draft EXCEPT !.entry[d].state = "Modified"], d,
                [kind |-> "update", value |-> value])

(* A foreign key is assigned: an insert for an Added dependent, otherwise   *)
(* an update, for which the entry is marked Modified.                       *)
Assign(draft, d, value) ==
    IF draft.entry[d].state = "Added"
    THEN PushOrMerge(draft, d, [kind |-> "insert", value |-> value])
    ELSE PushOrMerge([draft EXCEPT !.entry[d].state = "Modified"], d,
                     [kind |-> "update", value |-> value])

ReconcileRemoval(draft, c) ==
    LET state == draft.entry[c.dependent].state
    IN  IF c.principal \notin Registered THEN Refuse(draft)
        ELSE IF state = "Deleted"
             THEN PushOrMerge(draft, c.dependent, [kind |-> "delete", value |-> Null])
        ELSE IF context.required THEN Refuse(draft)
             ELSE Assign(draft, c.dependent, c.value)

(* Attaching asks for an Added dependent, moving for one not Deleted.       *)
ReconcileAttach(draft, c) ==
    IF /\ c.principal \in Registered /\ c.from \in Registered \cup {None}
       /\ draft.entry[c.principal].state # "Deleted"
       /\ draft.entry[c.dependent].state \in
            (IF c.kind = "attach" THEN {"Added"} ELSE {"Added", "Unchanged", "Modified"})
    THEN Assign(draft, c.dependent, c.value)
    ELSE Refuse(draft)

Reconcile(draft, c) ==
    IF draft.refused THEN draft
    ELSE IF c.dependent \notin Registered THEN Refuse(draft)
    ELSE IF c.kind = "remove" THEN ReconcileRemoval(draft, c) ELSE ReconcileAttach(draft, c)

-----------------------------------------------------------------------------
(* The statements of a save.  A run holds what the save has done so far and *)
(* how many statements are left before one fails.                           *)

Continue(run) == run.answer = "ok"
Stop(run, why) == [run EXCEPT !.answer = why]
Statement(run, fits, changed) ==
    IF fits /\ run.left > 0 THEN [run EXCEPT !.db = changed, !.left = @ - 1]
    ELSE Stop(run, "failed")

(* The server's foreign key and NOT NULL.                                   *)
Fits(run, fk) == IF fk = Null THEN ~context.required ELSE fk \in run.db.principal

(* Mutant: only the state is synchronized.                                  *)
SyncedState(run, i, key, fk) ==
    IF Continue(run) THEN [run EXCEPT !.entry[i].state = "Unchanged"] ELSE run

(* sync_persisted: the entity the row holds, its wrappers as if just read.  *)
Synced(run, i, key, fk) ==
    IF Continue(run)
    THEN [run EXCEPT !.entry[i] = Entity(run.entry[i].type, key, fk, "Unchanged")] ELSE run

Insert(run, i, fk) ==
    LET type == run.entry[i].type
        key == run.nextKey[type]
        done == IF type = "principal"
                THEN Statement(run, TRUE, [run.db EXCEPT !.principal = @ \cup {key}])
                ELSE Statement(run, Fits(run, fk), [run.db EXCEPT !.dependent =
                       [k \in DOMAIN @ \cup {key} |-> IF k = key THEN fk ELSE @[k]]])
    IN  Synced([done EXCEPT !.nextKey[type] = @ + 1], i, key, fk)

Update(run, i, fk) ==
    LET key == run.entry[i].key
    IN  IF key \notin DOMAIN run.db.dependent THEN Stop(run, "failed")
        ELSE Synced(Statement(run, Fits(run, fk), [run.db EXCEPT !.dependent[key] = fk]), i, key, fk)

(* The row goes, and with it the entry.  No row is a concurrency error.     *)
Delete(run, i) ==
    LET e == run.entry[i]
        done == IF e.type = "principal"
                THEN Statement(run, /\ e.key \in run.db.principal
                                    /\ \A k \in DOMAIN run.db.dependent :
                                         run.db.dependent[k] # e.key,
                               [run.db EXCEPT !.principal = @ \ {e.key}])
                ELSE Statement(run, e.key \in DOMAIN run.db.dependent,
                               [run.db EXCEPT !.dependent =
                                  [k \in DOMAIN @ \ {e.key} |-> @[k]]])
    IN  IF Continue(done) THEN [done EXCEPT !.entry = Without(@, i)] ELSE done

(* merge_relationship_values: the entity's own value and the planned one    *)
(* must be the same; None is a refusal.                                     *)
MergeRelationshipValues(own, planned) == IF own = planned THEN own ELSE None

(* save_reconciled_relationship_operations for one dependent                *)
Execute(run, d, op) ==
    LET fk == MergeRelationshipValues(run.entry[d].fk, op.value)
    IN  IF ~Continue(run) THEN run
        ELSE IF op.kind = "delete" THEN Delete(run, d)
        ELSE IF fk = None THEN Stop(run, "conflict")
        ELSE IF op.kind = "insert" THEN Insert(run, d, fk)
        ELSE Update(run, d, fk)

ExecutePlan(run, plan) ==
    FoldLeft(LAMBDA r, d : Execute(r, d, plan[d]), run, SetToSortSeq(DOMAIN plan, <))

(* clear_tracked_relationship_changes                                       *)
Cleared(run) ==
    IF Continue(run)
    THEN [run EXCEPT !.entry = [i \in DOMAIN @ |->
            [@[i] EXCEPT !.nav = Drained(@), !.many = Drained(@)]]]
    ELSE run

-----------------------------------------------------------------------------
(* The ordinary phases, in the order of the context's types and back *)

Visit(run, type, state, Do(_, _)) ==
    FoldLeft(LAMBDA r, i : IF Continue(r) THEN Do(r, i) ELSE r, run,
             SetToSortSeq({i \in OfType(run.entry, type) : run.entry[i].state = state}, <))
InOrder(run, state, Do(_, _)) ==
    Visit(Visit(run, "principal", state, Do), "dependent", state, Do)

SaveAdded(run) == InOrder(run, "Added", LAMBDA r, i : Insert(r, i, r.entry[i].fk))

(* An entity whose columns did not change is accepted without a statement.  *)
SaveModifiedEntry(run, i) ==
    LET e == run.entry[i]
    IN  IF e.fk = e.orig THEN [run EXCEPT !.entry[i].state = "Unchanged"]
        ELSE Update(run, i, e.fk)
SaveModified(run) == InOrder(run, "Modified", SaveModifiedEntry)

SaveDeleted(run) ==
    Visit(Visit(run, "dependent", "Deleted", Delete), "principal", "Deleted", Delete)

(* The generated save_changes, its statements failing after the first       *)
(* `left`.  Whatever refuses or fails, the tracker keeps what was done.     *)
SaveChanges(left) ==
    LET draft == FoldLeft(Reconcile, Draft, Commands)
        start == [entry |-> draft.entry, db |-> db, nextKey |-> nextKey,
                  left |-> left, answer |-> "ok"]
        done == SaveDeleted(SaveModified(SaveAdded(Cleared(ExecutePlan(start, draft.plan)))))
    IN  /\ steps < MaxSteps /\ steps' = steps + 1
        /\ IF CollectionRefused
           THEN answer' = "refused" /\ UNCHANGED <<entry, db, nextKey, intact>>
           ELSE IF draft.refused
           THEN /\ answer' = "refused" /\ entry' = draft.entry
                /\ UNCHANGED <<db, nextKey, intact>>
           ELSE /\ answer' = done.answer
                /\ entry' = done.entry
                /\ nextKey' = done.nextKey
                /\ db' = IF Continue(done) THEN done.db ELSE db
                /\ intact' = (intact /\ Continue(done))
        /\ UNCHANGED <<context, nextId>>

(* What a field of the foreign key's type may hold.                         *)
ForeignKeys == db.principal \cup (IF context.required THEN {} ELSE {Null})

Next ==
    \/ \E fk \in ForeignKeys \cup {0} : AddTracked("dependent", fk)
    \/ AddTracked("principal", Null)
    \/ \E d \in DependentIds, fk \in ForeignKeys : EditForeignKey(d, fk)
    \/ \E i \in Registered : RemoveTracked(i) \/ DetachTracked(i)
    \/ \E i \in Registered, r \in Registered \cup {None} : SetTracked(i, r) \/ SetUntracked(i, r)
    \/ \E i \in Registered : ReplaceQuietly(i) \/ Drain(i)
    \/ \E p \in Principals, d \in DependentIds : Push(p, d) \/ PushUntracked(p, d)
    \/ \E p \in Principals : \E k \in DOMAIN entry[p].many.values : Take(p, k)
    \/ \E p \in Principals : LoadCollection(p) \/ ClearCollection(p)
    \/ \E left \in 0 .. MaxStatements : SaveChanges(left)

Spec == Init /\ [][Next]_vars

-----------------------------------------------------------------------------
(* Properties *)

(* An entry's relation to the database.                                     *)
RowOf(e) == IF e.type = "principal" THEN e.key \in db.principal
            ELSE e.key \in DOMAIN db.dependent /\ db.dependent[e.key] = e.orig

(* Entries are well formed, and as long as no accepted save has failed, the *)
(* original of every entity that is not new is the row the table holds: the *)
(* plan and the three phases leave the tracker at what they wrote           *)
(* (RegisteredTracked::sync_persisted).  After a rollback it is not so.     *)
TrackerFollows ==
    /\ \A i \in Registered :
        /\ i < nextId
        /\ entry[i].type \in {"principal", "dependent"}
        /\ entry[i].state \in {"Added", "Unchanged", "Modified", "Deleted"}
        /\ \A c \in Range(entry[i].many.log) : c.kind \in {"added", "removed"}
        /\ ~entry[i].nav.loaded => entry[i].nav.related = Nothing
        /\ ~entry[i].many.loaded => entry[i].many.values = <<>>
    /\ answer \in {"none", "ok", "refused", "conflict", "failed"}
    /\ intact => \A i \in Registered : entry[i].state # "Added" => RowOf(entry[i])

(* What the recorded changes ask of a dependent: the principal it is to     *)
(* belong to, or None, as far as the change names a tracked entity.  (What  *)
(* set_related assigns is not tracked: the code reads the change as a       *)
(* removal of the tracked entity that was there before, if any.)            *)
Asked ==
    UNION {{<<c.current.identity, IF c.kind = "added" THEN p ELSE None>> :
              c \in Range(entry[p].many.log)} : p \in Principals}
    \cup UNION {{<<d, c.current.identity>> :
              c \in {x \in Range(entry[d].nav.log) :
                       x.current.identity # None \/ x.previous.identity # None}}
              : d \in DependentIds}

(* A save that answers Ok has carried out every recorded change: the row of *)
(* each dependent names the principal it was given to, or none, or is gone  *)
(* when the dependent was deleted; and no change is left to repeat.  Two    *)
(* changes that ask different things of one dependent never both pass.      *)
(* Nothing else moves: the foreign key of a row is only ever set to the one *)
(* its own entity holds, and a row only goes when its entity was deleted.   *)
RelationshipsSaved ==
    [][ /\ answer' = "ok" =>
            /\ \A ask \in Asked :
                 LET d == ask[1]  p == ask[2]
                 IN  IF entry[d].state = "Deleted"
                     THEN d \notin DOMAIN entry' /\ entry[d].key \notin DOMAIN db'.dependent
                     ELSE db'.dependent[entry'[d].key] = (IF p = None THEN Null ELSE entry'[p].key)
            /\ \A i \in DOMAIN entry' : entry'[i].state = "Unchanged"
                 /\ entry'[i].nav.log = <<>> /\ entry'[i].many.log = <<>>
        /\ \A k \in DOMAIN db.dependent :
             IF k \in DOMAIN db'.dependent
             THEN db'.dependent[k] = db.dependent[k]
                  \/ \E d \in DependentIds :
                       entry[d].key = k /\ entry[d].fk = db'.dependent[k]
             ELSE \E d \in DependentIds : entry[d].key = k /\ entry[d].state = "Deleted"
      ]_vars

(* A save that is refused before its first statement writes nothing, keeps  *)
(* every recorded change for the next attempt, and marks as Modified only   *)
(* dependents that a change names; one that fails later never leaves        *)
(* anything in the tables.                                                  *)
RefusedKeepsChanges ==
    [][ /\ answer' \in {"refused", "conflict", "failed"} => db' = db
        /\ answer' = "refused" =>
            /\ DOMAIN entry' = Registered /\ nextKey' = nextKey
            /\ \A i \in Registered :
                 \/ entry'[i] = entry[i]
                 \/ /\ \E p \in Principals \cup {None} : <<i, p>> \in Asked
                    /\ entry[i].state = "Unchanged"
                    /\ entry'[i] = [entry[i] EXCEPT !.state = "Modified"]
      ]_vars
=============================================================================
