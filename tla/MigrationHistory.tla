-------------------------- MODULE MigrationHistory --------------------------
(* The migrations directory, written file by file by `migration add`, and    *)
(* the database that `database update` and `database downgrade` scripts work *)
(* on: filesystem.rs of crates/sql-orm-migrate and the commands of           *)
(* crates/sql-orm-cli/src/main.rs.                                           *)
(*                                                                           *)
(* A model is a set of objects, a statement creates or drops one.  A script  *)
(* is [edition, body]; the edition tells texts with equal statements apart,  *)
(* so that the script itself stands for its checksum.                        *)
EXTENDS Naturals, Sequences, FiniteSets, SequencesExt, FiniteSetsExt

CONSTANTS
    Missing,        \* a file that is not there
    Clients,        \* processes that run database scripts
    Downgraders,    \* those of them that may run a downgrade
    Objects,        \* what a model may contain, numbered
    MaxId,          \* ids of migrations are 1..MaxId, in the order of time
    FirstIds,       \* the ids that a project's first migration may have
    FirstModels,    \* and the models it may create
    Models,         \* the models the application may grow into
    MaxChanges,     \* bound on the developer's steps
    MaxScripts,     \* bound on the scripts started
    Faults          \* kinds of faults: "crash", "statement", "edit", "branch"

Ids == 1..MaxId
(* CREATE or DROP of one object; a body is the statements of a script.       *)
Statements == [create : BOOLEAN, object : Objects]
Bodies == Seq(Statements)
Scripts == [edition : Nat, body : Bodies]

ASSUME ClientsAssumption == Downgraders \subseteq Clients
ASSUME FaultsAssumption == Faults \subseteq {"crash", "statement", "edit", "branch"}
ASSUME IdsAssumption == MaxId \in Nat /\ FirstIds \subseteq Ids
ASSUME ModelsAssumption ==
    /\ Objects \subseteq Nat /\ IsFiniteSet(Objects)
    /\ FirstModels \subseteq SUBSET Objects /\ Models \subseteq SUBSET Objects
ASSUME MissingAssumption ==
    Missing \notin Scripts /\ Missing \notin Bodies /\ \A model \in SUBSET Objects : model # Missing

VARIABLES
    files,          \* the directories under migrations/, by id
    used,           \* ids given out so far
    add,            \* the migration add that is running
    objects,        \* the database, what open transactions did included
    history,        \* __sql_orm_migrations: id to checksum, committed rows
    client,         \* each client's script and where it stands
    ran,            \* the scripts that took effect, in the order they committed
    lost,           \* a migration's snapshot tells of more than its scripts
    changes, scripts    \* the bounds' counters

developer == <<files, used, add, lost, changes>>
database == <<objects, history, ran>>
vars == <<files, used, add, objects, history, client, ran, lost, changes,
          scripts>>

Template == [edition |-> 0, body |-> <<>>]
Create(o) == [create |-> TRUE, object |-> o]
Drop(o) == [create |-> FALSE, object |-> o]
NoAdd == [at |-> "idle"]
Idle == [at |-> "idle", mixed |-> FALSE, touched |-> {}]

-----------------------------------------------------------------------------
(* migration add.                                                            *)

Latest == Max(DOMAIN files)
(* read_latest_model_snapshot; without a migration the previous model is     *)
(* empty.                                                                    *)
Previous == IF DOMAIN files = {} THEN {} ELSE files[Latest].snapshot

(* A set of numbers in increasing order.                                     *)
Sorted(S) ==
    CHOOSE s \in [1..Cardinality(S) -> S] :
        \A i, j \in 1..Cardinality(S) : i < j => s[i] < s[j]
(* What the diff of two models amounts to here: additions, then drops.       *)
UpBody(old, new) ==
    LET added == Sorted(new \ old)
        gone == Sorted(old \ new)
    IN  [i \in DOMAIN added |-> Create(added[i])] \o [i \in DOMAIN gone |-> Drop(gone[i])]
(* A drop cannot be reversed: the template stays.                            *)
DownBody(body) ==
    IF \A i \in DOMAIN body : body[i].create
    THEN [i \in DOMAIN body |-> Drop(body[Len(body) + 1 - i].object)]
    ELSE <<>>
(* What a developer writes by hand.                                          *)
HandWritten(body) ==
    [i \in DOMAIN body |-> LET s == body[Len(body) + 1 - i]
                           IN  IF s.create THEN Drop(s.object) ELSE Create(s.object)]

(* A new project, or one whose first migration is complete.                  *)
FirstMigration(new) ==
    [up |-> [edition |-> 1, body |-> UpBody({}, new)], down |-> DownBody(UpBody({}, new)),
     snapshot |-> new]
Projects ==
    {<<>>} \cup {[j \in {id} |-> FirstMigration(new)] : id \in FirstIds, new \in FirstModels}

Init ==
    /\ files \in Projects /\ used = DOMAIN files /\ add = NoAdd
    /\ objects = {} /\ history = <<>>
    /\ client = [c \in Clients |-> Idle]
    /\ ran = <<>> /\ lost = FALSE
    /\ changes = 0 /\ scripts = 0

(* A bound: the developer works while no script runs.  A script reads its    *)
(* files before its first statement, so that what happens to them meanwhile  *)
(* might as well happen before or after.                                     *)
Quiet == \A c \in Clients : client[c].at = "idle"
Change == Quiet /\ changes < MaxChanges /\ changes' = changes + 1

(* The model is whatever the application's code has become; the plan is made *)
(* from the files as they are now.  Without a model the snapshot written is  *)
(* the empty one and the templates are left to be edited.                    *)
AddStarts ==
    /\ Change
    /\ add.at = "idle"
    /\ \E id \in Ids, planned \in BOOLEAN, model \in Models :
         /\ \A j \in used : j < id
         /\ IF planned THEN Previous # Missing ELSE model = {}
         /\ add' = [at |-> "directory", id |-> id, planned |-> planned,
                    snapshot |-> model,
                    body |-> IF planned THEN UpBody(Previous, model) ELSE <<>>]
         /\ used' = used \cup {id}
         /\ lost' = (lost \/ ~planned)
    /\ UNCHANGED <<files, client, scripts, database>>

(* create_migration_scaffold_with_snapshot, then write_migration_up_sql and  *)
(* write_migration_down_sql: one file after the other.                       *)
WriteFile(id, file, content) == [files EXCEPT ![id][file] = content]
AddDirectory ==
    /\ add.at = "directory"
    /\ files' = [j \in DOMAIN files \cup {add.id} |->
                    IF j = add.id THEN [up |-> Missing, down |-> Missing, snapshot |-> Missing]
                    ELSE files[j]]
    /\ add' = [add EXCEPT !.at = "up template"]
AddUpTemplate ==
    /\ add.at = "up template"
    /\ files' = WriteFile(add.id, "up", Template)
    /\ add' = [add EXCEPT !.at = "down template"]
AddDownTemplate ==
    /\ add.at = "down template"
    /\ files' = WriteFile(add.id, "down", <<>>)
    /\ add' = [add EXCEPT !.at = "snapshot"]
AddSnapshot ==
    /\ add.at = "snapshot"
    /\ files' = WriteFile(add.id, "snapshot", add.snapshot)
    /\ add' = IF add.planned THEN [add EXCEPT !.at = "up"] ELSE NoAdd
AddUp ==
    /\ add.at = "up"
    /\ files' = WriteFile(add.id, "up", [edition |-> 1, body |-> add.body])
    /\ add' = [add EXCEPT !.at = "down"]
AddDown ==
    /\ add.at = "down"
    /\ files' = WriteFile(add.id, "down", DownBody(add.body))
    /\ add' = NoAdd

AddStep ==
    /\ Quiet
    /\ AddDirectory \/ AddUpTemplate \/ AddDownTemplate \/ AddSnapshot \/ AddUp \/ AddDown
    /\ UNCHANGED <<used, lost, changes, client, scripts, database>>

(* Between the snapshot and up.sql a crash loses the plan: the next diff     *)
(* starts from a snapshot no script leads to.                                *)
AddCrashes ==
    /\ "crash" \in Faults /\ Quiet /\ add.at # "idle"
    /\ add' = NoAdd
    /\ lost' = (lost \/ add.at = "up")
    /\ UNCHANGED <<files, used, changes, client, scripts, database>>

(* The developer edits a script, or writes the rollback that was left to do. *)
EditUp(id) ==
    /\ "edit" \in Faults /\ Change
    /\ files[id].up # Missing
    /\ files' = WriteFile(id, "up", [files[id].up EXCEPT !.edition = @ + 1])
    /\ UNCHANGED <<used, add, lost, client, scripts, database>>
WriteDown(id) ==
    /\ Change
    /\ files[id].up # Missing /\ files[id].down = <<>>
    /\ files' = WriteFile(id, "down", HandWritten(files[id].up.body))
    /\ UNCHANGED <<used, add, lost, client, scripts, database>>
(* A migration made on another branch, with its earlier id, is merged.       *)
Merge ==
    /\ "branch" \in Faults /\ Change
    /\ DOMAIN files # {}
    /\ \E id \in Ids \ used, o \in Objects :
         LET base == {j \in DOMAIN files : j < id}
             old == IF base = {} THEN {} ELSE files[Max(base)].snapshot
         IN  /\ id < Latest /\ used' = used \cup {id}
             /\ old # Missing /\ o \notin old
             /\ files' = [j \in DOMAIN files \cup {id} |->
                            IF j # id THEN files[j]
                            ELSE [up |-> [edition |-> 1, body |-> <<Create(o)>>],
                                  down |-> <<Drop(o)>>, snapshot |-> old \cup {o}]]
    /\ lost' = TRUE
    /\ UNCHANGED <<add, client, scripts, database>>
(* A directory is deleted by hand.                                           *)
Delete(id) ==
    /\ "edit" \in Faults /\ Change
    /\ add.at = "idle"
    /\ files' = [j \in DOMAIN files \ {id} |-> files[j]]
    /\ lost' = (lost \/ id # Latest)
    /\ UNCHANGED <<used, add, client, scripts, database>>

-----------------------------------------------------------------------------
(* The scripts.  A block is one migration's part of a script.                *)

Block(id, body) == [id |-> id, sum |-> files[id].up, body |-> body]
UpBlocks == LET ids == Sorted(DOMAIN files)
            IN  [i \in DOMAIN ids |-> Block(ids[i], files[ids[i]].up.body)]
Above(target) == {j \in DOMAIN files : j > target}
DownBlocks(target) == LET ids == Reverse(Sorted(Above(target)))
                      IN  [i \in DOMAIN ids |-> Block(ids[i], files[ids[i]].down)]

(* Scripts that were running at the same time as another one are mixed.      *)
Mixed(c) == \E d \in Clients \ {c} : client[d].at # "idle"
Starts(c, kind, target, blocks, at) ==
    /\ client[c].at = "idle"
    /\ scripts < MaxScripts /\ scripts' = scripts + 1
    /\ client' = [d \in Clients |->
         IF d = c
         THEN [at |-> at, kind |-> kind, target |-> target, all |-> blocks, todo |-> blocks,
               known |-> DOMAIN files, next |-> 1, touched |-> {}, mixed |-> Mixed(c)]
         ELSE IF client[d].at = "idle" THEN client[d] ELSE [client[d] EXCEPT !.mixed = TRUE]]
    /\ UNCHANGED <<developer, database>>

(* build_database_update_script: every local up.sql must be readable.        *)
StartUpdate(c) ==
    /\ \A j \in DOMAIN files : files[j].up # Missing
    /\ Starts(c, "up", 0, UpBlocks, "block")
(* build_database_downgrade_script: known target, and for every migration    *)
(* above it a readable up.sql and an executable down.sql.                    *)
StartDowngrade(c) ==
    c \in Downgraders /\ \E target \in DOMAIN files \cup {0} :
        /\ \A j \in Above(target) : files[j].up # Missing /\ files[j].down \notin {Missing, <<>>}
        /\ Starts(c, "down", target, DownBlocks(target), "guard")

Mine(c) == client[c].todo[1]
Set(c, new) == client' = [client EXCEPT ![c] = new]
Applied == DOMAIN history

(* A THROW ends the batch; an open transaction is rolled back, in the CATCH  *)
(* block or by the server when the connection is lost.                       *)
Undone(c) ==
    {o \in Objects : IF \E s \in client[c].touched : s.object = o
                     THEN (CHOOSE s \in client[c].touched : s.object = o).was
                     ELSE o \in objects}
(* Mutant: the transaction of a script that ends stays open.                 *)
EndKeepsLocks(c) == Set(c, [Idle EXCEPT !.touched = client[c].touched])
End(c) == Set(c, Idle)
Stop(c) ==
    /\ objects' = Undone(c)
    /\ End(c)
    /\ UNCHANGED <<developer, scripts, history, ran>>

(* render_downgrade_history_guard.                                           *)
GuardHolds(c) ==
    /\ Applied \subseteq client[c].known
    /\ client[c].target # 0 /\ (\E j \in Applied : j > client[c].target) =>
           client[c].target \in Applied
Guard(c) ==
    /\ client[c].at = "guard"
    /\ IF GuardHolds(c)
       THEN /\ Set(c, [client[c] EXCEPT !.at = "block"])
            /\ UNCHANGED <<developer, scripts, database>>
       ELSE Stop(c)

(* Mutant: drift is not looked for.                                          *)
DriftIgnored(c) == FALSE
Drifted(c) ==
    /\ Mine(c).id \in Applied
    /\ history[Mine(c).id] # Mine(c).sum
(* IF EXISTS (... [checksum] <> ...) THROW.                                  *)
CheckSum(c) ==
    /\ client[c].at = "block" /\ client[c].todo # <<>>
    /\ IF Drifted(c) THEN Stop(c)
       ELSE /\ Set(c, [client[c] EXCEPT !.at = "checked"])
            /\ UNCHANGED <<developer, scripts, database>>

(* Update runs what the history does not have, downgrade what it has.        *)
Wanted(c) == IF client[c].kind = "up" THEN Mine(c).id \notin Applied ELSE Mine(c).id \in Applied
NextBlock(c) == [client[c] EXCEPT !.at = "block", !.todo = Tail(@), !.next = 1, !.touched = {}]
(* IF [NOT] EXISTS, then BEGIN TRY, BEGIN TRANSACTION.                       *)
CheckApplied(c) ==
    /\ client[c].at = "checked"
    /\ Set(c, IF Wanted(c) THEN [client[c] EXCEPT !.at = "open"] ELSE NextBlock(c))
    /\ UNCHANGED <<developer, scripts, database>>

(* The server's locks: what an open transaction touched.                     *)
Locked(c, o) == \E d \in Clients \ {c} : \E s \in client[d].touched : s.object = o
Statement(c) == Mine(c).body[client[c].next]
MoreStatements(c) == client[c].at = "open" /\ client[c].next <= Len(Mine(c).body)
Fits(s) == s.create <=> s.object \notin objects

(* One EXEC.                                                                 *)
ExecuteStatement(c) ==
    /\ MoreStatements(c)
    /\ LET s == Statement(c) IN
        /\ ~Locked(c, s.object)
        /\ IF ~Fits(s) THEN Stop(c)
           ELSE /\ objects' = IF s.create THEN objects \cup {s.object} ELSE objects \ {s.object}
                /\ Set(c, [client[c] EXCEPT !.next = @ + 1,
                        !.touched = IF \E u \in @ : u.object = s.object THEN @
                                    ELSE @ \cup {[object |-> s.object, was |-> ~s.create]}])
                /\ UNCHANGED <<developer, scripts, history, ran>>

(* Mutant: a rollback leaves its row in the history.                         *)
RecordedUp(c) ==
    [j \in Applied \cup {Mine(c).id} |-> IF j = Mine(c).id THEN Mine(c).sum ELSE history[j]]
Recorded(c) ==
    IF client[c].kind = "up"
    THEN [j \in Applied \cup {Mine(c).id} |-> IF j = Mine(c).id THEN Mine(c).sum ELSE history[j]]
    ELSE [j \in Applied \ {Mine(c).id} |-> history[j]]
(* The history row is inserted or deleted in the same transaction; a row     *)
(* that another client committed meanwhile is a primary key violation.       *)
Record(c) ==
    /\ client[c].at = "open" /\ client[c].next > Len(Mine(c).body)
    /\ LET id == Mine(c).id IN
        IF client[c].kind = "up" /\ id \in Applied THEN Stop(c)
        ELSE /\ history' = Recorded(c)
             /\ ran' = Append(ran, [id |-> id, kind |-> client[c].kind, body |-> Mine(c).body,
                                    by |-> c])
             /\ Set(c, NextBlock(c))
             /\ UNCHANGED <<developer, scripts, objects>>

Finish(c) ==
    /\ client[c].at = "block" /\ client[c].todo = <<>>
    /\ End(c)
    /\ UNCHANGED <<developer, scripts, database>>

(* A statement fails for its own reasons, a deadlock or a timeout; or the    *)
(* client goes away between any two steps.                                   *)
Fails(c) ==
    /\ \/ "statement" \in Faults /\ client[c].at = "open"
       \/ "crash" \in Faults /\ client[c].at # "idle"
    /\ Stop(c)

(* The server ends the transaction of one of two that wait for each other.   *)
Waits(c, d) ==
    /\ MoreStatements(c)
    /\ \E s \in client[d].touched : s.object = Statement(c).object
DeadlockVictim(c) ==
    /\ \E d \in Clients \ {c} : Waits(c, d) /\ Waits(d, c)
    /\ Stop(c)

ScriptStep(c) ==
    \/ DeadlockVictim(c)
    \/ Guard(c) \/ CheckSum(c) \/ CheckApplied(c) \/ ExecuteStatement(c) \/ Record(c) \/ Finish(c)

Next ==
    \/ AddStarts \/ AddStep \/ AddCrashes \/ Merge
    \/ \E id \in DOMAIN files : EditUp(id) \/ WriteDown(id) \/ Delete(id)
    \/ \E c \in Clients : StartUpdate(c) \/ StartDowngrade(c) \/ ScriptStep(c) \/ Fails(c)

Spec == Init /\ [][Next]_vars
(* The server goes on with a batch it was given.                             *)
FairSpec == Spec /\ \A c \in Clients : WF_vars(ScriptStep(c))

-----------------------------------------------------------------------------
(* The database once every open transaction is rolled back.                  *)
Committed ==
    {o \in Objects :
        LET touched == {s \in UNION {client[c].touched : c \in {d \in Clients : client[d].at = "open"}} :
                            s.object = o}
        IN  IF touched = {} THEN o \in objects ELSE (CHOOSE s \in touched : TRUE).was}

TypeOK ==
    /\ objects \subseteq Objects
    /\ DOMAIN files \subseteq Ids /\ Applied \subseteq Ids
    /\ \A c \in Clients :
        /\ client[c].at \in {"idle", "guard", "block", "checked", "open"}
        /\ client[c].at = "open" => client[c].next \in 1..(Len(Mine(c).body) + 1)
        /\ client[c].at # "open" => client[c].touched = {}

(* docs/migrations.md: the update script is idempotent, a rollback runs only *)
(* for applied migrations, and the history row changes in the same           *)
(* transaction.  However the updates of any clients and the downgrades of    *)
(* one overlap, fail and are run again, the ups and downs of each migration  *)
(* that took effect alternate, and the history has the migration exactly     *)
(* when the last one was an up.                                              *)
RunsOf(id, n) == {i \in 1..n : ran[i].id = id}
InEffect(id, n) == RunsOf(id, n) # {} /\ ran[Max(RunsOf(id, n))].kind = "up"
TakesEffectOnce ==
    /\ \A i \in DOMAIN ran :
          ran[i].kind = IF InEffect(ran[i].id, i - 1) THEN "down" ELSE "up"
    /\ \A id \in Ids : id \in Applied <=> InEffect(id, Len(ran))

(* docs/migrations.md: if any statement fails the transaction must roll      *)
(* back.  The database is what the scripts that committed make of an empty   *)
(* one, whatever was torn, rolled back or is still open: each object is as   *)
(* the last statement about it left it.                                      *)
About(body, o) == {i \in DOMAIN body : body[i].object = o}
RunsAbout(o) == {i \in DOMAIN ran : About(ran[i].body, o) # {}}
Replay ==
    {o \in Objects : RunsAbout(o) # {} /\
        LET last == ran[Max(RunsAbout(o))].body
        IN  last[Max(About(last, o))].create}
NothingTorn == Committed = Replay

(* A snapshot is what the next migration is planned against.  Unless a plan  *)
(* was lost, merged in late or never made, a database whose history is a     *)
(* prefix of the local migrations has the objects of that prefix's snapshot: *)
(* updates lead there, and so do downgrades.                                 *)
SchemaIsSnapshot ==
    LET prefix == {j \in DOMAIN files : \E i \in Applied : j <= i}
    IN  /\ ~lost /\ add.at = "idle" /\ Applied = prefix
        /\ \A j \in Applied : history[j] = files[j].up /\ files[j].snapshot # Missing
        =>  Committed = IF Applied = {} THEN {} ELSE files[Max(Applied)].snapshot

(* docs/migrations.md: an edited migration is drift, a script stops at the   *)
(* first failure.  Of scripts that run alone: an update applies a migration  *)
(* only when all the earlier ones are applied as they are on disk.           *)
Commits(c, kind) == ran' # ran /\ ran'[Len(ran')].by = c /\ client[c].kind = kind /\ ~client[c].mixed
UpdateInOrder ==
    [][\A c \in Clients : Commits(c, "up") =>
        \A i \in DOMAIN client[c].all :
            LET earlier == client[c].all[i]
            IN  earlier.id < Mine(c).id =>
                    earlier.id \in Applied /\ history[earlier.id] = earlier.sum]_vars

(* docs/migrations.md, Downgrade Safety Rules: rollback goes from the latest *)
(* applied migration down to the target, which stays; never past an applied  *)
(* migration that is missing locally, and never for an edited one.           *)
DowngradeFromTop ==
    [][\A c \in Clients : Commits(c, "down") =>
        /\ Mine(c).id = Max(Applied)
        /\ Mine(c).id > client[c].target
        /\ client[c].target = 0 \/ client[c].target \in Applied
        /\ Applied \subseteq client[c].known
        /\ history[Mine(c).id] = Mine(c).sum]_vars

(* A script that was started ends, whatever locks another one holds.         *)
ScriptEnds == \A c \in Clients : []<>(client[c].at = "idle")
(* What history, database and files say of each other, between any two       *)
(* batches of any scripts.                                                   *)
HistorySound == TypeOK /\ TakesEffectOnce /\ NothingTorn /\ SchemaIsSnapshot

(* Which migration a script may commit, and when.                            *)
ScriptsInOrder == UpdateInOrder /\ DowngradeFromTop
=============================================================================
