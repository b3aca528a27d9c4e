---------------------------- MODULE ChangeTracker ----------------------------
(* The change tracker of crates/sql-orm/src/tracking.rs and the save phases  *)
(* of crates/sql-orm/src/context.rs, for one entity type with a simple,      *)
(* explicitly assigned primary key and one updatable column.                 *)
(*                                                                           *)
(* A Tracked<E> handle lives at an address (a member of Handles) and holds   *)
(* the original and current entity, its state, and the id of its             *)
(* registration.  The registry holds entries of its own, each with a raw     *)
(* pointer to the handle while one is attached.  The database is one table.  *)
EXTENDS Naturals, Sequences, FiniteSets

CONSTANTS
    Keys, Values,     \* primary keys, and values of the updatable column
    Handles,          \* addresses a Tracked handle may live at
    None,             \* no handle, no row
    MaxRegistrations, \* bound on registration ids
    Ops,              \* operations the application uses, a subset of OpNames
    DuringSave,       \* those it may also use while save_changes awaits
    Faults            \* what may go wrong, a subset of FaultKinds

OpNames == {"find", "add", "mutate", "delete", "mark_unchanged", "detach",
            "drop", "clear", "save_now", "delete_now", "transaction"}
FaultKinds == {"statement", "commit", "rollback", "external", "duplicate_key"}

ASSUME OpsAssumption == Ops \subseteq OpNames /\ DuringSave \subseteq Ops
ASSUME FaultsAssumption == Faults \subseteq FaultKinds
ASSUME BoundAssumption == MaxRegistrations \in Nat

VARIABLES
    handle,     \* Handles -> the handle at that address, or None
    entries,    \* registration id -> registry entry, for the ids present
    nextId,     \* next_registration_id
    rows,       \* the table as the current connection sees it
    backup,     \* the table as it was when the open transaction began
    tx,         \* the open transaction: none, internal (save_changes), user
    save,       \* the running save_changes: its phase, its work list, its item
    deadUse     \* a handle that no longer exists has been dereferenced

vars == <<handle, entries, nextId, rows, backup, tx, save, deadUse>>

Pending == {"Added", "Modified", "Deleted"}
States  == {"Unchanged"} \cup Pending
Phases  == <<"Added", "Modified", "Deleted">>
Idle    == [phase |-> 0, todo |-> {}, item |-> None]

Entity   == [key : Keys, val : Values]
Identity == ({"simple"} \X Keys) \cup ({"temporary"} \X (1..MaxRegistrations))
Handle   == [orig : Entity, cur : Entity, state : States, reg : 0..MaxRegistrations]
Entry    == [id : Identity, addr : Handles \cup {None}, state : States,
             orig : Entity, cur : Entity]

ASSUME NoneAssumption == None \notin Handles \cup Values \cup Entity \cup Handle

Init ==
    /\ handle = [h \in Handles |-> None]
    /\ entries = [r \in {} |-> None]
    /\ nextId = 1
    /\ rows \in [Keys -> Values \cup {None}]
    /\ backup = rows
    /\ tx = "none"
    /\ save = Idle
    /\ deadUse = FALSE

-----------------------------------------------------------------------------
(* TrackingRegistry *)

Registered == DOMAIN entries
Live(h) == handle[h] # None
Simple(k) == <<"simple", k>>

WithEntry(r, e) == [q \in Registered \cup {r} |-> IF q = r THEN e ELSE entries[q]]
WithoutEntry(r) == [q \in Registered \ {r} |-> entries[q]]

(* Mutant: only the handle's state is set.                                   *)
SetHandleState(h, s) ==
    /\ handle' = [handle EXCEPT ![h].state = s]
    /\ UNCHANGED entries

(* The registry's and the handle's idea of the state move together: from the *)
(* handle through Tracked::set_state.                                        *)
SetState(h, s) ==
    /\ handle' = [handle EXCEPT ![h].state = s]
    /\ entries' = LET r == handle[h].reg
                  IN  IF r \in Registered
                      THEN [entries EXCEPT ![r].state = s] ELSE entries

(* sync_current_from_wrapper, when a handle is attached.                     *)
CurrentOf(r) ==
    IF entries[r].addr = None THEN entries[r].cur ELSE handle[entries[r].addr].cur

(* A handle and its entry appear together (push_registration).               *)
Register(h, entity, s, id) ==
    /\ nextId <= MaxRegistrations
    /\ nextId' = nextId + 1
    /\ handle' = [handle EXCEPT ![h] =
           [orig |-> entity, cur |-> entity, state |-> s, reg |-> nextId]]
    /\ entries' = WithEntry(nextId,
           [id |-> id, addr |-> h, state |-> s, orig |-> entity, cur |-> entity])

HasIdentity(k) == \E r \in Registered : entries[r].id = Simple(k)

-----------------------------------------------------------------------------
(* The application's operations on its handles *)

Saving == save.phase # 0
LastPhaseDone == Saving /\ save.todo = {} /\ save.phase = Len(Phases)
(* While save_changes runs, others run only where it awaits: a statement, or *)
(* the COMMIT at its end.                                                    *)
May(op) ==
    op \in Ops /\ (Saving => op \in DuringSave /\ (save.item # None \/ LastPhaseDone))
(* Statements on the context's own connection are refused by its scope check *)
(* while save_changes runs in a transaction it opened itself.                *)
MayQuery(op) == May(op) /\ tx # "internal"
NoQuery == UNCHANGED <<rows, backup, tx, save, deadUse>>

(* DbSet::find_tracked, a row that is there and no entry for its key.        *)
FindLoads(h, k) ==
    /\ MayQuery("find") /\ ~Live(h)
    /\ rows[k] # None /\ ~HasIdentity(k)
    /\ Register(h, [key |-> k, val |-> rows[k]], "Unchanged", Simple(k))
    /\ NoQuery

(* find_tracked, an entry whose handle was dropped: the new handle takes the *)
(* registry's snapshots and state, not the row's.  An entry whose handle is  *)
(* attached refuses (duplicate live identity).                               *)
FindReattaches(h, k) ==
    /\ MayQuery("find") /\ ~Live(h) /\ rows[k] # None
    /\ \E r \in Registered :
        /\ entries[r].id = Simple(k) /\ entries[r].addr = None
        /\ handle' = [handle EXCEPT ![h] =
               [orig |-> entries[r].orig, cur |-> entries[r].cur,
                state |-> entries[r].state, reg |-> r]]
        /\ entries' = [entries EXCEPT ![r].addr = h]
    /\ UNCHANGED nextId /\ NoQuery

(* DbSet::add_tracked.  Without the duplicate_key fault the application only *)
(* adds keys that neither the table nor the tracker has.                     *)
Add(h, entity) ==
    /\ May("add") /\ ~Live(h)
    /\ "duplicate_key" \in Faults \/
          /\ rows[entity.key] = None
          /\ \A r \in Registered : CurrentOf(r).key # entity.key
    /\ Register(h, entity, "Added", <<"temporary", nextId>>)
    /\ NoQuery

(* Tracked::current_mut and mark_modified; the registry's current snapshot   *)
(* is not touched.                                                           *)
Mutate(h, v) ==
    /\ May("mutate") /\ Live(h)
    /\ LET s == IF handle[h].state = "Unchanged" THEN "Modified" ELSE handle[h].state
           r == handle[h].reg
       IN  /\ handle' = [handle EXCEPT ![h].state = s, ![h].cur.val = v]
           /\ entries' = IF r \in Registered
                         THEN [entries EXCEPT ![r].state = s] ELSE entries
    /\ UNCHANGED nextId /\ NoQuery

(* Tracked::detach_registry: the entry goes, the handle forgets its id.      *)
DetachWith(h, s) ==
    /\ handle' = [handle EXCEPT ![h].state = s, ![h].reg = 0]
    /\ entries' = WithoutEntry(handle[h].reg)

(* Tracked::mark_deleted and DbSet::remove_tracked.                          *)
MarkDeleted(h) ==
    /\ May("delete") /\ Live(h)
    /\ \/ handle[h].state = "Added" /\ DetachWith(h, "Deleted")
       \/ handle[h].state # "Added" /\ SetState(h, "Deleted")
    /\ UNCHANGED nextId /\ NoQuery

(* Tracked::mark_unchanged *)
MarkUnchanged(h) ==
    /\ May("mark_unchanged") /\ Live(h)
    /\ LET c == handle[h].cur
           r == handle[h].reg
       IN  /\ handle' = [handle EXCEPT ![h].orig = c, ![h].state = "Unchanged"]
           /\ entries' =
                IF r \in Registered
                THEN [entries EXCEPT ![r].orig = c, ![r].cur = c, ![r].state = "Unchanged"]
                ELSE entries
    /\ UNCHANGED nextId /\ NoQuery

(* Tracked::detach and DbSet::detach_tracked *)
Detach(h) ==
    /\ May("detach") /\ Live(h)
    /\ DetachWith(h, handle[h].state)
    /\ UNCHANGED nextId /\ NoQuery

(* Mutant: the entry keeps its pointer to the dropped handle.                *)
DropKeepsPointer(h) ==
    /\ May("drop") /\ Live(h)
    /\ handle' = [handle EXCEPT ![h] = None]
    /\ UNCHANGED <<entries, nextId>> /\ NoQuery

(* Mutant: the entry is left with the snapshot of its registration.          *)
DropWithoutSync(h) ==
    /\ May("drop") /\ Live(h)
    /\ handle' = [handle EXCEPT ![h] = None]
    /\ LET r == handle[h].reg
       IN  entries' =
             IF r \notin Registered THEN entries
             ELSE IF handle[h].state \notin Pending THEN WithoutEntry(r)
             ELSE [entries EXCEPT ![r].addr = None]
    /\ UNCHANGED nextId /\ NoQuery

(* Drop for Tracked, and into_current: pending work stays in the registry    *)
(* with the handle's current value, an unchanged entry goes.                 *)
Drop(h) ==
    /\ May("drop") /\ Live(h)
    /\ handle' = [handle EXCEPT ![h] = None]
    /\ LET r == handle[h].reg
       IN  entries' =
             IF r \notin Registered THEN entries
             ELSE IF handle[h].state \notin Pending THEN WithoutEntry(r)
             ELSE [entries EXCEPT ![r].cur = CurrentOf(r), ![r].addr = None]
    /\ UNCHANGED nextId /\ NoQuery

(* DbContext::clear_tracker: the handles keep their registration ids.        *)
Clear ==
    /\ May("clear")
    /\ entries' = [r \in {} |-> None]
    /\ UNCHANGED <<handle, nextId>> /\ NoQuery

-----------------------------------------------------------------------------
(* Tracked::save and Tracked::delete, immediate Active Record persistence *)

(* update_persisted_identity has an entry to update and no other entry has   *)
(* the key already.                                                          *)
IdentityFits(r, k) ==
    /\ r \in Registered
    /\ \A q \in Registered \ {r} : entries[q].id # Simple(k)

(* Save of an Added or Modified handle: the row is inserted or updated, then *)
(* the handle accepts its value and the entry its state.  The registry's     *)
(* snapshots stay; an identity that does not fit is an error after the fact. *)
SaveNow(h) ==
    /\ MayQuery("save_now") /\ Live(h)
    /\ handle[h].state \in {"Added", "Modified"}
    /\ LET c == handle[h].cur
           r == handle[h].reg
       IN  /\ rows' = [rows EXCEPT ![c.key] = c.val]
           /\ handle' = [handle EXCEPT ![h].orig = c, ![h].state = "Unchanged"]
           /\ entries' =
                IF r \in Registered
                THEN [entries EXCEPT
                        ![r].state = "Unchanged",
                        ![r].id = IF IdentityFits(r, c.key) THEN Simple(c.key) ELSE @]
                ELSE entries
    /\ UNCHANGED <<nextId, backup, tx, save, deadUse>>

(* Delete: an Added handle is cancelled, a persisted one is deleted when its *)
(* row is there.                                                             *)
DeleteNow(h) ==
    /\ Live(h)
    /\ \/ /\ May("delete_now") /\ handle[h].state = "Added"
          /\ UNCHANGED rows
       \/ /\ MayQuery("delete_now") /\ handle[h].state \in {"Unchanged", "Modified"}
          /\ rows[handle[h].cur.key] # None
          /\ rows' = [rows EXCEPT ![handle[h].cur.key] = None]
    /\ DetachWith(h, "Deleted")
    /\ UNCHANGED <<nextId, backup, tx, save, deadUse>>

-----------------------------------------------------------------------------
(* Transactions, and the rest of the world *)

BeginTransaction ==
    /\ May("transaction") /\ tx = "none" /\ ~Saving
    /\ tx' = "user" /\ backup' = rows
    /\ UNCHANGED <<handle, entries, nextId, rows, save, deadUse>>

(* The closure returns: the tracker is not told which way.                   *)
EndTransaction ==
    /\ tx = "user" /\ ~Saving
    /\ tx' = "none"
    /\ \/ UNCHANGED rows /\ backup' = rows
       \/ "rollback" \in Faults /\ rows' = backup /\ UNCHANGED backup
    /\ UNCHANGED <<handle, entries, nextId, save, deadUse>>

(* Another client, or a value saved outside the tracker.                     *)
ExternalWrite ==
    /\ "external" \in Faults /\ tx = "none"
    /\ \E k \in Keys, v \in Values \cup {None} : rows' = [rows EXCEPT ![k] = v]
    /\ UNCHANGED <<handle, entries, nextId, backup, tx, save, deadUse>>

-----------------------------------------------------------------------------
(* save_changes: the phases Added, Modified, Deleted *)

(* tracked_for: the entries of now, with the addresses of now.               *)
Listed == {[reg |-> r, addr |-> entries[r].addr] : r \in Registered}

StartSave ==
    /\ ~Saving
    /\ save' = [phase |-> 1, todo |-> Listed, item |-> None]
    /\ IF tx = "none" THEN tx' = "internal" /\ backup' = rows
                      ELSE UNCHANGED <<tx, backup>>
    /\ UNCHANGED <<handle, entries, nextId, rows, deadUse>>

Wanted == Phases[save.phase]

(* The listed entities are visited in the order of their registration.       *)
Visiting(t) == Saving /\ \A u \in save.todo : t.reg <= u.reg
Choosing(t) == Visiting(t) /\ save.item = None
Awaiting(t, phase) == Visiting(t) /\ save.item # None /\ Wanted = phase

(* The raw address that was listed: whether a handle is there, whether it is *)
(* still the listed one, and not one that took the address of a dropped one. *)
Held(t) == t.addr \in Handles /\ Live(t.addr)
SameHandle(t) == Held(t) /\ handle[t.addr].reg \in {0, t.reg}
Readable(t) == t.reg \in Registered \/ Held(t)

(* Reading an item follows the raw address when the entry is gone.           *)
Misread(t) == t.reg \notin Registered /\ ~SameHandle(t)
Read(t) == deadUse' = (deadUse \/ Misread(t))

(* RegisteredTracked::state and current_clone, and has_persisted_changes:    *)
(* what the entry says, or when it is gone what the raw address holds.       *)
StateOf(t) == IF t.reg \in Registered THEN entries[t.reg].state ELSE handle[t.addr].state
EntityOf(t) == IF t.reg \in Registered THEN CurrentOf(t.reg) ELSE handle[t.addr].cur
OriginalOf(t) == IF t.reg \in Registered THEN entries[t.reg].orig ELSE handle[t.addr].orig
(* Mutant: the registry's own snapshots are compared.                        *)
StaleComparison(t) == t.reg \in Registered /\ entries[t.reg].cur # entries[t.reg].orig

HasPersistedChanges(t) == OriginalOf(t).val # EntityOf(t).val

ItemDone(t) == save' = [save EXCEPT !.todo = @ \ {t}, !.item = None]

(* The next listed entity is not in this phase's state.                      *)
PassOver(t) ==
    /\ Choosing(t) /\ Readable(t) /\ StateOf(t) # Wanted
    /\ Read(t)
    /\ ItemDone(t)
    /\ UNCHANGED <<handle, entries, nextId, rows, backup, tx>>

(* The entry is gone and nothing is at the address, which is read all the    *)
(* same; whatever is found, no handle and no row is written.                 *)
ReadDead(t) ==
    /\ Choosing(t) /\ ~Readable(t)
    /\ Read(t)
    /\ ItemDone(t)
    /\ UNCHANGED <<handle, entries, nextId, rows, backup, tx>>

Attached(r) == r \in Registered /\ entries[r].addr # None

(* The handles as sync_persisted and accept_current leave them: while the    *)
(* entry has a handle attached, what is at the listed address is written,    *)
(* whichever handle that is by now, and set_state reaches the entry's own.   *)
WriteThrough(t, written) ==
    handle' = [h \in Handles |->
        CASE Attached(t.reg) /\ h = t.addr /\ Held(t) -> written
          [] Attached(t.reg) /\ h = entries[t.reg].addr /\ h # t.addr ->
                 [handle[h] EXCEPT !.state = "Unchanged"]
          [] OTHER -> handle[h]]

DeadWrite(t) == Attached(t.reg) /\ ~SameHandle(t)

(* sync_persisted *)
Accept(t, entity) ==
    /\ WriteThrough(t, [handle[t.addr] EXCEPT
           !.orig = entity, !.cur = entity, !.state = "Unchanged"])
    /\ deadUse' = (deadUse \/ DeadWrite(t))

(* accept_current: the handle keeps its current value.                       *)
AcceptCurrent(t) ==
    /\ WriteThrough(t, [handle[t.addr] EXCEPT !.orig = EntityOf(t), !.state = "Unchanged"])
    /\ deadUse' = (deadUse \/ DeadWrite(t) \/ Misread(t))

(* Mutant: sync_persisted sets the snapshots and not the state.              *)
SettledSnapshots(t, entity) ==
    IF t.reg \in Registered
    THEN [entries EXCEPT ![t.reg].orig = entity, ![t.reg].cur = entity]
    ELSE entries

Settled(t, entity) ==
    IF t.reg \in Registered
    THEN [entries EXCEPT ![t.reg].orig = entity, ![t.reg].cur = entity,
                         ![t.reg].state = "Unchanged"]
    ELSE entries

(* save_tracked_modified: no persisted column differs from the registry's    *)
(* original, so the value is accepted without SQL.                           *)
AcceptUnchanged(t) ==
    /\ Choosing(t) /\ Readable(t)
    /\ Wanted = "Modified" /\ StateOf(t) = "Modified" /\ ~HasPersistedChanges(t)
    /\ AcceptCurrent(t)
    /\ entries' = Settled(t, EntityOf(t))
    /\ ItemDone(t)
    /\ UNCHANGED <<nextId, rows, backup, tx>>

(* The next listed entity is to be written: its current value is copied and  *)
(* the statement awaited.                                                    *)
Issue(t) ==
    /\ Choosing(t) /\ Readable(t) /\ StateOf(t) = Wanted
    /\ Wanted = "Modified" => HasPersistedChanges(t)
    /\ Read(t)
    /\ save' = [save EXCEPT !.item = EntityOf(t)]
    /\ UNCHANGED <<handle, entries, nextId, rows, backup, tx>>

(* save_changes returns Err: an internal transaction is rolled back, the     *)
(* registry and the handles stay as the phases left them.                    *)
Fail(view) ==
    /\ save' = Idle
    /\ IF tx = "internal" THEN tx' = "none" /\ rows' = backup
                          ELSE tx' = tx /\ rows' = view
    /\ UNCHANGED backup

(* The statement fails, or matches no row, or finds its key taken.           *)
StatementFails ==
    /\ Saving /\ save.item # None
    /\ \/ "statement" \in Faults
       \/ Wanted = "Added" /\ rows[save.item.key] # None
       \/ Wanted # "Added" /\ rows[save.item.key] = None
    /\ Fail(rows)
    /\ UNCHANGED <<handle, entries, nextId, deadUse>>

(* The row as the awaited INSERT or UPDATE leaves it.                        *)
Written == [rows EXCEPT ![save.item.key] = save.item.val]

(* save_tracked_added: INSERT, sync_persisted, and the persisted identity.   *)
Inserted(t) ==
    /\ Awaiting(t, "Added") /\ rows[save.item.key] = None
    /\ IdentityFits(t.reg, save.item.key)
    /\ rows' = Written
    /\ Accept(t, save.item)
    /\ entries' = [Settled(t, save.item) EXCEPT ![t.reg].id = Simple(save.item.key)]
    /\ ItemDone(t)
    /\ UNCHANGED <<nextId, backup, tx>>

(* The same, and update_persisted_identity refuses after sync_persisted.     *)
InsertedUnidentified(t) ==
    /\ Awaiting(t, "Added") /\ rows[save.item.key] = None
    /\ ~IdentityFits(t.reg, save.item.key)
    /\ Accept(t, save.item)
    /\ entries' = Settled(t, save.item)
    /\ Fail(Written)
    /\ UNCHANGED nextId

(* save_tracked_modified: UPDATE by the current key, and sync_persisted.     *)
Updated(t) ==
    /\ Awaiting(t, "Modified") /\ rows[save.item.key] # None
    /\ rows' = Written
    /\ Accept(t, save.item)
    /\ entries' = Settled(t, save.item)
    /\ ItemDone(t)
    /\ UNCHANGED <<nextId, backup, tx>>

(* save_tracked_deleted: DELETE by the current key, and the entry goes.      *)
Deleted(t) ==
    /\ Awaiting(t, "Deleted") /\ rows[save.item.key] # None
    /\ rows' = [rows EXCEPT ![save.item.key] = None]
    /\ entries' = WithoutEntry(t.reg)
    /\ ItemDone(t)
    /\ UNCHANGED <<handle, nextId, backup, tx, deadUse>>

NextPhase ==
    /\ Saving /\ save.todo = {} /\ save.phase < Len(Phases)
    /\ save' = [save EXCEPT !.phase = @ + 1, !.todo = Listed]
    /\ UNCHANGED <<handle, entries, nextId, rows, backup, tx, deadUse>>

FinishSave ==
    /\ LastPhaseDone
    /\ save' = Idle
    /\ IF tx = "internal" THEN tx' = "none" ELSE UNCHANGED tx
    /\ UNCHANGED <<handle, entries, nextId, rows, backup, deadUse>>

(* COMMIT is refused, or goes unanswered and takes effect all the same.      *)
CommitFails ==
    /\ "commit" \in Faults /\ LastPhaseDone /\ tx = "internal"
    /\ \/ Fail(rows)
       \/ save' = Idle /\ tx' = "none" /\ UNCHANGED <<rows, backup>>
    /\ UNCHANGED <<handle, entries, nextId, deadUse>>

-----------------------------------------------------------------------------
HandleStep ==
    \E h \in Handles :
        \/ \E k \in Keys : FindLoads(h, k) \/ FindReattaches(h, k)
        \/ \E e \in Entity : Add(h, e)
        \/ \E v \in Values : Mutate(h, v)
        \/ MarkDeleted(h) \/ MarkUnchanged(h) \/ Detach(h) \/ Drop(h)
        \/ SaveNow(h) \/ DeleteNow(h)

ItemStep(t) ==
    \/ PassOver(t) \/ ReadDead(t) \/ AcceptUnchanged(t) \/ Issue(t)
    \/ Inserted(t) \/ Updated(t) \/ Deleted(t)

SaveStep == StartSave \/ (\E t \in save.todo : ItemStep(t)) \/ NextPhase \/ FinishSave

SaveFailure ==
    StatementFails \/ (\E t \in save.todo : InsertedUnidentified(t)) \/ CommitFails

Next ==
    \/ HandleStep \/ Clear
    \/ BeginTransaction \/ EndTransaction \/ ExternalWrite
    \/ SaveStep \/ SaveFailure

Spec == Init /\ [][Next]_vars

-----------------------------------------------------------------------------
(* Properties *)

Item == [reg : 1..MaxRegistrations, addr : Handles \cup {None}]

TypeOK ==
    /\ handle \in [Handles -> Handle \cup {None}]
    /\ Registered \subseteq 1..MaxRegistrations
    /\ \A r \in Registered : entries[r] \in Entry
    /\ nextId \in 1..MaxRegistrations + 1
    /\ rows \in [Keys -> Values \cup {None}]
    /\ backup \in [Keys -> Values \cup {None}]
    /\ tx \in {"none", "internal", "user"}
    /\ save \in [phase : 0..3, todo : SUBSET Item, item : Entity \cup {None}]
    /\ deadUse \in BOOLEAN

(* The raw pointer of an entry is only followed while wrapper_attached is    *)
(* set: it always leads to the live handle registered under that entry, so   *)
(* sync_current_from_wrapper and set_wrapper_state are sound, and a live     *)
(* handle that still has an entry is the one attached to it.                 *)
PointersSound ==
    /\ \A r \in Registered :
          entries[r].addr # None =>
              Live(entries[r].addr) /\ handle[entries[r].addr].reg = r
    /\ \A h \in Handles :
          Live(h) /\ handle[h].reg \in Registered => entries[handle[h].reg].addr = h

(* register_or_attach_loaded and update_persisted_identity: the registry     *)
(* never holds two entries for one persisted key, so two handles can never   *)
(* compete for a row through one context.                                    *)
IdentitiesUnique ==
    \A q, r \in Registered :
        q # r /\ entries[q].id[1] = "simple" => entries[q].id # entries[r].id

(* The registry through every operation of its handles and every await of    *)
(* save_changes: typed, its pointers live, its keys held once.               *)
RegistrySound == TypeOK /\ PointersSound /\ IdentitiesUnique

(* The state save_changes acts on is the state the handle shows, until the   *)
(* address of a dropped handle is used: sync_persisted then sets the state   *)
(* of whichever handle took that address, and not of its entry.              *)
StatesAgree ==
    ~deadUse =>
        \A r \in Registered :
            entries[r].addr # None => entries[r].state = handle[entries[r].addr].state

(* An entry the tracker calls Unchanged has the value of its row: nothing    *)
(* the application changed is forgotten, nothing is believed saved that the  *)
(* database does not have.                                                   *)
UnchangedMatchesDatabase ==
    \A r \in Registered :
        entries[r].state = "Unchanged" => rows[CurrentOf(r).key] = CurrentOf(r).val

(* docs/tracking-unit-of-work.md: nothing is read or written through a dead  *)
(* wrapper, as long as no operation runs while save_changes awaits.          *)
TrackerFaithful == UnchangedMatchesDatabase /\ ~deadUse

(* What the table will hold once the pending work is saved.                  *)
Intended ==
    [k \in Keys |->
        LET work == {r \in Registered : entries[r].state \in Pending /\ CurrentOf(r).key = k}
        IN  IF work = {} THEN rows[k]
            ELSE LET r == CHOOSE q \in work : TRUE
                 IN  IF entries[r].state = "Deleted" THEN None ELSE CurrentOf(r).val]

(* Dropping a handle, finding it again and every step of save_changes keep   *)
(* what the application asked for: only its own edits change it.             *)
IntentSurvives ==
    [][ \/ SaveStep
        \/ \E h \in Handles : Drop(h) \/ \E k \in Keys : FindLoads(h, k) \/ FindReattaches(h, k)
        => Intended' = Intended ]_vars

(* save_changes returns Ok only when no pending work is left, whatever       *)
(* states its phases met: later phases leave nothing for earlier ones.       *)
SaveSettles ==
    [][ FinishSave => \A r \in Registered : entries[r].state = "Unchanged" ]_vars
=============================================================================
