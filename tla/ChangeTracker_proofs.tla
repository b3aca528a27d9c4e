------------------------- MODULE ChangeTracker_proofs -------------------------
(* The change tracker for every set of keys, values and handles, and every   *)
(* number of registrations.                                                  *)
EXTENDS ChangeTracker, TLAPS

(* TypeOK in two parts: the registry with its handles, and the rest.         *)
RegistryTyped ==
    /\ handle \in [Handles -> Handle \cup {None}]
    /\ Registered \subseteq 1..MaxRegistrations
    /\ \A r \in Registered : entries[r] \in Entry
    /\ nextId \in 1..MaxRegistrations + 1

RestTyped ==
    /\ rows \in [Keys -> Values \cup {None}]
    /\ backup \in [Keys -> Values \cup {None}]
    /\ tx \in {"none", "internal", "user"}
    /\ save \in [phase : 0..3, todo : SUBSET Item, item : Entity \cup {None}]
    /\ deadUse \in BOOLEAN

(* Registration ids are handed out once: whatever has one has an earlier one *)
(* than the next.                                                            *)
IdsAllocated ==
    /\ \A r \in Registered : r < nextId
    /\ \A h \in Handles : Live(h) => handle[h].reg < nextId

Sound == RegistryTyped /\ PointersSound /\ IdentitiesUnique /\ StatesAgree /\ IdsAllocated
Inv == Sound /\ RestTyped

-----------------------------------------------------------------------------
(* What the types say of a live handle and of an entry.                      *)
LEMMA HandleFields ==
    ASSUME RegistryTyped, NEW h \in Handles, Live(h)
    PROVE  /\ handle[h] \in Handle
           /\ handle[h].orig \in Entity /\ handle[h].cur \in Entity
           /\ handle[h].state \in States /\ handle[h].reg \in 0..MaxRegistrations
<1>1. handle[h] \in Handle
  BY DEF RegistryTyped, Live
<1> QED
  BY <1>1 DEF Handle

(* What the types say of an entry of the registry.                           *)
LEMMA EntryFields ==
    ASSUME RegistryTyped, NEW r \in Registered
    PROVE  /\ r \in 1..MaxRegistrations /\ r \in Nat /\ r > 0
           /\ entries[r] \in Entry /\ entries[r].id \in Identity
           /\ entries[r].addr \in Handles \cup {None} /\ entries[r].state \in States
           /\ entries[r].orig \in Entity /\ entries[r].cur \in Entity
<1>1. entries[r] \in Entry /\ r \in 1..MaxRegistrations
  BY DEF RegistryTyped
<1> QED
  BY <1>1, BoundAssumption DEF Entry

(* The current value of an entry is an entity, whoever holds it.             *)
LEMMA CurrentTyped ==
    ASSUME RegistryTyped, PointersSound, NEW r \in Registered
    PROVE  CurrentOf(r) \in Entity
<1>1. CASE entries[r].addr = None
  BY <1>1, EntryFields DEF CurrentOf
<1>2. CASE entries[r].addr # None
  <2>1. entries[r].addr \in Handles /\ Live(entries[r].addr)
    BY <1>2, EntryFields DEF PointersSound
  <2> QED
    BY <1>2, <2>1, HandleFields DEF CurrentOf
<1> QED
  BY <1>1, <1>2

(* One entry and the handles may take new values, as long as the handle of   *)
(* that entry takes its state and the handles of the others keep theirs, or  *)
(* the address of a dropped handle has been used.                            *)
LEMMA Restated ==
    ASSUME Sound, NEW r,
           handle' \in [Handles -> Handle \cup {None}],
           \A h \in Handles : Live(h)' <=> Live(h),
           \A h \in Handles : Live(h) => handle'[h].reg = handle[h].reg,
           ~deadUse' => ~deadUse,
           ~deadUse' => \A h \in Handles :
               Live(h) /\ handle[h].reg \in Registered /\ handle[h].reg # r
                   => handle'[h].state = handle[h].state,
           ~deadUse' => \A h \in Handles :
               Live(h) /\ handle[h].reg = r /\ r \in Registered
                   => handle'[h].state = entries'[r].state,
           nextId' = nextId, Registered' = Registered,
           \A q \in Registered : q # r => entries'[q] = entries[q],
           r \in Registered => entries'[r] \in Entry /\ entries'[r].addr = entries[r].addr,
           r \in Registered =>
               \/ entries'[r].id = entries[r].id
               \/ \E k \in Keys : entries'[r].id = Simple(k) /\ IdentityFits(r, k)
    PROVE  Sound'
<1>1. RegistryTyped'
  BY DEF Sound, RegistryTyped
<1>2. \A q \in Registered : entries'[q].addr = entries[q].addr
  OBVIOUS
<1>3. \A q \in Registered : entries[q].addr # None => entries[q].addr \in Handles
  BY EntryFields DEF Sound
<1>4. PointersSound'
  BY <1>2, <1>3 DEF Sound, PointersSound, Live
<1>5. IdentitiesUnique'
  BY DEF Sound, IdentitiesUnique, IdentityFits, Simple
<1>6. StatesAgree'
  <2> SUFFICES ASSUME ~deadUse', NEW q \in Registered, entries[q].addr # None
               PROVE  entries'[q].state = handle'[entries[q].addr].state
    BY <1>2 DEF StatesAgree
  <2>1. /\ entries[q].addr \in Handles /\ Live(entries[q].addr)
        /\ handle[entries[q].addr].reg = q
        /\ entries[q].state = handle[entries[q].addr].state
    BY <1>3 DEF Sound, PointersSound, StatesAgree
  <2> QED
    BY <2>1
<1>7. IdsAllocated'
  BY DEF Sound, IdsAllocated
<1> QED
  BY <1>1, <1>4, <1>5, <1>6, <1>7 DEF Sound

(* Entries may go and handles may be dropped or forget their registration,   *)
(* as long as no handle of an entry that stays is touched.                   *)
LEMMA Forgotten ==
    ASSUME Sound,
           handle' \in [Handles -> Handle \cup {None}],
           \A h \in Handles :
               \/ handle'[h] = handle[h]
               \/ /\ Live(h) => handle[h].reg \notin Registered'
                  /\ handle'[h] = None \/ handle'[h].reg = 0,
           nextId' = nextId, deadUse' = deadUse, Registered' \subseteq Registered,
           \A q \in Registered' : entries'[q] = entries[q]
    PROVE  Sound'
<1>1. RegistryTyped'
  BY DEF Sound, RegistryTyped
<1>2. \A q \in Registered' : entries[q].addr # None => entries[q].addr \in Handles
  BY EntryFields DEF Sound
<1>3. \A q \in Registered' : q \in Registered /\ q > 0
  BY EntryFields DEF Sound
<1>4. \A q \in Registered' : entries[q].addr # None =>
          /\ entries[q].addr \in Handles /\ Live(entries[q].addr)
          /\ handle[entries[q].addr].reg = q
          /\ handle'[entries[q].addr] = handle[entries[q].addr]
  BY <1>2, <1>3 DEF Sound, PointersSound
<1>5. \A h \in Handles : Live(h)' /\ (handle'[h].reg \in Registered') =>
          Live(h) /\ handle'[h] = handle[h]
  BY <1>3 DEF Live
<1>6. PointersSound'
  BY <1>3, <1>4, <1>5 DEF Sound, PointersSound, Live
<1>7. IdentitiesUnique'
  BY DEF Sound, IdentitiesUnique
<1>8. StatesAgree'
  BY <1>3, <1>4 DEF Sound, StatesAgree
<1>9. IdsAllocated'
  BY <1>3, BoundAssumption DEF Sound, IdsAllocated, RegistryTyped, Live
<1> QED
  BY <1>1, <1>6, <1>7, <1>8, <1>9 DEF Sound

(* A new registration: its id is new, and its identity is a temporary one or *)
(* a key no entry has.                                                       *)
LEMMA RegisterKeeps ==
    ASSUME Sound, NEW h \in Handles, ~Live(h), NEW e \in Entity, NEW s \in States, NEW id,
           Register(h, e, s, id), deadUse' = deadUse,
           \/ id = <<"temporary", nextId>>
           \/ \E k \in Keys : id = Simple(k) /\ ~HasIdentity(k)
    PROVE  Sound'
<1> DEFINE new == [orig |-> e, cur |-> e, state |-> s, reg |-> nextId]
           entry == [id |-> id, addr |-> h, state |-> s, orig |-> e, cur |-> e]
<1>1. nextId \in 1..MaxRegistrations /\ nextId \in Nat /\ nextId' = nextId + 1
  BY BoundAssumption DEF Sound, RegistryTyped, Register
<1>2. /\ nextId \notin Registered /\ \A r \in Registered : r < nextId
      /\ \A g \in Handles : Live(g) => handle[g].reg < nextId
  BY <1>1 DEF Sound, IdsAllocated
<1>3. handle' = [handle EXCEPT ![h] = new]
  BY DEF Register
<1>4. /\ handle'[h] = new /\ \A g \in Handles : g # h => handle'[g] = handle[g]
      /\ new \in Handle
      /\ handle' \in [Handles -> Handle \cup {None}]
  <2>1. new \in Handle
    BY <1>1 DEF Handle
  <2> QED
    BY <1>3, <2>1 DEF Sound, RegistryTyped
<1>5. new # None
  BY <1>4, NoneAssumption
<1>6. /\ Registered' = Registered \cup {nextId}
      /\ entries'[nextId] = entry /\ \A q \in Registered : entries'[q] = entries[q]
  BY <1>2 DEF Register, WithEntry, Registered
<1>7. entry \in Entry
  <2>1. id \in Identity
    BY <1>1 DEF Identity, Simple
  <2> QED
    BY <2>1 DEF Entry
<1>8. RegistryTyped'
  <2> HIDE DEF entry, new
  <2>1. Registered' \subseteq 1..MaxRegistrations
    BY <1>1, <1>6 DEF Sound, RegistryTyped
  <2>2. \A q \in Registered' : entries'[q] \in Entry
    BY <1>6, <1>7 DEF Sound, RegistryTyped
  <2>3. nextId' \in 1..MaxRegistrations + 1
    BY <1>1, BoundAssumption
  <2> QED
    BY <1>4, <2>1, <2>2, <2>3 DEF RegistryTyped
<1>9. \A q \in Registered : entries[q].addr # None =>
          /\ entries[q].addr \in Handles /\ entries[q].addr # h
          /\ Live(entries[q].addr) /\ handle[entries[q].addr].reg = q
  BY EntryFields DEF Sound, PointersSound
<1>10. h # None /\ entry.addr = h /\ entry.state = new.state /\ new.reg = nextId /\ entry.id = id
  BY NoneAssumption
<1>11. PointersSound'
  <2>1. \A r \in Registered' : entries'[r].addr # None =>
            handle'[entries'[r].addr] # None /\ handle'[entries'[r].addr].reg = r
    BY <1>4, <1>5, <1>6, <1>9, <1>10 DEF Live
  <2>2. \A g \in Handles : handle'[g] # None /\ handle'[g].reg \in Registered' =>
            entries'[handle'[g].reg].addr = g
    <3> SUFFICES ASSUME NEW g \in Handles, handle'[g] # None, handle'[g].reg \in Registered'
                 PROVE  entries'[handle'[g].reg].addr = g
      OBVIOUS
    <3>1. CASE g = h
      BY <3>1, <1>4, <1>6, <1>10
    <3>2. CASE g # h
      <4>1. handle'[g] = handle[g] /\ Live(g)
        BY <3>2, <1>4 DEF Live
      <4>2. handle[g].reg \in Registered
        BY <4>1, <1>2, <1>6, <1>1
      <4> QED
        BY <4>1, <4>2, <1>6 DEF Sound, PointersSound
    <3> QED
      BY <3>1, <3>2
  <2> QED
    BY <2>1, <2>2 DEF PointersSound, Live
<1>12. IdentitiesUnique'
  <2>1. id[1] = "simple" => \A q \in Registered : entries[q].id # id
    BY DEF HasIdentity, Simple
  <2>2. \A q \in Registered : entries[q].id[1] = "simple" => entries[q].id # id
    BY DEF HasIdentity, Simple
  <2> QED
    BY <2>1, <2>2, <1>6, <1>10 DEF Sound, IdentitiesUnique
<1>13. StatesAgree'
  BY <1>4, <1>6, <1>9, <1>10 DEF Sound, StatesAgree
<1>14. IdsAllocated'
  <2> HIDE DEF entry, new
  <2>1. \A r \in Registered' : r \in Nat /\ r < nextId + 1
    BY <1>1, <1>2, <1>6, EntryFields DEF Sound
  <2>2. ASSUME NEW g \in Handles, handle'[g] # None
        PROVE  handle'[g].reg < nextId + 1
    <3>1. CASE g = h
      BY <3>1, <1>1, <1>4, <1>10
    <3>2. CASE g # h
      <4>1. handle'[g] = handle[g] /\ Live(g)
        BY <2>2, <3>2, <1>4 DEF Live
      <4>2. handle[g].reg \in Nat
        BY <4>1, HandleFields, BoundAssumption DEF Sound
      <4> QED
        BY <4>1, <4>2, <1>1, <1>2
    <3> QED
      BY <3>1, <3>2
  <2> QED
    BY <1>1, <2>1, <2>2 DEF IdsAllocated, Live
<1> QED
  BY <1>8, <1>11, <1>12, <1>13, <1>14 DEF Sound

-----------------------------------------------------------------------------
(* The operations of the application on its handles                          *)

(* find that builds a new entry: its identity was looked up and is not       *)
(* there.                                                                    *)
LEMMA FindLoadsKeeps ==
    ASSUME Sound, NEW h \in Handles, NEW k \in Keys, RestTyped, FindLoads(h, k)
    PROVE  Sound'
<1>1. [key |-> k, val |-> rows[k]] \in Entity
  BY DEF Entity, RestTyped, FindLoads
<1>2. "Unchanged" \in States
  BY DEF States
<1> QED
  BY <1>1, <1>2, RegisterKeeps DEF FindLoads, NoQuery

(* add registers under a temporary identity, which no entry has had.         *)
LEMMA AddKeeps ==
    ASSUME Sound, NEW h \in Handles, NEW e \in Entity, Add(h, e)
    PROVE  Sound'
<1>1. "Added" \in States
  BY DEF States, Pending
<1> QED
  BY <1>1, RegisterKeeps DEF Add, NoQuery

(* find that hands out an entry whose handle is gone: the new handle takes   *)
(* the entry's snapshots and its state, and the entry points to it.          *)
LEMMA FindReattachesKeeps ==
    ASSUME Sound, NEW h \in Handles, NEW k \in Keys, FindReattaches(h, k)
    PROVE  Sound'
<1>1. PICK r \in Registered :
          /\ entries[r].id = Simple(k) /\ entries[r].addr = None
          /\ handle' = [handle EXCEPT ![h] =
                 [orig |-> entries[r].orig, cur |-> entries[r].cur,
                  state |-> entries[r].state, reg |-> r]]
          /\ entries' = [entries EXCEPT ![r].addr = h]
  BY DEF FindReattaches
<1> DEFINE new == [orig |-> entries[r].orig, cur |-> entries[r].cur,
                   state |-> entries[r].state, reg |-> r]
<1>2. ~Live(h) /\ nextId' = nextId /\ deadUse' = deadUse
  BY DEF FindReattaches, NoQuery
<1>3. r \in 1..MaxRegistrations /\ r \in Nat /\ r < nextId /\ entries[r] \in Entry
  BY EntryFields DEF Sound, IdsAllocated
<1>4. new \in Handle
  BY <1>3, EntryFields, BoundAssumption DEF Handle, Sound
<1>5. /\ new # None
      /\ new.reg = r /\ new.state = entries[r].state
  BY <1>4, NoneAssumption
<1>6. /\ handle'[h] = new /\ \A g \in Handles : g # h => handle'[g] = handle[g]
      /\ handle' \in [Handles -> Handle \cup {None}]
  BY <1>1, <1>4 DEF Sound, RegistryTyped
<1>7. Registered' = Registered /\ \A q \in Registered : q # r => entries'[q] = entries[q]
  BY <1>1 DEF Registered
<1>8. /\ entries'[r] \in Entry /\ entries'[r].addr = h /\ entries'[r].id = entries[r].id
      /\ entries'[r].state = entries[r].state
  BY <1>1, <1>3 DEF Entry, Registered
<1> HIDE DEF new
<1>9. RegistryTyped'
  BY <1>2, <1>6, <1>7, <1>8 DEF Sound, RegistryTyped
<1>10. \A q \in Registered : entries[q].addr # None =>
          /\ entries[q].addr \in Handles /\ entries[q].addr # h /\ q # r
          /\ Live(entries[q].addr) /\ handle[entries[q].addr].reg = q
  BY <1>1, <1>2, EntryFields DEF Sound, PointersSound
<1>11. PointersSound'
  <2>1. \A q \in Registered : entries'[q].addr # None =>
            handle'[entries'[q].addr] # None /\ handle'[entries'[q].addr].reg = q
    BY <1>5, <1>6, <1>7, <1>8, <1>10 DEF Live
  <2>2. \A g \in Handles : handle'[g] # None /\ handle'[g].reg \in Registered =>
            entries'[handle'[g].reg].addr = g
    <3> SUFFICES ASSUME NEW g \in Handles, handle'[g] # None, handle'[g].reg \in Registered
                 PROVE  entries'[handle'[g].reg].addr = g
      OBVIOUS
    <3>1. CASE g = h
      BY <3>1, <1>5, <1>6, <1>8
    <3>2. CASE g # h
      <4>1. handle'[g] = handle[g] /\ Live(g)
        BY <3>2, <1>6 DEF Live
      <4>2. entries[handle[g].reg].addr = g
        BY <4>1 DEF Sound, PointersSound
      <4>3. handle[g].reg # r
        BY <4>2, <1>1, NoneAssumption
      <4> QED
        BY <4>1, <4>2, <4>3, <1>7
    <3> QED
      BY <3>1, <3>2
  <2> QED
    BY <2>1, <2>2, <1>7 DEF PointersSound, Live
<1>12. IdentitiesUnique'
  BY <1>7, <1>8 DEF Sound, IdentitiesUnique
<1>13. StatesAgree'
  BY <1>2, <1>5, <1>6, <1>7, <1>8, <1>10 DEF Sound, StatesAgree
<1>14. IdsAllocated'
  BY <1>2, <1>3, <1>5, <1>6, <1>7 DEF Sound, IdsAllocated, Live
<1> QED
  BY <1>9, <1>11, <1>12, <1>13, <1>14 DEF Sound

(* A handle takes a new value and its entry the state of that.               *)
LEMMA HandleRestated ==
    ASSUME Sound, NEW h \in Handles, Live(h), NEW new \in Handle,
           new.reg = handle[h].reg,
           handle' = [handle EXCEPT ![h] = new],
           nextId' = nextId, deadUse' = deadUse, Registered' = Registered,
           \A q \in Registered : q # handle[h].reg => entries'[q] = entries[q],
           handle[h].reg \in Registered =>
               /\ entries'[handle[h].reg] \in Entry
               /\ entries'[handle[h].reg].addr = entries[handle[h].reg].addr
               /\ entries'[handle[h].reg].state = new.state
               /\ \/ entries'[handle[h].reg].id = entries[handle[h].reg].id
                  \/ \E k \in Keys : /\ entries'[handle[h].reg].id = Simple(k)
                                     /\ IdentityFits(handle[h].reg, k)
    PROVE  Sound'
<1>1. /\ handle'[h] = new /\ \A g \in Handles : g # h => handle'[g] = handle[g]
      /\ handle' \in [Handles -> Handle \cup {None}]
  BY DEF Sound, RegistryTyped
<1>2. new # None
  BY NoneAssumption
<1>3. \A g \in Handles : Live(g)' <=> Live(g)
  BY <1>1, <1>2 DEF Live
<1>4. \A g \in Handles : Live(g) => handle'[g].reg = handle[g].reg
  BY <1>1
<1>5. \A g \in Handles : Live(g) /\ handle[g].reg = handle[h].reg
          /\ handle[h].reg \in Registered => g = h
  BY DEF Sound, PointersSound
<1>6. \A g \in Handles : Live(g) /\ handle[g].reg \in Registered
          /\ handle[g].reg # handle[h].reg => handle'[g].state = handle[g].state
  BY <1>1
<1>7. \A g \in Handles : Live(g) /\ handle[g].reg = handle[h].reg
          /\ handle[h].reg \in Registered => handle'[g].state = entries'[handle[h].reg].state
  BY <1>1, <1>5
<1> QED
  BY <1>1, <1>3, <1>4, <1>6, <1>7, Restated

(* A state set through the handle is set in the entry too.                   *)
LEMMA SetStateKeeps ==
    ASSUME Sound, NEW h \in Handles, Live(h), NEW s \in States, SetState(h, s),
           nextId' = nextId, deadUse' = deadUse
    PROVE  Sound'
<1> DEFINE new == [handle[h] EXCEPT !.state = s]
           r == handle[h].reg
<1>1. handle[h] \in Handle
  BY HandleFields DEF Sound
<1>2. new \in Handle /\ new.reg = r /\ new.state = s
  BY <1>1 DEF Handle
<1>3. handle' = [handle EXCEPT ![h] = new]
  BY DEF SetState
<1>4. Registered' = Registered /\ \A q \in Registered : q # r => entries'[q] = entries[q]
  BY DEF SetState, Registered
<1>5. r \in Registered => /\ entries'[r] \in Entry /\ entries'[r].addr = entries[r].addr
                          /\ entries'[r].state = s /\ entries'[r].id = entries[r].id
  <2>1. r \in Registered => entries[r] \in Entry
    BY EntryFields DEF Sound
  <2> QED
    BY <2>1 DEF SetState, Entry, Registered
<1> HIDE DEF new
<1> QED
  BY <1>2, <1>3, <1>4, <1>5, HandleRestated

(* An edit through the handle changes its current value and, from Unchanged, *)
(* the state on both sides.                                                  *)
LEMMA MutateKeeps ==
    ASSUME Sound, NEW h \in Handles, NEW v \in Values, Mutate(h, v)
    PROVE  Sound'
<1> DEFINE s == IF handle[h].state = "Unchanged" THEN "Modified" ELSE handle[h].state
           new == [handle[h] EXCEPT !.state = s, !.cur.val = v]
           r == handle[h].reg
<1>1. Live(h) /\ nextId' = nextId /\ deadUse' = deadUse
  BY DEF Mutate, NoQuery
<1>2. handle[h] \in Handle /\ handle[h].state \in States /\ handle[h].cur \in Entity
  BY <1>1, HandleFields DEF Sound
<1>3. s \in States
  BY <1>2 DEF States, Pending
<1>4. new \in Handle /\ new.reg = r /\ new.state = s
  BY <1>2, <1>3 DEF Handle, Entity
<1>5. handle' = [handle EXCEPT ![h] = new]
  BY DEF Mutate
<1>6. Registered' = Registered /\ \A q \in Registered : q # r => entries'[q] = entries[q]
  BY DEF Mutate, Registered
<1>7. r \in Registered => /\ entries'[r] \in Entry /\ entries'[r].addr = entries[r].addr
                          /\ entries'[r].state = s /\ entries'[r].id = entries[r].id
  <2>1. r \in Registered => entries[r] \in Entry
    BY EntryFields DEF Sound
  <2>2. r \in Registered => entries' = [entries EXCEPT ![r].state = s]
    BY DEF Mutate
  <2> HIDE DEF s
  <2> QED
    BY <1>3, <2>1, <2>2 DEF Entry, Registered
<1> HIDE DEF new, s
<1> QED
  BY <1>1, <1>4, <1>5, <1>6, <1>7, HandleRestated

(* mark_unchanged accepts the current value as the original on both sides    *)
(* and leaves the entry's identity.                                          *)
LEMMA MarkUnchangedKeeps ==
    ASSUME Sound, NEW h \in Handles, MarkUnchanged(h)
    PROVE  Sound'
<1> DEFINE c == handle[h].cur
           new == [handle[h] EXCEPT !.orig = c, !.state = "Unchanged"]
           r == handle[h].reg
<1>1. Live(h) /\ nextId' = nextId /\ deadUse' = deadUse
  BY DEF MarkUnchanged, NoQuery
<1>2. handle[h] \in Handle /\ c \in Entity /\ "Unchanged" \in States
  BY <1>1, HandleFields DEF Sound, States
<1>3. new \in Handle /\ new.reg = r /\ new.state = "Unchanged"
  BY <1>2 DEF Handle
<1>4. handle' = [handle EXCEPT ![h] = new]
  BY DEF MarkUnchanged
<1>5. Registered' = Registered /\ \A q \in Registered : q # r => entries'[q] = entries[q]
  BY DEF MarkUnchanged, Registered
<1>6. r \in Registered => /\ entries'[r] \in Entry /\ entries'[r].addr = entries[r].addr
                          /\ entries'[r].state = "Unchanged" /\ entries'[r].id = entries[r].id
  <2>1. r \in Registered => entries[r] \in Entry
    BY EntryFields DEF Sound
  <2>2. r \in Registered => entries' =
            [entries EXCEPT ![r].orig = c, ![r].cur = c, ![r].state = "Unchanged"]
    BY DEF MarkUnchanged
  <2>3. r \in Registered =>
            entries'[r] = [entries[r] EXCEPT !.orig = c, !.cur = c, !.state = "Unchanged"]
    BY <2>2 DEF Registered
  <2> HIDE DEF c, r, new
  <2> QED
    BY <1>2, <2>1, <2>3 DEF Entry
<1> HIDE DEF new
<1> QED
  BY <1>1, <1>3, <1>4, <1>5, <1>6, HandleRestated

(* An ActiveRecord save through a tracked handle marks both sides Unchanged, *)
(* and re-keys the entry only when no other entry has that identity.         *)
LEMMA SaveNowKeeps ==
    ASSUME Sound, NEW h \in Handles, SaveNow(h)
    PROVE  Sound'
<1> DEFINE c == handle[h].cur
           new == [handle[h] EXCEPT !.orig = c, !.state = "Unchanged"]
           r == handle[h].reg
           id == IF IdentityFits(r, c.key) THEN Simple(c.key) ELSE entries[r].id
<1>1. Live(h) /\ nextId' = nextId /\ deadUse' = deadUse
  BY DEF SaveNow
<1>2. handle[h] \in Handle /\ c \in Entity /\ c.key \in Keys /\ "Unchanged" \in States
  BY <1>1, HandleFields DEF Sound, States, Entity
<1>3. new \in Handle /\ new.reg = r /\ new.state = "Unchanged"
  BY <1>2 DEF Handle
<1>4. handle' = [handle EXCEPT ![h] = new]
  BY DEF SaveNow
<1>5. Registered' = Registered /\ \A q \in Registered : q # r => entries'[q] = entries[q]
  BY DEF SaveNow, Registered
<1>6. r \in Registered => /\ entries'[r] \in Entry /\ entries'[r].addr = entries[r].addr
                          /\ entries'[r].state = "Unchanged" /\ entries'[r].id = id
  <2>1. r \in Registered => entries[r] \in Entry /\ entries[r].id \in Identity
    BY EntryFields DEF Sound
  <2>2. r \in Registered => entries' = [entries EXCEPT ![r].state = "Unchanged", ![r].id = id]
    BY <2>1 DEF SaveNow, Entry
  <2>3. r \in Registered => id \in Identity
    BY <1>2, <2>1 DEF Identity, Simple
  <2> HIDE DEF id
  <2>4. r \in Registered =>
            entries'[r] = [entries[r] EXCEPT !.state = "Unchanged", !.id = id]
    BY <2>2 DEF Registered
  <2> HIDE DEF c, r, new
  <2> QED
    BY <1>2, <2>1, <2>3, <2>4 DEF Entry
<1>7. id = entries[r].id \/ (id = Simple(c.key) /\ IdentityFits(r, c.key))
  OBVIOUS
<1> HIDE DEF new, id
<1> QED
  BY <1>1, <1>2, <1>3, <1>4, <1>5, <1>6, <1>7, HandleRestated

(* Detaching takes the entry out of the registry and the handle's number     *)
(* away.                                                                     *)
LEMMA DetachWithKeeps ==
    ASSUME Sound, NEW h \in Handles, Live(h), NEW s \in States, DetachWith(h, s),
           nextId' = nextId, deadUse' = deadUse
    PROVE  Sound'
<1> DEFINE new == [handle[h] EXCEPT !.state = s, !.reg = 0]
<1>1. handle[h] \in Handle
  BY HandleFields DEF Sound
<1>2. new \in Handle /\ new.reg = 0
  <2>1. 0 \in 0..MaxRegistrations
    BY BoundAssumption
  <2> QED
    BY <1>1, <2>1 DEF Handle
<1>3. handle' = [handle EXCEPT ![h] = new]
  BY DEF DetachWith
<1> HIDE DEF new
<1>4. /\ handle' \in [Handles -> Handle \cup {None}]
      /\ handle'[h].reg = 0 /\ \A g \in Handles : g # h => handle'[g] = handle[g]
  BY <1>2, <1>3 DEF Sound, RegistryTyped
<1>5. /\ Registered' = Registered \ {handle[h].reg}
      /\ \A q \in Registered' : entries'[q] = entries[q]
  BY DEF DetachWith, WithoutEntry, Registered
<1> QED
  BY <1>4, <1>5, Forgotten

(* mark_deleted detaches an Added handle and marks any other.                *)
LEMMA MarkDeletedKeeps ==
    ASSUME Sound, NEW h \in Handles, MarkDeleted(h)
    PROVE  Sound'
<1>1. "Deleted" \in States /\ Live(h) /\ nextId' = nextId /\ deadUse' = deadUse
  BY DEF States, Pending, MarkDeleted, NoQuery
<1> QED
  BY <1>1, DetachWithKeeps, SetStateKeeps DEF MarkDeleted

(* detach is the unregistration with the state it sets.                      *)
LEMMA DetachKeeps ==
    ASSUME Sound, NEW h \in Handles, Detach(h)
    PROVE  Sound'
<1>1. Live(h) /\ nextId' = nextId /\ deadUse' = deadUse
  BY DEF Detach, NoQuery
<1>2. handle[h].state \in States
  BY <1>1, HandleFields DEF Sound
<1> QED
  BY <1>1, <1>2, DetachWithKeeps DEF Detach

(* An ActiveRecord delete through a tracked handle detaches it.              *)
LEMMA DeleteNowKeeps ==
    ASSUME Sound, NEW h \in Handles, DeleteNow(h)
    PROVE  Sound'
<1>1. "Deleted" \in States /\ Live(h) /\ nextId' = nextId /\ deadUse' = deadUse
  BY DEF States, Pending, DeleteNow
<1> QED
  BY <1>1, DetachWithKeeps DEF DeleteNow

(* Drop of a handle: an entry that owes no write goes with it; one that owes *)
(* a write keeps the handle's snapshots and no address.                      *)
LEMMA DropKeeps ==
    ASSUME Sound, NEW h \in Handles, Drop(h)
    PROVE  Sound'
<1> DEFINE r == handle[h].reg
<1>1. /\ handle' = [handle EXCEPT ![h] = None] /\ Live(h) /\ nextId' = nextId
      /\ deadUse' = deadUse /\ handle[h].state \in States
  BY HandleFields DEF Drop, NoQuery, Sound
<1>2. /\ handle' \in [Handles -> Handle \cup {None}]
      /\ handle'[h] = None /\ \A g \in Handles : g # h => handle'[g] = handle[g]
  BY <1>1 DEF Sound, RegistryTyped
<1>3. CASE r \notin Registered
  <2>1. entries' = entries
    BY <1>3 DEF Drop
  <2>2. Registered' = Registered
    BY <2>1 DEF Registered
  <2> QED
    BY <1>1, <1>2, <1>3, <2>1, <2>2, Forgotten
<1>4. CASE r \in Registered /\ handle[h].state \notin Pending
  <2>1. entries' = WithoutEntry(r)
    BY <1>4 DEF Drop
  <2>2. Registered' = Registered \ {r} /\ \A q \in Registered' : entries'[q] = entries[q]
    BY <2>1 DEF WithoutEntry, Registered
  <2> QED
    BY <1>1, <1>2, <2>2, Forgotten
<1>5. CASE r \in Registered /\ handle[h].state \in Pending
  <2>1. entries' = [entries EXCEPT ![r].cur = CurrentOf(r), ![r].addr = None]
    BY <1>5 DEF Drop
  <2>2. entries'[r] = [entries[r] EXCEPT !.cur = CurrentOf(r), !.addr = None]
    BY <1>5, <2>1 DEF Registered
  <2>2a. Registered' = Registered /\ \A q \in Registered : q # r => entries'[q] = entries[q]
    BY <2>1 DEF Registered
  <2>3. entries[r] \in Entry /\ CurrentOf(r) \in Entity /\ entries[r].addr = h
    BY <1>1, <1>5, EntryFields, CurrentTyped DEF Sound, PointersSound
  <2>4. /\ entries'[r] \in Entry /\ entries'[r].addr = None
        /\ entries'[r].id = entries[r].id /\ entries'[r].state = entries[r].state
    <3> HIDE DEF r
    <3> QED
      BY <2>2, <2>3 DEF Entry
  <2>5. RegistryTyped'
    BY <1>1, <1>2, <2>2a, <2>4 DEF Sound, RegistryTyped
  <2>6. \A q \in Registered : q # r /\ entries[q].addr # None =>
            /\ entries[q].addr \in Handles /\ entries[q].addr # h
            /\ Live(entries[q].addr) /\ handle[entries[q].addr].reg = q
    BY EntryFields DEF Sound, PointersSound
  <2>7. \A g \in Handles : g # h /\ Live(g) /\ handle[g].reg \in Registered =>
            handle[g].reg # r
    BY <2>3 DEF Sound, PointersSound
  <2>8. PointersSound'
    BY <1>2, <2>2a, <2>4, <2>6, <2>7 DEF Sound, PointersSound, Live
  <2>9. IdentitiesUnique'
    BY <2>2a, <2>4 DEF Sound, IdentitiesUnique
  <2>10. StatesAgree'
    BY <1>1, <1>2, <2>2a, <2>4, <2>6 DEF Sound, StatesAgree
  <2>11. IdsAllocated'
    BY <1>1, <1>2, <2>2a DEF Sound, IdsAllocated, Live
  <2> QED
    BY <2>5, <2>8, <2>9, <2>10, <2>11 DEF Sound
<1> QED
  BY <1>3, <1>4, <1>5

(* clear forgets every entry; the handles keep their numbers, which no entry *)
(* has any more.                                                             *)
LEMMA ClearKeeps == Sound /\ Clear => Sound'
<1> SUFFICES ASSUME Sound, Clear PROVE Sound'
  OBVIOUS
<1>1. Registered' = {} /\ handle' = handle /\ nextId' = nextId /\ deadUse' = deadUse
  BY DEF Clear, NoQuery, Registered
<1>2. handle' \in [Handles -> Handle \cup {None}]
  BY <1>1 DEF Sound, RegistryTyped
<1> QED
  BY <1>1, <1>2, Forgotten

-----------------------------------------------------------------------------
(* save_changes                                                              *)

(* What is written through a listed address keeps a handle's registration    *)
(* and leaves it Unchanged; the entry's own handle takes the same state,     *)
(* whether or not it lives at the address that was listed.                   *)
LEMMA WriteKeeps ==
    ASSUME Sound, RestTyped, NEW t \in Item, NEW written, WriteThrough(t, written),
           Held(t) => /\ written \in Handle /\ written.reg = handle[t.addr].reg
                      /\ written.state = "Unchanged",
           ~deadUse' => ~deadUse /\ ~DeadWrite(t),
           nextId' = nextId, Registered' = Registered,
           \A q \in Registered : q # t.reg => entries'[q] = entries[q],
           t.reg \in Registered =>
               /\ entries'[t.reg] \in Entry
               /\ entries'[t.reg].addr = entries[t.reg].addr
               /\ entries'[t.reg].state = "Unchanged"
               /\ \/ entries'[t.reg].id = entries[t.reg].id
                  \/ \E k \in Keys : /\ entries'[t.reg].id = Simple(k)
                                     /\ IdentityFits(t.reg, k)
    PROVE  Sound'
<1>1. "Unchanged" \in States
  BY DEF States
<1>2. ASSUME NEW h \in Handles
      PROVE  /\ handle'[h] \in Handle \cup {None}
             /\ Live(h)' <=> Live(h)
             /\ Live(h) => handle'[h].reg = handle[h].reg
             /\ \/ handle'[h] = handle[h]
                \/ /\ Attached(t.reg) /\ handle'[h].state = "Unchanged"
                   /\ \/ h = t.addr /\ Held(t)
                      \/ h = entries[t.reg].addr
  <2> DEFINE restated == [handle[h] EXCEPT !.state = "Unchanged"]
  <2>1. Live(h) => /\ restated \in Handle /\ restated.reg = handle[h].reg
                   /\ restated.state = "Unchanged"
    <3>1. Live(h) => handle[h] \in Handle
      BY HandleFields DEF Sound
    <3> QED
      BY <1>1, <3>1 DEF Handle
  <2>2. handle'[h] = CASE Attached(t.reg) /\ h = t.addr /\ Held(t) -> written
                       [] Attached(t.reg) /\ h = entries[t.reg].addr /\ h # t.addr -> restated
                       [] OTHER -> handle[h]
    BY DEF WriteThrough
  <2> HIDE DEF restated
  <2>3. CASE Attached(t.reg) /\ h = t.addr /\ Held(t)
    <3>1. Live(h) /\ handle'[h] = written
      BY <2>2, <2>3 DEF Held
    <3> QED
      BY <2>3, <3>1, NoneAssumption DEF Live
  <2>4. CASE Attached(t.reg) /\ h = entries[t.reg].addr /\ h # t.addr
    <3>1. handle'[h] = restated
      BY <2>2, <2>4
    <3>2. Live(h)
      BY <2>4 DEF Attached, Sound, PointersSound
    <3> QED
      BY <2>1, <2>4, <3>1, <3>2, NoneAssumption DEF Live
  <2>5. CASE /\ ~(Attached(t.reg) /\ h = t.addr /\ Held(t))
             /\ ~(Attached(t.reg) /\ h = entries[t.reg].addr /\ h # t.addr)
    <3>1. handle'[h] = handle[h]
      BY <2>2, <2>5
    <3> QED
      BY <3>1 DEF Sound, RegistryTyped, Live
  <2> QED
    BY <2>3, <2>4, <2>5
<1>3. handle' \in [Handles -> Handle \cup {None}]
  <2>1. handle' = [h \in Handles |-> handle'[h]]
    BY DEF WriteThrough
  <2> QED
    BY <2>1, <1>2
<1>5. ~deadUse' => \A h \in Handles :
          Live(h) /\ handle[h].reg \in Registered /\ handle[h].reg # t.reg
              => handle'[h].state = handle[h].state
  <2> SUFFICES ASSUME ~deadUse', NEW h \in Handles, Live(h), handle[h].reg \in Registered,
                      handle[h].reg # t.reg, handle'[h] # handle[h]
               PROVE  FALSE
    OBVIOUS
  <2>1. Attached(t.reg) /\ ((h = t.addr /\ Held(t)) \/ h = entries[t.reg].addr)
    BY <1>2
  <2>2. handle[h].reg # 0
    BY EntryFields DEF Sound
  <2>3. h # t.addr
    BY <2>1, <2>2 DEF DeadWrite, SameHandle
  <2>4. handle[h].reg = t.reg
    BY <2>1, <2>3 DEF Attached, Sound, PointersSound
  <2> QED
    BY <2>4
<1>6. \A h \in Handles : Live(h) /\ handle[h].reg = t.reg /\ t.reg \in Registered
          => handle'[h].state = entries'[t.reg].state
  <2> SUFFICES ASSUME NEW h \in Handles, Live(h), handle[h].reg = t.reg, t.reg \in Registered
               PROVE  handle'[h].state = "Unchanged"
    OBVIOUS
  <2>1. entries[t.reg].addr = h
    BY DEF Sound, PointersSound
  <2>2. Attached(t.reg)
    BY <2>1, NoneAssumption DEF Attached
  <2>3. CASE h = t.addr
    <3>1. Held(t)
      BY <2>3 DEF Held
    <3>2. handle'[h] = written
      BY <2>2, <2>3, <3>1 DEF WriteThrough
    <3> QED
      BY <3>1, <3>2
  <2>4. CASE h # t.addr
    <3>1. handle'[h] = [handle[h] EXCEPT !.state = "Unchanged"]
      BY <2>1, <2>2, <2>4 DEF WriteThrough
    <3>2. handle[h] \in Handle
      BY HandleFields DEF Sound
    <3> QED
      BY <3>1, <3>2 DEF Handle
  <2> QED
    BY <2>3, <2>4
<1> QED
  BY <1>2, <1>3, <1>5, <1>6, Restated

(* sync_persisted writes an Unchanged handle of the registration it finds.   *)
LEMMA AcceptWrites ==
    ASSUME Sound, RestTyped, NEW t \in Item, NEW entity \in Entity, Accept(t, entity)
    PROVE  \E written :
               /\ WriteThrough(t, written)
               /\ Held(t) => /\ written \in Handle /\ written.reg = handle[t.addr].reg
                             /\ written.state = "Unchanged"
               /\ ~deadUse' => ~deadUse /\ ~DeadWrite(t)
<1> DEFINE written == [handle[t.addr] EXCEPT
                          !.orig = entity, !.cur = entity, !.state = "Unchanged"]
<1>1. Held(t) => handle[t.addr] \in Handle /\ "Unchanged" \in States
  BY HandleFields DEF Sound, Held, States
<1>2. Held(t) => /\ written \in Handle /\ written.reg = handle[t.addr].reg
                 /\ written.state = "Unchanged"
  BY <1>1 DEF Handle
<1>3. WriteThrough(t, written) /\ deadUse' = (deadUse \/ DeadWrite(t))
  BY DEF Accept
<1> HIDE DEF written
<1>4. ~deadUse' => ~deadUse /\ ~DeadWrite(t)
  BY <1>3
<1> QED
  BY <1>2, <1>3, <1>4

(* accept_current does the same.                                             *)
LEMMA AcceptCurrentWrites ==
    ASSUME Sound, RestTyped, NEW t \in Item, EntityOf(t) \in Entity, AcceptCurrent(t)
    PROVE  \E written :
               /\ WriteThrough(t, written)
               /\ Held(t) => /\ written \in Handle /\ written.reg = handle[t.addr].reg
                             /\ written.state = "Unchanged"
               /\ ~deadUse' => ~deadUse /\ ~DeadWrite(t)
<1> DEFINE entity == EntityOf(t)
           written == [handle[t.addr] EXCEPT !.orig = entity, !.state = "Unchanged"]
<1>3. WriteThrough(t, written) /\ deadUse' = (deadUse \/ DeadWrite(t) \/ Misread(t))
  BY DEF AcceptCurrent
<1> HIDE DEF entity
<1>1. Held(t) => handle[t.addr] \in Handle /\ "Unchanged" \in States
  BY HandleFields DEF Sound, Held, States
<1>2. Held(t) => /\ written \in Handle /\ written.reg = handle[t.addr].reg
                 /\ written.state = "Unchanged"
  <2>1. entity \in Entity
    BY DEF entity
  <2> QED
    BY <1>1, <2>1 DEF Handle
<1> HIDE DEF written
<1>4. ~deadUse' => ~deadUse /\ ~DeadWrite(t)
  BY <1>3
<1> QED
  BY <1>2, <1>3, <1>4

(* What a settled entry is.                                                  *)
LEMMA SettledEntry ==
    ASSUME RegistryTyped, NEW t \in Item, NEW entity \in Entity, entries' = Settled(t, entity)
    PROVE  /\ Registered' = Registered
           /\ \A q \in Registered : q # t.reg => entries'[q] = entries[q]
           /\ t.reg \in Registered =>
                  /\ entries'[t.reg] \in Entry /\ entries'[t.reg].state = "Unchanged"
                  /\ entries'[t.reg].addr = entries[t.reg].addr
                  /\ entries'[t.reg].id = entries[t.reg].id
                  /\ entries'[t.reg].orig = entity /\ entries'[t.reg].cur = entity
<1> DEFINE r == t.reg
<1>1. r \in Registered => entries[r] \in Entry /\ "Unchanged" \in States
  BY EntryFields DEF States
<1>2. /\ Registered' = Registered /\ \A q \in Registered : q # r => entries'[q] = entries[q]
      /\ r \in Registered => entries'[r] =
             [entries[r] EXCEPT !.orig = entity, !.cur = entity, !.state = "Unchanged"]
  BY DEF Settled, Registered
<1> HIDE DEF r
<1>3. r \in Registered =>
          /\ entries'[r] \in Entry /\ entries'[r].state = "Unchanged"
          /\ entries'[r].addr = entries[r].addr /\ entries'[r].id = entries[r].id
          /\ entries'[r].orig = entity /\ entries'[r].cur = entity
  BY <1>1, <1>2 DEF Entry
<1> QED
  BY <1>2, <1>3 DEF r

(* What is read of a listed entity that can be read.                         *)
LEMMA ReadTyped ==
    ASSUME Sound, NEW t, Readable(t)
    PROVE  EntityOf(t) \in Entity /\ OriginalOf(t) \in Entity
<1>1. CASE t.reg \in Registered
  BY <1>1, EntryFields, CurrentTyped DEF EntityOf, OriginalOf, Sound
<1>2. CASE t.reg \notin Registered
  <2>1. t.addr \in Handles /\ Live(t.addr)
    BY <1>2 DEF Readable, Held
  <2> QED
    BY <1>2, <2>1, HandleFields DEF EntityOf, OriginalOf, Sound
<1> QED
  BY <1>1, <1>2

(* The work list and the awaited value are typed.                            *)
LEMMA SaveFields ==
    ASSUME RestTyped
    PROVE  /\ save.todo \subseteq Item /\ save.phase \in 0..3
           /\ save.item \in Entity \cup {None}
  BY DEF RestTyped

(* save_changes on an entry that turned out not to differ.                   *)
LEMMA AcceptUnchangedKeeps ==
    ASSUME Sound, RestTyped, NEW t \in save.todo, AcceptUnchanged(t)
    PROVE  Sound'
<1>1. t \in Item /\ EntityOf(t) \in Entity
  BY SaveFields, ReadTyped DEF AcceptUnchanged
<1> QED
  BY <1>1, SettledEntry, AcceptCurrentWrites, WriteKeeps DEF AcceptUnchanged, Sound

(* save_changes after the UPDATE of an entry.                                *)
LEMMA UpdatedKeeps ==
    ASSUME Sound, RestTyped, NEW t \in save.todo, Updated(t)
    PROVE  Sound'
<1>1. t \in Item /\ save.item \in Entity
  BY SaveFields DEF Updated, Awaiting
<1> QED
  BY <1>1, SettledEntry, AcceptWrites, WriteKeeps DEF Updated, Sound

(* save_changes after an INSERT that finds the key taken by another entry:   *)
(* the entry is settled under its temporary identity and the save fails.     *)
LEMMA InsertedUnidentifiedKeeps ==
    ASSUME Sound, RestTyped, NEW t \in save.todo, InsertedUnidentified(t)
    PROVE  Sound'
<1>1. t \in Item /\ save.item \in Entity
  BY SaveFields DEF InsertedUnidentified, Awaiting
<1> QED
  BY <1>1, SettledEntry, AcceptWrites, WriteKeeps DEF InsertedUnidentified, Sound

(* An inserted entry settles and gets its key as its identity.               *)
LEMMA InsertedEntry ==
    ASSUME RegistryTyped, NEW t \in Item, NEW entity \in Entity, t.reg \in Registered,
           entries' = [Settled(t, entity) EXCEPT ![t.reg].id = Simple(entity.key)]
    PROVE  /\ Registered' = Registered
           /\ \A q \in Registered : q # t.reg => entries'[q] = entries[q]
           /\ entries'[t.reg] \in Entry /\ entries'[t.reg].state = "Unchanged"
           /\ entries'[t.reg].addr = entries[t.reg].addr
           /\ entries'[t.reg].id = Simple(entity.key)
           /\ entries'[t.reg].orig = entity /\ entries'[t.reg].cur = entity
<1> DEFINE r == t.reg
           id == Simple(entity.key)
           mid == [entries[r] EXCEPT !.orig = entity, !.cur = entity, !.state = "Unchanged"]
<1>1. entries[r] \in Entry /\ "Unchanged" \in States /\ id \in Identity
  BY EntryFields DEF States, Identity, Simple, Entity
<1>2. /\ Registered' = Registered /\ \A q \in Registered : q # r => entries'[q] = entries[q]
      /\ entries'[r] = [mid EXCEPT !.id = id]
  BY DEF Settled, Registered
<1> HIDE DEF r, id
<1>2a. /\ mid \in Entry /\ mid.state = "Unchanged" /\ mid.addr = entries[r].addr
       /\ mid.orig = entity /\ mid.cur = entity
  BY <1>1 DEF Entry
<1> HIDE DEF mid
<1>3. /\ entries'[r] \in Entry /\ entries'[r].state = "Unchanged"
      /\ entries'[r].addr = entries[r].addr /\ entries'[r].id = id
      /\ entries'[r].orig = entity /\ entries'[r].cur = entity
  BY <1>1, <1>2, <1>2a DEF Entry
<1> QED
  BY <1>2, <1>3 DEF r, id

(* save_changes after an INSERT: the temporary identity gives way to the     *)
(* key, which no other entry has.                                            *)
LEMMA InsertedKeeps ==
    ASSUME Sound, RestTyped, NEW t \in save.todo, Inserted(t)
    PROVE  Sound'
<1>1. t \in Item /\ save.item \in Entity /\ t.reg \in Registered /\ save.item.key \in Keys
  BY SaveFields DEF Inserted, Awaiting, IdentityFits, Entity
<1> QED
  BY <1>1, InsertedEntry, AcceptWrites, WriteKeeps DEF Inserted, Sound

(* save_changes after a DELETE: the entry leaves and its handle is detached. *)
LEMMA DeletedKeeps ==
    ASSUME Sound, NEW t \in save.todo, Deleted(t)
    PROVE  Sound'
<1>1. /\ Registered' = Registered \ {t.reg} /\ \A q \in Registered' : entries'[q] = entries[q]
      /\ handle' = handle /\ nextId' = nextId /\ deadUse' = deadUse
  BY DEF Deleted, WithoutEntry, Registered
<1>2. handle' \in [Handles -> Handle \cup {None}]
  BY <1>1 DEF Sound, RegistryTyped
<1> QED
  BY <1>1, <1>2, Forgotten

(* Every other step leaves the registry and the handles alone.               *)
LEMMA UntouchedKeeps ==
    ASSUME Sound, UNCHANGED <<handle, entries, nextId>>, ~deadUse' => ~deadUse
    PROVE  Sound'
  BY DEF Sound, RegistryTyped, PointersSound, IdentitiesUnique, StatesAgree, IdsAllocated,
         Registered, Live

-----------------------------------------------------------------------------
(* The connection and the running save_changes stay typed.                   *)

(* save_changes only ever lists typed items.                                 *)
LEMMA ListedTyped == Sound => Listed \subseteq Item
<1> SUFFICES ASSUME Sound, NEW r \in Registered
             PROVE  [reg |-> r, addr |-> entries[r].addr] \in Item
  BY DEF Listed
<1>1. r \in 1..MaxRegistrations /\ entries[r].addr \in Handles \cup {None}
  BY EntryFields DEF Sound
<1> QED
  BY <1>1 DEF Item

(* The ways a step may change save.                                          *)
LEMMA SaveTyped ==
    ASSUME RestTyped
    PROVE  /\ Idle \in [phase : 0..3, todo : SUBSET Item, item : Entity \cup {None}]
           /\ \A t : ItemDone(t) =>
                  save' \in [phase : 0..3, todo : SUBSET Item, item : Entity \cup {None}]
           /\ \A p \in 0..3, S \in SUBSET Item :
                  /\ [save EXCEPT !.phase = p, !.todo = S]
                        \in [phase : 0..3, todo : SUBSET Item, item : Entity \cup {None}]
                  /\ [phase |-> p, todo |-> S, item |-> None]
                        \in [phase : 0..3, todo : SUBSET Item, item : Entity \cup {None}]
           /\ \A e \in Entity : [save EXCEPT !.item = e]
                  \in [phase : 0..3, todo : SUBSET Item, item : Entity \cup {None}]
<1>1. save \in [phase : 0..3, todo : SUBSET Item, item : Entity \cup {None}]
  BY DEF RestTyped
<1>2. \A t : ItemDone(t) =>
          save' \in [phase : 0..3, todo : SUBSET Item, item : Entity \cup {None}]
  BY <1>1 DEF ItemDone
<1>3. Idle \in [phase : 0..3, todo : SUBSET Item, item : Entity \cup {None}]
  BY DEF Idle
<1> QED
  BY <1>1, <1>2, <1>3

(* A row takes a value of the column, or goes.                               *)
LEMMA RowsTyped ==
    ASSUME RestTyped, NEW k \in Keys, NEW v \in Values \cup {None}
    PROVE  [rows EXCEPT ![k] = v] \in [Keys -> Values \cup {None}]
  BY DEF RestTyped

(* A failed save leaves the table as it is or as it was.                     *)
LEMMA FailTyped ==
    ASSUME RestTyped, NEW view \in [Keys -> Values \cup {None}], Fail(view), deadUse' \in BOOLEAN
    PROVE  RestTyped'
<1>1. save' \in [phase : 0..3, todo : SUBSET Item, item : Entity \cup {None}]
  BY SaveTyped DEF Fail
<1> QED
  BY <1>1 DEF RestTyped, Fail, Item

(* A call on a handle leaves the rows, the transaction and the save typed.   *)
LEMMA HandleStepTyped ==
    ASSUME Sound, RestTyped, HandleStep
    PROVE  RestTyped'
<1>1. PICK h \in Handles :
          \/ \E k \in Keys : FindLoads(h, k) \/ FindReattaches(h, k)
          \/ \E e \in Entity : Add(h, e)
          \/ \E v \in Values : Mutate(h, v)
          \/ MarkDeleted(h) \/ MarkUnchanged(h) \/ Detach(h) \/ Drop(h)
          \/ SaveNow(h) \/ DeleteNow(h)
  BY DEF HandleStep
<1>2. CASE NoQuery
  BY <1>2 DEF NoQuery, RestTyped, Item
<1>3. CASE SaveNow(h)
  <2>1. handle[h].cur \in Entity
    BY <1>3, HandleFields DEF SaveNow, Sound
  <2>2. handle[h].cur.key \in Keys /\ handle[h].cur.val \in Values
    BY <2>1 DEF Entity
  <2>3. rows' \in [Keys -> Values \cup {None}]
    BY <1>3, <2>2, RowsTyped DEF SaveNow
  <2> QED
    BY <1>3, <2>3 DEF SaveNow, RestTyped, Item
<1>4. CASE DeleteNow(h)
  <2>1. handle[h].cur \in Entity
    BY <1>4, HandleFields DEF DeleteNow, Sound
  <2>2. handle[h].cur.key \in Keys
    BY <2>1 DEF Entity
  <2>3. rows' \in [Keys -> Values \cup {None}]
    <3>1. rows \in [Keys -> Values \cup {None}]
      BY DEF RestTyped
    <3>2. rows' = rows \/ rows' = [rows EXCEPT ![handle[h].cur.key] = None]
      BY <1>4 DEF DeleteNow
    <3> QED
      BY <2>2, <3>1, <3>2, RowsTyped
  <2> QED
    BY <1>4, <2>3 DEF DeleteNow, RestTyped, Item
<1> QED
  BY <1>1, <1>2, <1>3, <1>4 DEF FindLoads, FindReattaches, Add, Mutate, MarkDeleted,
     MarkUnchanged, Detach, Drop

(* So do clear, the ends of a transaction and what other sessions write.     *)
LEMMA WorldTyped ==
    ASSUME RestTyped, Clear \/ BeginTransaction \/ EndTransaction \/ ExternalWrite
    PROVE  RestTyped'
<1>1. CASE Clear
  BY <1>1 DEF Clear, NoQuery, RestTyped, Item
<1>2. CASE BeginTransaction
  BY <1>2 DEF BeginTransaction, RestTyped, Item
<1>3. CASE EndTransaction
  BY <1>3 DEF EndTransaction, RestTyped, Item
<1>4. CASE ExternalWrite
  <2>1. rows' \in [Keys -> Values \cup {None}]
    BY <1>4, RowsTyped DEF ExternalWrite
  <2> QED
    BY <1>4, <2>1 DEF ExternalWrite, RestTyped, Item
<1> QED
  BY <1>1, <1>2, <1>3, <1>4

(* So does a step of save_changes.                                           *)
LEMMA SaveStepTyped ==
    ASSUME Sound, RestTyped, SaveStep
    PROVE  RestTyped'
<1>1. CASE StartSave
  <2>1. save' \in [phase : 0..3, todo : SUBSET Item, item : Entity \cup {None}]
    <3>1. save' = [phase |-> 1, todo |-> Listed, item |-> None]
      BY <1>1 DEF StartSave
    <3>2. 1 \in 0..3 /\ Listed \in SUBSET Item
      BY ListedTyped
    <3> QED
      BY <3>1, <3>2, SaveTyped
  <2> QED
    BY <1>1, <2>1 DEF StartSave, RestTyped, Item
<1>2. CASE NextPhase
  <2>1. save.phase + 1 \in 0..3
    BY <1>2, SaveFields DEF NextPhase, Phases
  <2>2. save' = [save EXCEPT !.phase = save.phase + 1, !.todo = Listed]
    BY <1>2 DEF NextPhase
  <2>3. save' \in [phase : 0..3, todo : SUBSET Item, item : Entity \cup {None}]
    BY <2>1, <2>2, SaveTyped, ListedTyped
  <2> QED
    BY <1>2, <2>3 DEF NextPhase, RestTyped, Item
<1>3. CASE FinishSave
  <2>1. save' \in [phase : 0..3, todo : SUBSET Item, item : Entity \cup {None}]
    BY <1>3, SaveTyped DEF FinishSave
  <2> QED
    BY <1>3, <2>1 DEF FinishSave, RestTyped, Item
<1>4. ASSUME NEW t \in save.todo, ItemStep(t)
      PROVE  RestTyped'
  <2>1. CASE Issue(t)
    <3>1. EntityOf(t) \in Entity
      BY <2>1, ReadTyped DEF Issue
    <3>2. save' \in [phase : 0..3, todo : SUBSET Item, item : Entity \cup {None}]
      BY <2>1, <3>1, SaveTyped DEF Issue
    <3>3. deadUse' \in BOOLEAN
      BY <2>1 DEF Issue, Read, RestTyped
    <3> QED
      BY <2>1, <3>2, <3>3 DEF Issue, RestTyped, Item
  <2>2. CASE ItemDone(t)
    <3>1. save' \in [phase : 0..3, todo : SUBSET Item, item : Entity \cup {None}]
      BY <2>2, SaveTyped
    <3>2. save.item # None => save.item.key \in Keys /\ save.item.val \in Values
      BY SaveFields DEF Entity
    <3>3. rows' \in [Keys -> Values \cup {None}]
      <4>1. CASE Inserted(t) \/ Updated(t)
        BY <4>1, <3>2, RowsTyped DEF Inserted, Updated, Awaiting, Written
      <4>2. CASE Deleted(t)
        BY <4>2, <3>2, RowsTyped DEF Deleted, Awaiting
      <4>3. CASE UNCHANGED rows
        BY <4>3 DEF RestTyped
      <4> QED
        BY <1>4, <4>1, <4>2, <4>3 DEF ItemStep, PassOver, ReadDead, AcceptUnchanged, Issue
    <3>4. deadUse' \in BOOLEAN
      <4>1. deadUse \in BOOLEAN
        BY DEF RestTyped
      <4> QED
        BY <1>4, <4>1 DEF ItemStep, PassOver, ReadDead, AcceptUnchanged, Issue, Inserted, Updated,
           Deleted, Accept, AcceptCurrent, Read
    <3>5. UNCHANGED <<backup, tx>>
      BY <1>4 DEF ItemStep, PassOver, ReadDead, AcceptUnchanged, Issue, Inserted, Updated, Deleted
    <3> QED
      BY <3>1, <3>3, <3>4, <3>5 DEF RestTyped, Item
  <2> QED
    BY <1>4, <2>1, <2>2 DEF ItemStep, PassOver, ReadDead, AcceptUnchanged, Inserted, Updated,
       Deleted
<1> QED
  BY <1>1, <1>2, <1>3, <1>4 DEF SaveStep

(* So does a failure of save_changes, which restores the rows it backed up.  *)
LEMMA SaveFailureTyped ==
    ASSUME RestTyped, SaveFailure
    PROVE  RestTyped'
<1>1. rows \in [Keys -> Values \cup {None}] /\ deadUse \in BOOLEAN
  BY DEF RestTyped
<1>2. CASE StatementFails \/ CommitFails
  <2>1. deadUse' \in BOOLEAN
    BY <1>1, <1>2 DEF StatementFails, CommitFails
  <2>2. CASE Fail(rows)
    BY <1>1, <2>1, <2>2, FailTyped
  <2>3. CASE save' = Idle /\ tx' = "none" /\ UNCHANGED <<rows, backup>>
    <3>1. save' \in [phase : 0..3, todo : SUBSET Item, item : Entity \cup {None}]
      BY <2>3, SaveTyped
    <3> QED
      BY <2>1, <2>3, <3>1 DEF RestTyped, Item
  <2> QED
    BY <1>2, <2>2, <2>3 DEF StatementFails, CommitFails
<1>3. ASSUME NEW t \in save.todo, InsertedUnidentified(t)
      PROVE  RestTyped'
  <2>1. save.item.key \in Keys /\ save.item.val \in Values
    BY <1>3, SaveFields DEF InsertedUnidentified, Awaiting, Entity
  <2>2. Written \in [Keys -> Values \cup {None}]
    BY <2>1, RowsTyped DEF Written
  <2>3. deadUse' \in BOOLEAN
    BY <1>1, <1>3 DEF InsertedUnidentified, Accept
  <2> QED
    BY <1>3, <2>2, <2>3, FailTyped DEF InsertedUnidentified
<1> QED
  BY <1>2, <1>3 DEF SaveFailure

-----------------------------------------------------------------------------
(* The registry starts empty.                                                *)
LEMMA InitSound == Init => Inv
<1> SUFFICES ASSUME Init PROVE Inv
  OBVIOUS
<1>1. Registered = {} /\ \A h \in Handles : ~Live(h)
  BY DEF Init, Registered, Live
<1>2. handle \in [Handles -> Handle \cup {None}]
  BY DEF Init
<1>3. nextId \in 1..MaxRegistrations + 1
  BY BoundAssumption DEF Init
<1>4. save \in [phase : 0..3, todo : SUBSET Item, item : Entity \cup {None}]
  BY DEF Init, Idle
<1>5. RegistryTyped
  BY <1>1, <1>2, <1>3 DEF RegistryTyped
<1>6. PointersSound /\ IdentitiesUnique /\ StatesAgree /\ IdsAllocated
  BY <1>1 DEF PointersSound, IdentitiesUnique, StatesAgree, IdsAllocated
<1>7. RestTyped
  BY <1>4 DEF RestTyped, Init
<1> QED
  BY <1>5, <1>6, <1>7 DEF Inv, Sound

(* One case for each action of Next.                                         *)
LEMMA NextKeeps ==
    ASSUME Inv, Next
    PROVE  Inv'
<1> USE DEF Inv
<1>1. CASE HandleStep
  <2>1. Sound'
    BY <1>1, FindLoadsKeeps, FindReattachesKeeps, AddKeeps, MutateKeeps, MarkDeletedKeeps,
       MarkUnchangedKeeps, DetachKeeps, DropKeeps, SaveNowKeeps, DeleteNowKeeps DEF HandleStep
  <2> QED
    BY <1>1, <2>1, HandleStepTyped
<1>2. CASE Clear
  BY <1>2, ClearKeeps, WorldTyped
<1>3. CASE BeginTransaction \/ EndTransaction \/ ExternalWrite
  <2>1. Sound'
    BY <1>3, UntouchedKeeps DEF BeginTransaction, EndTransaction, ExternalWrite
  <2> QED
    BY <1>3, <2>1, WorldTyped
<1>4. CASE SaveStep
  <2>1. CASE StartSave \/ NextPhase \/ FinishSave
             \/ \E t \in save.todo : PassOver(t) \/ ReadDead(t) \/ Issue(t)
    <3>1. ~deadUse' => ~deadUse
      BY <2>1 DEF StartSave, NextPhase, FinishSave, PassOver, ReadDead, Issue, Read
    <3>2. UNCHANGED <<handle, entries, nextId>>
      BY <2>1 DEF StartSave, NextPhase, FinishSave, PassOver, ReadDead, Issue
    <3> QED
      BY <1>4, <3>1, <3>2, UntouchedKeeps, SaveStepTyped
  <2>2. ASSUME NEW t \in save.todo,
               AcceptUnchanged(t) \/ Inserted(t) \/ Updated(t) \/ Deleted(t)
        PROVE  Sound'
    BY <2>2, AcceptUnchangedKeeps, InsertedKeeps, UpdatedKeeps, DeletedKeeps
  <2> QED
    BY <1>4, <2>1, <2>2, SaveStepTyped DEF SaveStep, ItemStep
<1>5. CASE SaveFailure
  <2>1. CASE StatementFails \/ CommitFails
    BY <1>5, <2>1, UntouchedKeeps, SaveFailureTyped DEF StatementFails, CommitFails
  <2>2. ASSUME NEW t \in save.todo, InsertedUnidentified(t)
        PROVE  Inv'
    BY <1>5, <2>2, InsertedUnidentifiedKeeps, SaveFailureTyped
  <2> QED
    BY <1>5, <2>1, <2>2 DEF SaveFailure
<1> QED
  BY <1>1, <1>2, <1>3, <1>4, <1>5 DEF Next

(* A step that changes nothing keeps Inv.                                    *)
LEMMA StutterKeeps ==
    ASSUME Inv, UNCHANGED vars
    PROVE  Inv'
<1>1. Sound'
  BY UntouchedKeeps DEF Inv, vars
<1>2. RestTyped'
  BY DEF Inv, vars, RestTyped, Item
<1> QED
  BY <1>1, <1>2 DEF Inv

(* Inv is inductive, so it holds of every state of every behaviour.          *)
LEMMA Invariance == Spec => []Inv
<1>1. Inv /\ [Next]_vars => Inv'
  BY NextKeeps, StutterKeeps
<1> QED
  BY InitSound, <1>1, PTL DEF Spec

(* Through every operation of the handles, also while save_changes awaits,   *)
(* and whatever fails: the pointers the registry follows lead to the live    *)
(* handle of their entry, and no persisted key has two entries.              *)
THEOREM RegistryStaysSound == Spec => []RegistrySound
<1>1. Inv => RegistrySound
  BY DEF Inv, Sound, RestTyped, RegistryTyped, RegistrySound, TypeOK
<1> QED
  BY Invariance, <1>1, PTL

(* Until the address of a dropped handle is used, through every operation,   *)
(* await and failure, the state save_changes acts on is the handle's.        *)
THEOREM StatesStayAgreed == Spec => []StatesAgree
<1>1. Inv => StatesAgree
  BY DEF Inv, Sound
<1> QED
  BY Invariance, <1>1, PTL

-----------------------------------------------------------------------------
(* save_changes, when the application leaves its tracker alone meanwhile     *)
(* (DuringSave = {}); whatever else it does between saves, and whatever      *)
(* fails.                                                                    *)

(* What save_changes listed is still what the registry holds.                *)
TodoSound ==
    /\ ~Saving => save.todo = {}
    /\ \A t \in save.todo : t.reg \in Registered /\ t.addr = entries[t.reg].addr

(* The phases gone by left no entry of theirs, the running one only those    *)
(* still on its list.                                                        *)
PhasesDone ==
    Saving =>
        \A r \in Registered :
            /\ \A p \in 1..3 : p < save.phase => entries[r].state # Phases[p]
            /\ entries[r].state = Wanted => \E t \in save.todo : t.reg = r

SaveInv == TodoSound /\ PhasesDone /\ ~deadUse

(* A listed entity is attached where it was listed, if at all.               *)
LEMMA ListedAttached ==
    ASSUME Sound, TodoSound, NEW t \in save.todo
    PROVE  /\ t.reg \in Registered /\ Readable(t)
           /\ StateOf(t) = entries[t.reg].state /\ EntityOf(t) = CurrentOf(t.reg)
           /\ OriginalOf(t) = entries[t.reg].orig
           /\ Attached(t.reg) => SameHandle(t)
           /\ ~DeadWrite(t) /\ ~Misread(t)
<1>1. t.reg \in Registered /\ t.addr = entries[t.reg].addr
  BY DEF TodoSound
<1>2. Attached(t.reg) => SameHandle(t)
  BY <1>1, EntryFields DEF Attached, SameHandle, Held, Sound, PointersSound
<1> QED
  BY <1>1, <1>2 DEF Readable, StateOf, EntityOf, OriginalOf, DeadWrite, Misread

(* An entity is listed once.                                                 *)
LEMMA ListedOnce ==
    ASSUME RestTyped, TodoSound, NEW t \in save.todo, NEW u \in save.todo, t.reg = u.reg
    PROVE  t = u
<1>1. t \in Item /\ u \in Item
  BY SaveFields
<1>2. t.addr = u.addr
  BY DEF TodoSound
<1> QED
  BY <1>1, <1>2 DEF Item

(* Accepting an entry reads a handle only while it lives: an entry still to  *)
(* be visited keeps its handle's address.                                    *)
LEMMA AcceptKeepsAlive ==
    ASSUME Sound, RestTyped, TodoSound, NEW t \in save.todo, NEW entity, Accept(t, entity)
    PROVE  deadUse' = deadUse
<1>1. ~DeadWrite(t)
  BY ListedAttached
<1>2. deadUse' = (deadUse \/ DeadWrite(t))
  BY DEF Accept
<1> QED
  BY <1>1, <1>2 DEF RestTyped

(* Reading such an entry does not need the address that was listed.          *)
LEMMA ReadKeepsAlive ==
    ASSUME Sound, RestTyped, TodoSound, NEW t \in save.todo, Read(t)
    PROVE  deadUse' = deadUse
<1>1. ~Misread(t)
  BY ListedAttached
<1> QED
  BY <1>1 DEF Read, RestTyped

(* accept_current of an entry still attached where it was listed is          *)
(* sync_persisted with the value the handle has.                             *)
LEMMA AcceptCurrentIs ==
    ASSUME Sound, RestTyped, TodoSound, NEW t \in save.todo, AcceptCurrent(t)
    PROVE  Accept(t, EntityOf(t))
<1> DEFINE entity == EntityOf(t)
           kept == [handle[t.addr] EXCEPT !.orig = entity, !.state = "Unchanged"]
           set == [handle[t.addr] EXCEPT
                      !.orig = entity, !.cur = entity, !.state = "Unchanged"]
<1>1. /\ ~DeadWrite(t) /\ ~Misread(t) /\ t.reg \in Registered
      /\ t.addr = entries[t.reg].addr
  BY ListedAttached DEF TodoSound
<1>2. WriteThrough(t, kept)
  BY DEF AcceptCurrent
<1>3. Attached(t.reg) /\ Held(t) => kept = set
  <2> SUFFICES ASSUME Attached(t.reg), Held(t)
               PROVE  kept = set
    OBVIOUS
  <2>1. entity = handle[t.addr].cur
    BY <1>1 DEF Attached, EntityOf, CurrentOf
  <2>2. handle[t.addr] \in Handle
    BY HandleFields DEF Held, Sound
  <2> HIDE DEF entity
  <2> QED
    BY <2>1, <2>2 DEF Handle
<1> HIDE DEF kept, set
<1>4. WriteThrough(t, set)
  <2>1. CASE Attached(t.reg) /\ Held(t)
    BY <1>2, <1>3, <2>1
  <2>2. CASE ~(Attached(t.reg) /\ Held(t))
    <3>1. \A h \in Handles : ~(Attached(t.reg) /\ h = t.addr /\ Held(t))
      BY <2>2
    <3> QED
      BY <1>2, <3>1 DEF WriteThrough
  <2> QED
    BY <2>1, <2>2
<1>5. deadUse' = (deadUse \/ DeadWrite(t))
  BY <1>1 DEF AcceptCurrent
<1> QED
  BY <1>4, <1>5 DEF Accept, set, entity

(* A listing has every entry, with the address of its handle.                *)
LEMMA ListedIs ==
    /\ \A t \in Listed : t.reg \in Registered /\ t.addr = entries[t.reg].addr
    /\ \A r \in Registered : \E t \in Listed : t.reg = r
<1>1. ASSUME NEW t \in Listed
      PROVE  t.reg \in Registered /\ t.addr = entries[t.reg].addr
  <2>1. PICK r \in Registered : t = [reg |-> r, addr |-> entries[r].addr]
    BY DEF Listed
  <2> QED
    BY <2>1, SMTT(30)
<1>2. ASSUME NEW r \in Registered
      PROVE  \E t \in Listed : t.reg = r
  <2>1. [reg |-> r, addr |-> entries[r].addr] \in Listed
    BY DEF Listed
  <2> QED
    BY <2>1
<1> QED
  BY <1>1, <1>2

(* The application's operations wait for the save to end.                    *)
LEMMA HandleStepWaits ==
    ASSUME DuringSave = {}, HandleStep \/ Clear
    PROVE  ~Saving /\ UNCHANGED <<save, deadUse>>
  BY ZenonT(40) DEF HandleStep, Clear, FindLoads, FindReattaches, Add, Mutate, MarkDeleted,
     MarkUnchanged, Detach, Drop, SaveNow, DeleteNow, MayQuery, May, NoQuery

(* An item that is done leaves the list, its entry no longer wanted; the     *)
(* other entries are as they were.                                           *)
LEMMA ItemDoneKeeps ==
    ASSUME Inv, SaveInv, NEW t \in save.todo, Saving, ItemDone(t), deadUse' = deadUse,
           Registered' \subseteq Registered,
           \A q \in Registered : q # t.reg => q \in Registered' /\ entries'[q] = entries[q],
           t.reg \in Registered' =>
               \/ entries'[t.reg].state = "Unchanged"
               \/ entries'[t.reg] = entries[t.reg] /\ entries[t.reg].state # Wanted
    PROVE  SaveInv'
<1>1. /\ save'.phase = save.phase /\ save'.todo = save.todo \ {t}
  BY SaveFields DEF ItemDone, Inv, RestTyped
<1>2. TodoSound'
  <2>1. Saving'
    BY <1>1 DEF Saving
  <2>2. ASSUME NEW u \in save.todo \ {t}
        PROVE  u.reg \in Registered' /\ u.addr = entries'[u.reg].addr
    <3>1. u.reg # t.reg
      BY <2>2, ListedOnce DEF Inv, SaveInv
    <3>2. u.reg \in Registered /\ u.addr = entries[u.reg].addr
      BY DEF SaveInv, TodoSound
    <3> QED
      BY <3>1, <3>2
  <2> QED
    BY <1>1, <2>1, <2>2 DEF TodoSound
<1>3. PhasesDone'
  <2>1. Wanted' = Wanted
    BY <1>1 DEF Wanted
  <2>2. \A p \in 1..3 : Phases[p] # "Unchanged"
    BY DEF Phases
  <2>3. save.phase \in 1..3 /\ Wanted # "Unchanged"
    BY SaveFields, <2>2 DEF Inv, Saving, Wanted
  <2>4. ASSUME NEW r \in Registered'
        PROVE  /\ \A p \in 1..3 : p < save.phase => entries'[r].state # Phases[p]
               /\ entries'[r].state = Wanted => \E u \in save.todo \ {t} : u.reg = r
    <3>1. /\ \A p \in 1..3 : p < save.phase => entries[r].state # Phases[p]
          /\ entries[r].state = Wanted => \E u \in save.todo : u.reg = r
      BY DEF SaveInv, PhasesDone
    <3>2. CASE r = t.reg
      BY <3>1, <3>2, <2>2, <2>3
    <3>3. CASE r # t.reg
      BY <3>1, <3>3
    <3> QED
      BY <3>2, <3>3
  <2> QED
    BY <1>1, <2>1, <2>4 DEF PhasesDone
<1> QED
  BY <1>2, <1>3 DEF SaveInv

(* One case for each way save_changes leaves an entry.                       *)
LEMMA ItemStepSettles ==
    ASSUME Inv, SaveInv, NEW t \in save.todo, ItemStep(t)
    PROVE  SaveInv'
<1> USE DEF Inv
<1>1. t \in Item /\ Sound /\ RestTyped /\ TodoSound /\ RegistryTyped
  BY SaveFields DEF Sound, SaveInv
<1>2. CASE Issue(t)
  <2>1. save'.phase = save.phase /\ save'.todo = save.todo
    BY <1>2 DEF Issue, RestTyped
  <2>2. Registered' = Registered /\ entries' = entries /\ deadUse' = deadUse
    BY <1>1, <1>2, ReadKeepsAlive DEF Issue, Registered
  <2> QED
    BY <2>1, <2>2 DEF SaveInv, TodoSound, PhasesDone, Saving, Wanted
<1>3. CASE PassOver(t)
  <2>1. Saving /\ ItemDone(t) /\ deadUse' = deadUse /\ entries' = entries /\ StateOf(t) # Wanted
    BY <1>1, <1>3, ReadKeepsAlive DEF PassOver, Choosing, Visiting
  <2>2. Registered' = Registered
    BY <2>1 DEF Registered
  <2> QED
    BY <1>1, <2>1, <2>2, ListedAttached, ItemDoneKeeps
<1>4. CASE ReadDead(t)
  BY <1>1, <1>4, ListedAttached DEF ReadDead
<1>5. CASE AcceptUnchanged(t)
  <2>1. Saving /\ ItemDone(t) /\ Accept(t, EntityOf(t)) /\ entries' = Settled(t, EntityOf(t))
    BY <1>1, <1>5, AcceptCurrentIs DEF AcceptUnchanged, Choosing, Visiting
  <2>2. EntityOf(t) \in Entity
    BY <1>5, ReadTyped DEF AcceptUnchanged
  <2>3. deadUse' = deadUse
    BY <1>1, <2>1, AcceptKeepsAlive
  <2> QED
    BY <1>1, <2>1, <2>2, <2>3, SettledEntry, ItemDoneKeeps
<1>6. CASE Updated(t)
  <2>1. /\ Saving /\ ItemDone(t) /\ Accept(t, save.item) /\ entries' = Settled(t, save.item)
        /\ save.item \in Entity
    BY <1>6, SaveFields DEF Updated, Awaiting, Visiting
  <2>2. deadUse' = deadUse
    BY <1>1, <2>1, AcceptKeepsAlive
  <2> QED
    BY <1>1, <2>1, <2>2, SettledEntry, ItemDoneKeeps
<1>7. CASE Inserted(t)
  <2>1. /\ Saving /\ ItemDone(t) /\ Accept(t, save.item) /\ save.item \in Entity
        /\ t.reg \in Registered
        /\ entries' = [Settled(t, save.item) EXCEPT ![t.reg].id = Simple(save.item.key)]
    BY <1>7, SaveFields DEF Inserted, Awaiting, Visiting, IdentityFits
  <2>2. deadUse' = deadUse
    BY <1>1, <2>1, AcceptKeepsAlive
  <2> QED
    BY <1>1, <2>1, <2>2, InsertedEntry, ItemDoneKeeps
<1>8. CASE Deleted(t)
  <2>1. Saving /\ ItemDone(t) /\ deadUse' = deadUse /\ entries' = WithoutEntry(t.reg)
    BY <1>8 DEF Deleted, Awaiting, Visiting
  <2>2. Registered' = Registered \ {t.reg} /\ \A q \in Registered' : entries'[q] = entries[q]
    BY <2>1 DEF WithoutEntry, Registered
  <2> QED
    BY <2>1, <2>2, ItemDoneKeeps
<1> QED
  BY <1>2, <1>3, <1>4, <1>5, <1>6, <1>7, <1>8 DEF ItemStep

(* With nothing else running during a save, only save_changes touches its    *)
(* list.                                                                     *)
LEMMA NextSettles ==
    ASSUME DuringSave = {}, Inv, SaveInv, [Next]_vars
    PROVE  SaveInv'
<1>1. CASE HandleStep \/ Clear
  <2>1. ~Saving /\ save' = save /\ deadUse' = deadUse
    BY <1>1, HandleStepWaits
  <2> QED
    BY <2>1 DEF SaveInv, TodoSound, PhasesDone, Saving
<1>2. CASE UNCHANGED <<handle, entries, save, deadUse>>
  BY <1>2 DEF SaveInv, TodoSound, PhasesDone, Saving, Wanted, Registered
<1>3. CASE save' = Idle /\ deadUse' = deadUse
  BY <1>3 DEF Idle, SaveInv, TodoSound, PhasesDone, Saving
<1>4. CASE StartSave
  <2>1. /\ save'.phase = 1 /\ save'.todo = Listed
        /\ Registered' = Registered /\ entries' = entries /\ deadUse' = deadUse
    BY <1>4 DEF StartSave, Registered
  <2> QED
    BY <2>1, ListedIs DEF SaveInv, TodoSound, PhasesDone, Saving
<1>5. CASE NextPhase
  <2>1. /\ save'.phase = save.phase + 1 /\ save'.todo = Listed /\ Saving /\ save.todo = {}
        /\ Registered' = Registered /\ entries' = entries /\ deadUse' = deadUse
    BY <1>5 DEF NextPhase, Registered, Inv, RestTyped
  <2>4. save.phase \in 1..3
    BY <2>1, SaveFields DEF Inv, Saving
  <2>5. \A r \in Registered : \A p \in 1..3 : p < save.phase + 1 => entries[r].state # Phases[p]
    BY <2>1, <2>4 DEF SaveInv, PhasesDone, Wanted
  <2>6. Saving'
    BY <2>1, <2>4 DEF Saving
  <2> QED
    BY <2>1, <2>5, <2>6, ListedIs DEF SaveInv, TodoSound, PhasesDone
<1>6. ASSUME NEW t \in save.todo, InsertedUnidentified(t)
      PROVE  SaveInv'
  <2>1. deadUse' = deadUse
    BY <1>6, AcceptKeepsAlive DEF InsertedUnidentified, Inv, SaveInv
  <2> QED
    BY <1>3, <1>6, <2>1 DEF InsertedUnidentified, Fail
<1> QED
  BY <1>1, <1>2, <1>3, <1>4, <1>5, <1>6, ItemStepSettles DEF Next, vars, SaveStep, SaveFailure,
     BeginTransaction, EndTransaction, ExternalWrite, FinishSave, StatementFails, CommitFails, Fail

(* No save runs at the start.                                                *)
LEMMA InitSettled == Init => SaveInv
  BY DEF Init, Idle, SaveInv, TodoSound, PhasesDone, Saving

(* SaveInv holds of every state, when no call runs inside a save.            *)
LEMMA SaveInvariance ==
    ASSUME DuringSave = {}
    PROVE  Spec => [](Inv /\ SaveInv)
<1>1. Init => Inv /\ SaveInv
  BY InitSound, InitSettled
<1>2. (Inv /\ SaveInv) /\ [Next]_vars => (Inv /\ SaveInv)'
  BY NextKeeps, StutterKeeps, NextSettles
<1> QED
  BY <1>1, <1>2, PTL DEF Spec

(* save_changes returns Ok only when no pending work is left.  All it asks   *)
(* of the application is to leave its handles alone until save_changes       *)
(* returns: statements may fail, rows may change behind the tracker's back,  *)
(* keys may be taken.                                                        *)
THEOREM SaveLeavesNothing ==
    ASSUME DuringSave = {}
    PROVE  Spec => SaveSettles
<1>1. Inv /\ SaveInv /\ FinishSave => \A r \in Registered : entries[r].state = "Unchanged"
  <2> SUFFICES ASSUME Inv, SaveInv, FinishSave, NEW r \in Registered
               PROVE  entries[r].state = "Unchanged"
    OBVIOUS
  <2>1. Saving /\ save.todo = {} /\ save.phase = 3
    BY DEF FinishSave, LastPhaseDone, Phases
  <2>2. entries[r].state \in States
    BY EntryFields DEF Inv, Sound
  <2>3. \A p \in 1..3 : entries[r].state # Phases[p]
    BY <2>1 DEF SaveInv, PhasesDone, Wanted
  <2> QED
    BY <2>2, <2>3 DEF States, Pending, Phases
<1>2. Inv /\ SaveInv => [FinishSave => \A r \in Registered : entries[r].state = "Unchanged"]_vars
  BY <1>1
<1> QED
  BY SaveInvariance, <1>2, PTL DEF SaveSettles

-----------------------------------------------------------------------------
(* The tracker and the table, when nothing fails and no operation writes the *)
(* table or the registry's snapshots past save_changes.                      *)

Undisturbed ==
    /\ DuringSave = {} /\ Faults = {}
    /\ Ops \cap {"mark_unchanged", "save_now", "delete_now"} = {}

(* An entry keeps the key it was registered with, which is its identity once *)
(* it is persisted, and no two entries are after the same row.               *)
KeysKept ==
    /\ \A r \in Registered :
          /\ entries[r].orig.key = CurrentOf(r).key
          /\ entries[r].state = "Added" => entries[r].id[1] = "temporary"
          /\ entries[r].state # "Added" => entries[r].id = Simple(CurrentOf(r).key)
    /\ \A q, r \in Registered : q # r => CurrentOf(q).key # CurrentOf(r).key

(* The table has what the tracker believes it has.                           *)
RowsKnown ==
    \A r \in Registered :
        /\ entries[r].state = "Added" => rows[CurrentOf(r).key] = None
        /\ entries[r].state # "Added" => rows[CurrentOf(r).key] = entries[r].orig.val
        /\ entries[r].state = "Unchanged" => CurrentOf(r).val = entries[r].orig.val

(* The awaited statement writes the value the visited entry still has.       *)
ItemSound ==
    save.item # None =>
        /\ Saving
        /\ \E t \in save.todo :
              Visiting(t) /\ StateOf(t) = Wanted /\ EntityOf(t) = save.item

Agreed == KeysKept /\ RowsKnown
IntentInv == Agreed /\ ItemSound

(* An entry whose handle keeps its value keeps its own.                      *)
LEMMA CurrentKept ==
    ASSUME Sound, NEW q \in Registered, entries'[q] = entries[q],
           \A h \in Handles : Live(h) /\ handle[h].reg = q => handle'[h].cur = handle[h].cur
    PROVE  CurrentOf(q)' = CurrentOf(q)
<1>1. entries[q].addr # None => /\ entries[q].addr \in Handles /\ Live(entries[q].addr)
                                /\ handle[entries[q].addr].reg = q
  BY EntryFields DEF Sound, PointersSound
<1> QED
  BY <1>1 DEF CurrentOf

(* One entry may change, within its key and what the table knows of it, and  *)
(* entries may go.                                                           *)
LEMMA AgreedWith ==
    ASSUME Agreed, NEW r,
           Registered' \subseteq Registered,
           \A q \in Registered' : q # r =>
               /\ entries'[q] = entries[q] /\ CurrentOf(q)' = CurrentOf(q)
               /\ rows'[CurrentOf(q).key] = rows[CurrentOf(q).key],
           r \in Registered' =>
               /\ CurrentOf(r)'.key = CurrentOf(r).key
               /\ entries'[r].orig.key = CurrentOf(r).key
               /\ entries'[r].state = "Added" =>
                      /\ entries'[r].id[1] = "temporary"
                      /\ rows'[CurrentOf(r).key] = None
               /\ entries'[r].state # "Added" =>
                      /\ entries'[r].id = Simple(CurrentOf(r).key)
                      /\ rows'[CurrentOf(r).key] = entries'[r].orig.val
               /\ entries'[r].state = "Unchanged" => CurrentOf(r)'.val = entries'[r].orig.val
    PROVE  Agreed'
<1>1. \A q \in Registered' : CurrentOf(q)'.key = CurrentOf(q).key
  OBVIOUS
<1>2. KeysKept'
  <2>1. \A q \in Registered' :
            /\ entries'[q].orig.key = CurrentOf(q)'.key
            /\ entries'[q].state = "Added" => entries'[q].id[1] = "temporary"
            /\ entries'[q].state # "Added" => entries'[q].id = Simple(CurrentOf(q)'.key)
    BY <1>1 DEF Agreed, KeysKept
  <2>2. \A p, q \in Registered' : p # q => CurrentOf(p)'.key # CurrentOf(q)'.key
    BY <1>1 DEF Agreed, KeysKept
  <2> QED
    BY <2>1, <2>2 DEF KeysKept, Simple
<1>3. RowsKnown'
  BY DEF Agreed, RowsKnown
<1> QED
  BY <1>2, <1>3 DEF Agreed

(* Nothing to show when neither the handles, the entries nor the rows        *)
(* change.                                                                   *)
LEMMA AgreedUntouched ==
    ASSUME Agreed, UNCHANGED <<handle, entries, rows>>
    PROVE  Agreed'
  BY DEF Agreed, KeysKept, RowsKnown, Registered, CurrentOf, Simple

(* No entry has the key of a row the registry has no identity for.           *)
LEMMA LoadedKeyIsNew ==
    ASSUME Inv, Agreed, NEW k \in Keys, rows[k] # None, ~HasIdentity(k)
    PROVE  \A r \in Registered : CurrentOf(r).key # k
  BY DEF Agreed, KeysKept, RowsKnown, HasIdentity

(* A new entry, for a key no entry has: of a row that is there, or added for *)
(* a row that is not.                                                        *)
LEMMA RegisterAgrees ==
    ASSUME Inv, Agreed, NEW h \in Handles, ~Live(h), NEW e \in Entity, NEW s, NEW id,
           Register(h, e, s, id), rows' = rows,
           \A r \in Registered : CurrentOf(r).key # e.key,
           \/ s = "Added" /\ id[1] = "temporary" /\ rows[e.key] = None
           \/ s = "Unchanged" /\ id = Simple(e.key) /\ rows[e.key] = e.val
    PROVE  /\ Agreed'
           /\ Registered' = Registered \cup {nextId} /\ nextId \notin Registered
           /\ entries'[nextId].state = s
           /\ \A q \in Registered : entries'[q] = entries[q] /\ CurrentOf(q)' = CurrentOf(q)
<1>0. PICK n : n = nextId
  OBVIOUS
<1> DEFINE new == [orig |-> e, cur |-> e, state |-> s, reg |-> n]
           entry == [id |-> id, addr |-> h, state |-> s, orig |-> e, cur |-> e]
<1>1. n \notin Registered /\ n \in Nat
  BY <1>0, EntryFields, BoundAssumption DEF Inv, Sound, IdsAllocated, RegistryTyped
<1>2. /\ Registered' = Registered \cup {n}
      /\ entries'[n] = entry /\ \A q \in Registered : entries'[q] = entries[q]
  BY <1>0, <1>1 DEF Register, WithEntry, Registered
<1>3. handle'[h] = new /\ \A g \in Handles : g # h => handle'[g] = handle[g]
  BY <1>0 DEF Register, Inv, Sound, RegistryTyped
<1>4. \A q \in Registered : CurrentOf(q)' = CurrentOf(q)
  BY <1>2, <1>3, CurrentKept DEF Inv
<1>5. /\ entry.addr = h /\ h # None /\ entry.state = s /\ entry.id = id /\ entry.orig = e
      /\ new.cur = e
  BY NoneAssumption
<1> HIDE DEF new, entry
<1>6. CurrentOf(n)' = e
  BY <1>2, <1>3, <1>5 DEF CurrentOf
<1>7. KeysKept'
  <2>1. \A q \in Registered' :
            /\ entries'[q].orig.key = CurrentOf(q)'.key
            /\ entries'[q].state = "Added" => entries'[q].id[1] = "temporary"
            /\ entries'[q].state # "Added" => entries'[q].id = Simple(CurrentOf(q)'.key)
    BY <1>2, <1>4, <1>5, <1>6 DEF Agreed, KeysKept
  <2>2. \A p, q \in Registered' : p # q => CurrentOf(p)'.key # CurrentOf(q)'.key
    BY <1>2, <1>4, <1>6 DEF Agreed, KeysKept
  <2> QED
    BY <2>1, <2>2 DEF KeysKept, Simple
<1>8. RowsKnown'
  BY <1>2, <1>4, <1>5, <1>6 DEF Agreed, RowsKnown
<1> QED
  BY <1>0, <1>1, <1>2, <1>4, <1>5, <1>7, <1>8 DEF Agreed

(* A loaded entry is Unchanged and holds the row it was read from.           *)
LEMMA FindLoadsAgrees ==
    ASSUME Inv, Agreed, NEW h \in Handles, NEW k \in Keys, FindLoads(h, k)
    PROVE  /\ Agreed' /\ rows' = rows
           /\ \E n : /\ Registered' = Registered \cup {n} /\ n \notin Registered
                     /\ entries'[n].state = "Unchanged"
           /\ \A q \in Registered : entries'[q] = entries[q] /\ CurrentOf(q)' = CurrentOf(q)
<1> DEFINE e == [key |-> k, val |-> rows[k]]
<1>1. /\ ~Live(h) /\ rows' = rows /\ rows[k] # None /\ ~HasIdentity(k)
      /\ Register(h, e, "Unchanged", Simple(k))
  BY DEF FindLoads, NoQuery
<1>2. e \in Entity /\ e.key = k /\ e.val = rows[k]
  BY <1>1 DEF Entity, Inv, RestTyped
<1> HIDE DEF e
<1>3. \A r \in Registered : CurrentOf(r).key # e.key
  BY <1>1, <1>2, LoadedKeyIsNew
<1> QED
  BY <1>1, <1>2, <1>3, RegisterAgrees

(* An added entry has a key that no row and no other entry has.              *)
LEMMA AddAgrees ==
    ASSUME Undisturbed, Inv, Agreed, NEW h \in Handles, NEW e \in Entity, Add(h, e)
    PROVE  Agreed'
<1>1. /\ ~Live(h) /\ rows' = rows /\ rows[e.key] = None
      /\ \A r \in Registered : CurrentOf(r).key # e.key
      /\ Register(h, e, "Added", <<"temporary", nextId>>)
  BY DEF Add, NoQuery, Undisturbed
<1>2. <<"temporary", nextId>>[1] = "temporary"
  OBVIOUS
<1> QED
  BY <1>1, <1>2, RegisterAgrees

(* A handle given to a kept entry reads the values the entry kept.           *)
LEMMA FindReattachesAgrees ==
    ASSUME Inv, Agreed, NEW h \in Handles, NEW k \in Keys, FindReattaches(h, k)
    PROVE  /\ Agreed' /\ rows' = rows /\ Registered' = Registered
           /\ \A q \in Registered :
                  entries'[q].state = entries[q].state /\ CurrentOf(q)' = CurrentOf(q)
<1>1. PICK r \in Registered :
          /\ entries[r].id = Simple(k) /\ entries[r].addr = None
          /\ handle' = [handle EXCEPT ![h] =
                 [orig |-> entries[r].orig, cur |-> entries[r].cur,
                  state |-> entries[r].state, reg |-> r]]
          /\ entries' = [entries EXCEPT ![r].addr = h]
  BY DEF FindReattaches
<1>2. ~Live(h) /\ rows' = rows
  BY DEF FindReattaches, NoQuery
<1>3. entries[r] \in Entry
  BY EntryFields DEF Inv, Sound
<1>4. /\ Registered' = Registered /\ \A q \in Registered : q # r => entries'[q] = entries[q]
      /\ entries'[r].addr = h /\ entries'[r].id = entries[r].id
      /\ entries'[r].state = entries[r].state /\ entries'[r].orig = entries[r].orig
  BY <1>1, <1>3 DEF Registered, Entry
<1>5. handle'[h].cur = entries[r].cur /\ \A g \in Handles : g # h => handle'[g] = handle[g]
  BY <1>1 DEF Inv, Sound, RegistryTyped
<1>6. \A q \in Registered : q # r => CurrentOf(q)' = CurrentOf(q)
  BY <1>2, <1>4, <1>5, CurrentKept DEF Inv
<1>7. CurrentOf(r)' = CurrentOf(r)
  BY <1>1, <1>4, <1>5, NoneAssumption DEF CurrentOf
<1>8. Agreed'
  BY <1>2, <1>4, <1>6, <1>7, AgreedWith DEF Agreed, KeysKept, RowsKnown
<1> QED
  BY <1>2, <1>4, <1>6, <1>7, <1>8

(* The entry of a live handle is the handle's.                               *)
LEMMA EntryOfHandle ==
    ASSUME Sound, ~deadUse, NEW h \in Handles, Live(h), handle[h].reg \in Registered
    PROVE  /\ entries[handle[h].reg].addr = h /\ h # None
           /\ entries[handle[h].reg].state = handle[h].state
           /\ CurrentOf(handle[h].reg) = handle[h].cur
<1>1. entries[handle[h].reg].addr = h /\ h # None
  BY NoneAssumption DEF Sound, PointersSound
<1> QED
  BY <1>1 DEF CurrentOf, Sound, StatesAgree

(* A handle and its entry take another state, the table's part in it being   *)
(* the same, and the handle perhaps another value of its key.                *)
LEMMA EditAgrees ==
    ASSUME Inv, ~deadUse, Agreed, NEW h \in Handles, Live(h), NEW e, NEW s,
           NEW r, r = handle[h].reg,
           e.key = handle[h].cur.key,
           handle'[h].cur = e, \A g \in Handles : g # h => handle'[g] = handle[g],
           Registered' = Registered, rows' = rows,
           \A q \in Registered : q # r => entries'[q] = entries[q],
           r \in Registered => entries'[r] = [entries[r] EXCEPT !.state = s],
           s = "Added" <=> handle[h].state = "Added",
           s # "Unchanged"
    PROVE  Agreed'
<1>1. r \in Registered =>
          /\ entries'[r].state = s /\ entries'[r].addr = entries[r].addr
          /\ entries'[r].id = entries[r].id /\ entries'[r].orig = entries[r].orig
  <2>1. r \in Registered => entries[r] \in Entry
    BY EntryFields DEF Inv, Sound
  <2> QED
    BY <2>1 DEF Entry
<1>2. r \in Registered => entries[r].addr = h /\ h # None /\ CurrentOf(r) = handle[h].cur
                          /\ entries[r].state = handle[h].state
  BY EntryOfHandle DEF Inv
<1>3. r \in Registered => CurrentOf(r)' = e
  BY <1>1, <1>2 DEF CurrentOf
<1>4. \A q \in Registered : q # r => CurrentOf(q)' = CurrentOf(q)
  <2> SUFFICES ASSUME NEW q \in Registered, q # r PROVE CurrentOf(q)' = CurrentOf(q)
    OBVIOUS
  <2>1. \A g \in Handles : Live(g) /\ handle[g].reg = q => handle'[g].cur = handle[g].cur
    OBVIOUS
  <2> QED
    BY <2>1, CurrentKept DEF Inv
<1>5. r \in Registered =>
          /\ CurrentOf(r)'.key = CurrentOf(r).key
          /\ entries'[r].orig.key = CurrentOf(r).key
          /\ entries'[r].state = "Added" =>
                 /\ entries'[r].id[1] = "temporary"
                 /\ rows'[CurrentOf(r).key] = None
          /\ entries'[r].state # "Added" =>
                 /\ entries'[r].id = Simple(CurrentOf(r).key)
                 /\ rows'[CurrentOf(r).key] = entries'[r].orig.val
          /\ entries'[r].state = "Unchanged" => CurrentOf(r)'.val = entries'[r].orig.val
  BY <1>1, <1>2, <1>3 DEF Agreed, KeysKept, RowsKnown
<1> QED
  BY <1>4, <1>5, AgreedWith

(* An edit keeps the key, so the entry still names its row.                  *)
LEMMA MutateAgrees ==
    ASSUME Inv, ~deadUse, Agreed, NEW h \in Handles, NEW v \in Values, Mutate(h, v)
    PROVE  Agreed'
<1> DEFINE s == IF handle[h].state = "Unchanged" THEN "Modified" ELSE handle[h].state
           e == [handle[h].cur EXCEPT !.val = v]
<1>0. PICK r : r = handle[h].reg
  OBVIOUS
<1>1. Live(h) /\ rows' = rows
  BY DEF Mutate, NoQuery
<1>2. handle[h] \in Handle /\ handle[h].cur \in Entity
  BY <1>1, HandleFields DEF Inv, Sound
<1>3. e.key = handle[h].cur.key /\ (s = "Added" <=> handle[h].state = "Added") /\ s # "Unchanged"
  BY <1>2 DEF Entity
<1>4. handle'[h].cur = e /\ \A g \in Handles : g # h => handle'[g] = handle[g]
  <2>1. handle'[h] = [handle[h] EXCEPT !.state = s, !.cur.val = v]
    BY DEF Mutate, Inv, Sound, RegistryTyped
  <2>2. handle'[h].cur = e
    BY <1>2, <2>1 DEF Handle
  <2> QED
    BY <2>2 DEF Mutate, Inv, Sound, RegistryTyped
<1>5. /\ Registered' = Registered /\ \A q \in Registered : q # r => entries'[q] = entries[q]
      /\ r \in Registered => entries'[r] = [entries[r] EXCEPT !.state = s]
  BY <1>0 DEF Mutate, Registered
<1> HIDE DEF e, s
<1> QED
  BY <1>0, <1>1, <1>3, <1>4, <1>5, EditAgrees

(* An entry goes with its handle's registration.                             *)
LEMMA DetachWithAgrees ==
    ASSUME Inv, Agreed, NEW h \in Handles, Live(h), NEW s, DetachWith(h, s), rows' = rows
    PROVE  Agreed'
<1>1. /\ Registered' = Registered \ {handle[h].reg}
      /\ \A q \in Registered' : q \in Registered /\ q # handle[h].reg /\ entries'[q] = entries[q]
  BY DEF DetachWith, WithoutEntry, Registered
<1>2. \A g \in Handles : g # h => handle'[g] = handle[g]
  BY DEF DetachWith, Inv, Sound, RegistryTyped
<1>3. \A q \in Registered' : CurrentOf(q)' = CurrentOf(q)
  BY <1>1, <1>2, CurrentKept DEF Inv
<1> QED
  BY <1>1, <1>3, AgreedWith

(* A deletion mark leaves the row and the original values.                   *)
LEMMA MarkDeletedAgrees ==
    ASSUME Inv, ~deadUse, Agreed, NEW h \in Handles, MarkDeleted(h)
    PROVE  Agreed'
<1>0. PICK r : r = handle[h].reg
  OBVIOUS
<1>1. Live(h) /\ rows' = rows
  BY DEF MarkDeleted, NoQuery
<1>2. CASE DetachWith(h, "Deleted")
  BY <1>1, <1>2, DetachWithAgrees
<1>3. CASE handle[h].state # "Added" /\ SetState(h, "Deleted")
  <2>1. handle[h] \in Handle
    BY <1>1, HandleFields DEF Inv, Sound
  <2>2. /\ handle'[h] = [handle[h] EXCEPT !.state = "Deleted"]
        /\ \A g \in Handles : g # h => handle'[g] = handle[g]
    BY <1>3 DEF SetState, Inv, Sound, RegistryTyped
  <2>3. handle'[h].cur = handle[h].cur
    BY <2>1, <2>2 DEF Handle
  <2>4. /\ Registered' = Registered
        /\ \A q \in Registered : q # r => entries'[q] = entries[q]
        /\ r \in Registered => entries'[r] = [entries[r] EXCEPT !.state = "Deleted"]
    BY <1>0, <1>3 DEF SetState, Registered
  <2>5. PICK e, s : e = handle[h].cur /\ s = "Deleted"
    OBVIOUS
  <2>6. (s = "Added" <=> handle[h].state = "Added") /\ s # "Unchanged"
    BY <1>3, <2>5
  <2>7. e.key = handle[h].cur.key /\ handle'[h].cur = e
    BY <2>3, <2>5
  <2>8. r \in Registered => entries'[r] = [entries[r] EXCEPT !.state = s]
    BY <2>4, <2>5
  <2>9. \A g \in Handles : g # h => handle'[g] = handle[g]
    BY <2>2
  <2> QED
    BY <1>0, <1>1, <2>4, <2>6, <2>7, <2>8, <2>9, EditAgrees
<1> QED
  BY <1>2, <1>3 DEF MarkDeleted

(* A dropped handle leaves what it asked for with its entry.                 *)
LEMMA DropAgrees ==
    ASSUME Inv, ~deadUse, Agreed, NEW h \in Handles, Drop(h)
    PROVE  /\ Agreed' /\ rows' = rows /\ Registered' \subseteq Registered
           /\ \A q \in Registered' :
                  entries'[q].state = entries[q].state /\ CurrentOf(q)' = CurrentOf(q)
           /\ \A q \in Registered \ Registered' : entries[q].state \notin Pending
<1>0. PICK r : r = handle[h].reg
  OBVIOUS
<1>1. Live(h) /\ rows' = rows
  BY DEF Drop, NoQuery
<1>2. \A g \in Handles : g # h => handle'[g] = handle[g]
  BY DEF Drop, Inv, Sound, RegistryTyped
<1>3. \A q \in Registered : q # r /\ entries'[q] = entries[q] => CurrentOf(q)' = CurrentOf(q)
  BY <1>0, <1>2, CurrentKept DEF Inv
<1>4. r \in Registered => entries[r].state = handle[h].state /\ entries[r] \in Entry
  BY <1>0, <1>1, EntryOfHandle, EntryFields DEF Inv, Sound
<1>5. CASE r \notin Registered
  <2>1. entries' = entries /\ Registered' = Registered
    BY <1>0, <1>5 DEF Drop, Registered
  <2>2. \A q \in Registered : CurrentOf(q)' = CurrentOf(q)
    BY <1>3, <1>5, <2>1
  <2>3. Agreed'
    BY <1>1, <1>5, <2>1, <2>2, AgreedWith
  <2> QED
    BY <1>1, <2>1, <2>2, <2>3
<1>6. CASE r \in Registered /\ handle[h].state \notin Pending
  <2>1. /\ Registered' = Registered \ {r}
        /\ \A q \in Registered' : q \in Registered /\ q # r /\ entries'[q] = entries[q]
    BY <1>0, <1>6 DEF Drop, WithoutEntry, Registered
  <2>2. \A q \in Registered' : CurrentOf(q)' = CurrentOf(q)
    BY <1>3, <2>1
  <2>3. Agreed'
    BY <1>1, <2>1, <2>2, AgreedWith
  <2> QED
    BY <1>1, <1>4, <1>6, <2>1, <2>2, <2>3
<1>7. CASE r \in Registered /\ handle[h].state \in Pending
  <2>1. /\ Registered' = Registered /\ \A q \in Registered : q # r => entries'[q] = entries[q]
        /\ entries'[r] = [entries[r] EXCEPT !.cur = CurrentOf(r), !.addr = None]
    BY <1>0, <1>7 DEF Drop, Registered
  <2>2. /\ entries'[r].addr = None /\ entries'[r].cur = CurrentOf(r)
        /\ entries'[r].id = entries[r].id /\ entries'[r].state = entries[r].state
        /\ entries'[r].orig = entries[r].orig
    BY <1>4, <1>7, <2>1 DEF Entry
  <2>3. CurrentOf(r)' = CurrentOf(r)
    BY <2>2 DEF CurrentOf
  <2>4. \A q \in Registered : CurrentOf(q)' = CurrentOf(q)
    BY <1>3, <2>1, <2>3
  <2>5. Registered' = Registered /\ \A q \in Registered : q # r => entries'[q] = entries[q]
    BY <2>1
  <2>6. /\ CurrentOf(r)'.key = CurrentOf(r).key
        /\ entries'[r].orig.key = CurrentOf(r).key
        /\ entries'[r].state = "Added" =>
               entries'[r].id[1] = "temporary" /\ rows'[CurrentOf(r).key] = None
        /\ entries'[r].state # "Added" =>
               /\ entries'[r].id = Simple(CurrentOf(r).key)
               /\ rows'[CurrentOf(r).key] = entries'[r].orig.val
        /\ entries'[r].state = "Unchanged" => CurrentOf(r)'.val = entries'[r].orig.val
    BY <1>1, <1>7, <2>2, <2>3 DEF Agreed, KeysKept, RowsKnown
  <2>7. Agreed'
    BY <1>1, <2>4, <2>5, <2>6, AgreedWith
  <2> QED
    BY <1>1, <2>2, <2>4, <2>5, <2>7
<1> QED
  BY <1>5, <1>6, <1>7

(* clear leaves nothing to agree.                                            *)
LEMMA ClearAgrees ==
    ASSUME Agreed, Clear
    PROVE  Agreed'
<1>1. Registered' = {}
  BY DEF Clear, Registered
<1> QED
  BY <1>1 DEF Agreed, KeysKept, RowsKnown

(* The visited entity is the one whose statement is awaited.                 *)
LEMMA AwaitedIs ==
    ASSUME Inv, SaveInv, ItemSound, NEW t \in save.todo, Visiting(t), save.item # None
    PROVE  /\ t.reg \in Registered /\ entries[t.reg].state = Wanted
           /\ CurrentOf(t.reg) = save.item /\ save.item \in Entity
<1>1. PICK u \in save.todo : Visiting(u) /\ StateOf(u) = Wanted /\ EntityOf(u) = save.item
  BY DEF ItemSound
<1>2. t.reg \in Nat /\ u.reg \in Nat
  BY SaveFields, BoundAssumption DEF Inv, Item
<1>3. t.reg <= u.reg /\ u.reg <= t.reg
  BY <1>1 DEF Visiting
<1>4. t = u
  BY <1>2, <1>3, ListedOnce DEF Inv, SaveInv
<1> QED
  BY <1>1, <1>4, ListedAttached, SaveFields DEF Inv, SaveInv

(* A settled entry agrees with the table when its value is the row's.        *)
LEMMA SettledAgrees ==
    ASSUME Inv, SaveInv, Agreed, NEW t \in save.todo, NEW entity \in Entity,
           entity.key = CurrentOf(t.reg).key,
           Accept(t, entity), Registered' = Registered,
           \A q \in Registered : q # t.reg => entries'[q] = entries[q],
           entries'[t.reg].state = "Unchanged", entries'[t.reg].addr = entries[t.reg].addr,
           entries'[t.reg].id = Simple(entity.key),
           entries'[t.reg].orig = entity, entries'[t.reg].cur = entity,
           rows'[entity.key] = entity.val,
           \A k \in Keys : k # entity.key => rows'[k] = rows[k]
    PROVE  /\ Agreed'
           /\ \A q \in Registered : q # t.reg => CurrentOf(q)' = CurrentOf(q)
<1>1. /\ t.reg \in Registered /\ t.addr = entries[t.reg].addr
      /\ Attached(t.reg) => SameHandle(t)
  BY ListedAttached DEF Inv, SaveInv, TodoSound
<1>2. CurrentOf(t.reg)' = entity
  <2>1. CASE entries[t.reg].addr = None
    BY <2>1, SMTT(30) DEF CurrentOf
  <2>2. CASE entries[t.reg].addr # None
    <3>1. Attached(t.reg) /\ SameHandle(t) /\ t.addr \in Handles /\ Live(t.addr)
      BY <1>1, <2>2 DEF Attached, SameHandle, Held
    <3>2. handle'[t.addr] =
              [handle[t.addr] EXCEPT !.orig = entity, !.cur = entity, !.state = "Unchanged"]
      BY <3>1 DEF Accept, WriteThrough, SameHandle
    <3>3. handle[t.addr] \in Handle
      BY <3>1, HandleFields DEF Inv, Sound
    <3>4. handle'[t.addr].cur = entity
      BY <3>2, <3>3 DEF Handle
    <3> QED
      BY <1>1, <2>2, <3>4 DEF CurrentOf
  <2> QED
    BY <2>1, <2>2
<1>3. ASSUME NEW q \in Registered, q # t.reg
      PROVE  CurrentOf(q)' = CurrentOf(q)
  <2>1. ASSUME NEW h \in Handles, Live(h), handle[h].reg = q
        PROVE  handle'[h].cur = handle[h].cur
    <3>1. ~(Attached(t.reg) /\ h = t.addr)
      BY <1>1, <1>3, <2>1 DEF Attached, Inv, Sound, PointersSound
    <3>2. ~(Attached(t.reg) /\ h = entries[t.reg].addr)
      BY <1>1, <3>1
    <3> QED
      BY <3>1, <3>2 DEF Accept, WriteThrough
  <2> QED
    BY <1>3, <2>1, CurrentKept DEF Inv
<1>4. \A q \in Registered : q # t.reg => rows'[CurrentOf(q).key] = rows[CurrentOf(q).key]
  <2> SUFFICES ASSUME NEW q \in Registered, q # t.reg
               PROVE  rows'[CurrentOf(q).key] = rows[CurrentOf(q).key]
    OBVIOUS
  <2>1. CurrentOf(q).key \in Keys
    BY CurrentTyped DEF Inv, Sound, Entity
  <2>2. CurrentOf(q).key # entity.key
    BY <1>1 DEF Agreed, KeysKept
  <2> QED
    BY <2>1, <2>2
<1>5. /\ CurrentOf(t.reg)'.key = CurrentOf(t.reg).key
      /\ entries'[t.reg].orig.key = CurrentOf(t.reg).key
      /\ entries'[t.reg].state # "Added"
      /\ entries'[t.reg].id = Simple(CurrentOf(t.reg).key)
      /\ rows'[CurrentOf(t.reg).key] = entries'[t.reg].orig.val
      /\ CurrentOf(t.reg)'.val = entries'[t.reg].orig.val
  BY <1>2
<1>6. Agreed'
  BY <1>3, <1>4, <1>5, AgreedWith
<1> QED
  BY <1>3, <1>6

(* What an item step that finishes an entity does to what is intended: the   *)
(* entity's part of it is in the table, the rest is as it was.               *)
ItemFinished(t) ==
    /\ Agreed' /\ t.reg \in Registered
    /\ Registered' \subseteq Registered /\ Registered \ {t.reg} \subseteq Registered'
    /\ \A q \in Registered : q # t.reg => entries'[q] = entries[q] /\ CurrentOf(q)' = CurrentOf(q)
    /\ t.reg \in Registered' => entries'[t.reg].state = "Unchanged"
    /\ entries[t.reg].state \in Pending
    /\ rows'[CurrentOf(t.reg).key] =
           IF entries[t.reg].state = "Deleted" THEN None ELSE CurrentOf(t.reg).val
    /\ \A k \in Keys : k # CurrentOf(t.reg).key => rows'[k] = rows[k]

(* An entry that does not differ has the row it was loaded from.             *)
LEMMA AcceptUnchangedFinishes ==
    ASSUME Inv, SaveInv, Agreed, NEW t \in save.todo, AcceptUnchanged(t)
    PROVE  ItemFinished(t)
<1> DEFINE entity == EntityOf(t)
<1>1. /\ t.reg \in Registered /\ entries[t.reg].state = "Modified"
      /\ entity = CurrentOf(t.reg) /\ entity \in Entity /\ entries[t.reg].orig.val = entity.val
  BY ListedAttached, CurrentTyped DEF AcceptUnchanged, HasPersistedChanges, Inv, SaveInv, Sound
<1>2. Accept(t, entity) /\ rows' = rows /\ entries' = Settled(t, entity)
  BY AcceptCurrentIs DEF AcceptUnchanged, Inv, SaveInv
<1>3. t \in Item /\ RegistryTyped
  BY SaveFields DEF Inv, Sound
<1>4. /\ entries[t.reg].id = Simple(entity.key) /\ rows[entity.key] = entity.val
  BY <1>1 DEF Agreed, KeysKept, RowsKnown
<1> HIDE DEF entity
<1>5. /\ Registered' = Registered
      /\ \A q \in Registered : q # t.reg => entries'[q] = entries[q]
      /\ entries'[t.reg].state = "Unchanged" /\ entries'[t.reg].addr = entries[t.reg].addr
      /\ entries'[t.reg].id = entries[t.reg].id
      /\ entries'[t.reg].orig = entity /\ entries'[t.reg].cur = entity
  BY <1>1, <1>2, <1>3, SettledEntry
<1>6. Agreed' /\ \A q \in Registered : q # t.reg => CurrentOf(q)' = CurrentOf(q)
  BY <1>1, <1>2, <1>4, <1>5, SettledAgrees
<1> QED
  BY <1>1, <1>2, <1>4, <1>5, <1>6 DEF ItemFinished, Pending

(* The table after the awaited statement.                                    *)
LEMMA WrittenIs ==
    ASSUME Inv, save.item \in Entity
    PROVE  /\ save.item.key \in Keys
           /\ Written[save.item.key] = save.item.val
           /\ \A k \in Keys : k # save.item.key => Written[k] = rows[k]
  BY DEF Inv, RestTyped, Written, Entity

(* The UPDATE writes the current value in the entry's row.                   *)
LEMMA UpdatedFinishes ==
    ASSUME Inv, SaveInv, Agreed, ItemSound, NEW t \in save.todo, Updated(t)
    PROVE  ItemFinished(t)
<1>0. PICK entity : entity = save.item
  OBVIOUS
<1>1. /\ t.reg \in Registered /\ entries[t.reg].state = "Modified"
      /\ entity = CurrentOf(t.reg) /\ entity \in Entity
  BY <1>0, AwaitedIs DEF Updated, Awaiting
<1>2. Accept(t, entity) /\ rows' = Written /\ entries' = Settled(t, entity)
  BY <1>0 DEF Updated
<1>3. t \in Item /\ RegistryTyped
  BY SaveFields DEF Inv, Sound
<1>4. /\ entries[t.reg].id = Simple(entity.key) /\ rows'[entity.key] = entity.val
      /\ \A k \in Keys : k # entity.key => rows'[k] = rows[k]
  BY <1>0, <1>1, <1>2, WrittenIs DEF Agreed, KeysKept
<1>5. /\ Registered' = Registered
      /\ \A q \in Registered : q # t.reg => entries'[q] = entries[q]
      /\ entries'[t.reg].state = "Unchanged" /\ entries'[t.reg].addr = entries[t.reg].addr
      /\ entries'[t.reg].id = entries[t.reg].id
      /\ entries'[t.reg].orig = entity /\ entries'[t.reg].cur = entity
  BY <1>1, <1>2, <1>3, SettledEntry
<1>6. Agreed' /\ \A q \in Registered : q # t.reg => CurrentOf(q)' = CurrentOf(q)
  BY <1>1, <1>2, <1>4, <1>5, SettledAgrees
<1> QED
  BY <1>1, <1>4, <1>5, <1>6 DEF ItemFinished, Pending

(* The INSERT writes a row that was not there.                               *)
LEMMA InsertedFinishes ==
    ASSUME Inv, SaveInv, Agreed, ItemSound, NEW t \in save.todo, Inserted(t)
    PROVE  ItemFinished(t)
<1>0. PICK entity : entity = save.item
  OBVIOUS
<1>1. /\ t.reg \in Registered /\ entries[t.reg].state = "Added"
      /\ entity = CurrentOf(t.reg) /\ entity \in Entity
  BY <1>0, AwaitedIs DEF Inserted, Awaiting
<1>2. /\ Accept(t, entity) /\ rows' = Written
      /\ entries' = [Settled(t, entity) EXCEPT ![t.reg].id = Simple(entity.key)]
  BY <1>0 DEF Inserted
<1>3. t \in Item /\ RegistryTyped
  BY SaveFields DEF Inv, Sound
<1>4. /\ rows'[entity.key] = entity.val
      /\ \A k \in Keys : k # entity.key => rows'[k] = rows[k]
  BY <1>0, <1>1, <1>2, WrittenIs
<1>5. /\ Registered' = Registered
      /\ \A q \in Registered : q # t.reg => entries'[q] = entries[q]
      /\ entries'[t.reg].state = "Unchanged" /\ entries'[t.reg].addr = entries[t.reg].addr
      /\ entries'[t.reg].id = Simple(entity.key)
      /\ entries'[t.reg].orig = entity /\ entries'[t.reg].cur = entity
  BY <1>1, <1>2, <1>3, InsertedEntry
<1>6. Agreed' /\ \A q \in Registered : q # t.reg => CurrentOf(q)' = CurrentOf(q)
  BY <1>1, <1>2, <1>4, <1>5, SettledAgrees
<1> QED
  BY <1>1, <1>4, <1>5, <1>6 DEF ItemFinished, Pending

(* The DELETE removes the entry's row.                                       *)
LEMMA DeletedFinishes ==
    ASSUME Inv, SaveInv, Agreed, ItemSound, NEW t \in save.todo, Deleted(t)
    PROVE  ItemFinished(t)
<1>0. PICK entity : entity = save.item
  OBVIOUS
<1>1. /\ t.reg \in Registered /\ entries[t.reg].state = "Deleted"
      /\ entity = CurrentOf(t.reg) /\ entity \in Entity
  BY <1>0, AwaitedIs DEF Deleted, Awaiting
<1>2. handle' = handle /\ rows' = [rows EXCEPT ![entity.key] = None]
  BY <1>0 DEF Deleted
<1>3. /\ rows'[entity.key] = None /\ \A k \in Keys : k # entity.key => rows'[k] = rows[k]
  BY <1>1, <1>2 DEF Inv, RestTyped, Entity
<1>4. /\ Registered' = Registered \ {t.reg}
      /\ \A q \in Registered : q # t.reg => entries'[q] = entries[q]
  BY DEF Deleted, WithoutEntry, Registered
<1>5. \A q \in Registered : q # t.reg => CurrentOf(q)' = CurrentOf(q)
  BY <1>2, <1>4, CurrentKept DEF Inv
<1>6. \A q \in Registered' : rows'[CurrentOf(q).key] = rows[CurrentOf(q).key]
  <2> SUFFICES ASSUME NEW q \in Registered, q # t.reg
               PROVE  rows'[CurrentOf(q).key] = rows[CurrentOf(q).key]
    BY <1>4
  <2>1. CurrentOf(q).key \in Keys
    BY CurrentTyped DEF Inv, Sound, Entity
  <2>2. CurrentOf(q).key # entity.key
    BY <1>1 DEF Agreed, KeysKept
  <2> QED
    BY <1>3, <2>1, <2>2
<1>7. Agreed'
  BY <1>4, <1>5, <1>6, AgreedWith
<1> QED
  BY <1>1, <1>3, <1>4, <1>5, <1>7 DEF ItemFinished, Pending

(* save_changes meets no row it does not expect and no identity that does    *)
(* not fit, so it never fails.                                               *)
LEMMA SaveSucceeds ==
    ASSUME Undisturbed, Inv, SaveInv, IntentInv, SaveFailure
    PROVE  FALSE
<1> USE DEF IntentInv
<1>1. CASE StatementFails
  <2>1. PICK t \in save.todo :
            Visiting(t) /\ StateOf(t) = Wanted /\ EntityOf(t) = save.item
    BY <1>1 DEF StatementFails, ItemSound
  <2>2. /\ t.reg \in Registered /\ entries[t.reg].state = Wanted
        /\ CurrentOf(t.reg) = save.item /\ save.item \in Entity
    BY <1>1, <2>1, AwaitedIs DEF StatementFails
  <2>3. \/ Wanted = "Added" /\ rows[save.item.key] # None
        \/ Wanted # "Added" /\ rows[save.item.key] = None
    BY <1>1 DEF StatementFails, Undisturbed
  <2>4. entries[t.reg].orig.val # None
    <3>1. entries[t.reg].orig \in Entity
      BY <2>2, EntryFields DEF Inv, Sound
    <3> QED
      BY <3>1, NoneAssumption DEF Entity
  <2> QED
    BY <2>2, <2>3, <2>4 DEF Agreed, RowsKnown
<1>2. ASSUME NEW t \in save.todo, InsertedUnidentified(t)
      PROVE  FALSE
  <2>1. t.reg \in Registered /\ CurrentOf(t.reg) = save.item
    BY <1>2, AwaitedIs DEF InsertedUnidentified, Awaiting
  <2>2. PICK q \in Registered : q # t.reg /\ entries[q].id = Simple(save.item.key)
    BY <1>2, <2>1 DEF InsertedUnidentified, IdentityFits
  <2>3. entries[q].id[1] = "simple" /\ entries[q].id[2] = save.item.key
    BY <2>2 DEF Simple
  <2>4. entries[q].id = Simple(CurrentOf(q).key)
    BY <2>3 DEF Agreed, KeysKept
  <2>5. CurrentOf(q).key = save.item.key
    BY <2>3, <2>4 DEF Simple
  <2> QED
    BY <2>1, <2>2, <2>5 DEF Agreed, KeysKept
<1>3. CASE CommitFails
  BY <1>3 DEF CommitFails, Undisturbed
<1> QED
  BY <1>1, <1>2, <1>3 DEF SaveFailure

(* A step of the loop either only reads, or finishes its entry.              *)
LEMMA ItemStepFinishes ==
    ASSUME Inv, SaveInv, IntentInv, NEW t \in save.todo, ItemStep(t)
    PROVE  IntentInv' /\ (UNCHANGED <<handle, entries, rows>> \/ ItemFinished(t))
<1> USE DEF IntentInv
<1>1. CASE Issue(t)
  <2>1. UNCHANGED <<handle, entries, rows>> /\ save' = [save EXCEPT !.item = EntityOf(t)]
    BY <1>1 DEF Issue
  <2>2. save'.phase = save.phase /\ save'.todo = save.todo /\ save'.item = EntityOf(t)
    BY <2>1 DEF Inv, RestTyped
  <2>3. Visiting(t) /\ StateOf(t) = Wanted
    BY <1>1 DEF Issue, Choosing
  <2>4. Saving' /\ Visiting(t)' /\ StateOf(t)' = Wanted' /\ EntityOf(t)' = save'.item
    BY <2>1, <2>2, <2>3 DEF Saving, Visiting, StateOf, EntityOf, Wanted, CurrentOf, Registered
  <2>5. ItemSound'
    BY <2>2, <2>4 DEF ItemSound
  <2> QED
    BY <2>1, <2>5, AgreedUntouched
<1>2. CASE ItemDone(t)
  <2>1. save'.item = None
    BY <1>2 DEF ItemDone, Inv, RestTyped
  <2>2. ItemSound'
    BY <2>1 DEF ItemSound
  <2>3. CASE PassOver(t) \/ ReadDead(t)
    <3>1. UNCHANGED <<handle, entries, rows>>
      BY <2>3 DEF PassOver, ReadDead
    <3> QED
      BY <2>2, <3>1, AgreedUntouched
  <2>4. CASE AcceptUnchanged(t) \/ Inserted(t) \/ Updated(t) \/ Deleted(t)
    <3>1. ItemFinished(t)
      BY <2>4, AcceptUnchangedFinishes, InsertedFinishes, UpdatedFinishes, DeletedFinishes
    <3> QED
      BY <2>2, <3>1 DEF ItemFinished
  <2>5. CASE Issue(t)
    BY <1>1, <2>5
  <2> QED
    BY <2>3, <2>4, <2>5 DEF ItemStep
<1> QED
  BY <1>1, <1>2 DEF ItemStep, PassOver, ReadDead, AcceptUnchanged, Inserted, Updated, Deleted

(* The steps of save_changes between its items touch nothing it works on.    *)
LEMMA BetweenItems ==
    ASSUME Inv, IntentInv, StartSave \/ NextPhase \/ FinishSave
    PROVE  IntentInv' /\ UNCHANGED <<handle, entries, rows>>
<1> USE DEF IntentInv
<1>1. UNCHANGED <<handle, entries, rows>>
  BY DEF StartSave, NextPhase, FinishSave
<1>2. save'.item = None
  <2>1. CASE StartSave \/ FinishSave
    BY <2>1 DEF StartSave, FinishSave, Idle
  <2>2. CASE NextPhase
    <3>1. save.item = None
      BY <2>2 DEF NextPhase, ItemSound
    <3> QED
      BY <2>2, <3>1 DEF NextPhase, Inv, RestTyped
  <2> QED
    BY <2>1, <2>2
<1>3. ItemSound'
  BY <1>2 DEF ItemSound
<1> QED
  BY <1>1, <1>3, AgreedUntouched

(* One case for each action of Next, under Undisturbed.                      *)
LEMMA NextAgrees ==
    ASSUME Undisturbed, Inv, SaveInv, IntentInv, [Next]_vars
    PROVE  IntentInv'
<1>1. CASE HandleStep \/ Clear
  <2>1. ~Saving /\ save' = save
    BY <1>1, HandleStepWaits DEF Undisturbed
  <2>2. ItemSound'
    BY <2>1 DEF IntentInv, ItemSound, Saving
  <2>3. Agreed'
    <3>1. CASE Clear
      BY <3>1, ClearAgrees DEF IntentInv
    <3>2. CASE HandleStep
      <4>1. PICK h \in Handles :
                \/ \E k \in Keys : FindLoads(h, k) \/ FindReattaches(h, k)
                \/ \E e \in Entity : Add(h, e)
                \/ \E v \in Values : Mutate(h, v)
                \/ MarkDeleted(h) \/ MarkUnchanged(h) \/ Detach(h) \/ Drop(h)
                \/ SaveNow(h) \/ DeleteNow(h)
        BY <3>2 DEF HandleStep
      <4>2. ~MarkUnchanged(h) /\ ~SaveNow(h) /\ ~DeleteNow(h)
        BY DEF Undisturbed, MarkUnchanged, SaveNow, DeleteNow, MayQuery, May
      <4>3. Detach(h) => Agreed'
        BY DetachWithAgrees DEF Detach, NoQuery, IntentInv
      <4> QED
        BY <4>1, <4>2, <4>3, FindLoadsAgrees, FindReattachesAgrees, AddAgrees, MutateAgrees,
           MarkDeletedAgrees, DropAgrees DEF IntentInv, SaveInv
    <3> QED
      BY <1>1, <3>1, <3>2
  <2> QED
    BY <2>2, <2>3 DEF IntentInv
<1>2. CASE UNCHANGED <<handle, entries, rows, save>>
  <2>1. Agreed'
    BY <1>2, AgreedUntouched DEF IntentInv
  <2>2. ItemSound'
    BY <1>2 DEF IntentInv, ItemSound, Saving, Visiting, StateOf, EntityOf, Wanted, CurrentOf,
                Registered
  <2> QED
    BY <2>1, <2>2 DEF IntentInv
<1>3. CASE EndTransaction
  BY <1>2, <1>3 DEF EndTransaction, Undisturbed
<1>4. CASE ExternalWrite
  BY <1>4 DEF ExternalWrite, Undisturbed
<1> QED
  BY <1>1, <1>2, <1>3, <1>4, SaveSucceeds, BetweenItems, ItemStepFinishes DEF Next, vars, SaveStep,
     BeginTransaction

(* There is no entry at the start.                                           *)
LEMMA InitAgrees == Init => IntentInv
<1> SUFFICES ASSUME Init PROVE IntentInv
  OBVIOUS
<1>1. Registered = {} /\ save.item = None
  BY DEF Init, Registered, Idle
<1> QED
  BY <1>1 DEF IntentInv, Agreed, KeysKept, RowsKnown, ItemSound

(* The three invariants together hold of every state, under Undisturbed.     *)
LEMMA IntentInvariance ==
    ASSUME Undisturbed
    PROVE  Spec => [](Inv /\ SaveInv /\ IntentInv)
<1>1. Init => Inv /\ SaveInv /\ IntentInv
  BY InitSound, InitSettled, InitAgrees
<1>2. (Inv /\ SaveInv /\ IntentInv) /\ [Next]_vars => (Inv /\ SaveInv /\ IntentInv)'
  BY NextKeeps, StutterKeeps, NextSettles, NextAgrees DEF Undisturbed
<1> QED
  BY <1>1, <1>2, PTL DEF Spec

(* An entry the tracker calls Unchanged has the value of its row, and no     *)
(* dead handle is ever read or written: nothing the application changed is   *)
(* forgotten, nothing is believed saved that the database does not have.     *)
THEOREM TrackerStaysFaithful ==
    ASSUME Undisturbed
    PROVE  Spec => []TrackerFaithful
<1>1. Inv /\ SaveInv /\ IntentInv => TrackerFaithful
  BY DEF IntentInv, Agreed, RowsKnown, SaveInv, TrackerFaithful, UnchangedMatchesDatabase
<1> QED
  BY IntentInvariance, <1>1, PTL

-----------------------------------------------------------------------------
(* What the application asked for.                                           *)

PendingOn(q, k) == q \in Registered /\ entries[q].state \in Pending /\ CurrentOf(q).key = k

(* Intended, read off the one entry that is after a row, or off the row.     *)
IntendedRead ==
    \A k \in Keys :
        /\ (\A q : ~PendingOn(q, k)) => Intended[k] = rows[k]
        /\ \A q : PendingOn(q, k) =>
               /\ entries[q].state = "Deleted" => Intended[k] = None
               /\ entries[q].state # "Deleted" => Intended[k] = CurrentOf(q).val

(* With at most one entry for a key, Intended is read off the entry that     *)
(* owes the row a write, or off the row when none does.                      *)
LEMMA IntendedIs == KeysKept => IntendedRead
<1> SUFFICES ASSUME KeysKept, NEW k \in Keys
             PROVE  /\ (\A q : ~PendingOn(q, k)) => Intended[k] = rows[k]
                    /\ \A q : PendingOn(q, k) =>
                           /\ entries[q].state = "Deleted" => Intended[k] = None
                           /\ entries[q].state # "Deleted" => Intended[k] = CurrentOf(q).val
  BY DEF IntendedRead
<1> DEFINE work == {r \in Registered : entries[r].state \in Pending /\ CurrentOf(r).key = k}
           one == CHOOSE q \in work : TRUE
<1>1. Intended[k] = IF work = {} THEN rows[k]
                    ELSE IF entries[one].state = "Deleted" THEN None ELSE CurrentOf(one).val
  BY DEF Intended
<1>2. \A q : q \in work <=> PendingOn(q, k)
  BY DEF PendingOn
<1>3. work # {} => one \in work
  OBVIOUS
<1>4. \A p, q \in work : p = q
  BY DEF KeysKept
<1> HIDE DEF work, one
<1>5. (\A q : ~PendingOn(q, k)) => Intended[k] = rows[k]
  BY <1>1, <1>2
<1>6. ASSUME NEW q, PendingOn(q, k)
      PROVE  /\ entries[q].state = "Deleted" => Intended[k] = None
             /\ entries[q].state # "Deleted" => Intended[k] = CurrentOf(q).val
  <2>1. q \in work
    BY <1>2, <1>6
  <2>2. work # {} /\ one = q
    BY <2>1, <1>3, <1>4
  <2> QED
    BY <2>2, <1>1
<1> QED
  BY <1>5, <1>6

(* Pending work stays as it is or is in the table, and none is new.          *)
LEMMA IntendedKept ==
    ASSUME KeysKept, KeysKept',
           \A q, k : PendingOn(q, k)' =>
               /\ PendingOn(q, k)
               /\ entries'[q].state = entries[q].state /\ CurrentOf(q)' = CurrentOf(q),
           \A k \in Keys : \A q : PendingOn(q, k) =>
               \/ PendingOn(q, k)'
               \/ rows'[k] = IF entries[q].state = "Deleted" THEN None ELSE CurrentOf(q).val,
           \A k \in Keys : (\A q : ~PendingOn(q, k)) => rows'[k] = rows[k]
    PROVE  Intended' = Intended
<1>1. IntendedRead
  BY IntendedIs
<1>2. IntendedRead'
  BY IntendedIs, PTL
<1>3. ASSUME NEW k \in Keys
      PROVE  Intended'[k] = Intended[k]
  <2>1. CASE \A q : ~PendingOn(q, k)
    <3>1. \A q : ~PendingOn(q, k)'
      BY <2>1
    <3>2. Intended'[k] = rows'[k]
      BY <3>1, <1>2 DEF IntendedRead
    <3> QED
      BY <2>1, <3>2, <1>1 DEF IntendedRead
  <2>2. ASSUME NEW q, PendingOn(q, k), PendingOn(q, k)'
        PROVE  Intended'[k] = Intended[k]
    <3>1. entries'[q].state = entries[q].state /\ CurrentOf(q)' = CurrentOf(q)
      BY <2>2
    <3>2. /\ entries'[q].state = "Deleted" => Intended'[k] = None
          /\ entries'[q].state # "Deleted" => Intended'[k] = CurrentOf(q)'.val
      BY <1>2, <2>2 DEF IntendedRead
    <3> QED
      BY <1>1, <2>2, <3>1, <3>2 DEF IntendedRead
  <2>3. ASSUME NEW q, PendingOn(q, k), ~PendingOn(q, k)'
        PROVE  Intended'[k] = Intended[k]
    <3>1. \A p : ~PendingOn(p, k)'
      <4> SUFFICES ASSUME NEW p, PendingOn(p, k)' PROVE FALSE
        OBVIOUS
      <4>1. PendingOn(p, k)
        OBVIOUS
      <4>2. p = q
        BY <2>3, <4>1 DEF PendingOn, KeysKept
      <4> QED
        BY <2>3, <4>2
    <3>2. Intended'[k] = rows'[k]
      BY <3>1, <1>2 DEF IntendedRead
    <3>3. rows'[k] = IF entries[q].state = "Deleted" THEN None ELSE CurrentOf(q).val
      BY <2>3
    <3> QED
      BY <1>1, <2>3, <3>2, <3>3 DEF IntendedRead
  <2> QED
    BY <2>1, <2>2, <2>3
<1>4. Intended = [k \in Keys |-> Intended[k]] /\ Intended' = [k \in Keys |-> Intended'[k]]
  BY DEF Intended
<1> QED
  BY <1>3, <1>4

(* Intended reads the handles, the entries and the rows only.                *)
LEMMA UntouchedIntended ==
    ASSUME UNCHANGED <<handle, entries, rows>>
    PROVE  Intended' = Intended
  BY DEF Intended, CurrentOf, Registered

(* What an entry was meant to write is what its statement wrote.             *)
LEMMA FinishedIntended ==
    ASSUME Inv, Agreed, NEW t, ItemFinished(t)
    PROVE  Intended' = Intended
<1> USE DEF ItemFinished
<1>1. KeysKept /\ KeysKept'
  BY DEF Agreed
<1>2. \A q, k : PendingOn(q, k)' =>
          /\ PendingOn(q, k)
          /\ entries'[q].state = entries[q].state /\ CurrentOf(q)' = CurrentOf(q)
  BY DEF PendingOn, Pending
<1>3. \A k \in Keys : \A q : PendingOn(q, k) =>
          \/ PendingOn(q, k)'
          \/ rows'[k] = IF entries[q].state = "Deleted" THEN None ELSE CurrentOf(q).val
  BY DEF PendingOn
<1>4. \A k \in Keys : (\A q : ~PendingOn(q, k)) => rows'[k] = rows[k]
  BY DEF PendingOn
<1> QED
  BY <1>1, <1>2, <1>3, <1>4, IntendedKept

(* find and Drop settle no write and lose none.                              *)
LEMMA HandlesIntended ==
    ASSUME Inv, ~deadUse, Agreed, NEW h \in Handles, NEW k \in Keys,
           FindLoads(h, k) \/ FindReattaches(h, k) \/ Drop(h)
    PROVE  Intended' = Intended
<1>1. Agreed' /\ rows' = rows
  BY FindLoadsAgrees, FindReattachesAgrees, DropAgrees
<1>2. \A q, j : PendingOn(q, j)' =>
          /\ PendingOn(q, j)
          /\ entries'[q].state = entries[q].state /\ CurrentOf(q)' = CurrentOf(q)
  <2>1. CASE FindLoads(h, k)
    BY <2>1, FindLoadsAgrees DEF PendingOn, Pending
  <2>2. CASE FindReattaches(h, k)
    BY <2>2, FindReattachesAgrees DEF PendingOn
  <2>3. CASE Drop(h)
    BY <2>3, DropAgrees DEF PendingOn
  <2> QED
    BY <2>1, <2>2, <2>3
<1>3. \A j \in Keys : \A q : PendingOn(q, j) => PendingOn(q, j)'
  <2>1. CASE FindLoads(h, k)
    BY <2>1, FindLoadsAgrees DEF PendingOn
  <2>2. CASE FindReattaches(h, k)
    BY <2>2, FindReattachesAgrees DEF PendingOn
  <2>3. CASE Drop(h)
    BY <2>3, DropAgrees DEF PendingOn
  <2> QED
    BY <2>1, <2>2, <2>3
<1> QED
  BY <1>1, <1>2, <1>3, IntendedKept DEF Agreed

(* Dropping a handle, finding it again and every step of save_changes keep   *)
(* what the application asked for: only its own edits change it.             *)
THEOREM IntentAlwaysSurvives ==
    ASSUME Undisturbed
    PROVE  Spec => IntentSurvives
<1> DEFINE Keeping ==
        \/ SaveStep
        \/ \E h \in Handles : Drop(h) \/ \E k \in Keys : FindLoads(h, k) \/ FindReattaches(h, k)
<1>1. Inv /\ SaveInv /\ IntentInv /\ Keeping => Intended' = Intended
  <2> SUFFICES ASSUME Inv, SaveInv, IntentInv, Keeping PROVE Intended' = Intended
    OBVIOUS
  <2>1. CASE StartSave \/ NextPhase \/ FinishSave
    BY <2>1, BetweenItems, UntouchedIntended
  <2>2. ASSUME NEW t \in save.todo, ItemStep(t)
        PROVE  Intended' = Intended
    BY <2>2, ItemStepFinishes, UntouchedIntended, FinishedIntended DEF IntentInv
  <2>3. ASSUME NEW h \in Handles, NEW k \in Keys, FindLoads(h, k) \/ FindReattaches(h, k)
        PROVE  Intended' = Intended
    BY <2>3, HandlesIntended DEF IntentInv, SaveInv
  <2>4. ASSUME NEW h \in Handles, Drop(h)
        PROVE  Intended' = Intended
    <3>1. CASE Keys = {}
      BY <3>1 DEF Intended
    <3>2. CASE Keys # {}
      BY <2>4, <3>2, HandlesIntended DEF IntentInv, SaveInv
    <3> QED
      BY <3>1, <3>2
  <2> QED
    BY <2>1, <2>2, <2>3, <2>4 DEF SaveStep
<1>2. Inv /\ SaveInv /\ IntentInv => [Keeping => Intended' = Intended]_vars
  BY <1>1
<1> HIDE DEF Keeping
<1>3. Spec => [][Keeping => Intended' = Intended]_vars
  BY IntentInvariance, <1>2, PTL
<1> QED
  BY <1>3 DEF Keeping, IntentSurvives
=============================================================================
