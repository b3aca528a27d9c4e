------------------------- MODULE NavigationWrappers -------------------------
(* Navigation, LazyNavigation, Collection and LazyCollection of             *)
(* crates/sql-orm/src/lib.rs: the wrappers an entity holds its related      *)
(* entities in, and the log of the changes made to them on purpose.         *)
(*                                                                          *)
(* A related entity is seen as a copy (what it is does not matter here) and *)
(* as the registration id of the Tracked handle it was copied from, None    *)
(* when it came from anywhere else.  A wrapper keeps the changes themselves *)
(* and the identities they name; the two logs grow and are drained together *)
(* and are one log here.                                                    *)
EXTENDS Naturals, Sequences, SequencesExt

CONSTANTS None      \* no value, no tracked identity

(* RelationshipTrackedIdentity: a registration id, or None.                 *)
Related(value, identity) == [value |-> value, identity |-> identity]
Nothing == Related(None, None)

(* RelationshipNavigationChange::Set with its identity change               *)
SetChange(previous, current) ==
    [kind |-> "set", previous |-> previous, current |-> current]
(* RelationshipCollectionChange::Added and Removed                          *)
ListChange(kind, related) == [kind |-> kind, current |-> related]

-----------------------------------------------------------------------------
(* Navigation *)

Navigation(related) == [related |-> related, loaded |-> TRUE, log |-> <<>>]
EmptyNavigation == Navigation(Nothing)

(* Navigation::set: what loading uses, and never a change.                  *)
SetNavigation(nav, value) == [nav EXCEPT !.related = Related(value, None)]

(* set_related and set_tracked_related                                      *)
Replaced(nav, related) ==
    [nav EXCEPT !.related = related, !.log = Append(@, SetChange(nav.related, related))]
SetRelated(nav, value) == Replaced(nav, Related(value, None))
SetTrackedRelated(nav, value, identity) == Replaced(nav, Related(value, identity))

(* Navigation::take_relationship_change_batch; what is in the wrapper stays. *)
Drained(wrapper) == [wrapper EXCEPT !.log = <<>>]

(* LazyNavigation *)
UnloadedNavigation == [EmptyNavigation EXCEPT !.loaded = FALSE]
LazySetLoaded(nav, value) == [SetNavigation(nav, value) EXCEPT !.loaded = TRUE]
LazySetRelated(nav, value) == [SetRelated(nav, value) EXCEPT !.loaded = TRUE]
LazySetTrackedRelated(nav, value, identity) ==
    [SetTrackedRelated(nav, value, identity) EXCEPT !.loaded = TRUE]
(* clear: the value goes, the recorded changes stay.                        *)
LazyClear(nav) == [nav EXCEPT !.related = Nothing, !.loaded = FALSE]

-----------------------------------------------------------------------------
(* Collection *)

EmptyCollection == [values |-> <<>>, loaded |-> TRUE, log |-> <<>>]
(* from_vec: loaded values carry no identity, and the log starts anew.      *)
CollectionOf(values) ==
    [EmptyCollection EXCEPT !.values = [i \in DOMAIN values |-> Related(values[i], None)]]

Pushed(coll, related) ==
    [coll EXCEPT !.values = Append(@, related), !.log = Append(@, ListChange("added", related))]
PushRelated(coll, value) == Pushed(coll, Related(value, None))
PushTrackedRelated(coll, value, identity) == Pushed(coll, Related(value, identity))

(* remove_related_at, an index that is there                                *)
RemoveRelatedAt(coll, i) ==
    [coll EXCEPT !.values = RemoveAt(@, i), !.log = Append(@, ListChange("removed", coll.values[i]))]

(* LazyCollection *)
UnloadedCollection == [EmptyCollection EXCEPT !.loaded = FALSE]
LazyLoaded(coll) == [coll EXCEPT !.loaded = TRUE]
LazyPushTrackedRelated(coll, value, identity) ==
    LazyLoaded(PushTrackedRelated(coll, value, identity))
LazyPushRelated(coll, value) == LazyLoaded(PushRelated(coll, value))
LazyRemoveRelatedAt(coll, i) == LazyLoaded(RemoveRelatedAt(coll, i))
LazyClearCollection(coll) == [coll EXCEPT !.values = <<>>, !.loaded = FALSE]
=============================================================================
