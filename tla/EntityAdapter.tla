--------------------------- MODULE EntityAdapter ----------------------------
(***************************************************************************)
(* createEntityAdapter of utils/redux/entity-adapter.ts: a list of ids in  *)
(* the order they are shown and a dictionary from ids to entities.  The    *)
(* list and the dictionary are updated separately, so nothing but the      *)
(* discipline of the callers keeps them in step.                           *)
(***************************************************************************)
EXTENDS Integers, SequencesExt

\* reset([])
emptyState == [ids |-> <<>>, entities |-> <<>>]

\* ids.indexOf(id) + 1: 0 when the list does not hold id.
positionOf(ids, id) == SelectInSeq(ids, LAMBDA i : i = id)

\* ids.filter(item => item !== id), for a list that holds id at most once.
without(ids, id) ==
  IF id \in ToSet(ids) THEN RemoveAt(ids, positionOf(ids, id)) ELSE ids

\* {...entities, [id]: item}
put(entities, id, item) ==
  [i \in DOMAIN entities \cup {id} |-> IF i = id THEN item ELSE entities[i]]

reset(ids, entities) == [ids |-> ids, entities |-> entities]

\* An unknown `after` puts the new entity at the head.
insertAfter(state, after, id, item) ==
  [ids      |-> InsertAt(state.ids, positionOf(state.ids, after) + 1, id),
   entities |-> put(state.entities, id, item)]

append(state, id, item) ==
  [ids      |-> Append(state.ids, id),
   entities |-> put(state.entities, id, item)]

remove(state, id) ==
  [ids      |-> without(state.ids, id),
   entities |-> Restrict(state.entities, DOMAIN state.entities \ {id})]

\* The removals of several ids, one after the other.
withoutAll(ids, gone) ==
  LET left[n \in 0 .. Len(gone)] ==
        IF n = 0 THEN ids ELSE without(left[n - 1], gone[n])
  IN  left[Len(gone)]

removeAll(state, ids) ==
  [ids      |-> withoutAll(state.ids, ids),
   entities |-> Restrict(state.entities, DOMAIN state.entities \ ToSet(ids))]

\* The dictionary gets an entry even when the list does not hold id.
update(state, id, item) ==
  [state EXCEPT !.entities = put(state.entities, id, item)]

\* What the callers rely on: the list holds every key of the dictionary once.
inStep(state) ==
  /\ IsInjective(state.ids)
  /\ ToSet(state.ids) = DOMAIN state.entities
=============================================================================
