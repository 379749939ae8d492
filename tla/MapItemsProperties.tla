------------------------- MODULE MapItemsProperties -------------------------
(***************************************************************************)
(* What a map promises of its items, over every collection of a few items  *)
(* that may be well formed or wrong in any way.                            *)
(***************************************************************************)
EXTENDS MapItems

CONSTANT MaxKey     \* the string keys are 1..MaxKey

\* Everything the items selector may give: up to maximumItems items with any key and
\* any value, one item too many, no array, or nothing at all.
AnyItem == [key : {NoKey, NotAString} \cup 1..MaxKey, value : {"x", "y", Unmapped, Misfit}]
AnyCollection ==
  [kind : {"array"}, items : UNION {[1..n -> AnyItem] : n \in 0..maximumItems}]
  \cup {[kind |-> "array", items |-> [i \in 1..(maximumItems + 1) |-> [key |-> i, value |-> "x"]]],
        [kind |-> "other", items |-> <<>>], [kind |-> "missing", items |-> <<>>]}

Ascending(keys) == \A i \in 1..(Len(keys) - 1) : keys[i] < keys[i + 1]
Running == owner # NoOwner
KeysOf(list) == {list[i].key : i \in DOMAIN list}

\* The frames and the owner agree: of the sorted keys of the collection each is waiting,
\* started with a live frame, or completed, and only one of them; each list is sorted.
KeysArePartitioned ==
  Running =>
    LET waiting == owner.pendingItemKeys
        active == owner.activeItemKeys
        completed == Keys(owner.completedItems)
    IN  /\ \A keys \in {owner.itemKeys, waiting, active, completed} : Ascending(keys)
        /\ ToSet(owner.itemKeys) = KeysOf(collection.items)
        /\ ToSet(owner.itemKeys) = ToSet(waiting) \cup ToSet(active) \cup ToSet(completed)
        /\ Len(waiting) + Len(active) + Len(completed) = Len(owner.itemKeys)
        /\ ToSet(active) = DOMAIN items

\* Whether its item was remembered or read again, an item runs with the input made of
\* the one element that has its key, and reads that element as map.item; reading an
\* item again never fails.
ItemsAreTheirOwn ==
  valid /\ \A k \in DOMAIN items : \E i \in DOMAIN collection.items :
    /\ collection.items[i].key = k
    /\ items[k] = <<collection.items[i].value, k>>
    /\ itemScope(k) = [item |-> collection.items[i], itemKey |-> k]

\* The results of a completed map: one for each key of the collection, in key order,
\* and each the one its item ended with; under "collect" none was left out.
ResultsAreComplete ==
  outcome.status = "completed" =>
    /\ Ascending(Keys(outcome.items))
    /\ ToSet(Keys(outcome.items)) = KeysOf(collection.items)
    /\ ToSet(outcome.items) = ToSet(ended)

\* A map fails because of the item that failed first, however many failed or ended
\* while it was being stopped.
FirstFailureWins ==
  outcome.status = "failed" /\ ended # <<>> =>
    LET failures == SelectSeq(ended, LAMBDA r : r.status = "failed")
    IN  failures # <<>> /\ outcome.failure = Head(failures).failure
=============================================================================
