------------------------------ MODULE MapItems ------------------------------
(***************************************************************************)
(* One map node with the values of its collection.  Before anything starts *)
(* every item is checked (preflightMap); items then run in the order of    *)
(* their keys, at most maximumConcurrency at a time.                       *)
(*                                                                         *)
(* The persisted owner holds no item: only the sorted keys and the place   *)
(* each has in the collection.  What a transition has read of the items it *)
(* remembers until it ends; a later one reads an item again, finding it by *)
(* its key (reconstructMapItem).                                           *)
(*                                                                         *)
(* Keys are numbers, in the order of their code points.  The cancellation  *)
(* of an enclosing owner or of the run is in Kernel, not here.             *)
(***************************************************************************)
EXTENDS Integers, Sequences, FiniteSetsExt, SequencesExt, TLC

CONSTANTS
  Collections,          \* what the items selector may resolve to
  maximumItems, maximumConcurrency,
  Failures              \* what an item can fail with

ASSUME MapAssumption == maximumItems \in Nat /\ maximumConcurrency \in Nat \ {0}

\* A failed item is collected, or the first one fails the map: the started items are
\* then waited for or cancelled.
Policies == {"collect", "drain", "cancel"}

None == "none"
NoKey == -1             \* the item has nothing at the key pointer
NotAString == 0         \* or what it has is no string
\* What the body mapping makes of an item, besides an input for the body.
Unmapped == "unmapped"  \* a selector of the mapping resolves to nothing
Misfit == "misfit"      \* the input is off the schema of the body

VARIABLES
  policy,
  collection,   \* [kind |-> "array" | "other" | "missing", items]: an item is [key, value]
  owner,        \* the map frame, or NoOwner before and after
  items,        \* live item frames: key -> their input
  remembered,   \* descriptors read in this transition: key -> [item, input]
  queued,       \* the owner is to be settled in this transition
  outcome,      \* what the node is given: a failure or the results of the items
  valid,        \* FALSE once the machine would give up on its state
  ended         \* history: the results of the items that ran, in the order they ended

node == <<policy, collection>>
vars == <<node, owner, items, remembered, queued, outcome, valid, ended>>

NoOwner == [status |-> None]
NoOutcome == [status |-> None]

-----------------------------------------------------------------------------
(***************************************************************************)
(* Preflight: the first item that is wrong, of the first check that fails. *)
(***************************************************************************)
failed(code, index) == [status |-> "failed", code |-> code, index |-> index]
accepted(descriptors) == [status |-> "accepted", descriptors |-> descriptors]

locateItemKeys(list) == {i \in DOMAIN list : list[i].key = NoKey}
requireStringKeys(list) == {i \in DOMAIN list : list[i].key = NotAString}
requireUniqueKeys(list) ==
  {i \in DOMAIN list : \E earlier \in 1..(i - 1) : list[earlier].key = list[i].key}
constructItemInputs(list) == {i \in DOMAIN list : list[i].value = Unmapped}
validateItemInputs(list) == {i \in DOMAIN list : list[i].value = Misfit}

descriptorFrom(list, index) ==
  [index |-> index, itemKey |-> list[index].key, item |-> list[index],
   input |-> <<list[index].value, list[index].key>>]

NoDescriptor == [index |-> 0]

\* A mutant: in the order of the collection.
byKeyUnsorted(descriptors) == descriptors

byKey(descriptors) == SortSeq(descriptors, LAMBDA a, b : a.itemKey < b.itemKey)

preflightMap ==
  LET list == collection.items
      first(wrong) == Min(wrong)
  IN  CASE collection.kind = "missing" -> failed("DATA_POINTER_MISSING", 0)
        [] collection.kind = "other" \/ (collection.kind = "array" /\ Len(list) > maximumItems) ->
             failed("DATA_SCHEMA_MISMATCH", 0)
        [] OTHER ->
             IF locateItemKeys(list) # {}
             THEN failed("DATA_POINTER_MISSING", first(locateItemKeys(list)))
             ELSE IF requireStringKeys(list) # {}
             THEN failed("DATA_SCHEMA_MISMATCH", first(requireStringKeys(list)))
             ELSE IF requireUniqueKeys(list) # {}
             THEN failed("DATA_SCHEMA_MISMATCH", first(requireUniqueKeys(list)))
             ELSE IF constructItemInputs(list) # {}
             THEN failed("DATA_POINTER_MISSING", first(constructItemInputs(list)))
             ELSE IF validateItemInputs(list) # {}
             THEN failed("DATA_SCHEMA_MISMATCH", first(validateItemInputs(list)))
             ELSE accepted(byKey([i \in DOMAIN list |-> descriptorFrom(list, i)]))

-----------------------------------------------------------------------------
(***************************************************************************)
(* Binary search.                                                          *)
(***************************************************************************)
\* The index of target among the sorted keys, 0 if it is not there.
findSortedIndex(keys, target) ==
  LET search[lower \in 1..(Len(keys) + 1), upper \in 0..Len(keys)] ==
        LET middle == lower + (upper - lower) \div 2
        IN  CASE lower > upper -> 0
              [] lower <= upper /\ keys[middle] = target -> middle
              [] lower <= upper /\ keys[middle] < target -> search[middle + 1, upper]
              [] lower <= upper /\ keys[middle] > target -> search[lower, middle - 1]
  IN  search[1, Len(keys)]

\* How many of the sorted keys come before target.
findSortedInsertionIndex(keys, target) ==
  LET search[lower \in 0..Len(keys), upper \in 0..Len(keys)] ==
        LET middle == lower + (upper - lower) \div 2
        IN  CASE lower = upper -> lower
              [] lower < upper /\ keys[middle + 1] < target -> search[middle + 1, upper]
              [] lower < upper /\ keys[middle + 1] >= target -> search[lower, middle]
  IN  search[0, Len(keys)]

Keys(results) == [i \in DOMAIN results |-> results[i].itemKey]

\* A mutant: appended, as the items end.
appendMapItemResult(results, result) == Append(results, result)

insertMapItemResult(results, result) ==
  InsertAt(results, findSortedInsertionIndex(Keys(results), result.itemKey) + 1, result)

-----------------------------------------------------------------------------
(***************************************************************************)
(* Reading an item again.                                                  *)
(***************************************************************************)
\* A mutant: the place of the key among the sorted ones.
sourceIndexAmongSorted(own, itemKey) == findSortedIndex(own.itemKeys, itemKey)

sourceIndexFor(own, itemKey) ==
  LET index == findSortedIndex(own.itemKeys, itemKey)
  IN  IF index = 0 THEN 0 ELSE own.itemSourceIndexes[index]

reconstructMapItem(itemKey, sourceIndex) ==
  LET list == collection.items
  IN  IF \/ sourceIndex \notin DOMAIN list
         \/ list[sourceIndex].key # itemKey
         \/ list[sourceIndex].value \in {Unmapped, Misfit}
      THEN NoDescriptor
      ELSE descriptorFrom(list, sourceIndex)

descriptor(itemKey) ==
  IF itemKey \in DOMAIN remembered THEN remembered[itemKey]
  ELSE reconstructMapItem(itemKey, sourceIndexFor(owner, itemKey))

\* map.item and map.itemKey for the selectors of a running item.
itemScope(itemKey) ==
  LET read == descriptor(itemKey)
  IN  IF read = NoDescriptor THEN NoDescriptor ELSE [item |-> read.item, itemKey |-> read.itemKey]

-----------------------------------------------------------------------------
(***************************************************************************)
(* The owner.                                                              *)
(***************************************************************************)
Result(itemKey, status, failure) == [itemKey |-> itemKey, status |-> status, failure |-> failure]
Cancelled(itemKey) == Result(itemKey, "cancelled", None)
sorted(results) == SortSeq(results, LAMBDA a, b : a.itemKey < b.itemKey)

createMapOwner(descriptors) ==
  [status |-> "active", selected |-> None, selectedFailureItemKey |-> 0,
   itemKeys |-> Keys(descriptors),
   itemSourceIndexes |-> [i \in DOMAIN descriptors |-> descriptors[i].index],
   pendingItemKeys |-> Keys(descriptors), activeItemKeys |-> <<>>, completedItems |-> <<>>]

\* own with its first pending items started, as many as run at a time.
Starting(own) ==
  SubSeq(own.pendingItemKeys, 1,
         Min({Len(own.pendingItemKeys), maximumConcurrency - Len(own.activeItemKeys)}))
StartFirst(own) ==
  [own EXCEPT !.pendingItemKeys = SubSeq(@, Len(Starting(own)) + 1, Len(@)),
              !.activeItemKeys = SortSeq(@ \o Starting(own), <)]

\* A mutant: a later failure is selected instead.
completionStateLatest(own, result) ==
  IF result.status # "failed" \/ policy = "collect" THEN own
  ELSE [own EXCEPT !.selected = "failed", !.selectedFailureItemKey = result.itemKey,
                   !.status = IF policy = "cancel" THEN "cancelling" ELSE "draining"]

completionState(own, result) ==
  IF own.selected # None \/ result.status # "failed" \/ policy = "collect" THEN own
  ELSE [own EXCEPT !.selected = "failed", !.selectedFailureItemKey = result.itemKey,
                   !.status = IF policy = "cancel" THEN "cancelling" ELSE "draining"]

CancelKeys(own, keys) ==
  [own EXCEPT !.completedItems = sorted(@ \o [i \in DOMAIN keys |-> Cancelled(keys[i])])]

locallyCancelUnstarted(own) ==
  [CancelKeys(own, own.pendingItemKeys) EXCEPT !.pendingItemKeys = <<>>]

\* idle: the started items that wait for nothing.
locallyCancelIdleActive(own, idle) ==
  [CancelKeys(own, SelectSeq(own.activeItemKeys, LAMBDA k : k \in idle))
     EXCEPT !.activeItemKeys = SelectSeq(@, LAMBDA k : k \notin idle)]

\* The failure of the selected item, by binary search among the results.
findSelectedMapFailure(own) ==
  LET index == findSortedIndex(Keys(own.completedItems), own.selectedFailureItemKey)
  IN  IF index = 0 THEN None ELSE own.completedItems[index].failure

finishMap(own) ==
  CASE own.selected # "failed" -> [status |-> "completed", items |-> own.completedItems]
    [] own.selected = "failed" -> [status |-> "failed", failure |-> findSelectedMapFailure(own)]

\* The end of settling: the owner waits for items, or is done.
Settle(own) ==
  /\ queued' = FALSE
  /\ IF own.activeItemKeys # <<>> \/ own.pendingItemKeys # <<>>
     THEN owner' = own /\ UNCHANGED <<outcome, valid>>
     ELSE /\ owner' = NoOwner
          /\ outcome' = finishMap(own)
          /\ valid' = (outcome' # [status |-> "failed", failure |-> None])

-----------------------------------------------------------------------------
(***************************************************************************)
(* Actions.                                                                *)
(***************************************************************************)
Init ==
  /\ policy \in Policies /\ collection \in Collections
  /\ owner = NoOwner /\ outcome = NoOutcome
  /\ items = <<>> /\ remembered = <<>> /\ ended = <<>>
  /\ queued = FALSE /\ valid = TRUE

\* The map node is reached: it fails at once, or owns items from now on.
RefuseMap ==
  /\ owner = NoOwner /\ outcome = NoOutcome /\ preflightMap.status = "failed"
  /\ outcome' = preflightMap
  /\ UNCHANGED <<node, owner, items, remembered, queued, valid, ended>>

StartMap ==
  LET descriptors == preflightMap.descriptors
      created == createMapOwner(descriptors)
      read(itemKey) == CHOOSE d \in ToSet(descriptors) : d.itemKey = itemKey
  IN  /\ owner = NoOwner /\ outcome = NoOutcome /\ preflightMap.status = "accepted"
      /\ owner' = IF descriptors = <<>>
                  THEN [created EXCEPT !.status = "completed", !.selected = "completed"]
                  ELSE StartFirst(created)
      /\ items' = [k \in ToSet(Starting(created)) |-> read(k).input]
      /\ remembered' = [k \in ToSet(created.itemKeys) |-> read(k)]
      /\ queued' = (descriptors = <<>>)
      /\ UNCHANGED <<node, outcome, valid, ended>>

\* An item ends: in the transition it started in, or in a later one.
completeMapItem(itemKey, status, failure) ==
  LET result == Result(itemKey, status, failure)
  IN  /\ valid /\ itemKey \in DOMAIN items
      /\ items' = [k \in DOMAIN items \ {itemKey} |-> items[k]]
      /\ owner' = completionState([owner EXCEPT
                     !.activeItemKeys = SelectSeq(@, LAMBDA k : k # itemKey),
                     !.completedItems = insertMapItemResult(@, result)], result)
      /\ ended' = Append(ended, result)
      /\ queued' = TRUE
      /\ UNCHANGED <<node, remembered, outcome, valid>>

\* Something is selected: nothing more starts, and idle items end with it.
settleSelected ==
  LET rest == locallyCancelUnstarted(owner)
  IN  /\ queued /\ owner.selected # None
      /\ \E idle \in IF rest.status = "cancelling" THEN SUBSET ToSet(rest.activeItemKeys)
                      ELSE {{}} :
           /\ items' = [k \in DOMAIN items \ idle |-> items[k]]
           /\ Settle(locallyCancelIdleActive(rest, idle))
      /\ UNCHANGED <<node, remembered, ended>>

\* The next items start, each read again unless this transition remembers it.
refill ==
  LET starting == Starting(owner)
  IN  /\ queued /\ owner.selected = None
      /\ IF NoDescriptor \in {descriptor(k) : k \in ToSet(starting)}
         THEN /\ valid' = FALSE /\ queued' = FALSE
              /\ UNCHANGED <<owner, items, remembered, outcome>>
         ELSE /\ items' = [k \in ToSet(starting) |-> descriptor(k).input] @@ items
              /\ remembered' = [k \in ToSet(starting) |-> descriptor(k)] @@ remembered
              /\ Settle(StartFirst(owner))
      /\ UNCHANGED <<node, ended>>

\* The transition ends; the next one starts from the persisted state.
EndTransition ==
  /\ owner # NoOwner /\ ~queued /\ remembered # <<>>
  /\ remembered' = <<>>
  /\ UNCHANGED <<node, owner, items, queued, outcome, valid, ended>>

Next ==
  \/ RefuseMap \/ StartMap
  \/ \E itemKey \in DOMAIN items :
       \/ \E status \in {"succeeded", "cancelled"} : completeMapItem(itemKey, status, None)
       \/ \E failure \in Failures : completeMapItem(itemKey, "failed", failure)
  \/ settleSelected \/ refill
  \/ EndTransition
Spec == Init /\ [][Next]_vars
=============================================================================
