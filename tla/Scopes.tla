------------------------------- MODULE Scopes -------------------------------
(***************************************************************************)
(* What a selector may name, and what is there when it is resolved.        *)
(*                                                                         *)
(* The sources of values that depend on where a node stands are the inputs *)
(* of its module and its region, the iteration and the previous output of a*)
(* loop, the item of a map and its key, and the output of a body that just *)
(* ended.  Three analyses say, for every place, which of them exist: the   *)
(* validation of the source, the compiler's dataflow and the admission of  *)
(* the program.  Then the machine builds the environment of a frame from   *)
(* the frame and its owner.                                                *)
(*                                                                         *)
(* A place is a chain of regions, each inside the one before: by its kind, *)
(* region k was started by a node of region k - 1.  What a source gives is *)
(* [of, value]: `of` names the region whose body, item or input it is, and *)
(* stands for the schema it has; `value` tells one turn from another.      *)
(***************************************************************************)
EXTENDS Integers, Sequences, SequencesExt, TLC

CONSTANTS
  Depth,        \* regions inside each other
  Iterations,   \* maximumIterations of every loop
  Items         \* items of every map

ASSUME ScopesAssumption == Depth \in Nat \ {0} /\ Iterations \in Nat \ {0} /\ Items \in Nat \ {0}

Nested == {"callRegion", "parallelBranch", "repeatBody", "mapItem"}
Root == [kind |-> "rootRegion", ordinal |-> 0, previousOutput |-> "null"]

VARIABLES
  frames,       \* the regions from the root inwards: [kind, ordinal, previousOutput]
  reading,      \* which selectors are resolved: of a node of the innermost region
                \* ("base"), of the input of an item about to start ("bodyInput") or
                \* of a loop whose body, the innermost region, ended ("childExit")
  item          \* the item about to start

vars == <<frames, reading, item>>
Top == Len(frames)

-----------------------------------------------------------------------------
(***************************************************************************)
(* The three analyses.  An environment maps the sources there are to the   *)
(* region they belong to; `chain` is the kinds of the regions.             *)
(***************************************************************************)
Chain == [k \in DOMAIN frames |-> frames[k].kind]

\* The regions of a module are analysed from its top region; a call leads to another
\* module, and nothing of the caller is in scope there.
moduleOf(chain, k) == CHOOSE m \in 1..k : /\ chain[m] \in {"rootRegion", "callRegion"}
                                          /\ \A j \in (m + 1)..k : chain[j] \notin {"rootRegion", "callRegion"}

repeatScope(k) == [iteration |-> k, previousOutput |-> k]
mapScope(k) == [item |-> k, itemKey |-> k]
moduleScope(k) == [moduleInput |-> k, scopeInput |-> k]

\* Source: a body has what the place of its node has, and its own scope.
bodyEnvironment(environment, kind, k) ==
  CASE kind = "repeatBody" -> repeatScope(k) @@ environment
    [] kind = "mapItem"    -> mapScope(k) @@ environment
    [] OTHER               -> environment

sourceRegion(chain) ==
  LET inside[k \in 1..Len(chain)] ==
        IF chain[k] \in {"rootRegion", "callRegion"} THEN moduleScope(k)
        ELSE [scopeInput |-> k] @@ bodyEnvironment(inside[k - 1], chain[k], k)
  IN  inside[Len(chain)]

sourceEnvironment(chain, at) ==
  CASE at = "base" -> sourceRegion(chain)
    [] at = "bodyInput" -> bodyEnvironment(sourceRegion(chain), "mapItem", Len(chain) + 1)
    [] at = "childExit" ->
         [regionOutput |-> Len(chain)]
           @@ bodyEnvironment(sourceRegion(Front(chain)), "repeatBody", Len(chain))

\* A mutant: the loop further out hides the inner one.
repeatEnvironmentOuter(environment, k) ==
  environment @@ [regionOutput |-> k] @@ repeatScope(k)

\* Compiler: the environment after the body, without its output, is the body's.
repeatEnvironment(environment, k) ==
  [regionOutput |-> k] @@ repeatScope(k) @@ environment

compilerRegion(chain) ==
  LET inside[k \in 1..Len(chain)] ==
        CASE chain[k] \in {"rootRegion", "callRegion"} -> moduleScope(k)
          [] chain[k] = "parallelBranch" -> [scopeInput |-> k] @@ inside[k - 1]
          [] chain[k] = "repeatBody" ->
               LET enclosing == inside[k - 1]
                   afterBody == repeatEnvironment(enclosing, k)
               IN  [iteration |-> afterBody["iteration"],
                    previousOutput |-> afterBody["previousOutput"],
                    scopeInput |-> k] @@ enclosing
          [] chain[k] = "mapItem" -> [scopeInput |-> k] @@ mapScope(k) @@ inside[k - 1]
  IN  inside[Len(chain)]

compilerEnvironment(chain, at) ==
  CASE at = "base"      -> compilerRegion(chain)
    [] at = "bodyInput" -> mapScope(Len(chain) + 1) @@ compilerRegion(chain)
    [] at = "childExit" -> repeatEnvironment(compilerRegion(Front(chain)), Len(chain))

\* Admission: a child gets what its node has, with its own scope in place of the same
\* one further out.
validateChild(chain) ==
  LET inside[k \in 1..Len(chain)] ==
        IF chain[k] \in {"rootRegion", "callRegion"} THEN moduleScope(k)
        ELSE LET enclosing == inside[k - 1]
             IN  [scopeInput |-> k]
                   @@ (CASE chain[k] = "repeatBody" -> repeatScope(k)
                         [] chain[k] = "mapItem" -> mapScope(k)
                         [] OTHER -> <<>>)
                   @@ enclosing
  IN  inside[Len(chain)]

validateNode(chain, at) ==
  CASE at = "base"      -> validateChild(chain)
    [] at = "bodyInput" -> mapScope(Len(chain) + 1) @@ validateChild(chain)
    [] at = "childExit" ->
         repeatScope(Len(chain)) @@ [regionOutput |-> Len(chain)] @@ validateChild(Front(chain))

-----------------------------------------------------------------------------
(***************************************************************************)
(* The machine.                                                            *)
(***************************************************************************)
Value(k, turn) == [of |-> k, value |-> turn]

\* moduleInput is the input of the nearest frame of a module.
moduleInputFor(k) == moduleOf(Chain, k)

baseEnvironment(k) ==
  [moduleInput |-> Value(moduleInputFor(k), "input"), scopeInput |-> Value(k, "input")]

\* A mutant: the loop the frame is in, however far out.
selectorEnvironmentOfOwners(k) ==
  LET loops == {j \in moduleOf(Chain, k)..k : frames[j].kind = "repeatBody"}
      outer == CHOOSE j \in loops : \A i \in loops : j <= i
  IN  (IF loops = {} THEN <<>>
       ELSE [iteration |-> Value(outer, frames[outer].ordinal),
             previousOutput |-> Value(outer, "output")]) @@ baseEnvironment(k)

\* A frame has its own scope, and nothing of the frames further out.
selectorEnvironmentFor(k) ==
  (CASE frames[k].kind = "repeatBody" ->
          [iteration |-> Value(k, frames[k].ordinal),
           previousOutput |-> Value(IF frames[k].previousOutput = "null" THEN 0 ELSE k,
                                    frames[k].previousOutput)]
     [] frames[k].kind = "mapItem" ->
          [item |-> Value(k, frames[k].ordinal), itemKey |-> Value(k, frames[k].ordinal)]
     [] OTHER -> <<>>)
  @@ baseEnvironment(k)

\* The environment of the selectors that are being resolved.
Environment ==
  CASE reading = "base"      -> selectorEnvironmentFor(Top)
    [] reading = "bodyInput" ->
         [item |-> Value(Top + 1, item), itemKey |-> Value(Top + 1, item)]
           @@ selectorEnvironmentFor(Top)
    [] reading = "childExit" ->
         [regionOutput |-> Value(Top, frames[Top].ordinal),
          iteration |-> Value(Top, frames[Top].ordinal),
          previousOutput |-> Value(Top, frames[Top].ordinal)]
           @@ selectorEnvironmentFor(Top - 1)

Init == frames = <<Root>> /\ reading = "base" /\ item = 0

Frame(kind, ordinal) == [kind |-> kind, ordinal |-> ordinal, previousOutput |-> "null"]

\* A call, a parallel or a loop is started by a node of the innermost region.
StartChild(kind) ==
  /\ reading = "base" /\ Top < Depth
  /\ frames' = Append(frames, Frame(kind, 0))
  /\ UNCHANGED <<reading, item>>

\* A map reads its items, builds the input of each, and starts them.
StartMap ==
  /\ reading = "base" /\ Top < Depth
  /\ reading' = "bodyInput"
  /\ item' \in 1..Items
  /\ UNCHANGED frames

StartItem ==
  /\ reading = "bodyInput"
  /\ frames' = Append(frames, Frame("mapItem", item))
  /\ reading' = "base" /\ item' = 0

\* The innermost region ends; the owner of a loop has selectors to resolve then.
CompleteRegion ==
  /\ reading = "base" /\ Top > 1 /\ frames[Top].kind # "repeatBody"
  /\ frames' = Front(frames)
  /\ UNCHANGED <<reading, item>>

CompleteBody ==
  /\ reading = "base" /\ frames[Top].kind = "repeatBody"
  /\ reading' = "childExit"
  /\ UNCHANGED <<frames, item>>

\* continueWhen says to go on, and the limit allows it.
StartNextBody ==
  /\ reading = "childExit" /\ frames[Top].ordinal + 1 < Iterations
  /\ frames' = [frames EXCEPT ![Top] =
       [kind |-> "repeatBody", ordinal |-> frames[Top].ordinal + 1, previousOutput |-> "output"]]
  /\ reading' = "base"
  /\ UNCHANGED item

FinishRepeat ==
  /\ reading = "childExit"
  /\ frames' = Front(frames)
  /\ reading' = "base"
  /\ UNCHANGED item

Next ==
  \/ \E kind \in Nested \ {"mapItem"} : StartChild(kind)
  \/ StartMap \/ StartItem
  \/ CompleteRegion \/ CompleteBody \/ StartNextBody \/ FinishRepeat
Spec == Init /\ [][Next]_vars
=============================================================================
