----------------------------- MODULE AwakeProofs -----------------------------
(*****************************************************************************)
(* No frame is left behind, for every acyclic program: at rest a run that    *)
(* goes on waits for the host in every region and under every owner, and its *)
(* maps run as many items as they may.                                       *)
(*                                                                           *)
(* WakeInv adds to TreeInv that the draft is awake: every live frame has     *)
(* something live below it, or is queued and can go on. A handler that takes *)
(* the last thing from below a frame leaves that frame unserved until it has *)
(* queued it again, so the lemmas are about drafts all of whose frames but   *)
(* some are served. One lemma per action says that the draft it commits is   *)
(* awake again.                                                              *)
(*****************************************************************************)
EXTENDS KernelTreeProofs

-----------------------------------------------------------------------------
(*****************************************************************************)
(* The queue.                                                                *)
(*****************************************************************************)
\* What a filtered queue keeps is in it.
LEMMA RetainHas ==
  ASSUME NEW s, IsKey(s), NEW S
  PROVE  /\ IsKey(Retain(s, S))
         /\ \A x \in S : Contains(s, x) => Contains(Retain(s, S), x)
<1> DEFINE kept == {i \in DOMAIN s : s[i] \in S}
           Low(i) == {h \in kept : h <= i}
           size == Cardinality(kept)
           r == [j \in 1..size |-> s[CHOOSE i \in kept : Cardinality(Low(i)) = j]]
<1>1. Len(s) \in Nat /\ DOMAIN s = 1..Len(s)
  BY DEF IsKey
<1>2. IsFiniteSet(kept) /\ size \in Nat
  <2>1. IsFiniteSet(1..Len(s))
    BY <1>1, FS_Interval
  <2> QED
    BY <1>1, <2>1, FS_Subset, FS_CardinalityType
<1>3. Retain(s, S) = r
  BY Zenon DEF Retain
<1>4. Len(r) = size /\ r = [j \in 1..size |-> r[j]]
  BY <1>2
<1>5. \A i \in kept : i \in Nat
  BY <1>1
<1>6. ASSUME NEW i \in kept
      PROVE  Cardinality(Low(i)) \in 1..size
  <2>1. /\ IsFiniteSet(Low(i)) /\ Cardinality(Low(i)) <= size /\ Cardinality(Low(i)) \in Nat
    BY <1>2, FS_Subset, FS_CardinalityType
  <2>2. i \in Low(i)
    BY <1>5
  <2>3. Cardinality(Low(i)) # 0
    BY <2>1, <2>2, FS_EmptySet
  <2> HIDE DEF Low, size
  <2> QED
    BY <1>2, <2>1, <2>3
<1>7. ASSUME NEW h \in kept, NEW i \in kept, h < i
      PROVE  Cardinality(Low(h)) # Cardinality(Low(i))
  <2>1. IsFiniteSet(Low(i))
    BY <1>2, FS_Subset
  <2>2. Low(h) \subseteq Low(i) /\ i \in Low(i) /\ i \notin Low(h)
    BY <1>5, <1>7
  <2> HIDE DEF Low
  <2> QED
    BY <2>1, <2>2, FS_Subset
<1> HIDE DEF Low, size, kept
<1>8. ASSUME NEW i \in kept
      PROVE  Contains(r, s[i])
  <2> DEFINE j == Cardinality(Low(i))
             c == CHOOSE h \in kept : Cardinality(Low(h)) = j
  <2>1. c \in kept /\ Cardinality(Low(c)) = j
    OBVIOUS
  <2>2. j \in 1..size
    BY <1>6
  <2>3. r[j] = s[c]
    BY <2>2
  <2> HIDE DEF c, j
  <2>4. c = i
    <3>1. c \in Nat /\ i \in Nat /\ j \in Nat
      BY <1>2, <1>5, <2>1, <2>2
    <3>2. ~(c < i) /\ ~(i < c)
      BY <1>7, <2>1, <3>1 DEF j
    <3> QED
      BY <3>1, <3>2
  <2> HIDE DEF r
  <2> QED
    BY <1>4, <2>2, <2>3, <2>4 DEF Contains
<1>9. IsKey(r)
  BY <1>2, <1>4 DEF IsKey
<1>10. ASSUME NEW x \in S, Contains(s, x)
       PROVE  Contains(r, x)
  <2>1. PICK i \in 1..Len(s) : s[i] = x
    BY <1>10 DEF Contains
  <2>2. i \in kept
    BY <1>1, <2>1 DEF kept
  <2> QED
    BY <1>8, <2>1, <2>2
<1> QED
  BY <1>3, <1>9, <1>10


\* What joins a queue is in it, and nothing else leaves it.
LEMMA QueueGrows ==
  ASSUME NEW s, IsKey(s)
  PROVE  /\ \A k : /\ IsKey(Append(s, k)) /\ Contains(Append(s, k), k)
                   /\ \A x : Contains(s, x) => Contains(Append(s, k), x)
         /\ \A t : IsKey(t) =>
              /\ IsKey(s \o t)
              /\ \A x : Contains(s, x) \/ Contains(t, x) => Contains(s \o t, x)
<1>1. Len(s) \in Nat
  BY DEF IsKey
<1>2. ASSUME NEW k
      PROVE  /\ IsKey(Append(s, k)) /\ Contains(Append(s, k), k)
             /\ \A x : Contains(s, x) => Contains(Append(s, k), x)
  <2> DEFINE r == Append(s, k)
  <2>1. /\ IsKey(r) /\ Len(r) = Len(s) + 1 /\ r[Len(s) + 1] = k
        /\ \A i \in 1..Len(s) : s[i] = r[i]
    BY KeyAppend
  <2> HIDE DEF r
  <2>2. \A i \in 1..Len(s) : i \in 1..Len(r)
    BY <1>1, <2>1
  <2>3. Contains(r, k)
    BY <1>1, <2>1 DEF Contains
  <2>4. \A x : Contains(s, x) => Contains(r, x)
    BY <2>1, <2>2 DEF Contains
  <2> QED
    BY <2>1, <2>3, <2>4 DEF r
<1>3. ASSUME NEW t, IsKey(t)
      PROVE  /\ IsKey(s \o t)
             /\ \A x : Contains(s, x) \/ Contains(t, x) => Contains(s \o t, x)
  <2> DEFINE r == s \o t
             S == {s[i] : i \in 1..Len(s)} \cup {t[i] : i \in 1..Len(t)}
  <2>1. Len(t) \in Nat /\ s \in Seq(S) /\ t \in Seq(S)
    BY <1>3 DEF IsKey
  <2> HIDE DEF S
  <2>2. /\ Len(r) = Len(s) + Len(t) /\ r \in Seq(S)
        /\ \A i \in 1..Len(s) : r[i] = s[i]
        /\ \A i \in 1..Len(t) : r[Len(s) + i] = t[i]
    BY <2>1
  <2> HIDE DEF r
  <2>3. IsKey(r)
    BY <2>2 DEF IsKey
  <2>4. /\ \A i \in 1..Len(s) : i \in 1..Len(r)
        /\ \A i \in 1..Len(t) : Len(s) + i \in 1..Len(r)
    BY <1>1, <2>1, <2>2
  <2>5. \A x : Contains(s, x) \/ Contains(t, x) => Contains(r, x)
    BY <2>2, <2>4 DEF Contains
  <2> QED
    BY <2>3, <2>5 DEF r
<1> QED
  BY <1>2, <1>3

\* What is taken from a queue is its head.
LEMMA QueueTaken ==
  ASSUME NEW s, IsKey(s), s # <<>>
  PROVE  /\ IsKey(Tail(s))
         /\ \A x : Contains(s, x) => x = Head(s) \/ Contains(Tail(s), x)
<1> DEFINE S == {s[i] : i \in 1..Len(s)}
<1>1. s \in Seq(S) /\ Len(s) \in Nat
  BY DEF IsKey
<1> HIDE DEF S
<1> DEFINE r == Tail(s)
<1>2. /\ r \in Seq(S) /\ Len(r) = Len(s) - 1 /\ Head(s) = s[1]
      /\ \A i \in 1..Len(r) : r[i] = s[i + 1]
  BY <1>1
<1> HIDE DEF r
<1>3. IsKey(r)
  BY <1>2 DEF IsKey
<1>4. ASSUME NEW i \in 1..Len(s), i # 1
      PROVE  Contains(r, s[i])
  <2>1. i - 1 \in 1..Len(r) /\ (i - 1) + 1 = i
    BY <1>1, <1>2, <1>4
  <2> QED
    BY <1>2, <2>1 DEF Contains
<1>5. \A x : Contains(s, x) => x = Head(s) \/ Contains(r, x)
  BY <1>2, <1>4 DEF Contains
<1> QED
  BY <1>3, <1>5 DEF r

-----------------------------------------------------------------------------
(*****************************************************************************)
(* Frames that are served.                                                   *)
(*****************************************************************************)
\* The children of frame k below which something is live.
Now(d, k) == Steps(k, DOMAIN d.frames \cup d.pending)

\* Frame k is still to be executed.
Queued(d, k) == Contains(d.queue, k)

\* The branches of a parallel that are live are live in the tree, and a failure
\* or a cancellation among its results has selected.
Minded(node, own, now) ==
  /\ own.live \subseteq now
  /\ Spoiled(own.results) => own.selected # None
  /\ \A b \in DOMAIN own.results : own.results[b] \in Classes(node)

\* A map with nothing to wait for, or with room for an item it could start.
Lagging(node, own) ==
  \/ own.active = {}
  \/ /\ own.selected = None /\ own.unstarted # <<>>
     /\ Cardinality(own.active) # node.concurrency

\* The frame under key k, given its live children, is queued or waits for one
\* of them.
Served(k, frame, now, queued) ==
  IF IsRegion(k) THEN now = {} => frame.ready # {} /\ queued
  ELSE /\ NodeAt(k).kind \in {"call", "repeat"} => now # {}
       /\ NodeAt(k).kind = "parallel" =>
            Minded(NodeAt(k), frame, now) /\ (frame.live = {} => queued)
       /\ NodeAt(k).kind = "map" =>
            frame.active \subseteq now /\ (Lagging(NodeAt(k), frame) => queued)

\* A cancellation that is not one of the whole run.
Local(cleanup) == DOMAIN cleanup = {"owners", "run"} /\ cleanup.run = FALSE

\* The keys of a draft are keys, its root lives and so does what is above
\* something live, and no cleanup of it is one of the whole run.
Calm(d) ==
  /\ IsDraft(d)
  /\ IsKey(d.queue)
  /\ \A x \in DOMAIN d.frames \cup d.pending : IsKey(x) /\ Len(x) >= 1
  /\ Root \in DOMAIN d.frames
  /\ Closed(d.frames, d.pending)
  /\ \A o \in DOMAIN d.cleanups : Local(d.cleanups[o])

\* All frames but those of X are served.
Awake(d, X) ==
  /\ Calm(d)
  /\ \A k \in DOMAIN d.frames \ X : Served(k, d.frames[k], Now(d, k), Queued(d, k))

\* A draft that has neither refused nor selected an outcome serves all frames.
Wakes(e) == e.valid /\ e.terminal = None => Awake(e, {})

\* A frame is still served when more is live below it or it is queued.
LEMMA ServedMore ==
  ASSUME NEW k, NEW frame, NEW now, NEW queued, Served(k, frame, now, queued),
         NEW more, now \subseteq more, NEW again, queued => again
  PROVE  Served(k, frame, more, again)
BY DEF Served, Minded

\* A step leaves frames served that it leaves alone.
LEMMA AwakeKept ==
  ASSUME NEW d, NEW X, Awake(d, X), NEW e, Calm(e), NEW Y,
         \A k \in DOMAIN e.frames \ Y :
           /\ k \in DOMAIN d.frames \ X
           /\ e.frames[k] = d.frames[k]
           /\ Now(d, k) \subseteq Now(e, k)
           /\ Queued(d, k) => Queued(e, k)
  PROVE  Awake(e, Y)
<1> SUFFICES ASSUME NEW k \in DOMAIN e.frames \ Y
             PROVE  Served(k, e.frames[k], Now(e, k), Queued(e, k))
  BY DEF Awake
<1>1. /\ k \in DOMAIN d.frames \ X /\ e.frames[k] = d.frames[k]
      /\ Now(d, k) \subseteq Now(e, k) /\ (Queued(d, k) => Queued(e, k))
  OBVIOUS
<1>2. Served(k, d.frames[k], Now(d, k), Queued(d, k))
  BY <1>1 DEF Awake
<1> QED
  BY <1>1, <1>2, ServedMore

\* Frames that are gone or served need no exception.
LEMMA AwakeFewer ==
  ASSUME NEW d, NEW X, Awake(d, X), NEW Y,
         \A k \in X \ Y : k \in DOMAIN d.frames => Served(k, d.frames[k], Now(d, k), Queued(d, k))
  PROVE  Awake(d, Y)
BY DEF Awake

\* A frame may be an exception although it is served.
LEMMA AwakeMore ==
  ASSUME NEW d, NEW X, Awake(d, X), NEW Y, X \subseteq Y
  PROVE  Awake(d, Y)
BY DEF Awake

\* Updates of the rest of a draft.
LEMMA AwakeSame ==
  ASSUME NEW d, NEW X, Awake(d, X), NEW e, IsDraft(e), e.frames = d.frames, e.pending = d.pending,
         e.queue = d.queue, e.cleanups = d.cleanups
  PROVE  Awake(e, X)
BY DEF Awake, Calm, Now, Queued

\* Where whole subtrees go, only their parents lose children.
LEMMA NowKept ==
  ASSUME NEW d, Calm(d), NEW roots, \A r \in roots : IsKey(r),
         NEW e, \A x \in DOMAIN d.frames \cup d.pending :
                  x \in DOMAIN e.frames \cup e.pending \/ \E r \in roots : IsPrefix(r, x),
         NEW k, IsKey(k), \A r \in roots : ~IsPrefix(r, k),
         NEW c \in Now(d, k)
  PROVE  Append(k, c) \in roots \/ c \in Now(e, k)
<1> DEFINE child == Append(k, c)
<1>1. PICK y \in DOMAIN d.frames \cup d.pending : Below(k, y) /\ Step(k, y) = c
  BY DEF Now, Steps
<1>2. IsKey(y) /\ Len(y) \in Nat /\ Len(k) \in Nat
  BY DEF Calm, IsKey
<1>3. IsKey(child) /\ IsPrefix(child, y) /\ Len(child) = Len(k) + 1
  BY <1>1, <1>2, ChildAbove, KeyAppend
<1>4. Below(k, child) /\ Step(k, child) = c
  BY BelowChild, PrefixItself
<1> HIDE DEF child
<1>5. child \in DOMAIN d.frames \cup d.pending
  <2>1. CASE Below(child, y)
    <3>1. Len(child) >= 1
      BY <1>2, <1>3
    <3> QED
      BY <1>2, <1>3, <2>1, <3>1, ClosedAbove DEF Calm
  <2>2. CASE ~Below(child, y)
    BY <1>2, <1>3, <2>2 DEF Below, IsStrictPrefix
  <2> QED
    BY <2>1, <2>2
<1>6. CASE child \in DOMAIN e.frames \cup e.pending
  BY <1>4, <1>6 DEF Now, Steps
<1>7. ASSUME NEW r \in roots, IsPrefix(r, child)
      PROVE  r = child
  <2>1. IsKey(r) /\ ~IsPrefix(r, k) /\ Len(r) \in Nat
    BY DEF IsKey
  <2>2. IsPrefix(k, child)
    BY <1>4 DEF Below, IsStrictPrefix
  <2>3. ~(Len(r) <= Len(k))
    BY <1>3, <1>7, <2>1, <2>2, PrefixesCompare
  <2>4. Len(r) <= Len(child)
    BY <1>3, <1>7, <2>1, PrefixPointwise
  <2>5. ~Below(r, child)
    BY <1>2, <1>3, <2>1, <2>3, <2>4, BelowIsShorter
  <2> QED
    BY <1>7, <2>5 DEF Below, IsStrictPrefix
<1> QED
  BY <1>5, <1>6, <1>7 DEF child

\* Pruning leaves the rest served, except the parents of what goes.
LEMMA AwakePrune ==
  ASSUME NEW d, NEW X, Awake(d, X), NEW roots,
         \A r \in roots : IsKey(r) /\ Len(r) >= 2 /\ ~HasPending(d, r),
         NEW e, e = PruneTrees(d, roots)
  PROVE  /\ Awake(e, X \cup {Front(r) : r \in roots})
         /\ e.terminal = d.terminal /\ e.valid = d.valid
         /\ \A k \in DOMAIN e.frames : \A c \in Now(d, k) : Append(k, c) \in roots \/ c \in Now(e, k)
<1>1. Calm(d) /\ IsDraft(d)
  BY DEF Awake, Calm
<1>2. /\ e.queue = d.queue /\ e.cleanups = d.cleanups /\ e.terminal = d.terminal
      /\ e.valid = d.valid
  BY <1>1 DEF PruneTrees, IsDraft, DraftFields
<1>3. /\ \A k \in DOMAIN e.frames : /\ k \in DOMAIN d.frames
                                    /\ e.frames[k] = d.frames[k]
                                    /\ \A r \in roots : ~IsPrefix(r, k)
      /\ \A k \in DOMAIN d.frames : k \in DOMAIN e.frames \/ \E r \in roots : IsPrefix(r, k)
      /\ e.pending = d.pending
  BY <1>1, PruneShape
<1>4. \A x \in DOMAIN e.frames \cup e.pending :
        x \in DOMAIN d.frames \cup d.pending /\ \A r \in roots : ~IsPrefix(r, x)
  BY <1>3 DEF HasPending
<1>5. IsDraft(e)
  BY <1>1, KeepsTree DEF Keeps, Derived
<1>6. Closed(e.frames, e.pending)
  <2> SUFFICES ASSUME NEW x \in DOMAIN e.frames \cup e.pending, NEW m \in 1..(Len(x) - 1)
               PROVE  SubSeq(x, 1, m) \in DOMAIN e.frames
    BY DEF Closed
  <2> DEFINE p == SubSeq(x, 1, m)
  <2>1. x \in DOMAIN d.frames \cup d.pending /\ IsKey(x) /\ Len(x) \in Nat
    BY <1>1, <1>4 DEF Calm, IsKey
  <2>2. p \in DOMAIN d.frames
    BY <1>1, <2>1 DEF Calm, Closed
  <2>3. IsKey(p) /\ IsPrefix(p, x)
    BY <2>1, PrefixOfKey
  <2> HIDE DEF p
  <2>4. \A r \in roots : ~IsPrefix(r, p)
    BY <1>4, <2>1, <2>3, PrefixTransitive
  <2> QED
    BY <1>3, <2>2, <2>4 DEF p
<1>7. Calm(e)
  <2>1. Root \in DOMAIN d.frames /\ IsKey(Root) /\ Len(Root) = 1
    BY <1>1 DEF Calm, Root
  <2>2. \A r \in roots : ~IsPrefix(r, Root)
    <3> SUFFICES ASSUME NEW r \in roots, IsPrefix(r, Root)
                 PROVE  FALSE
      OBVIOUS
    <3>1. IsKey(r) /\ Len(r) >= 2 /\ Len(r) \in Nat
      BY DEF IsKey
    <3> QED
      BY <2>1, <3>1, PrefixPointwise
  <2> QED
    BY <1>1, <1>2, <1>3, <1>4, <1>5, <1>6, <2>1, <2>2 DEF Calm
<1>8. ASSUME NEW k \in DOMAIN e.frames, NEW c \in Now(d, k)
      PROVE  Append(k, c) \in roots \/ c \in Now(e, k)
  <2>1. IsKey(k) /\ \A r \in roots : IsKey(r) /\ ~IsPrefix(r, k)
    BY <1>3, <1>7 DEF Calm
  <2>2. \A x \in DOMAIN d.frames \cup d.pending :
          x \in DOMAIN e.frames \cup e.pending \/ \E r \in roots : IsPrefix(r, x)
    BY <1>3
  <2> QED
    BY <1>1, <2>1, <2>2, NowKept
<1> DEFINE Y == X \cup {Front(r) : r \in roots}
<1>9. ASSUME NEW k \in DOMAIN e.frames \ Y
      PROVE  Now(d, k) \subseteq Now(e, k)
  <2>1. \A c : Front(Append(k, c)) = k
    BY <1>7, KeyAppend DEF Calm
  <2>2. \A c : Append(k, c) \notin roots
    BY <2>1, Zenon
  <2> QED
    BY <1>8, <2>2
<1>10. Awake(e, Y)
  <2>1. \A k \in DOMAIN e.frames \ Y : /\ k \in DOMAIN d.frames \ X /\ e.frames[k] = d.frames[k]
                                       /\ Queued(d, k) => Queued(e, k)
    BY <1>2, <1>3 DEF Queued
  <2> HIDE DEF Y
  <2> QED
    BY <1>7, <1>9, <2>1, AwakeKept
<1> QED
  BY <1>2, <1>8, <1>10

\* Draft e is d with another frame under key k.
Alters(d, X, k, frame, e) ==
  /\ Awake(e, X \cup {k})
  /\ DOMAIN e.frames = DOMAIN d.frames /\ e.frames[k] = frame
  /\ \A j \in DOMAIN d.frames : j # k => e.frames[j] = d.frames[j]
  /\ \A j : Now(e, j) = Now(d, j)
  /\ e.pending = d.pending /\ e.terminal = d.terminal /\ e.valid = d.valid
  /\ Served(k, frame, Now(d, k), Queued(d, k)) => Awake(e, X \ {k})

\* Changing a frame leaves the others served.
LEMMA AwakeSet ==
  ASSUME NEW d, NEW X, Awake(d, X), NEW k \in DOMAIN d.frames, NEW frame
  PROVE  Alters(d, X, k, frame, SetFrame(d, k, frame))
<1> DEFINE e == SetFrame(d, k, frame)
<1>1. Calm(d) /\ IsDraft(d)
  BY DEF Awake, Calm
<1>2. /\ DOMAIN e.frames = DOMAIN d.frames /\ e.frames[k] = frame
      /\ \A j \in DOMAIN d.frames : j # k => e.frames[j] = d.frames[j]
      /\ e.pending = d.pending
  BY <1>1, SetShape
<1>3. /\ e.queue = d.queue /\ e.cleanups = d.cleanups /\ e.terminal = d.terminal
      /\ e.valid = d.valid
  BY <1>1 DEF SetFrame, IsDraft, DraftFields
<1>8. IsDraft(e)
  BY <1>1, KeepsTree DEF Keeps, Derived
<1> HIDE DEF e
<1>4. Calm(e)
  BY <1>1, <1>2, <1>3, <1>8 DEF Calm, Closed
<1>5. \A j : Now(e, j) = Now(d, j) /\ (Queued(e, j) <=> Queued(d, j))
  BY <1>2, <1>3 DEF Now, Queued
<1>6. Awake(e, X \cup {k})
  <2>1. \A j \in DOMAIN e.frames \ (X \cup {k}) :
          j \in DOMAIN d.frames \ X /\ e.frames[j] = d.frames[j]
    BY <1>2
  <2> QED
    BY <1>4, <1>5, <2>1, AwakeKept
<1>7. ASSUME Served(k, frame, Now(d, k), Queued(d, k))
      PROVE  Awake(e, X \ {k})
  <2>1. Served(k, e.frames[k], Now(e, k), Queued(e, k))
    BY <1>2, <1>3, <1>5, <1>7 DEF Queued
  <2>2. \A j \in (X \cup {k}) \ (X \ {k}) : j = k
    OBVIOUS
  <2> QED
    BY <1>6, <2>1, <2>2, AwakeFewer
<1> QED
  BY <1>2, <1>3, <1>5, <1>6, <1>7 DEF Alters, e

\* Draft e serves as much as d and has the same frames.
Alike(d, X, e) ==
  /\ Awake(e, X)
  /\ e.frames = d.frames /\ e.pending = d.pending
  /\ e.terminal = d.terminal /\ e.valid = d.valid

\* Queueing a frame serves it once it can go on.
LEMMA AwakeEnqueue ==
  ASSUME NEW d, NEW X, Awake(d, X), NEW k
  PROVE  /\ Alike(d, X, Enqueue(d, k))
         /\ Queued(Enqueue(d, k), k)
         /\ k \in DOMAIN d.frames /\ Served(k, d.frames[k], Now(d, k), TRUE) =>
              Awake(Enqueue(d, k), X \ {k})
<1> DEFINE e == Enqueue(d, k)
<1>1. Calm(d) /\ IsDraft(d) /\ IsKey(d.queue)
  BY DEF Awake, Calm
<1>2. /\ e.queue = IF Contains(d.queue, k) THEN d.queue ELSE Append(d.queue, k)
      /\ e.frames = d.frames /\ e.pending = d.pending /\ e.cleanups = d.cleanups
      /\ e.terminal = d.terminal /\ e.valid = d.valid
  BY <1>1 DEF Enqueue, IsDraft, DraftFields
<1>3. /\ IsKey(e.queue) /\ Contains(e.queue, k)
      /\ \A x : Contains(d.queue, x) => Contains(e.queue, x)
  <2>1. /\ IsKey(Append(d.queue, k)) /\ Contains(Append(d.queue, k), k)
        /\ \A x : Contains(d.queue, x) => Contains(Append(d.queue, k), x)
    BY <1>1, QueueGrows
  <2> QED
    BY <1>1, <1>2, <2>1
<1>4. IsDraft(e)
  BY <1>1, KeepsTree DEF Keeps, Derived
<1> HIDE DEF e
<1>5. Calm(e)
  BY <1>1, <1>2, <1>3, <1>4 DEF Calm
<1>6. \A j : Now(e, j) = Now(d, j) /\ (Queued(d, j) => Queued(e, j))
  BY <1>2, <1>3 DEF Now, Queued
<1>7. Awake(e, X)
  BY <1>2, <1>5, <1>6, AwakeKept
<1>8. ASSUME k \in DOMAIN d.frames, Served(k, d.frames[k], Now(d, k), TRUE)
      PROVE  Awake(e, X \ {k})
  <2>1. Queued(e, k)
    BY <1>3 DEF Queued
  <2>2. Served(k, e.frames[k], Now(e, k), Queued(e, k))
    BY <1>2, <1>6, <1>8, <2>1, ServedMore
  <2>3. \A j \in X \ (X \ {k}) : j = k
    OBVIOUS
  <2> QED
    BY <1>7, <2>2, <2>3, AwakeFewer
<1> QED
  BY <1>2, <1>3, <1>7, <1>8 DEF Alike, Queued, e

\* Charging serves as much.
LEMMA AwakeCharge ==
  ASSUME NEW d, NEW X, Awake(d, X), NEW units
  PROVE  Alike(d, X, Charge(d, units))
<1> DEFINE e == Charge(d, units)
<1>1. IsDraft(d)
  BY DEF Awake, Calm
<1>2. IsDraft(e)
  BY <1>1, KeepsUpdate DEF Keeps, Derived
<1>3. /\ e.frames = d.frames /\ e.pending = d.pending /\ e.queue = d.queue
      /\ e.cleanups = d.cleanups /\ e.terminal = d.terminal /\ e.valid = d.valid
  BY <1>1 DEF Charge, IsDraft, DraftFields
<1> HIDE DEF e
<1> QED
  BY <1>2, <1>3, AwakeSame DEF Alike, e

\* So does asking for a cancellation.
LEMMA AwakeAsked ==
  ASSUME NEW d, NEW X, Awake(d, X), NEW o, NEW e, e = [d EXCEPT !.cancel = o]
  PROVE  Alike(d, X, e)
<1>1. IsDraft(d)
  BY DEF Awake, Calm
<1>2. IsDraft(e)
  BY <1>1, KeepsUpdate DEF Keeps, Derived
<1>3. /\ e.frames = d.frames /\ e.pending = d.pending /\ e.queue = d.queue
      /\ e.cleanups = d.cleanups /\ e.terminal = d.terminal /\ e.valid = d.valid
  BY <1>1 DEF IsDraft, DraftFields
<1> QED
  BY <1>2, <1>3, AwakeSame DEF Alike

\* Noting a cleanup that is not one of the whole run.
LEMMA AwakeNoted ==
  ASSUME NEW d, NEW X, Awake(d, X), NEW o, NEW cleanup, Local(cleanup),
         NEW e, e = [d EXCEPT !.cleanups = With(d.cleanups, o, cleanup)]
  PROVE  Alike(d, X, e)
<1>1. Calm(d) /\ IsDraft(d)
  BY DEF Awake, Calm
<1> DEFINE new == With(d.cleanups, o, cleanup)
<1>2. \A k \in DOMAIN new : Local(new[k])
  BY <1>1 DEF Calm, With
<1>3. e = [d EXCEPT !.cleanups = new]
  OBVIOUS
<1> HIDE DEF new
<1>4. /\ e.frames = d.frames /\ e.pending = d.pending /\ e.queue = d.queue
      /\ e.cleanups = new /\ e.terminal = d.terminal /\ e.valid = d.valid
  BY <1>1, <1>3 DEF IsDraft, DraftFields
<1>5. IsDraft(e)
  <2>1. Keeps(d, [d EXCEPT !.cleanups = new])
    BY <1>1, KeepsUpdate
  <2> QED
    BY <1>3, <2>1 DEF Keeps, Derived
<1> QED
  BY <1>1, <1>2, <1>4, <1>5 DEF Awake, Calm, Now, Queued, Alike

\* Frames that are gone may leave the queue.
LEMMA AwakeDiscard ==
  ASSUME NEW d, NEW X, Awake(d, X), NEW roots,
         \A k \in DOMAIN d.frames : \A r \in roots : ~IsPrefix(r, k)
  PROVE  Alike(d, X, Discard(d, roots))
<1> DEFINE e == Discard(d, roots)
<1> DEFINE stay == {k \in ToSet(d.queue) : ~\E r \in roots : IsPrefix(r, k)}
<1>1. Calm(d) /\ IsDraft(d) /\ IsKey(d.queue)
  BY DEF Awake, Calm
<1>2. \A k \in DOMAIN d.frames : Contains(d.queue, k) => k \in stay
  <2>1. DOMAIN d.queue = 1..Len(d.queue)
    BY <1>1 DEF IsKey
  <2>2. \A k : Contains(d.queue, k) => k \in ToSet(d.queue)
    BY <2>1 DEF Contains, ToSet
  <2> QED
    BY <2>2
<1>3. e = [d EXCEPT !.queue = Retain(d.queue, stay)]
  BY Zenon DEF Discard
<1> HIDE DEF stay
<1>4. /\ e.queue = Retain(d.queue, stay)
      /\ e.frames = d.frames /\ e.pending = d.pending /\ e.cleanups = d.cleanups
      /\ e.terminal = d.terminal /\ e.valid = d.valid
  BY <1>1, <1>3 DEF IsDraft, DraftFields
<1>5. IsDraft(e)
  BY <1>1, KeepsTree DEF Keeps, Derived
<1>6. IsKey(e.queue) /\ \A k \in DOMAIN d.frames : Contains(d.queue, k) => Contains(e.queue, k)
  BY <1>1, <1>2, <1>4, RetainHas
<1> HIDE DEF e
<1>7. Calm(e)
  BY <1>1, <1>4, <1>5, <1>6 DEF Calm
<1>8. \A k \in DOMAIN e.frames : Now(d, k) \subseteq Now(e, k) /\ (Queued(d, k) => Queued(e, k))
  BY <1>4, <1>6 DEF Now, Queued
<1>9. Awake(e, X)
  BY <1>4, <1>7, <1>8, AwakeKept
<1> QED
  BY <1>4, <1>9 DEF Alike, e

\* A refused draft is not valid.
LEMMA Refused ==
  ASSUME NEW d, NEW X, Awake(d, X)
  PROVE  Invalid(d).valid = FALSE
BY DEF Awake, Calm, Invalid, IsDraft, DraftFields

-----------------------------------------------------------------------------
(*****************************************************************************)
(* Results and transitions.                                                  *)
(*****************************************************************************)
\* A region with a stored result may be left without a token.
LEMMA AwakeStored ==
  ASSUME NEW d, NEW X, Awake(d, X), NEW r, NEW n, NEW st,
         NEW e, \/ e = storePendingNodeResult(d, r, n, st)
                \/ e = storeOwnedResult(d, r, n, st),
         e.valid
  PROVE  /\ Awake(e, X \cup {r})
         /\ DOMAIN e.frames = DOMAIN d.frames /\ e.pending = d.pending
         /\ e.terminal = d.terminal /\ d.valid
<1> DEFINE f == storePendingNodeResult(d, r, n, st)
           frame == [d.frames[r] EXCEPT !.results = With(@, n, st)]
           g == SetFrame(d, r, frame)
<1>1. IsDraft(d)
  BY DEF Awake, Calm
<1>2. e = f \/ e = Charge(f, 2)
  BY DEF storeOwnedResult
<1>3. f = Invalid(d) \/ (r \in DOMAIN d.frames /\ f = g)
  BY DEF storePendingNodeResult, Unsettled
<1>4. CASE f = Invalid(d)
  <2>1. IsDraft(Invalid(d)) /\ Invalid(d).valid = FALSE
    BY <1>1, KeepsInvalid, Refused DEF Keeps, Derived
  <2>2. Charge(Invalid(d), 2).valid = FALSE
    BY <2>1 DEF Charge, IsDraft, DraftFields
  <2> QED
    BY <1>2, <1>4, <2>1, <2>2
<1>5. CASE r \in DOMAIN d.frames /\ f = g
  <2> HIDE DEF frame
  <2>3. Alters(d, X, r, frame, g)
    BY <1>5, AwakeSet
  <2> HIDE DEF g
  <2>1. /\ Awake(g, X \cup {r}) /\ DOMAIN g.frames = DOMAIN d.frames
        /\ g.pending = d.pending /\ g.terminal = d.terminal /\ g.valid = d.valid
    BY <2>3 DEF Alters
  <2>2. /\ Awake(Charge(g, 2), X \cup {r}) /\ Charge(g, 2).frames = g.frames
        /\ Charge(g, 2).pending = g.pending /\ Charge(g, 2).terminal = g.terminal
        /\ Charge(g, 2).valid = g.valid
    BY <2>1, AwakeCharge DEF Alike
  <2> HIDE DEF f
  <2> QED
    BY <1>2, <1>5, <2>1, <2>2
<1> QED
  BY <1>3, <1>4, <1>5

\* A region whose token moved on has a ready node.
LEMMA AwakeRecorded ==
  ASSUME NEW d, NEW X, Awake(d, X), NEW r, NEW n, NEW st, NEW target,
         NEW e, e = recordPendingNodeResult(d, r, n, st, target), e.valid
  PROVE  /\ Awake(e, X \cup {r})
         /\ r \in DOMAIN e.frames /\ e.frames[r].ready # {}
         /\ e.terminal = d.terminal /\ d.valid
<1> DEFINE frame == [results |-> With(d.frames[r].results, n, st),
                     ready |-> d.frames[r].ready \cup {target}]
           g == SetFrame(d, r, frame)
<1>1. e = Invalid(d) \/ (r \in DOMAIN d.frames /\ e = g)
  BY DEF recordPendingNodeResult, Unsettled
<1>2. r \in DOMAIN d.frames /\ e = g
  BY <1>1, Refused
<1>3. frame.ready # {}
  OBVIOUS
<1> HIDE DEF frame
<1>5. Alters(d, X, r, frame, g)
  BY <1>2, AwakeSet
<1> HIDE DEF g
<1>4. /\ Awake(g, X \cup {r}) /\ DOMAIN g.frames = DOMAIN d.frames /\ g.frames[r] = frame
      /\ g.terminal = d.terminal /\ g.valid = d.valid
  BY <1>5 DEF Alters
<1> QED
  BY <1>2, <1>3, <1>4

\* A region with a ready node is served once it is queued.
LEMMA AwakeRegion ==
  ASSUME NEW d, NEW X, Awake(d, X), NEW r \in DOMAIN d.frames, IsRegion(r),
         d.frames[r].ready # {}
  PROVE  Awake(Enqueue(d, r), X \ {r})
<1>1. Served(r, d.frames[r], Now(d, r), TRUE)
  BY DEF Served
<1> QED
  BY <1>1, AwakeEnqueue

\* The region of an owner that ends goes on.
LEMMA AwakeRouted ==
  ASSUME NEW d, NEW X, Awake(d, X), NEW r, IsRegion(r), NEW n, NEW st, NEW target,
         NEW e, e = routeOwnedResult(d, r, n, st, target), e.valid
  PROVE  Awake(e, X \ {r})
<1> DEFINE f == recordPendingNodeResult(d, r, n, st, target)
           g == Enqueue(f, r)
<1>1. e = Charge(g, 2)
  BY DEF routeOwnedResult
<1>2. IsDraft(d)
  BY DEF Awake, Calm
<1>3. IsDraft(f)
  BY <1>2, KeepsResult DEF Keeps, Derived
<1>9. f = recordPendingNodeResult(d, r, n, st, target)
  OBVIOUS
<1> HIDE DEF f
<1>4. IsDraft(g) /\ g.valid = f.valid
  <2>1. g.valid = f.valid
    BY <1>3 DEF Enqueue, IsDraft, DraftFields
  <2> QED
    BY <1>3, <2>1, KeepsTree DEF Keeps, Derived
<1>5. e.valid = g.valid
  BY <1>1, <1>4 DEF Charge, IsDraft, DraftFields
<1>6. Awake(f, X \cup {r}) /\ r \in DOMAIN f.frames /\ f.frames[r].ready # {}
  BY <1>4, <1>5, <1>9, AwakeRecorded
<1>7. Awake(g, X \ {r})
  <2>1. (X \cup {r}) \ {r} = X \ {r}
    OBVIOUS
  <2>2. Awake(g, (X \cup {r}) \ {r})
    BY <1>6, AwakeRegion
  <2> QED
    BY <2>1, <2>2, Zenon
<1> HIDE DEF g
<1> QED
  BY <1>1, <1>7, AwakeCharge DEF Alike

\* So does the region of a node that fails at once.
LEMMA AwakeImmediate ==
  ASSUME NEW d, NEW X, Awake(d, X), NEW r \in DOMAIN d.frames, IsRegion(r), NEW n, NEW st,
         NEW target, NEW e, e = routeImmediateResult(d, r, n, st, target), e.valid
  PROVE  Awake(e, X \ {r})
<1> DEFINE frame == [results |-> With(d.frames[r].results, n, st),
                     ready |-> (d.frames[r].ready \ {n}) \cup {target}]
           f == SetFrame(d, r, frame)
           g == Enqueue(f, r)
<1>1. e = Invalid(d) \/ e = Charge(g, 1)
  BY DEF routeImmediateResult
<1>2. e = Charge(g, 1)
  BY <1>1, Refused
<1>3. frame.ready # {}
  OBVIOUS
<1> HIDE DEF frame
<1>6. Alters(d, X, r, frame, f)
  BY AwakeSet
<1> HIDE DEF f
<1>4. Awake(f, X \cup {r}) /\ r \in DOMAIN f.frames /\ f.frames[r] = frame
  BY <1>6 DEF Alters
<1>5. Awake(g, X \ {r})
  <2>1. (X \cup {r}) \ {r} = X \ {r}
    OBVIOUS
  <2>2. Awake(g, (X \cup {r}) \ {r})
    BY <1>3, <1>4, AwakeRegion
  <2> QED
    BY <2>1, <2>2, Zenon
<1> HIDE DEF g
<1> QED
  BY <1>2, <1>5, AwakeCharge DEF Alike

\* finishOwner serves what is left when only the owner's tree was not.
LEMMA AwakeOwner ==
  ASSUME NEW d, NEW X, Awake(d, X), NEW o, ~IsRegion(o), \A k \in X : IsPrefix(o, k),
         NEW st, NEW target, NEW e, e = finishOwner(d, o, st, target), e.valid
  PROVE  Awake(e, {})
<1> DEFINE f == PruneTrees(d, {o})
           r == RegionOf(o)
<1>1. Calm(d) /\ IsDraft(d)
  BY DEF Awake, Calm
<1>2. ~HasPending(d, o) /\ o \in DOMAIN d.frames /\ e = routeOwnedResult(f, r, Last(o), st, target)
  <2>1. Invalid(d).valid = FALSE
    BY Refused
  <2> QED
    BY <2>1 DEF finishOwner
<1>3. IsKey(o) /\ Len(o) \in Nat /\ Len(o) >= 2
  <2>1. IsKey(o) /\ Len(o) >= 1 /\ Len(o) \in Nat
    BY <1>1, <1>2 DEF Calm, IsKey
  <2> QED
    BY <2>1 DEF IsRegion
<1>4. IsRegion(r)
  <2>1. Len(r) = Len(o) - 1
    BY <1>3, KeyFront DEF RegionOf
  <2> QED
    BY <1>3, <2>1 DEF IsRegion
<1>5. Awake(f, X \cup {Front(x) : x \in {o}})
  BY <1>2, <1>3, AwakePrune
<1>6. Awake(f, {r})
  <2>1. \A k \in DOMAIN f.frames : ~IsPrefix(o, k)
    BY <1>1, PruneShape
  <2>2. \A k \in X \cup {Front(x) : x \in {o}} : k \in DOMAIN f.frames => k \in {r}
    BY <2>1 DEF RegionOf
  <2> HIDE DEF f, r
  <2> QED
    BY <1>5, <2>2, AwakeFewer
<1> HIDE DEF f, r
<1>7. Awake(e, {r} \ {r})
  BY <1>2, <1>4, <1>6, AwakeRouted
<1> QED
  BY <1>7

-----------------------------------------------------------------------------
(*****************************************************************************)
(* Parallels.                                                                *)
(*****************************************************************************)
\* A parallel that minds its branches is served once it is queued.
LEMMA AwakeParallel ==
  ASSUME NEW d, NEW X, Awake(d, X), NEW o \in DOMAIN d.frames, ~IsRegion(o),
         NodeAt(o).kind = "parallel", Minded(NodeAt(o), d.frames[o], Now(d, o))
  PROVE  Awake(Enqueue(d, o), X \ {o})
<1>1. Served(o, d.frames[o], Now(d, o), TRUE)
  BY DEF Served
<1> QED
  BY <1>1, AwakeEnqueue

\* Draft e minds the branches of o, and serves as much as d.
Minds(d, X, node, o, e) ==
  /\ Awake(e, X)
  /\ o \in DOMAIN e.frames /\ Minded(node, e.frames[o], Now(e, o))
  /\ e.terminal = d.terminal /\ e.valid = d.valid

\* Stopping idle branches minds the others.
LEMMA AwakeStopBranches ==
  ASSUME NEW d, NEW X, Awake(d, X), NEW o \in DOMAIN d.frames, o \in X, NEW node,
         DOMAIN d.frames[o] = {"kind", "live", "selected", "results", "status"},
         Minded(node, d.frames[o], Now(d, o)), d.frames[o].selected # None
  PROVE  Minds(d, X, node, o, cancelUnstartedBranches(d, o))
<1> DEFINE own == d.frames[o]
           idle == {b \in own.live : ~HasPending(d, Append(o, b))}
           roots == {Append(o, b) : b \in idle}
           stopped == [b \in idle |-> "cancelled"]
           pruned == PruneTrees(d, roots)
           discarded == Discard(pruned, roots)
           frame == [own EXCEPT !.live = @ \ idle, !.results = Else(@, stopped)]
           e == SetFrame(discarded, o, frame)
<1>1. cancelUnstartedBranches(d, o) = e
  BY Zenon DEF cancelUnstartedBranches
<1>2. IsDraft(d) /\ IsKey(o) /\ Len(o) \in Nat /\ Len(o) >= 1
  BY DEF Awake, Calm, IsKey
<1>3. \A c : /\ IsKey(Append(o, c)) /\ Len(Append(o, c)) = Len(o) + 1
             /\ Front(Append(o, c)) = o /\ Last(Append(o, c)) = c
  BY <1>2, KeyAppend
<1>4. \A r \in roots : IsKey(r) /\ Len(r) >= 2 /\ ~HasPending(d, r) /\ Front(r) = o
  <2>1. \A b \in idle : /\ IsKey(Append(o, b)) /\ Len(Append(o, b)) >= 2
                        /\ ~HasPending(d, Append(o, b)) /\ Front(Append(o, b)) = o
    BY <1>2, <1>3
  <2> HIDE DEF idle
  <2> QED
    BY <2>1
<1>5. \A c : Append(o, c) \in roots => c \in idle
  BY <1>3
<1>6. /\ frame.live = own.live \ idle /\ frame.selected = own.selected
      /\ frame.results = Else(own.results, stopped)
  OBVIOUS
<1>7. /\ DOMAIN stopped = idle /\ \A b \in idle : stopped[b] = "cancelled"
  OBVIOUS
<1>16. \A r \in roots : \E b \in idle : r = Append(o, b)
  OBVIOUS
<1> HIDE DEF stopped, frame, roots, idle
<1>8. /\ Awake(pruned, X \cup {Front(r) : r \in roots})
      /\ pruned.terminal = d.terminal /\ pruned.valid = d.valid
      /\ \A k \in DOMAIN pruned.frames :
           \A c \in Now(d, k) : Append(k, c) \in roots \/ c \in Now(pruned, k)
  BY <1>4, AwakePrune
<1>9. /\ \A k \in DOMAIN pruned.frames : \A r \in roots : ~IsPrefix(r, k)
      /\ \A k \in DOMAIN d.frames : k \in DOMAIN pruned.frames \/ \E r \in roots : IsPrefix(r, k)
  BY <1>2, PruneShape
<1> HIDE DEF pruned
<1>10. Awake(pruned, X)
  <2>1. X \cup {Front(r) : r \in roots} = X
    BY <1>4
  <2> QED
    BY <1>8, <2>1, Zenon
<1>11. o \in DOMAIN pruned.frames
  <2>1. \A c : ~IsPrefix(Append(o, c), o)
    BY <1>2, ChildAbove, PrefixItself
  <2> QED
    BY <1>9, <1>16, <2>1
<1>12. own.live \ idle \subseteq Now(pruned, o)
  BY <1>5, <1>8, <1>11 DEF Minded
<1>13. Alike(pruned, X, discarded)
  BY <1>9, <1>10, AwakeDiscard
<1> HIDE DEF discarded
<1>14. Alters(discarded, X, o, frame, e)
  BY <1>11, <1>13, AwakeSet DEF Alike
<1> HIDE DEF e
<1>15. Minded(node, frame, Now(pruned, o))
  <2>1. frame.selected # None
    BY <1>6
  <2>2. \A b \in DOMAIN frame.results : frame.results[b] \in Classes(node)
    <3>1. "cancelled" \in Classes(node)
      BY DEF Classes, GenericClass, VoteClass
    <3> QED
      BY <1>6, <1>7, <3>1 DEF Minded, Else
  <2> QED
    BY <1>6, <1>12, <2>1, <2>2 DEF Minded
<1> QED
  <2>1. Now(e, o) = Now(pruned, o) /\ e.frames[o] = frame /\ o \in DOMAIN e.frames
    BY <1>11, <1>13, <1>14 DEF Alike, Alters, Now
  <2>2. Awake(e, X) /\ e.terminal = d.terminal /\ e.valid = d.valid
    <3>1. X \cup {o} = X
      OBVIOUS
    <3> QED
      BY <1>8, <1>13, <1>14, <3>1 DEF Alike, Alters
  <2> QED
    BY <1>1, <1>15, <2>1, <2>2 DEF Minds

\* Draft e is d without child c of o, which alone may be left unserved.
Parted(d, o, c, e) ==
  /\ Awake(e, {o})
  /\ o \in DOMAIN e.frames /\ e.frames[o] = d.frames[o]
  /\ Now(d, o) \ {c} \subseteq Now(e, o)
  /\ e.terminal = d.terminal /\ e.valid = d.valid

\* A region that ends leaves only its owner unserved.
LEMMA AwakeParted ==
  ASSUME NEW d, NEW o \in DOMAIN d.frames, NEW c, NEW X, \A k \in X : k = Append(o, c), Awake(d, X),
         ~HasPending(d, Append(o, c)), NEW units
  PROVE  Parted(d, o, c, Charge(PruneTrees(d, {Append(o, c)}), units))
<1> DEFINE region == Append(o, c)
           roots == {region}
           pruned == PruneTrees(d, roots)
           e == Charge(pruned, units)
<1>1. IsDraft(d) /\ IsKey(o) /\ Len(o) \in Nat /\ Len(o) >= 1
  BY DEF Awake, Calm, IsKey
<1>2. /\ IsKey(region) /\ Len(region) >= 2 /\ Front(region) = o
      /\ \A x : Append(o, x) = region => x = c
  <2>1. \A x : /\ IsKey(Append(o, x)) /\ Len(Append(o, x)) = Len(o) + 1
               /\ Front(Append(o, x)) = o /\ Last(Append(o, x)) = x
    BY <1>1, KeyAppend
  <2> QED
    BY <1>1, <2>1
<1>3. ~IsPrefix(region, o) /\ IsPrefix(region, region)
  BY <1>1, <1>2, ChildAbove, PrefixItself
<1>4. \A r \in roots : IsKey(r) /\ Len(r) >= 2 /\ ~HasPending(d, r) /\ Front(r) = o
  BY <1>2
<1>5. \A k \in X : k = region
  OBVIOUS
<1>6. {region} = roots
  OBVIOUS
<1> HIDE DEF region, pruned
<1>7. /\ Awake(pruned, X \cup {Front(r) : r \in roots})
      /\ pruned.terminal = d.terminal /\ pruned.valid = d.valid
      /\ \A k \in DOMAIN pruned.frames :
           \A x \in Now(d, k) : Append(k, x) \in roots \/ x \in Now(pruned, k)
  BY <1>4, AwakePrune DEF pruned
<1>8. /\ \A k \in DOMAIN pruned.frames : /\ pruned.frames[k] = d.frames[k]
                                         /\ \A r \in roots : ~IsPrefix(r, k)
      /\ \A k \in DOMAIN d.frames : k \in DOMAIN pruned.frames \/ \E r \in roots : IsPrefix(r, k)
  BY <1>1, PruneShape DEF pruned
<1>9. Awake(pruned, {o})
  <2>1. \A k \in (X \cup {Front(r) : r \in roots}) \ {o} : k \notin DOMAIN pruned.frames
    BY <1>3, <1>4, <1>5, <1>8
  <2> QED
    BY <1>7, <2>1, AwakeFewer
<1>10. o \in DOMAIN pruned.frames /\ pruned.frames[o] = d.frames[o]
  BY <1>3, <1>8
<1>11. Now(d, o) \ {c} \subseteq Now(pruned, o)
  BY <1>2, <1>7, <1>10
<1>12. Alike(pruned, {o}, e)
  BY <1>9, AwakeCharge
<1> HIDE DEF e, roots
<1>13. Now(e, o) = Now(pruned, o)
  BY <1>12 DEF Alike, Now
<1>14. Parted(d, o, c, e)
  BY <1>7, <1>10, <1>11, <1>12, <1>13 DEF Alike, Parted
<1> QED
  BY <1>14, <1>6 DEF e, pruned, region

\* A parallel without the branch that ended minds the others.
LEMMA MindedNext ==
  ASSUME NEW node, NEW own, NEW now, Minded(node, own, now), NEW b, NEW class \in Classes(node),
         NEW next, now \ {b} \subseteq next,
         NEW frame, frame.live = own.live \ {b}, frame.results = With(own.results, b, class),
         Spoiled(frame.results) => frame.selected # None
  PROVE  Minded(node, frame, next)
BY DEF Minded, With

\* A failure or a cancellation decides a parallel.
LEMMA SpoiledDecides ==
  ASSUME NEW node, NEW results, Spoiled(results)
  PROVE  classifyParallel(node, results, None) # None
BY DEF classifyParallel, classifyGenericParallel, classifyVoteParallel, None

\* completeParallelBranch serves what is left when only the branch was not.
LEMMA AwakeBranch ==
  ASSUME NEW d, NEW H, Good(d, H), NEW branch \in DOMAIN d.frames, IsRegion(branch),
         branch # Root, NodeAt(OwnerOf(branch)).kind = "parallel",
         NEW class \in Classes(NodeAt(OwnerOf(branch))), NEW cleanup, Local(cleanup),
         NEW X \in SUBSET {branch}, Awake(d, X),
         NEW e, e = completeParallelBranch(d, branch, class, cleanup), e.valid
  PROVE  Awake(e, {})
<1> DEFINE o == OwnerOf(branch)
           b == Last(branch)
           own == d.frames[o]
           node == NodeAt(o)
           pruned == Charge(PruneTrees(d, {branch}), 2)
           waited == Now(d, o)
           after == Now(pruned, o)
<1>1. /\ IsKey(o) /\ o \in DOMAIN d.frames /\ ~IsRegion(o) /\ Last(o) \in DOMAIN Nodes
      /\ branch = Append(o, b) /\ b \in waited
  BY OwnedRegion DEF Now
<1>2. DOMAIN own = {"kind", "live", "selected", "results", "status"}
  BY <1>1 DEF Good, Tree, Fits, ParallelFits
<1>3. Minded(node, own, waited)
  <2>1. o # branch
    BY <1>1
  <2> QED
    BY <1>1, <2>1 DEF Awake, Served
<1>4. class \in Classes(node) /\ node.kind = "parallel"
  OBVIOUS
<1>14. branch = Append(o, b) /\ X \in SUBSET {branch} /\ o \in DOMAIN d.frames
  BY <1>1
<1>15. IsDraft(d)
  BY DEF Good
<1> HIDE DEF o, b, waited, node
<1>5. ASSUME ~HasPending(d, branch)
      PROVE  Parted(d, o, b, pruned)
  <2>1. Parted(d, o, b, Charge(PruneTrees(d, {Append(o, b)}), 2))
    BY <1>5, <1>14, AwakeParted
  <2> QED
    BY <1>14, <2>1
<1> DEFINE results == With(own.results, b, class)
           selected == classifyParallel(node, results, own.selected)
           done == [own EXCEPT !.live = @ \ {b}, !.results = results]
           drained == [done EXCEPT !.selected = IF @ = None THEN "cancelled" ELSE @,
                                   !.status = "draining"]
           closing == [done EXCEPT !.selected = selected, !.status = "cancelling"]
           decided == [done EXCEPT !.selected = selected, !.status = "draining"]
           stopped(f) == cancelUnstartedBranches(SetFrame(pruned, o, f), o)
           noted(x) == [stopped(drained) EXCEPT !.cleanups = x]
           asked == [stopped(closing) EXCEPT !.cancel = o]
           remaining == consumeCleanupOwner(cleanup, o)
<1>6. \/ e = Invalid(d)
      \/ /\ ~HasPending(d, branch)
         /\ \/ e = Enqueue(noted(With(stopped(drained).cleanups, o, remaining)), o)
            \/ /\ own.selected = None /\ selected # None
               /\ e = Enqueue(asked, o) \/ e = Enqueue(SetFrame(pruned, o, decided), o)
            \/ /\ ~(own.selected = None /\ selected # None)
               /\ e = Enqueue(SetFrame(pruned, o, done), o)
  BY Zenon DEF completeParallelBranch, node, b, o
<1>7. e # Invalid(d)
  BY Refused
<1>8. Local(remaining)
  BY DEF Local, consumeCleanupOwner
\* The frames the owner may get.
<1> DEFINE Ends(frame) ==
             /\ DOMAIN frame = DOMAIN own /\ frame.live = own.live \ {b}
             /\ frame.results = results
             /\ Spoiled(frame.results) => frame.selected # None
<1>9. /\ Ends(drained) /\ drained.selected # None
      /\ own.selected = None /\ selected # None =>
           Ends(closing) /\ closing.selected # None /\ Ends(decided)
      /\ ~(own.selected = None /\ selected # None) => Ends(done)
  <2>1. /\ DOMAIN done = DOMAIN own /\ done.live = own.live \ {b} /\ done.results = results
        /\ done.selected = own.selected
    BY <1>2
  <2>2. /\ DOMAIN drained = DOMAIN own /\ drained.live = done.live /\ drained.results = results
        /\ drained.selected = IF own.selected = None THEN "cancelled" ELSE own.selected
    BY <1>2, <2>1
  <2>3. /\ DOMAIN closing = DOMAIN own /\ closing.live = done.live /\ closing.results = results
        /\ closing.selected = selected
        /\ DOMAIN decided = DOMAIN own /\ decided.live = done.live /\ decided.results = results
        /\ decided.selected = selected
    BY <1>2, <2>1
  <2>4. own.selected = None => selected = classifyParallel(node, results, None)
    OBVIOUS
  <2>5. "cancelled" # None
    BY DEF None
  <2> HIDE DEF done, drained, closing, decided, selected, results
  <2>6. Spoiled(results) => classifyParallel(node, results, None) # None
    BY SpoiledDecides
  <2> QED
    BY <2>1, <2>2, <2>3, <2>4, <2>5, <2>6
<1> HIDE DEF done, drained, closing, decided, selected, results, own, pruned
<1>10. ASSUME ~HasPending(d, branch), NEW frame, Ends(frame)
       PROVE  /\ Awake(SetFrame(pruned, o, frame), {o})
              /\ Awake(Enqueue(SetFrame(pruned, o, frame), o), {})
              /\ frame.selected # None =>
                   Minds(SetFrame(pruned, o, frame), {o}, node, o, stopped(frame))
  <2> DEFINE f == SetFrame(pruned, o, frame)
  <2>1. Parted(d, o, b, pruned)
    BY <1>5, <1>10
  <2>2. Alters(pruned, {o}, o, frame, f)
    BY <2>1, AwakeSet DEF Parted
  <2> HIDE DEF f
  <2>3. /\ Awake(f, {o}) /\ o \in DOMAIN f.frames /\ f.frames[o] = frame
        /\ Now(f, o) = after
    <3>1. {o} \cup {o} = {o}
      OBVIOUS
    <3> QED
      BY <2>1, <2>2, <3>1 DEF Alters, Parted
  <2>4. waited \ {b} \subseteq after
    BY <2>1 DEF Parted, waited
  <2> HIDE DEF after
  <2>5. Minded(node, frame, after)
    BY <1>3, <1>4, <1>10, <2>4, MindedNext DEF results
  <2>6. Awake(Enqueue(f, o), {o} \ {o})
    BY <1>1, <1>4, <2>3, <2>5, AwakeParallel DEF node
  <2>7. frame.selected # None => Minds(f, {o}, node, o, cancelUnstartedBranches(f, o))
    BY <1>2, <1>10, <2>3, <2>5, AwakeStopBranches
  <2> QED
    BY <2>3, <2>6, <2>7 DEF f
<1> HIDE DEF Ends, stopped
<1>11. CASE ~HasPending(d, branch) /\ e = Enqueue(noted(With(stopped(drained).cleanups, o, remaining)), o)
  <2> DEFINE f == stopped(drained)
             g == noted(With(f.cleanups, o, remaining))
  <2>1. Awake(f, {o}) /\ o \in DOMAIN f.frames /\ Minded(node, f.frames[o], Now(f, o))
    BY <1>9, <1>10, <1>11 DEF Minds
  <2>2. g = [f EXCEPT !.cleanups = With(f.cleanups, o, remaining)]
    OBVIOUS
  <2> HIDE DEF f, g, remaining
  <2>3. Alike(f, {o}, g)
    BY <1>8, <2>1, <2>2, AwakeNoted
  <2>4. Awake(g, {o}) /\ o \in DOMAIN g.frames /\ Minded(node, g.frames[o], Now(g, o))
    BY <2>1, <2>3 DEF Alike, Now
  <2>5. Awake(Enqueue(g, o), {o} \ {o})
    BY <1>1, <1>4, <2>4, AwakeParallel DEF node
  <2> QED
    BY <1>11, <2>5 DEF g, f
<1>12. CASE /\ ~HasPending(d, branch) /\ own.selected = None /\ selected # None
            /\ e = Enqueue(asked, o)
  <2> DEFINE f == stopped(closing)
             g == asked
  <2>1. Awake(f, {o}) /\ o \in DOMAIN f.frames /\ Minded(node, f.frames[o], Now(f, o))
    BY <1>9, <1>10, <1>12 DEF Minds
  <2>2. g = [f EXCEPT !.cancel = o]
    OBVIOUS
  <2> HIDE DEF f, g
  <2>3. Alike(f, {o}, g)
    BY <2>1, <2>2, AwakeAsked
  <2>4. Awake(g, {o}) /\ o \in DOMAIN g.frames /\ Minded(node, g.frames[o], Now(g, o))
    BY <2>1, <2>3 DEF Alike, Now
  <2>5. Awake(Enqueue(g, o), {o} \ {o})
    BY <1>1, <1>4, <2>4, AwakeParallel DEF node
  <2> QED
    BY <1>12, <2>5 DEF g
<1>13. CASE /\ ~HasPending(d, branch)
            /\ \/ /\ own.selected = None /\ selected # None
                  /\ e = Enqueue(SetFrame(pruned, o, decided), o)
               \/ /\ ~(own.selected = None /\ selected # None)
                  /\ e = Enqueue(SetFrame(pruned, o, done), o)
  BY <1>9, <1>10, <1>13
<1> HIDE DEF noted, asked, remaining
<1> QED
  BY <1>6, <1>7, <1>11, <1>12, <1>13

-----------------------------------------------------------------------------
(*****************************************************************************)
(* Maps.                                                                     *)
(*****************************************************************************)
\* A map whose active items are live is served once it is queued.
LEMMA AwakeMap ==
  ASSUME NEW d, NEW X, Awake(d, X), NEW o \in DOMAIN d.frames, ~IsRegion(o),
         NodeAt(o).kind = "map", d.frames[o].active \subseteq Now(d, o)
  PROVE  Awake(Enqueue(d, o), X \ {o})
<1>1. Served(o, d.frames[o], Now(d, o), TRUE)
  BY DEF Served
<1> QED
  BY <1>1, AwakeEnqueue

\* completeMapItem serves what is left when only the item was not.
LEMMA AwakeItem ==
  ASSUME NEW d, NEW H, Good(d, H), NEW item \in DOMAIN d.frames, IsRegion(item),
         item # Root, NodeAt(OwnerOf(item)).kind = "map", NEW class, NEW cleanup, Local(cleanup),
         NEW X \in SUBSET {item}, Awake(d, X),
         NEW e, e = completeMapItem(d, item, class, cleanup), e.valid
  PROVE  Awake(e, {})
<1> DEFINE o == OwnerOf(item)
           i == Last(item)
           own == d.frames[o]
           node == NodeAt(o)
           pruned == Charge(PruneTrees(d, {item}), 2)
           waited == Now(d, o)
           after == Now(pruned, o)
           remaining == consumeCleanupOwner(cleanup, o)
           done == [own EXCEPT !.active = @ \ {i}, !.completed = With(@, i, class)]
           drained == [done EXCEPT !.selected = IF @ = None THEN "cancelled" ELSE @,
                                   !.status = "draining"]
           failing(st) == [done EXCEPT !.selected = "failed", !.failedItem = i, !.status = st]
<1>1. /\ IsKey(o) /\ o \in DOMAIN d.frames /\ ~IsRegion(o) /\ Last(o) \in DOMAIN Nodes
      /\ item = Append(o, i) /\ i \in waited
  BY OwnedRegion DEF Now
<1>2. /\ DOMAIN own = {"kind", "unstarted", "active", "completed", "selected", "failedItem",
                       "status"}
      /\ node.kind = "map"
  BY <1>1 DEF Good, Tree, Fits, MapFits
<1>3. own.active \subseteq waited
  <2>1. o # item
    BY <1>1
  <2> QED
    BY <1>1, <2>1 DEF Awake, Served
<1>4. item = Append(o, i) /\ X \in SUBSET {item} /\ o \in DOMAIN d.frames /\ IsDraft(d)
  BY <1>1 DEF Good
<1> DEFINE selectFailure == own.selected = None /\ class = "failed" /\ node.failure # "collect"
           updated == CASE Requested(cleanup) -> drained
                        [] ~Requested(cleanup) /\ selectFailure ->
                             failing(IF node.failure = "cancel" THEN "cancelling" ELSE "draining")
                        [] OTHER -> done
           new == SetFrame(pruned, o, updated)
           refused == \/ o \notin DOMAIN d.frames
                      \/ HasPending(d, item)
                      \/ remaining # cleanup /\ own.selected = None
<1>12. e = IF refused THEN Invalid(d)
           ELSE Enqueue([new EXCEPT !.cleanups =
                           IF Requested(cleanup) THEN With(@, o, remaining) ELSE @], o)
  BY DEF completeMapItem
<1>5. \/ e = Invalid(d)
      \/ /\ ~HasPending(d, item)
         /\ e = Enqueue([new EXCEPT !.cleanups =
                           IF Requested(cleanup) THEN With(new.cleanups, o, remaining)
                           ELSE new.cleanups], o)
  <2> HIDE DEF new
  <2> QED
    BY <1>12
<1>11. updated = drained \/ updated = done \/ \E st : updated = failing(st)
  BY Zenon
<1>6. e # Invalid(d)
  BY Refused
<1>7. Local(remaining)
  BY DEF Local, consumeCleanupOwner
<1> HIDE DEF o, i, waited, node
<1>8. ASSUME ~HasPending(d, item)
      PROVE  Parted(d, o, i, pruned)
  <2>1. Parted(d, o, i, Charge(PruneTrees(d, {Append(o, i)}), 2))
    BY <1>4, <1>8, AwakeParted
  <2> QED
    BY <1>4, <2>1
<1>9. ASSUME NEW frame, frame = drained \/ frame = done \/ \E st : frame = failing(st)
      PROVE  frame.active = own.active \ {i}
  <2>1. DOMAIN done = DOMAIN own /\ done.active = own.active \ {i}
    BY <1>2
  <2>2. drained.active = done.active /\ \A st : failing(st).active = done.active
    BY <1>2, <2>1
  <2> HIDE DEF done, drained, failing
  <2> QED
    BY <1>9, <2>1, <2>2
<1> HIDE DEF own, pruned, done, drained, failing, remaining, updated
<1>10. ASSUME ~HasPending(d, item), NEW frame, frame.active = own.active \ {i}, NEW x,
              e = Enqueue([SetFrame(pruned, o, frame) EXCEPT !.cleanups = x], o),
              x = IF Requested(cleanup) THEN With(SetFrame(pruned, o, frame).cleanups, o, remaining)
                  ELSE SetFrame(pruned, o, frame).cleanups
       PROVE  Awake(e, {})
  <2> DEFINE f == SetFrame(pruned, o, frame)
             g == [f EXCEPT !.cleanups = With(f.cleanups, o, remaining)]
             h == [f EXCEPT !.cleanups = f.cleanups]
  <2>1. Parted(d, o, i, pruned)
    BY <1>8, <1>10
  <2>2. Alters(pruned, {o}, o, frame, f)
    BY <2>1, AwakeSet DEF Parted
  <2>8. e = Enqueue(IF Requested(cleanup) THEN g ELSE h, o)
    BY <1>10
  <2> HIDE DEF f
  <2>3. /\ Awake(f, {o}) /\ o \in DOMAIN f.frames /\ f.frames[o] = frame
        /\ Now(f, o) = after
    <3>1. {o} \cup {o} = {o}
      OBVIOUS
    <3> QED
      BY <2>1, <2>2, <3>1 DEF Alters, Parted
  <2>4. frame.active \subseteq after
    BY <1>3, <1>10, <2>1 DEF Parted, waited
  <2> HIDE DEF after
  <2>5. \A k \in {g, h} : /\ Awake(k, {o}) /\ o \in DOMAIN k.frames
                          /\ k.frames[o].active \subseteq Now(k, o)
    <3>1. g = [f EXCEPT !.cleanups = With(f.cleanups, o, remaining)]
      OBVIOUS
    <3>2. h = f
      BY <2>3 DEF Awake, Calm, IsDraft, DraftFields
    <3> HIDE DEF g, h
    <3>3. Alike(f, {o}, g)
      BY <1>7, <2>3, <3>1, AwakeNoted
    <3>4. /\ Awake(g, {o}) /\ o \in DOMAIN g.frames
          /\ g.frames[o].active \subseteq Now(g, o)
      BY <2>3, <2>4, <3>3 DEF Alike, Now
    <3> QED
      BY <2>3, <2>4, <3>2, <3>4
  <2> HIDE DEF g, h
  <2>6. \A k \in {g, h} : Awake(Enqueue(k, o), {o} \ {o})
    BY <1>1, <1>2, <2>5, AwakeMap DEF node
  <2>7. {o} \ {o} = {}
    OBVIOUS
  <2> QED
    BY <2>6, <2>7, <2>8
<1> QED
  BY <1>5, <1>6, <1>9, <1>10, <1>11

\* Stopping idle items leaves the active ones live.
Halts(d, X, o, e) ==
  /\ Awake(e, X \cup {o})
  /\ o \in DOMAIN e.frames /\ e.frames[o].active \subseteq Now(e, o)
  /\ e.frames[o].selected = d.frames[o].selected
  /\ e.frames[o].unstarted = d.frames[o].unstarted
  /\ e.terminal = d.terminal /\ e.valid = d.valid

\* Under fail-fast cancellation the items that stay active are live.
LEMMA AwakeStopItems ==
  ASSUME NEW d, NEW X, Awake(d, X), NEW o \in DOMAIN d.frames,
         DOMAIN d.frames[o] = {"kind", "unstarted", "active", "completed", "selected",
                               "failedItem", "status"},
         d.frames[o].active \subseteq Now(d, o)
  PROVE  Halts(d, X, o, locallyCancelIdleActive(d, o))
<1> DEFINE own == d.frames[o]
           idle == {i \in own.active : ~HasPending(d, Append(o, i))}
           roots == {Append(o, i) : i \in idle}
           stopped == [i \in idle |-> "cancelled"]
           pruned == PruneTrees(d, roots)
           discarded == Discard(pruned, roots)
           frame == [own EXCEPT !.active = @ \ idle, !.completed = Else(@, stopped)]
           e == SetFrame(discarded, o, frame)
           Y == X \cup {o}
<1>1. locallyCancelIdleActive(d, o) = e
  BY Zenon DEF locallyCancelIdleActive
<1>2. IsDraft(d) /\ IsKey(o) /\ Len(o) \in Nat /\ Len(o) >= 1
  BY DEF Awake, Calm, IsKey
<1>3. \A c : /\ IsKey(Append(o, c)) /\ Len(Append(o, c)) = Len(o) + 1
             /\ Front(Append(o, c)) = o /\ Last(Append(o, c)) = c
  BY <1>2, KeyAppend
<1>4. \A r \in roots : IsKey(r) /\ Len(r) >= 2 /\ ~HasPending(d, r) /\ Front(r) = o
  <2>1. \A b \in idle : /\ IsKey(Append(o, b)) /\ Len(Append(o, b)) >= 2
                        /\ ~HasPending(d, Append(o, b)) /\ Front(Append(o, b)) = o
    BY <1>2, <1>3
  <2> HIDE DEF idle
  <2> QED
    BY <2>1
<1>5. \A c : Append(o, c) \in roots => c \in idle
  BY <1>3
<1>6. /\ frame.active = own.active \ idle /\ frame.selected = own.selected
      /\ frame.unstarted = own.unstarted
  OBVIOUS
<1>7. \A r \in roots : \E b \in idle : r = Append(o, b)
  OBVIOUS
<1> HIDE DEF stopped, frame, roots, idle
<1>8. /\ Awake(pruned, X \cup {Front(r) : r \in roots})
      /\ pruned.terminal = d.terminal /\ pruned.valid = d.valid
      /\ \A k \in DOMAIN pruned.frames :
           \A c \in Now(d, k) : Append(k, c) \in roots \/ c \in Now(pruned, k)
  BY <1>4, AwakePrune
<1>9. /\ \A k \in DOMAIN pruned.frames : \A r \in roots : ~IsPrefix(r, k)
      /\ \A k \in DOMAIN d.frames : k \in DOMAIN pruned.frames \/ \E r \in roots : IsPrefix(r, k)
  BY <1>2, PruneShape
<1> HIDE DEF pruned
<1>10. Awake(pruned, Y)
  <2>1. X \cup {Front(r) : r \in roots} \subseteq Y
    BY <1>4
  <2> HIDE DEF Y
  <2> QED
    BY <1>8, <2>1, AwakeMore
<1>11. o \in DOMAIN pruned.frames
  <2>1. \A c : ~IsPrefix(Append(o, c), o)
    BY <1>2, ChildAbove, PrefixItself
  <2> QED
    BY <1>9, <1>7, <2>1
<1>12. own.active \ idle \subseteq Now(pruned, o)
  BY <1>5, <1>8, <1>11
<1>16. Y \cup {o} = Y
  OBVIOUS
<1> HIDE DEF Y
<1>13. Alike(pruned, Y, discarded)
  BY <1>9, <1>10, AwakeDiscard
<1> HIDE DEF discarded
<1>14. Alters(discarded, Y, o, frame, e)
  BY <1>11, <1>13, AwakeSet DEF Alike
<1> HIDE DEF e
<1>15. Now(e, o) = Now(pruned, o) /\ e.frames[o] = frame /\ o \in DOMAIN e.frames
  BY <1>11, <1>13, <1>14 DEF Alike, Alters, Now
<1>17. Awake(e, Y) /\ e.terminal = d.terminal /\ e.valid = d.valid
  BY <1>8, <1>13, <1>14, <1>16 DEF Alike, Alters
<1> HIDE DEF own
<1>18. /\ e.frames[o].active \subseteq Now(e, o) /\ e.frames[o].selected = own.selected
       /\ e.frames[o].unstarted = own.unstarted
  BY <1>6, <1>12, <1>15
<1> QED
  BY <1>1, <1>15, <1>17, <1>18 DEF Halts, Y, own

-----------------------------------------------------------------------------
(*****************************************************************************)
(* Failed and cancelled regions.                                             *)
(*****************************************************************************)
\* completeFailedRegion serves what is left when only the region was not.
LEMMA AwakeFailedRegion ==
  ASSUME NEW d, NEW H, Good(d, H), d.terminal = None, NEW region \in DOMAIN d.frames,
         IsRegion(region), NEW X \in SUBSET {region}, Awake(d, X),
         NEW e, e = completeFailedRegion(d, region)
  PROVE  Wakes(e)
<1> DEFINE o == OwnerOf(region)
<1>1. CASE region = Root
  <2>1. e = [d EXCEPT !.terminal = IF @ = None THEN "failed" ELSE @]
    BY <1>1 DEF completeFailedRegion
  <2>2. e.terminal # None
    BY <2>1 DEF Good, IsDraft, DraftFields, None
  <2> QED
    BY <2>2 DEF Wakes
<1>2. CASE region # Root
  <2>1. /\ ~IsRegion(o) /\ Last(o) \in DOMAIN Nodes /\ IsKey(o)
        /\ NodeAt(o).kind \in {"call", "repeat", "parallel", "map"}
        /\ region = Append(o, Last(region))
    BY <1>2, OwnedRegion
  <2>2. CASE NodeAt(o).kind \in {"call", "repeat"}
    <3>1. e = finishOwner(d, o, "failed", NodeAt(o).failed)
      BY <1>2, <2>2, Zenon DEF completeFailedRegion
    <3>2. \A k \in X : IsPrefix(o, k)
      <4>1. \A c : IsPrefix(o, Append(o, c))
        BY <2>1, BelowChild, PrefixItself DEF Below, IsStrictPrefix
      <4>2. IsPrefix(o, region)
        BY <2>1, <4>1, Zenon
      <4> QED
        BY <4>2
    <3> HIDE DEF o
    <3> QED
      BY <2>1, <3>1, <3>2, AwakeOwner DEF Wakes
  <2>3. CASE NodeAt(o).kind = "parallel"
    <3>1. e = completeParallelBranch(d, region, "failed", NoCleanup)
      BY <1>2, <2>3 DEF completeFailedRegion
    <3>2. Local(NoCleanup) /\ "failed" \in Classes(NodeAt(o))
      BY DEF Local, NoCleanup, Classes, GenericClass, VoteClass
    <3> QED
      BY <1>2, <2>3, <3>1, <3>2, AwakeBranch DEF Wakes
  <2>4. CASE NodeAt(o).kind = "map"
    <3>1. e = completeMapItem(d, region, "failed", NoCleanup)
      BY <1>2, <2>4 DEF completeFailedRegion
    <3>2. Local(NoCleanup)
      BY DEF Local, NoCleanup
    <3> QED
      BY <1>2, <2>4, <3>1, <3>2, AwakeItem DEF Wakes
  <2> QED
    BY <2>1, <2>2, <2>3, <2>4
<1> QED
  BY <1>1, <1>2

\* The owners a cancellation passes leave only the region that absorbs it
\* unserved.
LEMMA AwakePassed ==
  ASSUME NEW d, NEW region, NEW top, NEW passed, Tops(d, region, top, passed),
         NEW X \in SUBSET {region}, Awake(d, X), \A o \in passed : ~HasPending(d, o),
         NEW e, e = PruneTrees(d, passed)
  PROVE  Awake(e, {top}) /\ e.terminal = d.terminal
<1>1. IsDraft(d) /\ IsKey(region) /\ IsKey(top) /\ IsPrefix(top, region)
  BY DEF Awake, Calm, Tops
<1>2. Len(top) \in Nat /\ Len(region) \in Nat /\ Len(region) >= Len(top) /\ Len(top) >= 1
  <2>1. Len(top) >= 1
    BY DEF Awake, Calm, Tops
  <2> QED
    BY <1>1, <2>1, PrefixPointwise DEF IsKey
<1>3. \A o \in passed : /\ IsKey(o) /\ Len(o) \in Nat /\ Len(o) > Len(top) /\ Len(o) >= 2
                        /\ IsPrefix(o, region) /\ ~HasPending(d, o)
  BY <1>2 DEF Tops, IsKey
<1>4. \A o \in passed : IsKey(Front(o)) /\ IsPrefix(Front(o), region) /\ Len(Front(o)) >= Len(top)
  <2> SUFFICES ASSUME NEW o \in passed
               PROVE  IsKey(Front(o)) /\ IsPrefix(Front(o), region) /\ Len(Front(o)) >= Len(top)
    OBVIOUS
  <2>1. /\ IsKey(o) /\ Len(o) \in Nat /\ Len(o) > Len(top) /\ Len(o) >= 2 /\ IsPrefix(o, region)
    BY <1>3
  <2>2. /\ IsKey(Front(o)) /\ Len(Front(o)) = Len(o) - 1
        /\ \A i \in 1..(Len(o) - 1) : Front(o)[i] = o[i]
    BY <2>1, KeyFront
  <2>3. IsPrefix(Front(o), o)
    BY <2>1, <2>2, PrefixPointwise
  <2>4. IsPrefix(Front(o), region)
    BY <1>1, <2>1, <2>2, <2>3, PrefixTransitive
  <2> QED
    BY <1>2, <2>1, <2>2, <2>4
<1>5. Awake(e, X \cup {Front(o) : o \in passed}) /\ e.terminal = d.terminal
  BY <1>3, AwakePrune
<1>6. \A k \in DOMAIN e.frames : \A o \in passed : ~IsPrefix(o, k)
  BY <1>1, PruneShape
<1>7. \A k : IsKey(k) /\ IsPrefix(k, region) /\ Len(k) >= Len(top) =>
        k = top \/ \E o \in passed : IsPrefix(o, k)
  BY DEF Tops
<1>8. IsPrefix(region, region)
  BY <1>1, PrefixItself
<1>9. \A k \in (X \cup {Front(o) : o \in passed}) \ {top} : k \notin DOMAIN e.frames
  BY <1>1, <1>2, <1>4, <1>6, <1>7, <1>8
<1> QED
  BY <1>5, <1>9, AwakeFewer

\* completeRequestedCancellation serves what is left when only the region it
\* starts at was not.
LEMMA AwakeCancellation ==
  ASSUME NEW d, NEW H, Good(d, H), NEW region, IsRegion(region),
         NEW st \in {"failed", "cancelled"}, NEW cleanup, Local(cleanup),
         NEW X \in SUBSET {region}, Awake(d, X),
         NEW e, e = completeRequestedCancellation(d, region, st, cleanup), e.valid
  PROVE  Awake(e, {})
<1> DEFINE owners == {SubSeq(region, 1, n) : n \in {m \in 1..Len(region) : m % 2 = 0}}
           absorbing == {o \in owners : NodeAt(o).kind \in {"parallel", "map"}}
           depths == {1} \cup {Len(o) + 1 : o \in absorbing}
           depth == Max(depths)
           top == SubSeq(region, 1, depth)
           passed == {o \in owners : Len(o) > depth}
           refused == \/ region \notin DOMAIN d.frames
                      \/ \E o \in passed :
                           \/ o \notin DOMAIN d.frames
                           \/ HasPending(d, o)
                           \/ ~Unsettled(d, RegionOf(o), Last(o))
           pruned == PruneTrees(d, passed)
           kept == storeOwnedResult(pruned, top, region[depth + 1], st)
           stored == IF passed = {} THEN d ELSE Charge(kept, 2 * (Cardinality(passed) - 1))
<1>1. \/ e = Invalid(d)
      \/ ~refused /\ top = Root /\ ((cleanup.run /\ e = stored) \/ e = Invalid(stored))
      \/ /\ ~refused /\ top # Root /\ NodeAt(OwnerOf(top)).kind = "parallel"
         /\ e = completeParallelBranch(stored, top, st, cleanup)
      \/ /\ ~refused /\ top # Root /\ NodeAt(OwnerOf(top)).kind # "parallel"
         /\ e = completeMapItem(stored, top, st, cleanup)
  BY Zenon DEF completeRequestedCancellation
<1>2. e # Invalid(d) /\ cleanup.run = FALSE
  BY Refused DEF Local
<1>3. ~refused /\ region \in DOMAIN d.frames /\ \A o \in passed : ~HasPending(d, o)
  BY <1>1, <1>2
<1>4. Tops(d, region, top, passed)
  BY <1>3, CancellationTop
<1>5. /\ pruned = PruneTrees(d, passed)
      /\ kept = storeOwnedResult(pruned, top, region[depth + 1], st)
      /\ stored = IF passed = {} THEN d ELSE Charge(kept, 2 * (Cardinality(passed) - 1))
  OBVIOUS
<1> HIDE DEF refused, passed, top, depth, depths, pruned, kept, stored
<1>6. IsDraft(d) /\ IsDraft(pruned) /\ IsDraft(kept) /\ IsDraft(stored)
  <2>1. IsDraft(d)
    BY DEF Good
  <2>2. IsDraft(pruned)
    BY <1>5, <2>1, KeepsTree DEF Keeps, Derived
  <2>3. IsDraft(kept)
    BY <1>5, <2>2, KeepsResult DEF Keeps, Derived
  <2>4. IsDraft(stored)
    BY <1>5, <2>1, <2>3, KeepsUpdate DEF Keeps, Derived
  <2> QED
    BY <2>1, <2>2, <2>3, <2>4
<1>7. Grows(d, stored, H)
  <2>1. CASE passed = {}
    BY <1>5, <2>1, GrowsUpdate
  <2>2. CASE passed # {}
    <3>1. Grows(d, pruned, H)
      BY <1>3, <1>4, <1>5, GrowsPrune DEF Tops
    <3>2. Good(pruned, H)
      BY <3>1, GrowsTransitive
    <3>3. Grows(pruned, kept, H)
      BY <1>4, <1>5, <3>2, GrowsStored DEF Tops
    <3>4. Grows(d, kept, H) /\ Good(kept, H)
      BY <3>1, <3>3, GrowsTransitive
    <3>5. Grows(kept, stored, H)
      BY <1>5, <2>2, <3>4, GrowsUpdate
    <3> QED
      BY <3>4, <3>5, GrowsTransitive
  <2> QED
    BY <2>1, <2>2
<1>8. Good(stored, H)
  BY <1>7, GrowsTransitive
<1>9. ASSUME stored.valid
      PROVE  Awake(stored, {top}) /\ top \in DOMAIN stored.frames
  <2>1. CASE passed = {}
    <3>1. region = top
      <4>1. IsPrefix(region, region) /\ IsKey(region) /\ Len(region) >= Len(top)
        BY <1>4, PrefixItself, PrefixPointwise DEF Tops, IsKey
      <4> QED
        BY <1>4, <2>1, <4>1 DEF Tops
    <3> QED
      BY <1>3, <1>5, <2>1, <3>1, AwakeMore
  <2>2. CASE passed # {}
    <3>1. Awake(pruned, {top})
      BY <1>3, <1>4, <1>5, AwakePassed
    <3>2. kept.valid
      BY <1>5, <1>6, <1>9, <2>2 DEF Charge, IsDraft, DraftFields
    <3>3. Awake(kept, {top} \cup {top}) /\ DOMAIN kept.frames = DOMAIN pruned.frames
      BY <1>5, <3>1, <3>2, AwakeStored
    <3>4. top \in DOMAIN pruned.frames
      <4>1. \A o \in passed : ~IsPrefix(o, top)
        BY <1>4, PrefixPointwise DEF Tops, IsKey
      <4> QED
        BY <1>4, <1>5, <1>6, <4>1, PruneShape DEF Tops
    <3>5. Alike(kept, {top}, stored)
      <4>1. {top} \cup {top} = {top}
        OBVIOUS
      <4> QED
        BY <1>5, <2>2, <3>3, <4>1, AwakeCharge
    <3> QED
      BY <3>3, <3>4, <3>5 DEF Alike
  <2> QED
    BY <2>1, <2>2
<1>10. Invalid(stored).valid = FALSE
  BY <1>6 DEF Invalid, IsDraft, DraftFields
<1>11. st \in Classes(NodeAt(OwnerOf(top)))
  BY DEF Classes, GenericClass, VoteClass
<1>12. CASE top # Root /\ e = completeParallelBranch(stored, top, st, cleanup)
            /\ NodeAt(OwnerOf(top)).kind = "parallel"
  <2>1. stored.valid
    BY <1>6, <1>12, KeepsBranch DEF Keeps, Derived
  <2>2. top \in DOMAIN stored.frames /\ Awake(stored, {top}) /\ IsRegion(top)
    BY <1>4, <1>9, <2>1 DEF Tops
  <2> QED
    BY <1>8, <1>11, <1>12, <2>2, AwakeBranch
<1>13. CASE top # Root /\ e = completeMapItem(stored, top, st, cleanup)
            /\ NodeAt(OwnerOf(top)).kind # "parallel"
  <2>1. stored.valid
    BY <1>6, <1>13, KeepsItem DEF Keeps, Derived
  <2>2. /\ top \in DOMAIN stored.frames /\ Awake(stored, {top}) /\ IsRegion(top)
        /\ NodeAt(OwnerOf(top)).kind = "map"
    BY <1>4, <1>9, <1>13, <2>1 DEF Tops
  <2> QED
    BY <1>8, <1>13, <2>2, AwakeItem
<1> QED
  BY <1>1, <1>2, <1>10, <1>12, <1>13

-----------------------------------------------------------------------------
(*****************************************************************************)
(* Opening frames.                                                           *)
(*****************************************************************************)
\* Draft e has the frames of d and, not yet served, the children C of o.
Spreads(d, X, o, C, e) ==
  /\ Awake(e, X \cup ChildrenOf(o, C))
  /\ DOMAIN e.frames = DOMAIN d.frames \cup ChildrenOf(o, C)
  /\ \A j \in DOMAIN d.frames : e.frames[j] = d.frames[j] /\ Now(d, j) \subseteq Now(e, j)
  /\ C \subseteq Now(e, o)
  /\ e.pending = d.pending /\ e.terminal = d.terminal

\* New frames leave the others served.
LEMMA AwakeAdd ==
  ASSUME NEW d, NEW X, Awake(d, X), NEW o \in DOMAIN d.frames, NEW C,
         ChildrenOf(o, C) \cap DOMAIN d.frames = {},
         NEW e, IsDraft(e), DOMAIN e.frames = DOMAIN d.frames \cup ChildrenOf(o, C),
         \A j \in DOMAIN d.frames : e.frames[j] = d.frames[j],
         e.pending = d.pending, e.cleanups = d.cleanups, e.terminal = d.terminal,
         IsKey(e.queue), \A x : Contains(d.queue, x) => Contains(e.queue, x)
  PROVE  Spreads(d, X, o, C, e)
<1>1. Calm(d) /\ IsKey(o) /\ Len(o) \in Nat /\ Len(o) >= 1
  BY DEF Awake, Calm, IsKey
<1>2. \A c : /\ IsKey(Append(o, c)) /\ Len(Append(o, c)) = Len(o) + 1
             /\ Below(o, Append(o, c)) /\ Step(o, Append(o, c)) = c
  BY <1>1, KeyAppend, BelowChild, PrefixItself
<1>3. Closed(e.frames, e.pending)
  <2> SUFFICES ASSUME NEW x \in DOMAIN e.frames \cup e.pending, NEW m \in 1..(Len(x) - 1)
               PROVE  SubSeq(x, 1, m) \in DOMAIN e.frames
    BY DEF Closed
  <2>1. CASE x \in DOMAIN d.frames \cup d.pending
    BY <1>1, <2>1 DEF Calm, Closed
  <2>2. CASE x \in ChildrenOf(o, C)
    <3>1. PICK c \in C : x = Append(o, c)
      BY <2>2 DEF ChildrenOf
    <3>2. m \in 1..Len(o)
      BY <1>1, <1>2, <3>1
    <3>3. Closed(d.frames, d.pending)
      BY <1>1 DEF Calm
    <3> QED
      BY <1>1, <3>1, <3>2, <3>3, ChildUnder
  <2> QED
    BY <2>1, <2>2
<1>4. \A x \in ChildrenOf(o, C) : IsKey(x) /\ Len(x) >= 1
  <2> SUFFICES ASSUME NEW x \in ChildrenOf(o, C)
               PROVE  IsKey(x) /\ Len(x) >= 1
    OBVIOUS
  <2>1. PICK c \in C : x = Append(o, c)
    BY DEF ChildrenOf
  <2> QED
    BY <1>1, <1>2, <2>1
<1>5. Calm(e)
  BY <1>1, <1>3, <1>4 DEF Calm
<1>6. \A j \in DOMAIN d.frames : Now(d, j) \subseteq Now(e, j) /\ (Queued(d, j) => Queued(e, j))
  <2>1. DOMAIN d.frames \cup d.pending \subseteq DOMAIN e.frames \cup e.pending
    OBVIOUS
  <2> QED
    BY <2>1, StepsLess DEF Now, Queued
<1>7. C \subseteq Now(e, o)
  BY <1>2 DEF Now, Steps, ChildrenOf
<1>8. Awake(e, X \cup ChildrenOf(o, C))
  BY <1>5, <1>6, AwakeKept
<1> QED
  BY <1>6, <1>7, <1>8 DEF Spreads

\* Fresh regions are queued and have a ready node.
LEMMA AwakeRegions ==
  ASSUME NEW d, NEW X, Awake(d, X), NEW o \in DOMAIN d.frames, ~IsRegion(o), NEW C,
         NEW regions, DOMAIN regions = ChildrenOf(o, C),
         NEW keys, IsKey(keys), \A k \in DOMAIN regions : Contains(keys, k),
         NEW e, e = AddRegions(d, regions, keys), e.valid
  PROVE  Spreads(d, X, o, C, e) /\ Awake(e, X)
<1> DEFINE new == DOMAIN regions
           frame == [k \in new |-> RegionFrame(regions[k])]
           queue2 == d.queue \o Retain(keys, new \ ToSet(d.queue))
<1>1. Calm(d) /\ IsDraft(d) /\ IsKey(d.queue) /\ IsKey(o) /\ Len(o) \in Nat
  BY DEF Awake, Calm, IsKey
<1>2. new \cap DOMAIN d.frames = {}
  <2>1. Invalid(d).valid = FALSE
    BY Refused
  <2> QED
    BY <2>1 DEF AddRegions
<1>3. e = [d EXCEPT !.frames = Else(frame, d.frames), !.queue = queue2,
                    !.work = d.work + Cardinality(new)]
  BY <1>2 DEF AddRegions
<1>4. IsDraft(e)
  BY <1>1, KeepsAddRegions DEF Keeps, Derived
<1>5. IsKey(queue2) /\ \A x : Contains(d.queue, x) \/ x \in new => Contains(queue2, x)
  <2> DEFINE kept == Retain(keys, new \ ToSet(d.queue))
  <2>1. IsKey(kept) /\ \A x \in new \ ToSet(d.queue) : Contains(keys, x) => Contains(kept, x)
    BY RetainHas
  <2>2. \A x : x \in ToSet(d.queue) => Contains(d.queue, x)
    BY <1>1 DEF ToSet, Contains, IsKey
  <2> HIDE DEF kept
  <2>3. /\ IsKey(d.queue \o kept)
        /\ \A x : Contains(d.queue, x) \/ Contains(kept, x) => Contains(d.queue \o kept, x)
    BY <1>1, <2>1, QueueGrows
  <2> QED
    BY <2>1, <2>2, <2>3 DEF kept
<1> HIDE DEF frame, queue2
<1>6. /\ e.frames = Else(frame, d.frames) /\ e.queue = queue2 /\ e.pending = d.pending
      /\ e.cleanups = d.cleanups /\ e.terminal = d.terminal
  BY <1>1, <1>3 DEF IsDraft, DraftFields
<1>7. /\ DOMAIN e.frames = DOMAIN d.frames \cup ChildrenOf(o, C)
      /\ \A j \in DOMAIN d.frames : e.frames[j] = d.frames[j]
      /\ \A k \in new : e.frames[k].ready # {}
  BY <1>2, <1>6 DEF Else, frame, RegionFrame
<1>8. Spreads(d, X, o, C, e)
  BY <1>2, <1>4, <1>5, <1>6, <1>7, AwakeAdd
<1>9. ASSUME NEW k \in ChildrenOf(o, C)
      PROVE  Served(k, e.frames[k], Now(e, k), Queued(e, k))
  <2>1. IsRegion(k)
    <3>1. PICK c \in C : k = Append(o, c)
      BY <1>9 DEF ChildrenOf
    <3>2. Len(k) = Len(o) + 1
      BY <1>1, <3>1, KeyAppend
    <3> QED
      BY <1>1, <3>2 DEF IsRegion
  <2>2. Queued(e, k)
    BY <1>5, <1>6, <1>9 DEF Queued
  <2> QED
    BY <1>7, <1>9, <2>1, <2>2 DEF Served
<1>10. Awake(e, X \cup ChildrenOf(o, C))
  BY <1>8 DEF Spreads
<1> QED
  BY <1>8, <1>9, <1>10, AwakeFewer

\* Draft e has just opened the owner o of node n, which is not served yet.
Enters(d, X, r, n, o, frame, e) ==
  /\ Awake(e, (X \ {r}) \cup {o})
  /\ DOMAIN e.frames = DOMAIN d.frames \cup {o}
  /\ e.frames[o] = frame
  /\ e.terminal = d.terminal

\* The region of an owner that opens waits for it.
LEMMA AwakeEntered ==
  ASSUME NEW d, NEW X, Awake(d, X), NEW r \in DOMAIN d.frames, IsRegion(r), NEW n,
         NEW o, o = Append(r, n), NEW frame, NEW e, e = AddOwner(d, o, frame), e.valid
  PROVE  Enters(d, X, r, n, o, frame, e)
<1>1. IsDraft(d)
  BY DEF Awake, Calm
<1>2. o \notin DOMAIN d.frames /\ e = Charge(SetFrame(d, o, frame), 1)
  BY Refused DEF AddOwner
<1>3. IsDraft(e)
  BY <1>1, KeepsAddOwner DEF Keeps, Derived
<1>4. /\ e.frames = With(d.frames, o, frame) /\ e.pending = d.pending /\ e.queue = d.queue
      /\ e.cleanups = d.cleanups /\ e.terminal = d.terminal
  BY <1>1, <1>2 DEF Charge, SetFrame, IsDraft, DraftFields
<1>5. ChildrenOf(r, {n}) = {o}
  BY DEF ChildrenOf
<1>6. /\ DOMAIN e.frames = DOMAIN d.frames \cup ChildrenOf(r, {n})
      /\ \A j \in DOMAIN d.frames : e.frames[j] = d.frames[j]
      /\ e.frames[o] = frame
  BY <1>2, <1>4, <1>5 DEF With
<1>7. IsKey(e.queue) /\ ChildrenOf(r, {n}) \cap DOMAIN d.frames = {}
  BY <1>2, <1>4, <1>5 DEF Awake, Calm
<1> DEFINE C == {n}
<1>8. Spreads(d, X, r, C, e)
  <2>1. /\ DOMAIN e.frames = DOMAIN d.frames \cup ChildrenOf(r, C)
        /\ ChildrenOf(r, C) \cap DOMAIN d.frames = {}
    BY <1>6, <1>7
  <2> HIDE DEF C
  <2> QED
    BY <1>3, <1>4, <1>6, <1>7, <2>1, AwakeAdd
<1>9. Awake(e, X \cup {o}) /\ n \in Now(e, r)
  BY <1>5, <1>8 DEF Spreads
<1>10. Served(r, e.frames[r], Now(e, r), Queued(e, r))
  BY <1>9 DEF Served
<1>11. Awake(e, (X \ {r}) \cup {o})
  <2>1. \A k \in (X \cup {o}) \ ((X \ {r}) \cup {o}) : k = r
    OBVIOUS
  <2> QED
    BY <1>9, <1>10, <2>1, AwakeFewer
<1> QED
  BY <1>4, <1>5, <1>6, <1>11 DEF Enters

\* The first elements of a sequence without duplicates are as many as they are.
LEMMA ListFills ==
  ASSUME NEW all, all \in Seq(ToSet(all)), IsInjective(all), NEW count \in Nat, count <= Len(all)
  PROVE  IsFiniteSet(Firsts(all, count)) /\ Cardinality(Firsts(all, count)) = count
<1> DEFINE C == Firsts(all, count)
           at == [i \in 1..count |-> all[i]]
<1>1. DOMAIN all = 1..Len(all) /\ Len(all) \in Nat
  OBVIOUS
<1>2. \A i \in 1..count : i \in 1..Len(all)
  BY <1>1
<1>3. at \in Surjection(1..count, C)
  BY DEF Surjection, Firsts
<1>4. at \in Injection(1..count, C)
  BY <1>1, <1>2 DEF Injection, Firsts, IsInjective
<1>5. IsFiniteSet(1..count) /\ Cardinality(1..count) = count
  <2>1. 1 \in Int /\ count \in Int /\ (IF 1 > count THEN 0 ELSE count - 1 + 1) = count
    OBVIOUS
  <2> QED
    BY <2>1, FS_Interval
<1> HIDE DEF at, C
<1> QED
  BY <1>3, <1>4, <1>5, FS_Surjection DEF C

\* Starting items as refill does leaves a map that lags only once none is left.
LEMMA StartsKeepUp ==
  ASSUME NEW node, node.concurrency \in Nat \ {0}, NEW own, NEW now, NEW ever,
         MapFits(node, own, now, ever), own.active # {} \/ own.unstarted # <<>>,
         NEW capacity, capacity = node.concurrency - Cardinality(own.active),
         NEW count, count = IF capacity < Len(own.unstarted) THEN capacity ELSE Len(own.unstarted),
         NEW C, NEW frame, Starts(own, count, C, frame)
  PROVE  frame.active # {} /\ ~Lagging(node, frame)
<1>1. /\ own.unstarted \in Seq(ToSet(own.unstarted)) /\ IsInjective(own.unstarted)
      /\ IsFiniteSet(own.active) /\ Cardinality(own.active) <= node.concurrency
      /\ own.active \cap ToSet(own.unstarted) = {}
  BY DEF MapFits
<1>2. /\ count \in Nat /\ count <= Len(own.unstarted) /\ C = Firsts(own.unstarted, count)
      /\ frame.unstarted = SubSeq(own.unstarted, count + 1, Len(own.unstarted))
      /\ frame.active = own.active \cup C
  BY DEF Starts
<1>3. IsFiniteSet(C) /\ Cardinality(C) = count
  BY <1>1, <1>2, ListFills
<1>4. C \subseteq ToSet(own.unstarted)
  <2>1. \A i \in 1..count : i \in 1..Len(own.unstarted)
    BY <1>1, <1>2
  <2> QED
    BY <1>1, <1>2, <2>1, SeqElements DEF Firsts
<1>5. Cardinality(frame.active) = Cardinality(own.active) + count
  <2>1. own.active \cap C = {}
    BY <1>1, <1>4
  <2>2. Cardinality(own.active \cup C)
          = Cardinality(own.active) + Cardinality(C) - Cardinality(own.active \cap C)
    BY <1>1, <1>3, FS_Union
  <2>3. Cardinality(own.active \cap C) = 0
    BY <2>1, FS_EmptySet
  <2>4. Cardinality(own.active) \in Nat
    BY <1>1, FS_CardinalityType
  <2> QED
    BY <1>2, <1>3, <2>2, <2>3, <2>4
<1>6. /\ Cardinality(own.active) \in Nat /\ Len(own.unstarted) \in Nat
      /\ (own.active = {} <=> Cardinality(own.active) = 0)
      /\ (own.unstarted = <<>> <=> Len(own.unstarted) = 0)
  <2>1. Cardinality(own.active) \in Nat /\ (own.active = {} <=> Cardinality(own.active) = 0)
    BY <1>1, FS_CardinalityType, FS_EmptySet
  <2>2. Len(own.unstarted) \in Nat /\ (own.unstarted = <<>> <=> Len(own.unstarted) = 0)
    BY <1>1
  <2> QED
    BY <2>1, <2>2
<1>7. frame.active # {}
  <2> SUFFICES ASSUME frame.active = {}
               PROVE  FALSE
    OBVIOUS
  <2>1. own.active = {} /\ count = 0
    <3>1. own.active = {} /\ C = {}
      BY <1>2
    <3> QED
      BY <1>3, <3>1, FS_EmptySet
  <2>2. capacity = node.concurrency /\ Len(own.unstarted) # 0
    BY <1>6, <2>1
  <2> QED
    BY <1>6, <2>1, <2>2
<1>8. frame.unstarted # <<>> => Cardinality(frame.active) = node.concurrency
  <2>1. CASE count = Len(own.unstarted)
    <3>1. frame.unstarted = <<>>
      BY <1>1, <1>2, <2>1
    <3> QED
      BY <3>1
  <2>2. CASE count # Len(own.unstarted)
    BY <1>5, <1>6, <2>2
  <2> QED
    BY <2>1, <2>2
<1> QED
  BY <1>7, <1>8 DEF Lagging

\* refill serves a map that has something to wait for.
LEMMA AwakeRefill ==
  ASSUME NEW d, NEW H, Good(d, H), NEW X, Awake(d, X), NEW o \in DOMAIN d.frames, ~IsRegion(o),
         NodeAt(o).kind = "map", d.frames[o].active \subseteq Now(d, o),
         d.frames[o].active # {} \/ d.frames[o].unstarted # <<>>,
         NEW e, e = refill(d, o), e.valid
  PROVE  /\ Awake(e, X \ {o}) /\ e.terminal = d.terminal
         /\ o \in DOMAIN e.frames /\ e.frames[o].active # {}
<1> DEFINE own == d.frames[o]
           capacity == NodeAt(o).concurrency - Cardinality(own.active)
           count == IF capacity < Len(own.unstarted) THEN capacity ELSE Len(own.unstarted)
           starting == SubSeq(own.unstarted, 1, count)
           keys == [i \in 1..count |-> Append(o, starting[i])]
           started == [own EXCEPT !.unstarted = SubSeq(@, count + 1, Len(@)),
                                  !.active = @ \cup ToSet(starting)]
           regions == [k \in ToSet(keys) |-> NodeAt(o).region]
           first == SetFrame(d, o, started)
           C == Firsts(own.unstarted, count)
           now == Steps(o, DOMAIN d.frames \cup d.pending)
           ever == Steps(o, DOMAIN d.frames \cup d.pending \cup H)
<1>1. e = AddRegions(first, regions, keys)
  BY Zenon DEF refill
<1>2. Last(o) \in DOMAIN Nodes /\ MapFits(NodeAt(o), own, now, ever)
  BY DEF Good, Tree, Fits
<1>11. NodeAt(o).concurrency \in Nat \ {0}
  BY <1>2, OwnersAssumption DEF NodeAt
<1>3. count \in Nat /\ count <= Len(own.unstarted)
  <2>2. Cardinality(own.active) \in Nat /\ Cardinality(own.active) <= NodeAt(o).concurrency
    BY <1>2, FS_CardinalityType DEF MapFits
  <2>3. Len(own.unstarted) \in Nat
    BY <1>2 DEF MapFits
  <2> QED
    BY <1>11, <2>2, <2>3
<1>4. own.unstarted \in Seq(ToSet(own.unstarted)) /\ Len(own.unstarted) \in Nat
  BY <1>2 DEF MapFits
<1>12. count = IF capacity < Len(own.unstarted) THEN capacity ELSE Len(own.unstarted)
  OBVIOUS
<1> HIDE DEF count
<1>5. /\ Len(starting) = count /\ \A i \in 1..count : starting[i] = own.unstarted[i]
      /\ DOMAIN starting = 1..count
  BY <1>3, <1>4
<1> HIDE DEF starting
<1>6. ToSet(starting) = C /\ ToSet(keys) = ChildrenOf(o, C)
  BY <1>5 DEF ToSet, ChildrenOf, Firsts
<1>7. Starts(own, count, C, started)
  <2>1. /\ DOMAIN started = DOMAIN own
        /\ started.unstarted = SubSeq(own.unstarted, count + 1, Len(own.unstarted))
        /\ started.active = own.active \cup C /\ started.completed = own.completed
        /\ started.selected = own.selected /\ started.failedItem = own.failedItem
    BY <1>2, <1>6 DEF MapFits
  <2> HIDE DEF started
  <2> QED
    BY <1>3, <2>1 DEF Starts
<1>8. DOMAIN regions = ChildrenOf(o, C)
  BY <1>6
<1>9. IsKey(keys) /\ \A k \in DOMAIN regions : Contains(keys, k)
  <2>1. Len(keys) = count /\ DOMAIN keys = 1..count
    BY <1>3
  <2>2. IsKey(keys)
    BY <1>3, <2>1 DEF IsKey
  <2>3. \A k \in ToSet(keys) : Contains(keys, k)
    <3> HIDE DEF keys
    <3> QED
      BY <2>1 DEF ToSet, Contains
  <2> QED
    BY <2>2, <2>3
<1>10. ~Lagging(NodeAt(o), started) /\ started.active # {} /\ started.active = own.active \cup C
  <2>1. started.active = own.active \cup C
    BY <1>7 DEF Starts
  <2>2. own.active # {} \/ own.unstarted # <<>>
    OBVIOUS
  <2>3. capacity = NodeAt(o).concurrency - Cardinality(own.active)
    OBVIOUS
  <2> HIDE DEF started, now, ever, C, own, capacity
  <2>4. ~Lagging(NodeAt(o), started) /\ started.active # {}
    BY <1>2, <1>7, <1>11, <1>12, <2>2, <2>3, StartsKeepUp
  <2> QED
    BY <2>1, <2>4
<1> HIDE DEF started, regions, keys
<1>13. Alters(d, X, o, started, first)
  BY AwakeSet
<1> HIDE DEF first, C
<1>14. /\ Awake(first, X \cup {o}) /\ o \in DOMAIN first.frames /\ first.frames[o] = started
       /\ Now(first, o) = Now(d, o) /\ first.terminal = d.terminal
  BY <1>13 DEF Alters
<1>15. Spreads(first, X \cup {o}, o, C, e) /\ Awake(e, X \cup {o})
  BY <1>1, <1>8, <1>9, <1>14, AwakeRegions
<1>16. /\ o \in DOMAIN e.frames /\ e.frames[o] = started /\ C \subseteq Now(e, o)
       /\ Now(first, o) \subseteq Now(e, o) /\ e.terminal = first.terminal
  BY <1>14, <1>15 DEF Spreads
<1>17. Served(o, e.frames[o], Now(e, o), Queued(e, o))
  <2>1. started.active \subseteq Now(e, o)
    BY <1>10, <1>14, <1>16
  <2> QED
    BY <1>10, <1>16, <2>1 DEF Served
<1>18. Awake(e, X \ {o})
  <2>1. \A k \in (X \cup {o}) \ (X \ {o}) : k = o
    OBVIOUS
  <2> QED
    BY <1>15, <1>17, <2>1, AwakeFewer
<1> QED
  BY <1>10, <1>14, <1>16, <1>18

\* A call or a loop waits for the region it opens.
LEMMA AwakeOpened ==
  ASSUME NEW d, NEW X, Awake(d, X), NEW o \in DOMAIN d.frames, ~IsRegion(o),
         NodeAt(o).kind \in {"call", "repeat"}, NEW c, NEW region,
         NEW e, e = AddRegion(d, Append(o, c), region), e.valid
  PROVE  Awake(e, X \ {o}) /\ e.terminal = d.terminal
<1> DEFINE regions == [k \in {Append(o, c)} |-> region]
           keys == <<Append(o, c)>>
           C == {c}
<1>1. e = AddRegions(d, regions, keys) /\ DOMAIN regions = ChildrenOf(o, C)
  BY DEF AddRegion, ChildrenOf
<1>2. IsKey(keys) /\ \A k \in DOMAIN regions : Contains(keys, k)
  <2>1. Len(keys) = 1 /\ keys[1] = Append(o, c) /\ DOMAIN keys = {1}
    OBVIOUS
  <2> QED
    BY <2>1 DEF IsKey, Contains
<1> HIDE DEF regions, keys
<1>3. c \in C
  OBVIOUS
<1> HIDE DEF C
<1>4. Spreads(d, X, o, C, e) /\ Awake(e, X)
  BY <1>1, <1>2, AwakeRegions
<1>5. c \in Now(e, o) /\ e.terminal = d.terminal
  BY <1>3, <1>4 DEF Spreads
<1>6. Served(o, e.frames[o], Now(e, o), Queued(e, o))
  BY <1>5 DEF Served
<1>7. Awake(e, X \ {o})
  <2>1. \A k \in X \ (X \ {o}) : k = o
    OBVIOUS
  <2> QED
    BY <1>4, <1>6, <2>1, AwakeFewer
<1> QED
  BY <1>5, <1>7

\* The draft a drain step starts from serves all frames but the one it took.
Serving(H) ==
  /\ Whole(H)
  /\ Awake(Taken, {Head(queue)}) /\ Awake(Entered, {Head(queue)})
  /\ terminal = None /\ ~runCancellation.requested

\* A step that commits a draft that serves all frames, or has an outcome and
\* nothing pending.
Serves == \E e : /\ Commit(e) /\ e.pending = pending /\ Wakes(e)
                 /\ e.terminal # None => pending = {}

\* It starts from there when all frames are served.
LEMMA ServingTaken ==
  ASSUME NEW H, Whole(H), Awake(Draft, {}), Ready, ~runCancellation.requested
  PROVE  Serving(H)
<1>1. /\ Taken.frames = frames /\ Taken.pending = pending /\ IsDraft(Taken)
      /\ Draft.frames = frames /\ Draft.pending = pending
  BY DraftIsDraft, TakenIsDraft
<1>2. /\ Taken.queue = Tail(queue) /\ Draft.queue = queue
      /\ Taken.cleanups = cleanups /\ Draft.cleanups = cleanups
  BY DEF Taken, Draft
<1>3. IsKey(Tail(queue)) /\ \A x : Contains(queue, x) => x = Head(queue) \/ Contains(Tail(queue), x)
  BY <1>2, QueueTaken DEF Ready, Awake, Calm
<1>4. Calm(Taken)
  BY <1>1, <1>2, <1>3 DEF Awake, Calm
<1>5. \A k : Now(Taken, k) = Now(Draft, k)
  BY <1>1 DEF Now
<1>6. \A k : Queued(Draft, k) => k = Head(queue) \/ Queued(Taken, k)
  BY <1>2, <1>3 DEF Queued
<1> DEFINE Y == {Head(queue)}
           X == {}
<1>7. \A k \in DOMAIN Taken.frames \ Y :
        /\ k \in DOMAIN Draft.frames \ X
        /\ Taken.frames[k] = Draft.frames[k]
        /\ Now(Draft, k) \subseteq Now(Taken, k)
        /\ Queued(Draft, k) => Queued(Taken, k)
  BY <1>1, <1>5, <1>6
<1>8. Awake(Draft, X)
  OBVIOUS
<1> DEFINE d == Draft
           e == Taken
<1> HIDE DEF X, Y
<1>9. Awake(Taken, Y)
  <2>1. Awake(d, X) /\ Calm(e)
    BY <1>4, <1>8
  <2>2. \A k \in DOMAIN e.frames \ Y :
        /\ k \in DOMAIN d.frames \ X
        /\ e.frames[k] = d.frames[k]
        /\ Now(d, k) \subseteq Now(e, k)
        /\ Queued(d, k) => Queued(e, k)
    BY <1>7
  <2> HIDE DEF d, e
  <2>3. Awake(e, Y)
    BY <2>1, <2>2, AwakeKept
  <2> QED
    BY <2>3 DEF e
<1>10. Awake(Entered, Y)
  <2> DEFINE f == Charge(Taken, 1)
  <2>1. Alike(Taken, Y, f)
    BY <1>9, AwakeCharge
  <2>2. f = Entered
    BY DEF Entered
  <2> HIDE DEF f
  <2> QED
    BY <2>1, <2>2 DEF Alike
<1> QED
  BY <1>9, <1>10 DEF Serving, Ready, Y

\* Most drain steps have no outcome yet.
LEMMA KeptServes ==
  ASSUME NEW H, Serving(H), NEW e, Keeps(Entered, e) \/ Keeps(Taken, e), Commit(e),
         e.valid => Awake(e, {})
  PROVE  Serves
<1>1. e.pending = pending /\ e.terminal = None
  BY EnteredIsDraft, TakenIsDraft DEF Keeps, Derived, Serving
<1> QED
  BY <1>1 DEF Serves, Wakes

\* A stale entry or a region that waits is not needed in the queue.
LEMMA SkipServes ==
  ASSUME NEW H, Serving(H), Awake(Draft, {}), SkipFrame
  PROVE  Serves
<1> DEFINE k == Head(queue)
           e == [Taken EXCEPT !.valid = k \in DOMAIN frames]
<1>1. /\ k \notin DOMAIN frames \/ Idle(k)
      /\ Commit(e)
  BY DEF SkipFrame, Serving
<1>2. /\ IsDraft(Taken) /\ Taken.frames = frames /\ Taken.pending = pending
      /\ Draft.frames = frames /\ Draft.pending = pending /\ Taken.valid = TRUE
      /\ Taken.terminal = None
  BY TakenIsDraft, DraftIsDraft DEF Serving
<1>3. /\ IsDraft(e) /\ e.frames = Taken.frames /\ e.pending = Taken.pending
      /\ e.queue = Taken.queue /\ e.cleanups = Taken.cleanups
      /\ e.valid = (k \in DOMAIN frames) /\ e.terminal = None
  BY <1>2 DEF IsDraft, DraftFields
<1> HIDE DEF e
<1>4. ASSUME e.valid
      PROVE  Awake(e, {})
  <2>1. k \in DOMAIN frames /\ IsRegion(k) /\ frames[k].ready = {}
    BY <1>1, <1>3, <1>4 DEF Idle
  <2>2. Served(k, Draft.frames[k], Now(Draft, k), Queued(Draft, k))
    BY <1>2, <2>1 DEF Awake
  <2>3. Now(Taken, k) = Now(Draft, k)
    BY <1>2 DEF Now
  <2>4. Served(k, Taken.frames[k], Now(Taken, k), Queued(Taken, k))
    BY <1>2, <2>1, <2>2, <2>3 DEF Served
  <2>5. Awake(Taken, {k})
    BY DEF Serving
  <2> DEFINE X == {k}
             Y == {}
  <2>6. \A j \in X \ Y : j \in DOMAIN Taken.frames =>
          Served(j, Taken.frames[j], Now(Taken, j), Queued(Taken, j))
    BY <2>4
  <2>7. Awake(Taken, X)
    BY <2>5
  <2> HIDE DEF X, Y
  <2>8. Awake(Taken, Y)
    BY <2>6, <2>7, AwakeFewer
  <2>9. Awake(e, Y)
    BY <1>3, <2>8, AwakeSame
  <2> QED
    BY <2>9 DEF Y
<1>5. e.pending = pending /\ Wakes(e) /\ e.terminal = None
  BY <1>2, <1>3, <1>4 DEF Wakes
<1> QED
  BY <1>1, <1>5 DEF Serves

\* A node that fails at once serves its region.
LEMMA RejectServes ==
  ASSUME NEW H, Serving(H), NEW n \in DOMAIN Nodes, RejectInput(n)
  PROVE  Serves
<1> DEFINE r == Head(queue)
           e == routeImmediateResult(Entered, r, n, "failed", Nodes[n].failed)
           X == {r}
<1>1. (\E kind : AtNode(n, kind)) /\ Commit(e)
  BY DEF RejectInput
<1>2. r \in DOMAIN Entered.frames /\ IsRegion(r)
  BY <1>1, NodeTaken DEF Serving
<1>3. Awake(Entered, X) /\ IsDraft(Entered)
  BY EnteredIsDraft DEF Serving
<1>4. Keeps(Entered, e)
  BY <1>3, KeepsResult
<1> HIDE DEF X
<1>5. e.valid => Awake(e, X \ {r})
  BY <1>2, <1>3, AwakeImmediate
<1> HIDE DEF e
<1>6. e.valid => Awake(e, {})
  <2>1. X \ {r} = {}
    BY DEF X
  <2> QED
    BY <1>5, <2>1
<1> QED
  BY <1>1, <1>4, <1>6, KeptServes

\* Where a region has a ready node nothing is pending below it.
LEMMA ReadyAlone ==
  ASSUME NEW d, NEW H, Good(d, H), NEW r \in DOMAIN d.frames, IsRegion(r), d.frames[r].ready # {}
  PROVE  Now(d, r) = {}
BY DEF Good, Tree, Fits, RegionFits, Now

\* Nothing is pending where nothing lives below the root.
LEMMA RootAlone ==
  ASSUME NEW F, NEW P, NEW H, Tree(F, P, H), Root \in DOMAIN F,
         Steps(Root, DOMAIN F \cup P) = {}
  PROVE  P = {}
<1> SUFFICES ASSUME NEW op \in P PROVE FALSE
  OBVIOUS
<1>1. IsKey(op) /\ Len(op) >= 2 /\ IsKey(Root) /\ Len(Root) = 1
  BY DEF Tree, Keyed, Root, IsKey
<1>2. SubSeq(op, 1, 1) \in DOMAIN F /\ Len(op) \in Nat
  BY <1>1 DEF Tree, Closed, IsKey
<1>3. Len(SubSeq(op, 1, 1)) = 1 /\ IsPrefix(SubSeq(op, 1, 1), op)
  BY <1>1, <1>2, PrefixOfKey
<1>4. SubSeq(op, 1, 1) = Root
  BY <1>2, <1>3 DEF Tree, Keyed
<1> DEFINE k == SubSeq(op, 1, 1)
<1>5. Below(Root, op)
  <2>1. IsPrefix(k, op) /\ k = Root /\ Len(k) = 1
    BY <1>3, <1>4
  <2>2. IsKey(k)
    BY <1>1, <2>1
  <2>3. Len(k) < Len(op)
    BY <1>1, <1>2, <2>1
  <2> HIDE DEF k
  <2> QED
    BY <1>1, <2>1, <2>2, <2>3, BelowIsShorter
<1> QED
  BY <1>5 DEF Steps

\* Only the failure of the root region is an outcome, when nothing is pending.
LEMMA FailedEnds ==
  ASSUME NEW d, NEW H, Good(d, H), d.terminal = None, NEW region \in DOMAIN d.frames,
         Now(d, region) = {}, NEW e, e = completeFailedRegion(d, region)
  PROVE  e.pending = d.pending /\ (e.terminal # None => d.pending = {})
<1>1. IsDraft(d)
  BY DEF Good
<1>2. e.pending = d.pending
  BY <1>1, FailedRegionSelects DEF Derived
<1>3. CASE region = Root
  <2> DEFINE F == d.frames
             P == d.pending
  <2>1. Tree(F, P, H) /\ Root \in DOMAIN F /\ Steps(Root, DOMAIN F \cup P) = {}
    BY <1>3 DEF Good, Now
  <2> HIDE DEF F, P
  <2>2. P = {}
    BY <2>1, RootAlone
  <2> QED
    BY <1>2, <2>2 DEF P
<1>4. CASE region # Root
  <2> DEFINE o == OwnerOf(region)
  <2>1. \/ e = finishOwner(d, o, "failed", NodeAt(o).failed)
        \/ e = completeParallelBranch(d, region, "failed", NoCleanup)
        \/ e = completeMapItem(d, region, "failed", NoCleanup)
    BY <1>4, Zenon DEF completeFailedRegion
  <2> HIDE DEF o
  <2>2. Keeps(d, e)
    BY <1>1, <2>1, KeepsOwner, KeepsBranch, KeepsItem
  <2> QED
    BY <1>2, <2>2 DEF Keeps
<1> QED
  BY <1>3, <1>4

\* A region that fails is an outcome or serves its owner.
LEMMA FailedServes ==
  ASSUME NEW H, Serving(H), NEW n \in DOMAIN Nodes, MissChoice(n) \/ EndFails(n)
  PROVE  Serves
<1> DEFINE r == Head(queue)
           e == completeFailedRegion(Entered, r)
           X == {r}
<1>1. Commit(e) /\ \E kind : AtNode(n, kind)
  BY DEF MissChoice, EndFails
<1>2. /\ r \in DOMAIN Entered.frames /\ IsRegion(r) /\ Good(Entered, H) /\ n \in frames[r].ready
      /\ Entered.frames = frames /\ Entered.terminal = None /\ Entered.pending = pending
      /\ Awake(Entered, X)
  BY <1>1, NodeTaken, EnteredIsDraft DEF Serving, Whole
<1>3. Now(Entered, r) = {}
  <2>1. Entered.frames[r].ready # {}
    BY <1>2
  <2> QED
    BY <1>2, <2>1, ReadyAlone
<1>4. e.pending = pending /\ (e.terminal # None => pending = {})
  BY <1>2, <1>3, FailedEnds
<1>5. X \in SUBSET {r}
  OBVIOUS
<1> HIDE DEF X
<1>6. Wakes(e)
  BY <1>2, <1>5, AwakeFailedRegion
<1> HIDE DEF e
<1> QED
  BY <1>1, <1>4, <1>6 DEF Serves

\* The end of the root region is an outcome.
LEMMA EndRootServes ==
  ASSUME NEW H, Serving(H), NEW n \in DOMAIN Nodes, EndRoot(n)
  PROVE  Serves
<1> DEFINE e == [Entered EXCEPT !.terminal = "succeeded"]
           r == Head(queue)
<1>1. Commit(e) /\ AtNode(n, "end") /\ r = Root
  BY DEF EndRoot
<1>2. /\ r \in DOMAIN Entered.frames /\ IsRegion(r) /\ Good(Entered, H) /\ n \in frames[r].ready
      /\ Entered.frames = frames /\ Entered.pending = pending /\ IsDraft(Entered)
  BY <1>1, NodeTaken, EnteredIsDraft DEF Serving, Whole
<1>3. Now(Entered, r) = {}
  <2>1. Entered.frames[r].ready # {}
    BY <1>2
  <2> QED
    BY <1>2, <2>1, ReadyAlone
<1>4. pending = {}
  <2> DEFINE F == Entered.frames
             P == Entered.pending
  <2>1. Tree(F, P, H) /\ Root \in DOMAIN F /\ Steps(Root, DOMAIN F \cup P) = {}
    BY <1>1, <1>2, <1>3 DEF Good, Now
  <2> HIDE DEF F, P
  <2>2. P = {}
    BY <2>1, RootAlone
  <2> QED
    BY <1>2, <2>2 DEF P
<1>5. e.terminal = "succeeded" /\ e.pending = pending
  BY <1>2 DEF IsDraft, DraftFields
<1> HIDE DEF e
<1>6. Wakes(e)
  BY <1>5 DEF Wakes, None
<1> QED
  BY <1>1, <1>4, <1>5, <1>6 DEF Serves

\* A choice serves its region.
LEMMA ChoiceServes ==
  ASSUME NEW H, Serving(H), NEW n \in DOMAIN Nodes, SelectChoice(n)
  PROVE  Serves
<1> DEFINE r == Head(queue)
           d == consumeRegionNode(Entered, r, n)
           X == {r}
           rest == [Entered.frames[r] EXCEPT !.ready = @ \ {n}]
           frame(target) == [d.frames[r] EXCEPT !.ready = @ \cup {target}]
<1>1. /\ AtNode(n, "choice")
      /\ \E target \in Nodes[n].targets : Commit(Enqueue(SetFrame(d, r, frame(target)), r))
  BY Zenon DEF SelectChoice
<1>2. PICK target \in Nodes[n].targets : Commit(Enqueue(SetFrame(d, r, frame(target)), r))
  BY <1>1, Zenon
<1>3. /\ r \in DOMAIN Entered.frames /\ IsRegion(r) /\ Opens(d, H, r, n)
      /\ Awake(Entered, X) /\ IsDraft(Entered)
  BY <1>1, NodeTaken, EnteredIsDraft DEF Serving
<1>4. Keeps(Entered, d)
  BY <1>3, KeepsResult
<1>5. d = SetFrame(Entered, r, rest)
  BY DEF consumeRegionNode
<1>6. Alters(Entered, X, r, rest, d)
  BY <1>3, <1>5, AwakeSet
<1>7. Awake(d, X \cup {r}) /\ DOMAIN d.frames[r] = {"ready", "results"} /\ r \in DOMAIN d.frames
      /\ IsDraft(d)
  BY <1>3, <1>4, <1>6 DEF Alters, Opens, Keeps, Derived
<1> HIDE DEF d
<1> DEFINE next == frame(target)
           e == SetFrame(d, r, next)
           Y == X \cup {r}
<1>8. next.ready # {}
  BY <1>7
<1> HIDE DEF next, frame, X
<1>9. Alters(d, Y, r, next, e)
  BY <1>7, AwakeSet
<1>10. Keeps(d, e)
  BY <1>7, KeepsTree
<1>11. /\ Awake(e, Y \cup {r}) /\ r \in DOMAIN e.frames /\ e.frames[r].ready # {}
       /\ IsDraft(e)
  BY <1>7, <1>8, <1>9, <1>10 DEF Alters, Keeps, Derived
<1>12. Commit(Enqueue(e, r))
  BY <1>2 DEF next
<1> HIDE DEF e
<1> DEFINE Z == Y \cup {r}
<1>13. Z \ {r} = {}
  BY DEF X
<1> HIDE DEF Z
<1>14. Awake(Enqueue(e, r), Z \ {r})
  BY <1>3, <1>11, AwakeRegion DEF Z
<1>15. Keeps(e, Enqueue(e, r))
  BY <1>11, KeepsTree
<1>16. Keeps(Entered, Enqueue(e, r))
  BY <1>4, <1>10, <1>15, KeepsTransitive
<1> QED
  BY <1>12, <1>13, <1>14, <1>16, KeptServes

\* An owner that ends serves its region.
LEMMA FinishServes ==
  ASSUME NEW H, Serving(H), NEW n \in DOMAIN Nodes, NEW kind, EndOf(n, kind),
         NEW o, o = OwnerOf(Head(queue)), NEW st, NEW target,
         Commit(finishOwner(Entered, o, st, target))
  PROVE  Serves
<1> DEFINE r == Head(queue)
           X == {r}
           e == finishOwner(Entered, o, st, target)
<1>1. ~IsRegion(o) /\ r = Append(o, Last(r)) /\ IsKey(o)
  BY EndsOwned DEF Serving
<1>2. IsPrefix(o, r)
  <2> DEFINE c == Last(r)
  <2>1. r = Append(o, c)
    BY <1>1
  <2> HIDE DEF c, r
  <2>2. Below(o, r)
    BY <1>1, <2>1, BelowChild, PrefixItself
  <2> QED
    BY <2>2 DEF Below, IsStrictPrefix
<1>3. Awake(Entered, X) /\ \A k \in X : IsPrefix(o, k)
  BY <1>2 DEF Serving
<1>4. Keeps(Entered, e)
  BY EnteredIsDraft, KeepsOwner
<1> HIDE DEF X
<1>5. e.valid => Awake(e, {})
  BY <1>1, <1>3, AwakeOwner
<1>6. Commit(e)
  OBVIOUS
<1> HIDE DEF e
<1> QED
  BY <1>4, <1>5, <1>6, KeptServes

\* The end of a called pipeline serves its caller.
LEMMA EndCallServes ==
  ASSUME NEW H, Serving(H), NEW n \in DOMAIN Nodes, EndCall(n)
  PROVE  Serves
<1> DEFINE o == OwnerOf(Head(queue))
<1>1. /\ EndOf(n, "call")
      /\ \E st, target : Commit(finishOwner(Entered, o, st, target))
  BY Zenon DEF EndCall
<1> QED
  BY <1>1, FinishServes

\* The end of a loop by a failure or a cancellation serves its region.
LEMMA EndRepeatServes ==
  ASSUME NEW H, Serving(H), NEW n \in DOMAIN Nodes, EndRepeat(n)
  PROVE  Serves
<1> DEFINE o == OwnerOf(Head(queue))
<1>1. /\ EndOf(n, "repeat")
      /\ \E st, target : Commit(finishOwner(Entered, o, st, target))
  BY Zenon DEF EndRepeat
<1> QED
  BY <1>1, FinishServes

\* No cancellation is none of the whole run.
LEMMA NoneLocal == Local(NoCleanup)
BY DEF Local, NoCleanup

\* A branch ends with a class of its parallel's policy.
LEMMA ClassesDeclared ==
  ASSUME NEW n \in DOMAIN Nodes, Nodes[n].kind = "parallel", NEW b \in ToSet(Nodes[n].order),
         NEW outcome, NEW class \in branchClasses(Nodes[n], b, outcome)
  PROVE  class \in Classes(Nodes[n])
<1>1. "failed" \in Classes(Nodes[n])
  BY DEF Classes, GenericClass, VoteClass
<1>2. \A x \in DOMAIN Nodes[n].branch[b].exits :
        Nodes[n].branch[b].exits[x] \subseteq Classes(Nodes[n])
  BY OwnersAssumption
<1> QED
  BY <1>1, <1>2 DEF branchClasses

\* The end of a branch serves its parallel.
LEMMA EndBranchServes ==
  ASSUME NEW H, Serving(H), NEW n \in DOMAIN Nodes, EndBranch(n)
  PROVE  Serves
<1> DEFINE r == Head(queue)
           o == OwnerOf(r)
           X == {r}
<1>1. /\ EndOf(n, "parallel")
      /\ \E class \in branchClasses(NodeAt(o), Last(r), Nodes[n].outcome) :
           Commit(completeParallelBranch(Entered, r, class, NoCleanup))
  BY Zenon DEF EndBranch
<1>2. PICK class \in branchClasses(NodeAt(o), Last(r), Nodes[n].outcome) :
           Commit(completeParallelBranch(Entered, r, class, NoCleanup))
  BY <1>1
<1>3. /\ Good(Entered, H) /\ r \in DOMAIN Entered.frames /\ IsRegion(r) /\ r # Root
      /\ NodeAt(o).kind = "parallel" /\ Last(o) \in DOMAIN Nodes
  BY <1>1, EndsOwned DEF Serving
<1>4. /\ Last(r) \in Steps(o, DOMAIN Entered.frames \cup Entered.pending)
      /\ o \in DOMAIN Entered.frames /\ ~IsRegion(o)
  BY <1>3, OwnedRegion
<1>5. Last(r) \in ToSet(NodeAt(o).order)
  <2>1. ParallelFits(NodeAt(o), Entered.frames[o], Steps(o, DOMAIN Entered.frames \cup Entered.pending))
    BY <1>3, <1>4 DEF Good, Tree, Fits
  <2> QED
    BY <1>4, <2>1 DEF ParallelFits
<1>6. class \in Classes(NodeAt(o))
  <2> DEFINE m == Last(o)
             b == Last(r)
  <2>1. NodeAt(o) = Nodes[m] /\ m \in DOMAIN Nodes
    BY <1>3 DEF NodeAt
  <2>2. class \in branchClasses(Nodes[m], b, Nodes[n].outcome) /\ b \in ToSet(Nodes[m].order)
    BY <1>2, <1>5, <2>1
  <2> HIDE DEF m, b, o
  <2> QED
    BY <1>3, <2>1, <2>2, ClassesDeclared
<1>7. Awake(Entered, X) /\ IsDraft(Entered) /\ X \in SUBSET {r}
  BY EnteredIsDraft DEF Serving
<1> DEFINE e == completeParallelBranch(Entered, r, class, NoCleanup)
<1>8. Keeps(Entered, e)
  BY <1>7, KeepsBranch
<1> HIDE DEF X, r
<1>9. e.valid => Awake(e, {})
  BY <1>3, <1>6, <1>7, NoneLocal, AwakeBranch
<1>10. Commit(e)
  BY <1>2
<1> HIDE DEF e
<1> QED
  BY <1>8, <1>9, <1>10, KeptServes

\* The end of a map item serves its map.
LEMMA EndItemServes ==
  ASSUME NEW H, Serving(H), NEW n \in DOMAIN Nodes, EndItem(n)
  PROVE  Serves
<1> DEFINE r == Head(queue)
           X == {r}
<1>1. /\ EndOf(n, "map")
      /\ \E class : Commit(completeMapItem(Entered, r, class, NoCleanup))
  BY Zenon DEF EndItem
<1>2. PICK class : Commit(completeMapItem(Entered, r, class, NoCleanup))
  BY <1>1
<1>3. /\ Good(Entered, H) /\ r \in DOMAIN Entered.frames /\ IsRegion(r) /\ r # Root
      /\ NodeAt(OwnerOf(r)).kind = "map"
  BY <1>1, EndsOwned DEF Serving
<1>4. Awake(Entered, X) /\ IsDraft(Entered) /\ X \in SUBSET {r}
  BY EnteredIsDraft DEF Serving
<1> DEFINE e == completeMapItem(Entered, r, class, NoCleanup)
<1>5. Keeps(Entered, e)
  BY <1>4, KeepsItem
<1> HIDE DEF X, r
<1>6. e.valid => Awake(e, {})
  BY <1>3, <1>4, NoneLocal, AwakeItem
<1>7. Commit(e)
  BY <1>2
<1> HIDE DEF e
<1> QED
  BY <1>5, <1>6, <1>7, KeptServes

\* The next body of a loop is waited for.
LEMMA AwakeIteration ==
  ASSUME NEW d, NEW o \in DOMAIN d.frames, ~IsRegion(o), IsKey(o), NodeAt(o).kind = "repeat",
         NEW body, NEW last, body = Append(o, last), Front(body) = o, ~HasPending(d, body),
         NEW X, \A k \in X : k = body, Awake(d, X),
         NEW e, e = startNextBody(d, body), e.valid
  PROVE  Awake(e, {})
<1> DEFINE pruned == PruneTrees(d, {body})
           next == [d.frames[o] EXCEPT !.iteration = @ + 1]
           moved == SetFrame(pruned, o, next)
           c == next.iteration
<1>1. e = AddRegion(moved, Append(o, c), NodeAt(o).region)
  BY DEF startNextBody, OwnerOf
<1>2. IsKey(body) /\ Len(body) >= 2 /\ ~IsPrefix(body, o)
  <2>1. IsKey(body) /\ Len(body) = Len(o) + 1 /\ Len(o) \in Nat
    BY KeyAppend DEF IsKey
  <2>2. Len(o) >= 1
    BY DEF Awake, Calm
  <2>3. ~IsPrefix(body, o)
    <3>1. IsPrefix(o, o) /\ ~Below(o, o)
      BY PrefixItself
    <3>2. IsPrefix(Append(o, last), o) => Below(o, o)
      BY ChildAbove
    <3> QED
      BY <3>1, <3>2
  <2> QED
    BY <2>1, <2>2, <2>3
<1>3. /\ Awake(pruned, X \cup {o})
      /\ o \in DOMAIN pruned.frames
      /\ \A k \in X : k \notin DOMAIN pruned.frames
  <2> DEFINE roots == {body}
             p == PruneTrees(d, roots)
  <2>1. \A r \in roots : IsKey(r) /\ Len(r) >= 2 /\ ~HasPending(d, r)
    BY <1>2
  <2>2. {Front(r) : r \in roots} = {o}
    OBVIOUS
  <2>3. IsDraft(d)
    BY DEF Awake, Calm
  <2>4. \A r \in roots : ~IsPrefix(r, o)
    BY <1>2
  <2>5. \A k \in X : IsPrefix(body, k)
    BY <1>2, PrefixItself
  <2>6. body \in roots
    OBVIOUS
  <2> HIDE DEF roots
  <2>7. Awake(p, X \cup {Front(r) : r \in roots})
    BY <2>1, AwakePrune
  <2>8. /\ \A k \in DOMAIN p.frames : \A r \in roots : ~IsPrefix(r, k)
        /\ \A k \in DOMAIN d.frames : k \in DOMAIN p.frames \/ \E r \in roots : IsPrefix(r, k)
    BY <2>3, PruneShape
  <2> HIDE DEF p
  <2> QED
    BY <2>2, <2>4, <2>5, <2>6, <2>7, <2>8 DEF p, roots
<1> HIDE DEF pruned, next, c
<1> DEFINE Y == {o}
<1>4. Awake(pruned, Y)
  <2> DEFINE Z == X \cup {o}
  <2>1. \A k \in Z \ Y : k \in DOMAIN pruned.frames =>
          Served(k, pruned.frames[k], Now(pruned, k), Queued(pruned, k))
    BY <1>3
  <2>2. Awake(pruned, Z)
    BY <1>3
  <2> HIDE DEF Y, Z
  <2> QED
    BY <2>1, <2>2, AwakeFewer
<1>5. Alters(pruned, Y, o, next, moved)
  BY <1>3, <1>4, AwakeSet
<1> HIDE DEF moved
<1>6. Awake(moved, Y \cup {o}) /\ o \in DOMAIN moved.frames
  BY <1>3, <1>5 DEF Alters
<1> DEFINE W == Y \cup {o}
<1>7. W \ {o} = {}
  OBVIOUS
<1> HIDE DEF W, Y
<1>8. Awake(e, W \ {o})
  BY <1>1, <1>6, AwakeOpened DEF W
<1> QED
  BY <1>7, <1>8

\* The end of an iteration serves its loop.
LEMMA EndIterationServes ==
  ASSUME NEW H, Serving(H), NEW n \in DOMAIN Nodes, EndIteration(n)
  PROVE  Serves
<1> DEFINE body == Head(queue)
           o == OwnerOf(body)
           e == startNextBody(Entered, body)
<1>1. /\ EndOf(n, "repeat")
      /\ \/ \E st, target : Commit(finishOwner(Entered, o, st, target))
         \/ Commit(e)
  BY Zenon DEF EndIteration
<1>2. CASE \E st, target : Commit(finishOwner(Entered, o, st, target))
  BY <1>1, <1>2, FinishServes
<1>3. CASE Commit(e)
  <2>1. /\ Good(Entered, H) /\ o \in DOMAIN Entered.frames /\ ~IsRegion(o)
        /\ NodeAt(o).kind = "repeat" /\ body = Append(o, Last(body)) /\ IsKey(o)
        /\ body \in DOMAIN Entered.frames /\ IsRegion(body)
    BY <1>1, EndsOwned DEF Serving
  <2>2. n \in Entered.frames[body].ready
    BY <1>1, NodeTaken, EnteredIsDraft DEF EndOf, Serving
  <2>3. ~HasPending(Entered, body)
    BY <2>1, <2>2, NothingPendingHere
  <2>4. Front(body) = o
    BY <2>1, KeyAppend
  <2> DEFINE last == Last(body)
             X == {body}
  <2>5. body = Append(o, last)
    BY <2>1
  <2>6. Awake(Entered, X) /\ \A k \in X : k = body
    BY DEF Serving
  <2> HIDE DEF X, last, o, body
  <2>7. e.valid => Awake(e, {})
    BY <2>1, <2>3, <2>4, <2>5, <2>6, AwakeIteration
  <2>8. Keeps(Entered, e)
    <3> DEFINE pruned == PruneTrees(Entered, {body})
               moved(f) == SetFrame(pruned, OwnerOf(body), f)
    <3>1. \E f, k, region : e = AddRegion(moved(f), k, region)
      BY DEF startNextBody
    <3>2. Keeps(Entered, pruned) /\ IsDraft(pruned)
      BY EnteredIsDraft, KeepsTree DEF Keeps, Derived
    <3> HIDE DEF pruned
    <3>3. \A f : Keeps(pruned, moved(f)) /\ IsDraft(moved(f))
      BY <3>2, KeepsTree DEF Keeps, Derived
    <3> HIDE DEF moved, e
    <3>4. PICK f, k, region : e = AddRegion(moved(f), k, region)
      BY <3>1
    <3>5. Keeps(moved(f), e)
      BY <3>3, <3>4, KeepsAddRegion
    <3> QED
      BY <3>2, <3>3, <3>5, KeepsTransitive
  <2> HIDE DEF e
  <2> QED
    BY <1>3, <2>7, <2>8, KeptServes
<1> QED
  BY <1>1, <1>2, <1>3

\* The region a node is taken from is left alone until the node has opened
\* something.
LEMMA TakenServes ==
  ASSUME NEW H, Serving(H), NEW n \in DOMAIN Nodes, NEW kind, AtNode(n, kind),
         NEW r, r = Head(queue), NEW d, d = consumeRegionNode(Entered, r, n)
  PROVE  /\ Awake(d, {r}) /\ r \in DOMAIN d.frames /\ IsRegion(r)
         /\ Opens(d, H, r, n) /\ Keeps(Entered, d) /\ Good(d, H) /\ IsDraft(d)
<1> DEFINE X == {r}
           rest == [Entered.frames[r] EXCEPT !.ready = @ \ {n}]
<1>1. /\ r \in DOMAIN Entered.frames /\ IsRegion(r) /\ Opens(d, H, r, n)
      /\ Awake(Entered, X) /\ IsDraft(Entered)
  BY NodeTaken, EnteredIsDraft DEF Serving
<1>2. Keeps(Entered, d)
  BY <1>1, KeepsResult
<1>3. d = SetFrame(Entered, r, rest)
  BY DEF consumeRegionNode
<1> HIDE DEF X, rest
<1>4. Alters(Entered, X, r, rest, d)
  BY <1>1, <1>3, AwakeSet
<1>5. Awake(d, X \cup {r})
  BY <1>4 DEF Alters
<1>6. X \cup {r} = {r}
  BY DEF X
<1> QED
  BY <1>1, <1>2, <1>5, <1>6 DEF Opens, Good

\* Draft own has the frame of owner o, which alone is not served yet.
Unserved(own, o, frame) ==
  Awake(own, {o}) /\ o \in DOMAIN own.frames /\ own.frames[o] = frame

\* The owner a node opens is not served yet.
LEMMA AwakeOwned ==
  ASSUME NEW d, NEW r \in DOMAIN d.frames, IsRegion(r), Awake(d, {r}), NEW n,
         NEW o, o = Append(r, n), NEW frame, NEW own, own = AddOwner(d, o, frame), own.valid
  PROVE  Unserved(own, o, frame)
<1> DEFINE X == {r}
<1>1. X \ {r} = {} /\ Awake(d, X)
  OBVIOUS
<1> HIDE DEF X
<1>2. Enters(d, X, r, n, o, frame, own)
  BY <1>1, AwakeEntered
<1>3. (X \ {r}) \cup {o} = {o}
  BY <1>1
<1> QED
  BY <1>2, <1>3 DEF Enters, Unserved

\* A call or a loop that opens serves its region and itself.
LEMMA AwakeCall ==
  ASSUME NEW own, NEW o \in DOMAIN own.frames, ~IsRegion(o), Awake(own, {o}),
         NodeAt(o).kind \in {"call", "repeat"}, NEW c, NEW region,
         NEW e, e = AddRegion(own, Append(o, c), region), e.valid
  PROVE  Awake(e, {})
<1> DEFINE X == {o}
<1>1. X \ {o} = {} /\ Awake(own, X)
  OBVIOUS
<1> HIDE DEF X
<1>2. Awake(e, X \ {o})
  BY <1>1, AwakeOpened
<1> QED
  BY <1>1, <1>2

\* Starting a call or a loop serves.
LEMMA CallServes ==
  ASSUME NEW H, Serving(H), NEW n \in DOMAIN Nodes, StartCall(n) \/ StartRepeat(n)
  PROVE  Serves
<1> DEFINE r == Head(queue)
           o == Append(r, n)
           d == consumeRegionNode(Entered, r, n)
           opened(frame, c) == AddRegion(AddOwner(d, o, frame), Append(o, c), Nodes[n].region)
<1>1. \E kind \in {"call", "repeat"} :
        /\ AtNode(n, kind) /\ Nodes[n].kind = kind
        /\ \E frame, c : Commit(opened(frame, c))
  <2>1. CASE StartCall(n)
    <3>1. AtNode(n, "call") /\ Nodes[n].kind = "call" /\ Commit(opened([kind |-> "call"], "module"))
      BY <2>1, Zenon DEF StartCall, AtNode
    <3> HIDE DEF opened
    <3> QED
      BY <3>1
  <2>2. CASE StartRepeat(n)
    <3>1. AtNode(n, "repeat") /\ Nodes[n].kind = "repeat"
          /\ Commit(opened([kind |-> "repeat", iteration |-> 0], 0))
      BY <2>2, Zenon DEF StartRepeat, AtNode
    <3> HIDE DEF opened
    <3> QED
      BY <3>1
  <2> QED
    BY <2>1, <2>2
<1>2. PICK kind \in {"call", "repeat"} :
        /\ AtNode(n, kind) /\ Nodes[n].kind = kind
        /\ \E frame, c : Commit(opened(frame, c))
  BY <1>1
<1>3. PICK frame, c : Commit(opened(frame, c))
  BY <1>2
<1>4. /\ Awake(d, {r}) /\ r \in DOMAIN d.frames /\ IsRegion(r)
      /\ Opens(d, H, r, n) /\ Keeps(Entered, d) /\ IsDraft(d)
  BY <1>2, TakenServes
<1>5. ~IsRegion(o) /\ NodeAt(o).kind \in {"call", "repeat"}
  BY <1>2, <1>4, OwnerKey
<1> HIDE DEF d, r
<1> DEFINE own == AddOwner(d, o, frame)
           e == AddRegion(own, Append(o, c), Nodes[n].region)
<1>6. Keeps(d, own) /\ Keeps(d, e)
  BY <1>4, KeepsAddOwner
<1>7. Keeps(Entered, e)
  BY <1>4, <1>6, KeepsTransitive
<1>9. ASSUME e.valid
      PROVE  Awake(e, {})
  <2>1. Awake(own, {o}) /\ o \in DOMAIN own.frames
    <3>1. IsDraft(own)
      BY <1>6 DEF Keeps, Derived
    <3> HIDE DEF own
    <3>2. own.valid
      BY <1>9, <3>1, KeepsAddRegion DEF Keeps, Derived
    <3> QED
      BY <1>4, <3>2, AwakeOwned DEF own, Unserved
  <2> HIDE DEF own, o
  <2> QED
    BY <1>5, <1>9, <2>1, AwakeCall
<1>8. Commit(e)
  BY <1>3
<1> HIDE DEF e
<1> QED
  BY <1>7, <1>8, <1>9, KeptServes

\* Starting a map serves.
LEMMA MapServes ==
  ASSUME NEW H, Serving(H), NEW n \in DOMAIN Nodes, StartMap(n)
  PROVE  Serves
<1> DEFINE r == Head(queue)
           o == Append(r, n)
           d == consumeRegionNode(Entered, r, n)
           own(items) == [kind |-> "map", unstarted |-> items, active |-> {},
                          completed |-> <<>>, selected |-> None, failedItem |-> None,
                          status |-> "active"]
           empty(items) == [own(items) EXCEPT !.selected = "completed", !.status = "completed"]
<1>1. /\ AtNode(n, "map") /\ Nodes[n].kind = "map"
      /\ \E items \in Nodes[n].collections :
           \/ Commit(Enqueue(AddOwner(d, o, empty(items)), o))
           \/ items # <<>> /\ Commit(refill(AddOwner(d, o, own(items)), o))
  BY Zenon DEF StartMap, AtNode
<1>2. PICK items \in Nodes[n].collections :
           \/ Commit(Enqueue(AddOwner(d, o, empty(items)), o))
           \/ items # <<>> /\ Commit(refill(AddOwner(d, o, own(items)), o))
  BY <1>1, Zenon
<1>3. /\ Awake(d, {r}) /\ r \in DOMAIN d.frames /\ IsRegion(r)
      /\ Opens(d, H, r, n) /\ Keeps(Entered, d) /\ IsDraft(d)
  BY <1>1, TakenServes
<1> HIDE DEF d, r
<1>4. ~IsRegion(o) /\ Last(o) = n /\ NodeAt(o) = Nodes[n] /\ Last(o) \in DOMAIN Nodes
  BY <1>3, OwnerKey
<1> DEFINE started == own(items)
           done == empty(items)
<1>5. Fits(o, started, {}, {})
  <2>1. /\ ~IsRegion(o) /\ Last(o) \in DOMAIN Nodes /\ NodeAt(o).kind = "map"
        /\ items \in NodeAt(o).collections
    BY <1>1, <1>2, <1>4
  <2> HIDE DEF o
  <2> QED
    BY <2>1, UnstartedFits, Zenon
<1>6. /\ started.active = {} /\ started.unstarted = items /\ done.active = {}
      /\ \/ Commit(Enqueue(AddOwner(d, o, done), o))
         \/ items # <<>> /\ Commit(refill(AddOwner(d, o, started), o))
  BY <1>2
<1> HIDE DEF started, done, own, empty
<1>7. CASE Commit(Enqueue(AddOwner(d, o, done), o))
  <2> DEFINE f == AddOwner(d, o, done)
             e == Enqueue(f, o)
             X == {o}
  <2>1. Keeps(d, f) /\ Keeps(d, e) /\ IsDraft(f)
    BY <1>3, KeepsAddOwner DEF Keeps, Derived
  <2>2. Keeps(Entered, e)
    BY <1>3, <2>1, KeepsTransitive
  <2>3. ASSUME e.valid
        PROVE  Awake(e, {})
    <3>1. f.valid
      BY <2>1, <2>3, KeepsTree DEF Keeps, Derived
    <3>5. Unserved(f, o, done)
      BY <1>3, <3>1, AwakeOwned
    <3>2. Awake(f, {o}) /\ o \in DOMAIN f.frames /\ f.frames[o] = done
      BY <3>5 DEF Unserved
    <3>3. Awake(f, X) /\ f.frames[o].active \subseteq Now(f, o) /\ X \ {o} = {}
      BY <1>6, <3>2
    <3> HIDE DEF f, X, o
    <3>4. Awake(e, X \ {o})
      BY <1>1, <1>4, <3>2, <3>3, AwakeMap
    <3> QED
      BY <3>3, <3>4
  <2>4. Commit(e)
    BY <1>7
  <2> HIDE DEF e
  <2> QED
    BY <2>2, <2>3, <2>4, KeptServes
<1>8. CASE items # <<>> /\ Commit(refill(AddOwner(d, o, started), o))
  <2> DEFINE f == AddOwner(d, o, started)
             e == refill(f, o)
             I == H \cup DOMAIN f.frames
             X == {o}
  <2>1. Keeps(d, f) /\ Keeps(d, e) /\ IsDraft(f)
    BY <1>3, KeepsAddOwner DEF Keeps, Derived
  <2>2. Keeps(Entered, e)
    BY <1>3, <2>1, KeepsTransitive
  <2>5. Owns(f, I, o, n, started)
    BY <1>3, <1>5, DevelopsOwner
  <2>3. ASSUME e.valid
        PROVE  Awake(e, {})
    <3>1. f.valid
      <4> HIDE DEF f
      <4> QED
        BY <2>1, <2>3, KeepsRefill DEF Keeps, Derived
    <3>5. Unserved(f, o, started)
      BY <1>3, <3>1, AwakeOwned
    <3>2. Awake(f, {o}) /\ o \in DOMAIN f.frames /\ f.frames[o] = started
      BY <3>5 DEF Unserved
    <3>3. /\ Awake(f, X) /\ f.frames[o].active \subseteq Now(f, o) /\ X \ {o} = {}
          /\ f.frames[o].unstarted # <<>> /\ Good(f, I)
      BY <1>6, <1>8, <2>5, <3>2 DEF Owns
    <3> HIDE DEF f, X, o, I
    <3>4. Awake(e, X \ {o})
      BY <1>1, <1>4, <2>3, <3>2, <3>3, AwakeRefill
    <3> QED
      BY <3>3, <3>4
  <2>4. Commit(e)
    BY <1>8
  <2> HIDE DEF e
  <2> QED
    BY <2>2, <2>3, <2>4, KeptServes
<1> QED
  BY <1>6, <1>7, <1>8

\* The keys of the branches are listed in order.
LEMMA BranchKeys ==
  ASSUME NEW order, order \in Seq(ToSet(order)), NEW o,
         NEW keys, keys = [i \in DOMAIN order |-> Append(o, order[i])]
  PROVE  IsKey(keys) /\ \A b \in ToSet(order) : Contains(keys, Append(o, b))
<1>1. Len(order) \in Nat /\ DOMAIN order = 1..Len(order)
  OBVIOUS
<1>2. Len(keys) = Len(order) /\ DOMAIN keys = 1..Len(order)
  BY <1>1
<1>3. IsKey(keys)
  BY <1>1, <1>2 DEF IsKey
<1>4. ASSUME NEW b \in ToSet(order)
      PROVE  Contains(keys, Append(o, b))
  <2>1. PICK i \in DOMAIN order : order[i] = b
    BY DEF ToSet
  <2>2. i \in 1..Len(keys) /\ keys[i] = Append(o, b)
    BY <1>1, <1>2, <2>1
  <2> QED
    BY <2>2 DEF Contains
<1> QED
  BY <1>3, <1>4

\* A parallel that starts minds its branches, also when it starts none.
LEMMA StartMinds ==
  ASSUME NEW n \in DOMAIN Nodes, NEW node, node = Nodes[n], node.kind = "parallel",
         NEW failures \in SUBSET ToSet(node.order),
         NEW results, results = [b \in failures |-> "failed"],
         NEW inputs, inputs = ToSet(node.order) \ failures, NEW selected,
         selected = classifyParallel(node, results, None),
         NEW st, NEW now
  PROVE  /\ inputs \subseteq now =>
              Minded(node, [kind |-> "parallel", live |-> inputs, selected |-> selected,
                            results |-> results, status |-> st], now)
         /\ selected # None =>
              Minded(node, [kind |-> "parallel", live |-> {}, selected |-> selected,
                            results |-> Else(results, [b \in inputs |-> "cancelled"]),
                            status |-> st], now)
<1>1. "failed" \in Classes(node) /\ "cancelled" \in Classes(node)
  BY DEF Classes, GenericClass, VoteClass
<1>2. Spoiled(results) => selected # None
  BY SpoiledDecides
<1> DEFINE cancelled == [b \in inputs |-> "cancelled"]
           all == Else(results, cancelled)
<1>3. \A b \in DOMAIN all : all[b] \in Classes(node)
  BY <1>1 DEF Else
<1>4. \A b \in DOMAIN results : results[b] \in Classes(node)
  BY <1>1
<1> HIDE DEF all
<1> QED
  BY <1>2, <1>3, <1>4 DEF Minded, all

\* Starting a parallel serves.
LEMMA ParallelServes ==
  ASSUME NEW H, Serving(H), NEW n \in DOMAIN Nodes, StartParallel(n)
  PROVE  Serves
<1> DEFINE r == Head(queue)
           o == Append(r, n)
           d == consumeRegionNode(Entered, r, n)
           node == Nodes[n]
           branches == ToSet(node.order)
           keys == [i \in DOMAIN node.order |-> Append(o, node.order[i])]
           results(failures) == [b \in failures |-> "failed"]
           selected(failures) == classifyParallel(node, results(failures), None)
           inputs(failures) == branches \ failures
           cancelled(failures) == [b \in inputs(failures) |-> "cancelled"]
           closed(failures) ==
             [kind |-> "parallel", live |-> {}, selected |-> selected(failures),
              results |-> Else(results(failures), cancelled(failures)), status |-> "completed"]
           status0(failures) == IF selected(failures) = None THEN "active" ELSE "draining"
           opened(failures) ==
             [kind |-> "parallel", live |-> inputs(failures), selected |-> selected(failures),
              results |-> results(failures),
              status |-> IF selected(failures) = None THEN "active" ELSE "draining"]
           regions(failures) ==
             [k \in {Append(o, b) : b \in inputs(failures)} |-> node.branch[Last(k)].region]
           started(failures) == AddRegions(AddOwner(d, o, opened(failures)), regions(failures), keys)
<1>1. /\ AtNode(n, "parallel") /\ Nodes[n].kind = "parallel"
      /\ \E failures \in SUBSET {b \in branches : FALSE \in node.branch[b].inputs} :
           \/ selected(failures) # None /\ Commit(Enqueue(AddOwner(d, o, closed(failures)), o))
           \/ Commit(Enqueue(started(failures), o))
           \/ inputs(failures) # {} /\ Commit(started(failures))
  BY Zenon DEF StartParallel, AtNode
<1>2. PICK failures \in SUBSET branches :
           \/ selected(failures) # None /\ Commit(Enqueue(AddOwner(d, o, closed(failures)), o))
           \/ Commit(Enqueue(started(failures), o))
           \/ inputs(failures) # {} /\ Commit(started(failures))
  BY <1>1, Zenon
<1>3. /\ Awake(d, {r}) /\ r \in DOMAIN d.frames /\ IsRegion(r)
      /\ Opens(d, H, r, n) /\ Keeps(Entered, d) /\ IsDraft(d)
  BY <1>1, TakenServes
<1> HIDE DEF d, r
<1>4. ~IsRegion(o) /\ NodeAt(o) = Nodes[n]
  BY <1>3, OwnerKey
<1> DEFINE C == inputs(failures)
           own == opened(failures)
           done == closed(failures)
           new == regions(failures)
           chosen == selected(failures)
<1>5. /\ \A now : C \subseteq now => Minded(node, own, now)
      /\ chosen # None => \A now : Minded(node, done, now)
  <2> SUFFICES ASSUME NEW now
               PROVE  /\ C \subseteq now => Minded(node, own, now)
                      /\ chosen # None => Minded(node, done, now)
    OBVIOUS
  <2>1. failures \in SUBSET ToSet(node.order)
    BY <1>2
  <2> DEFINE m == node
             res == results(failures)
             sel == classifyParallel(m, res, None)
             st == status0(failures)
  <2>2. m = Nodes[n] /\ m.kind = "parallel" /\ failures \in SUBSET ToSet(m.order)
        /\ res = [b \in failures |-> "failed"] /\ C = ToSet(m.order) \ failures
        /\ sel = classifyParallel(m, res, None)
    BY <1>1, <2>1
  <2>3. /\ own = [kind |-> "parallel", live |-> C, selected |-> sel, results |-> res, status |-> st]
        /\ done = [kind |-> "parallel", live |-> {}, selected |-> sel,
                   results |-> Else(res, [b \in C |-> "cancelled"]), status |-> "completed"]
        /\ chosen = sel
    OBVIOUS
  <2> HIDE DEF own, done, C, chosen, sel, res, st, m
  <2>4. /\ C \subseteq now =>
             Minded(m, [kind |-> "parallel", live |-> C, selected |-> sel, results |-> res,
                        status |-> st], now)
        /\ sel # None =>
             Minded(m, [kind |-> "parallel", live |-> {}, selected |-> sel,
                        results |-> Else(res, [b \in C |-> "cancelled"]),
                        status |-> "completed"], now)
    BY <2>2, StartMinds, Zenon
  <2> QED
    BY <2>3, <2>4 DEF m
<1>6. DOMAIN new = ChildrenOf(o, C) /\ own.live = C
  BY DEF ChildrenOf
<1>7. IsKey(keys) /\ \A k \in DOMAIN new : Contains(keys, k)
  <2>1. node.order \in Seq(ToSet(node.order))
    BY <1>1, OwnersAssumption
  <2> DEFINE list == node.order
  <2>2. list \in Seq(ToSet(list)) /\ keys = [i \in DOMAIN list |-> Append(o, list[i])]
        /\ C \subseteq ToSet(list)
    BY <2>1
  <2> HIDE DEF list, o, keys, C, new
  <2>3. IsKey(keys) /\ \A b \in ToSet(list) : Contains(keys, Append(o, b))
    BY <2>2, BranchKeys
  <2> QED
    BY <1>6, <2>2, <2>3 DEF ChildrenOf
<1>8. \/ chosen # None /\ Commit(Enqueue(AddOwner(d, o, done), o))
      \/ Commit(Enqueue(AddRegions(AddOwner(d, o, own), new, keys), o))
      \/ C # {} /\ Commit(AddRegions(AddOwner(d, o, own), new, keys))
  BY <1>2, Zenon
<1>9. NodeAt(o).kind = "parallel" /\ NodeAt(o) = node
  BY <1>1, <1>4
<1> HIDE DEF own, done, new, C, o, keys, inputs, opened, closed, regions, started, chosen, node
<1>10. CASE chosen # None /\ Commit(Enqueue(AddOwner(d, o, done), o))
  <2> DEFINE f == AddOwner(d, o, done)
             e == Enqueue(f, o)
             X == {o}
  <2>1. Keeps(d, f) /\ Keeps(d, e) /\ IsDraft(f)
    BY <1>3, KeepsAddOwner DEF Keeps, Derived
  <2>2. Keeps(Entered, e)
    BY <1>3, <2>1, KeepsTransitive
  <2>3. ASSUME e.valid
        PROVE  Awake(e, {})
    <3>1. f.valid
      <4> HIDE DEF f
      <4> QED
        BY <2>1, <2>3, KeepsTree DEF Keeps, Derived
    <3>2. Unserved(f, o, done)
      BY <1>3, <3>1, AwakeOwned DEF o
    <3>3. Awake(f, X) /\ o \in DOMAIN f.frames /\ X \ {o} = {}
          /\ Minded(NodeAt(o), f.frames[o], Now(f, o))
      BY <1>5, <1>9, <1>10, <3>2 DEF Unserved
    <3> HIDE DEF f, X
    <3>4. Awake(e, X \ {o})
      BY <1>4, <1>9, <3>3, AwakeParallel
    <3> QED
      BY <3>3, <3>4
  <2>4. Commit(e)
    BY <1>10
  <2> HIDE DEF e
  <2> QED
    BY <2>2, <2>3, <2>4, KeptServes
<1>11. ASSUME NEW e, e = AddRegions(AddOwner(d, o, own), new, keys),
              (C # {} /\ Commit(e)) \/ Commit(Enqueue(e, o))
       PROVE  Serves
  <2> DEFINE f == AddOwner(d, o, own)
             X == {o}
  <2>1. Keeps(d, f) /\ Keeps(d, e) /\ IsDraft(f) /\ Keeps(d, Enqueue(e, o)) /\ IsDraft(e)
    BY <1>3, <1>11, KeepsAddOwner DEF Keeps, Derived
  <2>2. Keeps(Entered, e) /\ Keeps(Entered, Enqueue(e, o))
    BY <1>3, <2>1, KeepsTransitive
  <2>3. ASSUME e.valid
        PROVE  /\ Awake(e, X) /\ o \in DOMAIN e.frames
               /\ Minded(NodeAt(o), e.frames[o], Now(e, o)) /\ e.frames[o].live = C
    <3>1. f.valid
      <4>1. e = AddRegions(f, new, keys)
        BY <1>11
      <4> HIDE DEF f
      <4> QED
        BY <2>1, <2>3, <4>1, KeepsAddRegions DEF Keeps, Derived
    <3>2. Unserved(f, o, own)
      BY <1>3, <3>1, AwakeOwned DEF o
    <3>3. Awake(f, X) /\ o \in DOMAIN f.frames /\ f.frames[o] = own
          /\ e = AddRegions(f, new, keys)
      BY <1>11, <3>2 DEF Unserved
    <3> HIDE DEF f, X
    <3>4. Spreads(f, X, o, C, e) /\ Awake(e, X)
      BY <1>4, <1>6, <1>7, <2>3, <3>3, AwakeRegions
    <3>5. o \in DOMAIN e.frames /\ e.frames[o] = own /\ C \subseteq Now(e, o)
      BY <3>3, <3>4 DEF Spreads
    <3> QED
      BY <1>5, <1>6, <1>9, <3>4, <3>5
  <2>4. Enqueue(e, o).valid = e.valid /\ X \ {o} = {}
    BY <2>1 DEF Enqueue, IsDraft, DraftFields
  <2>5. CASE Commit(Enqueue(e, o))
    <3>1. e.valid => Awake(Enqueue(e, o), {})
      <4> SUFFICES ASSUME e.valid
                   PROVE  Awake(Enqueue(e, o), {})
        OBVIOUS
      <4> HIDE DEF X
      <4>1. Awake(Enqueue(e, o), X \ {o})
        BY <1>4, <1>9, <2>3, AwakeParallel
      <4> QED
        BY <2>4, <4>1
    <3> QED
      BY <2>2, <2>4, <2>5, <3>1, KeptServes
  <2>6. CASE C # {} /\ Commit(e)
    <3>1. e.valid => Awake(e, {})
      <4> SUFFICES ASSUME e.valid
                   PROVE  Awake(e, {})
        OBVIOUS
      <4>1. Served(o, e.frames[o], Now(e, o), Queued(e, o))
        BY <1>4, <1>9, <2>3, <2>6 DEF Served
      <4> DEFINE Y == {}
      <4>2. \A k \in X \ Y : k \in DOMAIN e.frames =>
              Served(k, e.frames[k], Now(e, k), Queued(e, k))
        BY <4>1
      <4> HIDE DEF X, Y
      <4>3. Awake(e, Y)
        BY <2>3, <4>2, AwakeFewer
      <4> QED
        BY <4>3 DEF Y
    <3> QED
      BY <2>2, <2>6, <3>1, KeptServes
  <2> QED
    BY <1>11, <2>5, <2>6
<1> QED
  BY <1>8, <1>10, <1>11

-----------------------------------------------------------------------------
(*****************************************************************************)
(* Settling an owner.                                                        *)
(*****************************************************************************)
\* An owner with nothing below it leaves only its region unserved.
LEMMA AwakeWithout ==
  ASSUME Acyclic, NEW d, NEW H, Good(d, H), NEW o \in DOMAIN d.frames, ~IsRegion(o), Alone(d, o),
         NEW X \in SUBSET {o}, Awake(d, X), NEW e, e = Without(d, o)
  PROVE  Awake(e, {RegionOf(o)}) /\ e.terminal = d.terminal /\ e.valid = d.valid
<1> DEFINE F == d.frames
           P == d.pending
           r == RegionOf(o)
           Y == {r}
           roots == {o}
<1>1. Calm(d) /\ IsDraft(d) /\ IsKey(o)
  BY DEF Awake, Calm
<1>2. Good(e, H)
  BY WithoutOwner
<1>3. /\ e.frames = [k \in DOMAIN F \ {o} |-> F[k]] /\ e.pending = P /\ e.queue = d.queue
      /\ e.cleanups = d.cleanups /\ e.terminal = d.terminal /\ e.valid = d.valid
  BY <1>1 DEF Without, IsDraft, DraftFields
<1>4. Calm(e)
  <2>1. IsDraft(e) /\ Closed(e.frames, e.pending)
    BY <1>2 DEF Good, Tree
  <2>2. o # Root
    <3>1. Len(Root) = 1
      BY DEF Root
    <3>2. IsRegion(Root)
      BY <3>1 DEF IsRegion
    <3> QED
      BY <3>2
  <2> QED
    BY <1>1, <1>3, <2>1, <2>2 DEF Calm
<1>5. \A x \in DOMAIN F \cup P : IsPrefix(o, x) => x = o
  BY DEF Alone, Steps, Below, IsStrictPrefix
<1>6. IsPrefix(o, o)
  BY <1>1, PrefixItself
<1>7. ASSUME NEW k \in DOMAIN e.frames \ Y
      PROVE  Now(d, k) \subseteq Now(e, k)
  <2>1. k \in DOMAIN F /\ k # o /\ IsKey(k)
    BY <1>1, <1>3 DEF Calm
  <2>2. \A root \in roots : IsKey(root) /\ ~IsPrefix(root, k)
    BY <1>1, <1>5, <2>1
  <2>3. \A x \in DOMAIN d.frames \cup d.pending :
          x \in DOMAIN e.frames \cup e.pending \/ \E root \in roots : IsPrefix(root, x)
    BY <1>3, <1>6
  <2>4. \A c : Append(k, c) # o
    BY <1>7, <2>1, KeyAppend DEF RegionOf
  <2>5. \A c : Append(k, c) \notin roots
    BY <2>4
  <2> HIDE DEF roots
  <2> QED
    BY <1>1, <2>1, <2>2, <2>3, <2>5, NowKept
<1>8. Awake(e, Y)
  <2>1. \A k \in DOMAIN e.frames \ Y : /\ k \in DOMAIN d.frames \ X /\ e.frames[k] = d.frames[k]
                                       /\ Queued(d, k) => Queued(e, k)
    BY <1>3 DEF Queued
  <2> HIDE DEF Y
  <2> QED
    BY <1>4, <1>7, <2>1, AwakeKept
<1> QED
  BY <1>3, <1>8

\* Its result then serves that region, or what a cancellation reaches.
LEMMA AwakeConcludes ==
  ASSUME Acyclic, NEW d, NEW H, Good(d, H), NEW o \in DOMAIN d.frames, ~IsRegion(o), Alone(d, o),
         NEW X \in SUBSET {o}, Awake(d, X),
         NEW st \in {"failed", "cancelled"}, NEW cleanup, Local(cleanup), NEW e, e.valid,
         \/ e = Invalid(Without(d, o))
         \/ \E result, target :
              e = routeOwnedResult(Without(d, o), RegionOf(o), Last(o), result, target)
         \/ e = completeRequestedCancellation(
                  storeOwnedResult(Without(d, o), RegionOf(o), Last(o), st),
                  RegionOf(o), st, cleanup)
  PROVE  Awake(e, {})
<1> DEFINE r == RegionOf(o)
           n == Last(o)
           f == Without(d, o)
           Y == {r}
<1>1. Good(f, H) /\ IsRegion(r)
  BY WithoutOwner
<1>2. Awake(f, Y)
  BY AwakeWithout
<1>3. /\ \A k : k \in Y <=> k = r
      /\ Y \ {r} = {} /\ Y \cup {r} = Y /\ Y \in SUBSET {r}
  OBVIOUS
<1> HIDE DEF f, r, Y
<1>4. e # Invalid(f)
  BY <1>2, Refused
<1>5. ASSUME NEW result, NEW target, e = routeOwnedResult(f, r, n, result, target)
      PROVE  Awake(e, {})
  <2>1. Awake(e, Y \ {r})
    BY <1>1, <1>2, <1>5, AwakeRouted
  <2> QED
    BY <1>3, <2>1
<1>6. CASE e = completeRequestedCancellation(storeOwnedResult(f, r, n, st), r, st, cleanup)
  <2> DEFINE g == storeOwnedResult(f, r, n, st)
  <2>1. Grows(f, g, H)
    BY <1>1, GrowsStored
  <2>2. g = storeOwnedResult(f, r, n, st)
    OBVIOUS
  <2>3. e = completeRequestedCancellation(g, r, st, cleanup)
    BY <1>6
  <2> HIDE DEF g
  <2>4. Good(g, H)
    BY <2>1, GrowsTransitive
  <2>5. g.valid
    <3>1. Keeps(g, e)
      BY <2>3, <2>4, KeepsRequestedCancellation DEF Good
    <3> QED
      BY <3>1 DEF Keeps, Derived
  <2>6. Awake(g, Y \cup {r})
    BY <1>2, <2>2, <2>5, AwakeStored
  <2>7. Awake(g, Y)
    BY <1>3, <2>6
  <2> QED
    BY <1>1, <1>3, <2>3, <2>4, <2>7, AwakeCancellation
<1> QED
  BY <1>4, <1>5, <1>6 DEF f, r

\* A parallel with a result of every branch has selected.
LEMMA AllDecided ==
  ASSUME NEW n \in DOMAIN Nodes, NEW node, node = Nodes[n], node.kind = "parallel",
         NEW results, DOMAIN results = ToSet(node.order),
         \A b \in DOMAIN results : results[b] \in Classes(node)
  PROVE  classifyParallel(node, results, None) # None
<1> DEFINE total == Len(node.order)
<1>1. /\ node.order \in Seq(ToSet(node.order)) /\ IsInjective(node.order)
      /\ IF node.mode = "generic" THEN AdmittedGeneric(node.policy, total)
         ELSE AdmittedVote(node.policy, total)
  BY OwnersAssumption
<1>2. total \in Nat /\ total <= total /\ DOMAIN node.order = 1..total
  BY <1>1
<1>3. Firsts(node.order, total) = ToSet(node.order)
  BY <1>2 DEF Firsts, ToSet
<1>4. IsFiniteSet(DOMAIN results) /\ Cardinality(DOMAIN results) = total
  <2> DEFINE all == node.order
             count == total
  <2>1. all \in Seq(ToSet(all)) /\ IsInjective(all) /\ count \in Nat /\ count <= Len(all)
    BY <1>1, <1>2
  <2> HIDE DEF all, count
  <2>2. IsFiniteSet(Firsts(all, count)) /\ Cardinality(Firsts(all, count)) = count
    BY <2>1, ListFills
  <2> QED
    BY <1>3, <2>2 DEF all, count
<1> HIDE DEF total
<1>5. CASE node.mode = "generic"
  <2>1. classifyParallel(node, results, None)
          = classifyGenericParallel(node.policy, results, total, None)
    BY <1>5 DEF classifyParallel, total
  <2>2. \A b \in DOMAIN results : results[b] \in GenericClass
    BY <1>5 DEF Classes
  <2> QED
    BY <1>1, <1>4, <1>5, <2>1, <2>2, GenericResultsDecide
<1>6. CASE node.mode # "generic"
  <2>1. classifyParallel(node, results, None)
          = classifyVoteParallel(node.policy, results, total, None)
    BY <1>6 DEF classifyParallel, total
  <2>2. \A b \in DOMAIN results : results[b] \in VoteClass
    BY <1>6 DEF Classes
  <2> QED
    BY <1>1, <1>4, <1>6, <2>1, <2>2, VoteResultsDecide
<1> QED
  BY <1>5, <1>6

\* What a cancellation has left an owner is no cancellation of the whole run.
LEMMA CleanupIsLocal ==
  ASSUME NEW H, Serving(H), NEW o
  PROVE  Local(CleanupFor(o))
<1>1. Taken.cleanups = cleanups
  BY DEF Taken, Draft
<1>2. \A x \in DOMAIN cleanups : Local(cleanups[x])
  BY <1>1 DEF Serving, Awake, Calm
<1> QED
  BY <1>2, NoneLocal DEF CleanupFor

\* The owners that cancel await something.
Awaited == \A o \in DOMAIN regionCancellations :
             regionCancellations[o] \in (SUBSET pending) \ {{}}

\* Something is live below an owner that cancels.
LEMMA CancelsBelow ==
  ASSUME Cancels, Awaited, NEW o \in DOMAIN regionCancellations, NEW d, d.pending = pending
  PROVE  Now(d, o) # {}
<1>1. PICK op \in regionCancellations[o] : op \in pending
  BY DEF Awaited
<1>2. Below(o, op)
  BY <1>1 DEF Cancels, Cancelling, Below
<1> QED
  BY <1>1, <1>2 DEF Now, Steps

\* Settling a parallel serves its region, unless a branch is still live.
LEMMA SettleParallelServes ==
  ASSUME NEW H, Serving(H), Awake(Draft, {}), Cancels, Awaited, SettleParallel
  PROVE  Serves
<1> DEFINE o == Head(queue)
           own == frames[o]
           node == NodeAt(o)
           now == Now(Taken, o)
           X == {o}
           waiting == \/ DOMAIN own.results # ToSet(node.order)
                      \/ own.selected = None
                      \/ o \in DOMAIN regionCancellations
<1>1. /\ Executing /\ ~IsRegion(o) /\ node.kind = "parallel"
      /\ Commit(IF waiting THEN Taken ELSE finishParallel(Taken, o))
  BY Zenon DEF SettleParallel
<1>2. /\ Good(Taken, H) /\ Acyclic /\ Taken.frames = frames /\ o \in DOMAIN Taken.frames
      /\ IsDraft(Taken) /\ Taken.pending = pending /\ Awake(Taken, X)
  BY <1>1, TakenIsDraft DEF Serving, Whole, Executing
<1>3. Minded(node, own, now)
  <2>1. Draft.frames = frames /\ Draft.pending = pending
    BY DraftIsDraft
  <2>2. Served(o, own, Now(Draft, o), Queued(Draft, o))
    BY <1>2, <2>1 DEF Awake
  <2>3. Now(Draft, o) = now
    BY <1>2, <2>1 DEF Now
  <2> QED
    BY <1>1, <2>2, <2>3 DEF Served
<1>4. ParallelFits(node, own, now) /\ Last(o) \in DOMAIN Nodes
  BY <1>1, <1>2 DEF Good, Tree, Fits, Now
<1>5. CASE waiting
  <2>1. own.live # {}
    <3> SUFFICES ASSUME own.live = {} PROVE FALSE
      OBVIOUS
    <3>1. DOMAIN own.results = ToSet(node.order)
      BY <1>4 DEF ParallelFits
    <3>2. CASE own.selected = None
      <4>1. classifyParallel(node, own.results, None) = None
        BY <1>3, <1>4, <3>2 DEF ParallelFits, Minded
      <4> DEFINE n == Last(o)
                 results == own.results
      <4>2. node = Nodes[n] /\ n \in DOMAIN Nodes
        BY <1>4 DEF NodeAt
      <4>3. \A b \in DOMAIN results : results[b] \in Classes(node)
        BY <1>3 DEF Minded
      <4>4. DOMAIN results = ToSet(node.order) /\ classifyParallel(node, results, None) = None
        BY <3>1, <4>1
      <4> HIDE DEF n, results, node, own
      <4> QED
        BY <1>1, <4>2, <4>3, <4>4, AllDecided
    <3>3. CASE o \in DOMAIN regionCancellations
      <4>1. now # {}
        BY <1>2, <3>3, CancelsBelow
      <4> QED
        BY <1>4, <4>1 DEF ParallelFits
    <3> QED
      BY <1>5, <3>1, <3>2, <3>3
  <2>2. Served(o, own, now, Queued(Taken, o))
    BY <1>1, <1>3, <2>1 DEF Served
  <2> DEFINE Y == {}
  <2>3. \A k \in X \ Y : k \in DOMAIN Taken.frames =>
          Served(k, Taken.frames[k], Now(Taken, k), Queued(Taken, k))
    BY <1>2, <2>2
  <2> HIDE DEF X, Y, o
  <2>4. Awake(Taken, Y)
    BY <1>2, <2>3, AwakeFewer
  <2>5. Keeps(Taken, Taken) /\ Commit(Taken)
    BY <1>1, <1>2, <1>5, KeepsItself
  <2> QED
    BY <2>4, <2>5, KeptServes DEF Y
<1>6. CASE ~waiting
  <2> DEFINE e == finishParallel(Taken, o)
             cleanup == CleanupFor(o)
  <2>1. Alone(Taken, o)
    BY <1>4, <1>6 DEF ParallelFits, Alone, Now
  <2>2. Local(cleanup)
    BY CleanupIsLocal
  <2>3. \/ e = Invalid(Without(Taken, o))
        \/ \E result, target :
             e = routeOwnedResult(Without(Taken, o), RegionOf(o), Last(o), result, target)
        \/ e = completeRequestedCancellation(
                 storeOwnedResult(Without(Taken, o), RegionOf(o), Last(o), "cancelled"),
                 RegionOf(o), "cancelled", cleanup)
    BY Zenon DEF finishParallel
  <2>4. Keeps(Taken, e)
    BY <1>2, KeepsFinish
  <2>5. Commit(e)
    BY <1>1, <1>6
  <2> HIDE DEF e, cleanup
  <2>6. X \in SUBSET {o}
    OBVIOUS
  <2> HIDE DEF X, o
  <2>7. e.valid => Awake(e, {})
    BY <1>1, <1>2, <2>1, <2>2, <2>3, <2>6, AwakeConcludes
  <2> QED
    BY <2>4, <2>5, <2>7, KeptServes
<1> QED
  BY <1>5, <1>6

\* A map that has started all its items and waits is served.
LEMMA MapWaits ==
  ASSUME Cancels, Awaited, NEW e, NEW H, Tree(e.frames, e.pending, H), e.pending = pending,
         NEW o \in DOMAIN e.frames, ~IsRegion(o), NodeAt(o).kind = "map",
         e.frames[o].active \subseteq Now(e, o), e.frames[o].unstarted = <<>>,
         \/ e.frames[o].active # {}
         \/ e.frames[o].unstarted # <<>>
         \/ o \in DOMAIN regionCancellations,
         NEW X \in SUBSET {o}, Awake(e, X)
  PROVE  Awake(e, {})
<1> DEFINE own == e.frames[o]
           Y == {}
<1>1. MapFits(NodeAt(o), own, Now(e, o), Steps(o, DOMAIN e.frames \cup e.pending \cup H))
  BY DEF Tree, Fits, Now
<1>2. own.active # {}
  <2>1. CASE o \in DOMAIN regionCancellations
    <3>1. Now(e, o) # {}
      BY <2>1, CancelsBelow
    <3> QED
      BY <1>1, <3>1 DEF MapFits
  <2> QED
    BY <2>1
<1>3. Served(o, own, Now(e, o), Queued(e, o))
  BY <1>2 DEF Served, Lagging
<1>4. \A k \in X \ Y : k \in DOMAIN e.frames => Served(k, e.frames[k], Now(e, k), Queued(e, k))
  BY <1>3
<1> HIDE DEF Y, own
<1>5. Awake(e, Y)
  BY <1>4, AwakeFewer
<1> QED
  BY <1>5 DEF Y

\* A map that settles serves its region, unless it waits.
LEMMA MapSettles ==
  ASSUME NEW H, Serving(H), NEW e, Develops(Taken, e, H), Keeps(Taken, e),
         NEW o \in DOMAIN e.frames, ~IsRegion(o), NodeAt(o).kind = "map",
         NEW waiting \in BOOLEAN, Commit(IF waiting THEN e ELSE finishMap(e, o)),
         ~waiting => e.frames[o].active = {},
         NEW X \in SUBSET {o}, e.valid => Awake(e, X),
         waiting /\ e.valid => Awake(e, {})
  PROVE  Serves
<1>1. CASE waiting
  BY <1>1, KeptServes
<1>2. CASE ~waiting
  <2> DEFINE f == finishMap(e, o)
             st == IF e.frames[o].selected = "failed" THEN "failed" ELSE "cancelled"
             cleanup == CleanupFor(o)
             I == H \cup DOMAIN e.frames
  <2>1. Good(e, I) /\ IsDraft(e)
    BY DevelopsTransitive DEF Good
  <2>2. Keeps(e, f)
    BY <2>1, KeepsFinish
  <2>3. /\ Keeps(Taken, f) /\ (f.valid => e.valid)
    BY <2>2, KeepsTransitive DEF Keeps, Derived
  <2>4. Alone(e, o)
    <3>1. MapFits(NodeAt(o), e.frames[o], Steps(o, DOMAIN e.frames \cup e.pending),
                  Steps(o, DOMAIN e.frames \cup e.pending \cup I))
      BY <2>1 DEF Good, Tree, Fits
    <3> QED
      BY <1>2, <3>1 DEF MapFits, Alone
  <2>5. Local(cleanup) /\ st \in {"failed", "cancelled"} /\ Acyclic
    BY CleanupIsLocal DEF Serving, Whole
  <2>6. \/ f = Invalid(Without(e, o))
        \/ \E result, target :
             f = routeOwnedResult(Without(e, o), RegionOf(o), Last(o), result, target)
        \/ f = completeRequestedCancellation(
                 storeOwnedResult(Without(e, o), RegionOf(o), Last(o), st),
                 RegionOf(o), st, cleanup)
    BY Zenon DEF finishMap
  <2>7. Commit(f)
    BY <1>2
  <2> HIDE DEF f, st, cleanup, I
  <2>8. f.valid => Awake(f, {})
    BY <2>1, <2>3, <2>4, <2>5, <2>6, AwakeConcludes
  <2> QED
    BY <2>3, <2>7, <2>8, KeptServes
<1> QED
  BY <1>1, <1>2

\* Closing a map keeps its items.
LEMMA AwakeCloses ==
  ASSUME NEW d, NEW H, Good(d, H), NEW o \in DOMAIN d.frames, ~IsRegion(o),
         NodeAt(o).kind = "map", d.frames[o].active \subseteq Now(d, o),
         NEW X \in SUBSET {o}, Awake(d, X),
         NEW e, e = SetFrame(d, o, locallyCancelUnstarted(d.frames[o]))
  PROVE  /\ Awake(e, {o}) /\ o \in DOMAIN e.frames
         /\ DOMAIN e.frames[o] = {"kind", "unstarted", "active", "completed", "selected",
                                  "failedItem", "status"}
         /\ e.frames[o].active \subseteq Now(e, o)
         /\ e.frames[o].unstarted = <<>>
<1> DEFINE frame == locallyCancelUnstarted(d.frames[o])
           Y == X \cup {o}
<1>1. MapFits(NodeAt(o), d.frames[o], Now(d, o), Steps(o, DOMAIN d.frames \cup d.pending \cup H))
  BY DEF Good, Tree, Fits, Now
<1>2. /\ DOMAIN frame = {"kind", "unstarted", "active", "completed", "selected",
                         "failedItem", "status"}
      /\ frame.active = d.frames[o].active /\ frame.unstarted = <<>>
  BY <1>1 DEF MapFits, locallyCancelUnstarted
<1>3. e = SetFrame(d, o, frame)
  OBVIOUS
<1> HIDE DEF frame
<1>4. Alters(d, X, o, frame, e)
  BY <1>3, AwakeSet
<1>5. Y = {o}
  OBVIOUS
<1> QED
  BY <1>2, <1>4, <1>5 DEF Alters

\* Settling a map serves it or its region.
LEMMA SettleMapServes ==
  ASSUME NEW H, Serving(H), Awake(Draft, {}), Cancels, Awaited, SettleMap
  PROVE  Serves
<1> DEFINE o == Head(queue)
           own == frames[o]
           closed == SetFrame(Taken, o, locallyCancelUnstarted(own))
           idle == locallyCancelIdleActive(closed, o)
           stopped == [idle EXCEPT !.cancel = o]
           owner == CASE own.selected # None /\ own.status = "cancelling" -> stopped
                      [] own.selected # None /\ own.status # "cancelling" -> closed
                      [] own.selected = None /\ own.unstarted # <<>> -> refill(Taken, o)
                      [] OTHER -> Taken
           waits(e) == \/ e.frames[o].active # {}
                       \/ e.frames[o].unstarted # <<>>
                       \/ o \in DOMAIN regionCancellations
           waiting == waits(owner)
           X == {o}
<1>0. Commit(IF waiting THEN owner ELSE finishMap(owner, o))
  BY Zenon DEF SettleMap
<1>1. Executing /\ ~IsRegion(o) /\ NodeAt(o).kind = "map"
  BY Zenon DEF SettleMap
<1>2. /\ Good(Taken, H) /\ Acyclic /\ Taken.frames = frames /\ o \in DOMAIN Taken.frames
      /\ Taken.cancel = NoOwner /\ IsDraft(Taken) /\ Taken.pending = pending /\ Awake(Taken, X)
  BY <1>1, TakenIsDraft DEF Serving, Whole, Executing
<1>3. own.active \subseteq Now(Taken, o)
  <2>1. Draft.frames = frames /\ Draft.pending = pending
    BY DraftIsDraft
  <2>2. Served(o, own, Now(Draft, o), Queued(Draft, o))
    BY <1>2, <2>1 DEF Awake
  <2>3. Now(Draft, o) = Now(Taken, o)
    BY <1>2, <2>1 DEF Now
  <2> HIDE DEF own, o
  <2> QED
    BY <1>1, <2>2, <2>3 DEF Served
<1>4. ASSUME NEW e, e = owner, Develops(Taken, e, H), o \in DOMAIN e.frames,
             e.valid => Awake(e, X), waits(e) /\ e.valid => Awake(e, {})
      PROVE  Serves
  <2>1. waiting = waits(e) /\ owner = e
    BY <1>4
  <2>2. Keeps(Taken, e)
    <3>1. Keeps(Taken, Taken) /\ Keeps(Taken, closed) /\ IsDraft(closed)
      BY <1>2, KeepsItself, KeepsTree DEF Keeps, Derived
    <3> HIDE DEF closed
    <3>2. Keeps(closed, idle)
      BY <3>1, KeepsCancelUnstarted
    <3>3. IsDraft(idle)
      BY <3>2 DEF Keeps, Derived
    <3> HIDE DEF idle
    <3>4. Keeps(idle, stopped)
      BY <3>3, KeepsUpdate
    <3> HIDE DEF stopped
    <3>5. Keeps(Taken, stopped)
      BY <3>1, <3>2, <3>4, KeepsTransitive
    <3>6. Keeps(Taken, refill(Taken, o))
      BY <1>2, KeepsRefill
    <3> HIDE DEF own, o
    <3> QED
      BY <1>4, <3>1, <3>5, <3>6
  <2> DEFINE w == waits(e)
  <2>3. X \in SUBSET {o}
    OBVIOUS
  <2> HIDE DEF waiting, owner, closed, own, X, o
  <2>4. Commit(IF w THEN e ELSE finishMap(e, o))
    <3> HIDE DEF waits
    <3> QED
      BY <1>0, <2>1
  <2>5. w \in BOOLEAN /\ (~w => e.frames[o].active = {}) /\ (w /\ e.valid => Awake(e, {}))
    BY <1>4
  <2> HIDE DEF w, waits
  <2> QED
    BY <1>1, <1>4, <2>2, <2>5, <2>4, <2>3, MapSettles
<1> HIDE DEF waits
<1>5. /\ Grows(Taken, closed, H) /\ o \in DOMAIN closed.frames
      /\ closed.frames[o].selected = own.selected
  <2> HIDE DEF o
  <2> QED
    BY <1>1, <1>2, MapCloses
<1>6. /\ Awake(closed, X) /\ closed.frames[o].active \subseteq Now(closed, o)
      /\ DOMAIN closed.frames[o] = {"kind", "unstarted", "active", "completed", "selected",
                                    "failedItem", "status"}
      /\ closed.frames[o].unstarted = <<>>
  <2> DEFINE Z == X
  <2>1. /\ Z \in SUBSET {o} /\ Awake(Taken, Z)
        /\ Taken.frames[o].active \subseteq Now(Taken, o)
    BY <1>2, <1>3
  <2>2. closed = SetFrame(Taken, o, locallyCancelUnstarted(Taken.frames[o]))
    BY <1>2
  <2> HIDE DEF Z, closed, o, own
  <2>3. /\ Awake(closed, {o}) /\ closed.frames[o].active \subseteq Now(closed, o)
        /\ DOMAIN closed.frames[o] = {"kind", "unstarted", "active", "completed", "selected",
                                      "failedItem", "status"}
        /\ closed.frames[o].unstarted = <<>>
    BY <1>1, <1>2, <2>1, <2>2, AwakeCloses
  <2> QED
    BY <2>3
<1>7. ASSUME NEW e, Develops(Taken, e, H), o \in DOMAIN e.frames, Awake(e, X),
             e.frames[o].active \subseteq Now(e, o), e.frames[o].unstarted = <<>>, waits(e)
      PROVE  Awake(e, {})
  <2>1. Tree(e.frames, e.pending, H) /\ e.pending = pending
    BY <1>2, <1>7 DEF Develops, Derived
  <2>2. X \in SUBSET {o}
    OBVIOUS
  <2>3. \/ e.frames[o].active # {}
        \/ e.frames[o].unstarted # <<>>
        \/ o \in DOMAIN regionCancellations
    BY <1>7 DEF waits
  <2> HIDE DEF X, o
  <2> QED
    BY <1>1, <1>7, <2>1, <2>2, <2>3, MapWaits
<1>8. CASE own.selected # None /\ own.status = "cancelling"
  <2>1. owner = stopped
    BY <1>8
  <2> HIDE DEF owner
  <2>2. Good(closed, H)
    BY <1>5, GrowsTransitive
  <2>3. Grows(closed, idle, H) /\ o \in DOMAIN idle.frames
        /\ idle.frames[o].selected = closed.frames[o].selected
    <3> HIDE DEF closed, o
    <3> QED
      BY <1>1, <1>5, <2>2, GrowsStopItems
  <2>4. Halts(closed, X, o, idle)
    <3> HIDE DEF X, o, closed
    <3> QED
      BY <1>5, <1>6, AwakeStopItems
  <2>5. Awake(idle, X)
    <3>1. X \cup {o} = X
      OBVIOUS
    <3> HIDE DEF X, o, idle, closed
    <3> QED
      BY <2>4, <3>1 DEF Halts
  <2>6. /\ idle.frames[o].active \subseteq Now(idle, o) /\ idle.frames[o].unstarted = <<>>
    BY <1>6, <2>4 DEF Halts
  <2>7. Grows(Taken, idle, H)
    BY <1>5, <2>3, GrowsTransitive
  <2> HIDE DEF idle, closed
  <2>8. Grows(Taken, stopped, H)
    BY <1>1, <1>5, <1>8, <2>3, <2>7, GrowsCancel
  <2>9. Alike(idle, X, stopped)
    BY <2>5, AwakeAsked
  <2> HIDE DEF stopped
  <2>10. /\ Awake(stopped, X) /\ stopped.frames = idle.frames
         /\ Now(stopped, o) = Now(idle, o)
    BY <2>9 DEF Alike, Now
  <2> QED
    BY <1>4, <1>7, <2>1, <2>3, <2>6, <2>8, <2>10 DEF Grows
<1>9. CASE own.selected # None /\ own.status # "cancelling"
  <2>1. owner = closed
    BY <1>9
  <2> HIDE DEF owner, closed
  <2> QED
    BY <1>4, <1>5, <1>6, <1>7, <2>1 DEF Grows
<1>10. CASE own.selected = None /\ own.unstarted # <<>>
  <2> DEFINE e == refill(Taken, o)
  <2>1. owner = e
    BY <1>10
  <2> HIDE DEF owner
  <2>2. Develops(Taken, e, H) /\ o \in DOMAIN e.frames
    <3> HIDE DEF o
    <3> QED
      BY <1>1, <1>2, DevelopsRefill
  <2>3. e.valid => Awake(e, {})
    <3> DEFINE Z == X \ {o}
    <3>1. Z = {}
      OBVIOUS
    <3>2. /\ Taken.frames[o].active \subseteq Now(Taken, o)
          /\ Taken.frames[o].unstarted # <<>> /\ e = refill(Taken, o)
      BY <1>2, <1>3, <1>10
    <3> HIDE DEF o, e, X
    <3>3. e.valid => Awake(e, X \ {o})
      BY <1>1, <1>2, <3>2, AwakeRefill
    <3> QED
      BY <3>1, <3>3
  <2>4. e.valid => Awake(e, X)
    BY <2>3, AwakeMore
  <2> HIDE DEF e
  <2> QED
    BY <1>4, <2>1, <2>2, <2>3, <2>4
<1>11. CASE own.selected = None /\ own.unstarted = <<>>
  <2>1. owner = Taken
    BY <1>11
  <2> HIDE DEF owner
  <2>2. Grows(Taken, Taken, H)
    BY <1>2, GrowsUpdate
  <2> QED
    BY <1>2, <1>3, <1>4, <1>7, <1>11, <2>1, <2>2 DEF Grows
<1> QED
  BY <1>8, <1>9, <1>10, <1>11

-----------------------------------------------------------------------------
(*****************************************************************************)
(* Operations that start, and their answers.                                 *)
(*****************************************************************************)
\* A region whose node has become a pending operation is served.
LEMMA AwakeDispatch ==
  ASSUME NEW d, NEW r \in DOMAIN d.frames, IsRegion(r), Awake(d, {r}), NEW n,
         NEW op, op = Append(r, n),
         NEW e, IsDraft(e), e.frames = d.frames, e.pending = d.pending \cup {op},
         e.queue = d.queue, e.cleanups = d.cleanups
  PROVE  Awake(e, {})
<1>1. Calm(d) /\ IsKey(r)
  BY DEF Awake, Calm
<1>2. /\ IsKey(op) /\ Len(op) = Len(r) + 1 /\ Len(r) \in Nat
      /\ Below(r, op) /\ Step(r, op) = n
  BY <1>1, KeyAppend, BelowChild, PrefixItself DEF IsKey
<1>3. Closed(e.frames, e.pending)
  <2>1. \A m \in 1..(Len(op) - 1) : SubSeq(op, 1, m) \in DOMAIN d.frames
    <3>1. Closed(d.frames, d.pending) /\ 1..(Len(op) - 1) = 1..Len(r)
      BY <1>1, <1>2 DEF Calm
    <3> QED
      BY <1>1, <3>1, ChildUnder
  <2> QED
    BY <1>1, <2>1 DEF Calm, Closed
<1>4. Calm(e)
  <2>1. IsKey(op) /\ Len(op) >= 1
    BY <1>2
  <2>2. \A x \in DOMAIN e.frames \cup e.pending :
          x = op \/ x \in DOMAIN d.frames \cup d.pending
    OBVIOUS
  <2>3. \A x \in DOMAIN e.frames \cup e.pending : IsKey(x) /\ Len(x) >= 1
    BY <1>1, <2>1, <2>2 DEF Calm
  <2> QED
    BY <1>1, <1>3, <2>3 DEF Calm
<1>5. \A k : Now(d, k) \subseteq Now(e, k)
  BY StepsLess DEF Now
<1>6. Awake(e, {r})
  <2>1. \A k \in DOMAIN e.frames \ {r} :
          /\ k \in DOMAIN d.frames \ {r}
          /\ e.frames[k] = d.frames[k]
          /\ Now(d, k) \subseteq Now(e, k)
          /\ Queued(d, k) => Queued(e, k)
    BY <1>5 DEF Queued
  <2> QED
    BY <1>4, <2>1, AwakeKept
<1>7. n \in Now(e, r)
  BY <1>2 DEF Now, Steps
<1>8. Served(r, e.frames[r], Now(e, r), Queued(e, r))
  BY <1>7 DEF Served
<1>9. \A k \in {r} \ {} : k \in DOMAIN e.frames =>
                            Served(k, e.frames[k], Now(e, k), Queued(e, k))
  BY <1>8
<1> QED
  BY <1>6, <1>9, AwakeFewer

\* Once its answer is here, only the region of the operation may lack a token.
LEMMA AwakeAnswer ==
  ASSUME NEW H, Tree(frames, pending, H), Awake(Draft, {}),
         NEW op \in pending, NEW d, d = AnswerDraft(op)
  PROVE  Awake(d, {RegionOf(op)})
<1> DEFINE D == Draft
<1>1. /\ IsDraft(d) /\ d.frames = D.frames /\ d.pending = D.pending \ {op}
      /\ d.queue = D.queue /\ d.cleanups = D.cleanups
      /\ D.frames = frames /\ D.pending = pending
  BY DraftIsDraft DEF IsDraft, DraftFields, withoutOperation, Draft, AnswerDraft
<1> HIDE DEF D
<1>2. Awake(D, {}) /\ Calm(D)
  BY DEF D, Awake
<1>3. /\ IsKey(op) /\ op \in D.pending
      /\ \A k \in DOMAIN D.frames : IsKey(k) /\ k # op /\ ~Below(op, k)
  BY <1>1 DEF Tree, Keyed, Leaves
<1>4. \A k \in DOMAIN D.frames : ~IsPrefix(op, k)
  BY <1>3 DEF Below, IsStrictPrefix
<1>5. Calm(d)
  <2>1. Closed(d.frames, d.pending)
    BY <1>1, <1>2 DEF Calm, Closed
  <2> QED
    BY <1>1, <1>2, <2>1 DEF Calm
<1>6. ASSUME NEW k \in DOMAIN d.frames \ {RegionOf(op)}
      PROVE  Now(D, k) \subseteq Now(d, k)
  <2> DEFINE roots == {op}
  <2>1. IsKey(k) /\ \A r \in roots : IsKey(r) /\ ~IsPrefix(r, k)
    BY <1>1, <1>3, <1>4
  <2>2. \A x \in DOMAIN D.frames \cup D.pending :
          x \in DOMAIN d.frames \cup d.pending \/ \E r \in roots : IsPrefix(r, x)
    BY <1>1, <1>3, PrefixItself
  <2>3. \A c : Append(k, c) \notin roots
    BY <2>1, KeyAppend DEF RegionOf
  <2> HIDE DEF roots
  <2>4. \A c \in Now(D, k) : Append(k, c) \in roots \/ c \in Now(d, k)
    BY <1>2, <2>1, <2>2, NowKept
  <2> QED
    BY <2>3, <2>4
<1>7. \A k \in DOMAIN d.frames \ {RegionOf(op)} :
        /\ k \in DOMAIN D.frames \ {}
        /\ d.frames[k] = D.frames[k]
        /\ Now(D, k) \subseteq Now(d, k)
        /\ Queued(D, k) => Queued(d, k)
  BY <1>1, <1>6 DEF Queued
<1> QED
  BY <1>2, <1>5, <1>7, AwakeKept

\* A late answer below a closing owner concludes nothing.
LEMMA CleanupKeeps ==
  ASSUME NEW d, IsDraft(d), NEW op, NEW a, NEW cleanup,
         NEW e, e = storeCleanupResult(d, op, a, cleanup)
  PROVE  Keeps(d, e)
<1> DEFINE r == RegionOf(op)
           stored == storePendingNodeResult(d, r, Last(op), a.result)
           charged == Charge(stored, 1)
           st == IF a.result = "failed" THEN "failed" ELSE "cancelled"
           handed == completeRequestedCancellation(charged, r, st, cleanup)
<1>1. e = stored \/ e = handed
  BY Zenon DEF storeCleanupResult
<1>2. Keeps(d, stored)
  BY KeepsResult
<1> HIDE DEF stored, st, r
<1>3. Keeps(stored, charged)
  BY <1>2, KeepsUpdate DEF Keeps, Derived
<1> HIDE DEF charged
<1>4. Keeps(charged, handed)
  BY <1>3, KeepsRequestedCancellation DEF Keeps, Derived
<1> QED
  BY <1>1, <1>2, <1>3, <1>4, KeepsTransitive

\* A late answer below a closing owner wakes what absorbs it.
LEMMA CleanupWakes ==
  ASSUME NEW d, NEW H, Good(d, H), NEW op, IsRegion(RegionOf(op)),
         Awake(d, {RegionOf(op)}), NEW a, NEW cleanup, Local(cleanup),
         NEW e, e = storeCleanupResult(d, op, a, cleanup), e.valid
  PROVE  Awake(e, {}) /\ e.terminal = d.terminal
<1> DEFINE r == RegionOf(op)
           stored == storePendingNodeResult(d, r, Last(op), a.result)
           charged == Charge(stored, 1)
           st == IF a.result = "failed" THEN "failed" ELSE "cancelled"
           handed == completeRequestedCancellation(charged, r, st, cleanup)
<1>1. stored.valid /\ e = handed
  BY Zenon DEF storeCleanupResult
<1>2. Grows(d, stored, H)
  BY GrowsStored
<1>3. st \in {"failed", "cancelled"}
  OBVIOUS
<1>4. Awake(stored, {r} \cup {r}) /\ stored.terminal = d.terminal
  <2>1. stored = storePendingNodeResult(d, r, Last(op), a.result)
    OBVIOUS
  <2> HIDE DEF stored, r
  <2> QED
    BY <1>1, <2>1, AwakeStored DEF r
<1> HIDE DEF stored, st, r
<1>5. Good(stored, H)
  BY <1>2, GrowsTransitive
<1>6. Grows(stored, charged, H)
  BY <1>5, GrowsUpdate
<1>7. Alike(stored, {r}, charged)
  <2>1. {r} \cup {r} = {r}
    OBVIOUS
  <2> QED
    BY <1>4, <2>1, AwakeCharge
<1> HIDE DEF charged
<1>8. Good(charged, H)
  BY <1>6, GrowsTransitive
<1>9. Awake(charged, {r}) /\ charged.terminal = stored.terminal
  BY <1>7 DEF Alike
<1>10. Awake(handed, {})
  <2> DEFINE X == {r}
  <2>1. X \in SUBSET {r} /\ Awake(charged, X) /\ IsRegion(r)
    BY <1>9 DEF r
  <2>2. handed = completeRequestedCancellation(charged, r, st, cleanup) /\ handed.valid
    BY <1>1
  <2> HIDE DEF X, handed
  <2> QED
    BY <1>3, <1>8, <2>1, <2>2, AwakeCancellation
<1>11. handed.terminal = charged.terminal
  BY <1>8, KeepsRequestedCancellation DEF Good, Keeps
<1> QED
  BY <1>1, <1>4, <1>9, <1>10, <1>11

\* An ordinary answer wakes its region, or whatever its failure reaches.
LEMMA OrdinaryWakes ==
  ASSUME NEW d, NEW H, Good(d, H), d.terminal = None, NEW op, IsRegion(RegionOf(op)),
         RegionOf(op) \in DOMAIN d.frames, Vacant(d, H, RegionOf(op), Last(op)),
         Awake(d, {RegionOf(op)}), NEW a, NEW run, ~run,
         NEW e, e = applyOrdinaryResult(d, op, a, run)
  PROVE  Wakes(e) /\ e.pending = d.pending /\ (e.terminal # None => e.pending = {})
<1> DEFINE r == RegionOf(op)
           n == Last(op)
           recorded == recordPendingNodeResult(d, r, n, a.result, a.target)
           routed == Charge(recorded, 1)
<1> HIDE DEF r
<1>1. Good(d, H) /\ IsDraft(d)
  BY DEF Good
<1>2. CASE a.target = None
  <2>1. e = completeFailedRegion(d, r)
    BY <1>2, Zenon DEF applyOrdinaryResult, brokenRegion, r
  <2>2. Now(d, r) = {}
    BY DEF Vacant, Now, r
  <2>3. Wakes(e)
    <3> DEFINE X == {r}
    <3>1. X \in SUBSET {r} /\ Awake(d, X) /\ IsRegion(r) /\ r \in DOMAIN d.frames
      BY DEF r
    <3> HIDE DEF X
    <3> QED
      BY <2>1, <3>1, AwakeFailedRegion
  <2>4. e.pending = d.pending /\ (e.terminal # None => d.pending = {})
    <3>1. r \in DOMAIN d.frames
      BY DEF r
    <3> QED
      BY <2>1, <2>2, <3>1, FailedEnds
  <2> QED
    BY <2>3, <2>4
<1>3. CASE a.target # None
  <2>1. e = Enqueue(routed, r)
    BY <1>3, Zenon DEF applyOrdinaryResult, r
  <2>2. Keeps(d, recorded)
    BY <1>1, KeepsResult
  <2>3. recorded.valid => /\ Awake(recorded, {r} \cup {r})
                          /\ r \in DOMAIN recorded.frames /\ recorded.frames[r].ready # {}
    <3> DEFINE X == {r}
    <3>1. recorded = recordPendingNodeResult(d, r, n, a.result, a.target) /\ Awake(d, X)
      BY DEF r
    <3> HIDE DEF recorded, X, n
    <3>2. recorded.valid => /\ Awake(recorded, X \cup {r})
                            /\ r \in DOMAIN recorded.frames /\ recorded.frames[r].ready # {}
      BY <3>1, AwakeRecorded
    <3> QED
      BY <3>2 DEF X
  <2> HIDE DEF recorded
  <2>4. Keeps(recorded, routed) /\ routed.frames = recorded.frames
        /\ routed.valid = recorded.valid
    BY <2>2, KeepsUpdate DEF Keeps, Derived, IsDraft, DraftFields, Charge
  <2>5. recorded.valid => Awake(routed, {r})
    <3>1. {r} \cup {r} = {r}
      OBVIOUS
    <3>2. recorded.valid => Alike(recorded, {r}, routed)
      BY <2>3, <3>1, AwakeCharge
    <3> QED
      BY <3>2 DEF Alike
  <2> HIDE DEF routed
  <2>6. Keeps(routed, e) /\ e.valid = routed.valid
    BY <2>1, <2>4, KeepsTree DEF Keeps, Derived, IsDraft, DraftFields, Enqueue
  <2>7. recorded.valid => Awake(e, {})
    <3>1. recorded.valid => Awake(Enqueue(routed, r), {r} \ {r})
      BY <2>3, <2>4, <2>5, AwakeRegion DEF r
    <3>2. {r} \ {r} = {}
      OBVIOUS
    <3> QED
      BY <2>1, <3>1, <3>2
  <2> QED
    BY <2>2, <2>4, <2>6, <2>7 DEF Wakes, Keeps, Derived
<1> QED
  BY <1>2, <1>3

\* Whatever an answer does, the draft of its transition is awake.
LEMMA AppliedWakes ==
  ASSUME Acyclic, NEW H, Tree(frames, pending, H), DOMAIN frames \subseteq H,
         Awake(Draft, {}), terminal = None, DOMAIN cleanups = {},
         runCancellation.awaiting = {},
         NEW op \in pending, NEW a \in Answers(op), NEW e, e = applied(op, a)
  PROVE  Wakes(e) /\ e.pending = pending \ {op} /\ (e.terminal # None => e.pending = {})
<1> DEFINE d == AnswerDraft(op)
           cleanup == cancellationsOf(op)
<1>1. cleanup.run = FALSE /\ DOMAIN cleanup = {"owners", "run"}
  <2>1. (op \in runCancellation.awaiting) = FALSE
    OBVIOUS
  <2>2. cleanup = [owners |-> cancellationOwners(op), run |-> FALSE]
    BY <2>1, Zenon DEF cancellationsOf
  <2> QED
    BY <2>2
<1>2. \/ e = Invalid(d)
      \/ e = storeCleanupResult(d, op, a, cleanup)
      \/ e = applyOrdinaryResult(d, op, a, cleanup.run)
  BY <1>1, Zenon DEF applied, AnswerDraft
<1>3. Local(cleanup)
  BY <1>1 DEF Local
<1>4. d = AnswerDraft(op)
  OBVIOUS
<1> HIDE DEF d, cleanup
<1>5. /\ Good(d, H) /\ d.pending = pending \ {op}
      /\ IsRegion(RegionOf(op)) /\ RegionOf(op) \in DOMAIN d.frames
      /\ Vacant(d, H, RegionOf(op), Last(op))
  BY <1>4, AnswerVacates
<1>6. d.terminal = None
  BY <1>4, DraftIsDraft DEF AnswerDraft, IsDraft, DraftFields
<1>7. Awake(d, {RegionOf(op)})
  BY <1>4, AwakeAnswer
<1>8. CASE e = Invalid(d)
  BY <1>5, <1>6, <1>8 DEF Invalid, Wakes, Good, IsDraft, DraftFields
<1>9. CASE e = storeCleanupResult(d, op, a, cleanup)
  <2>1. e.valid => Awake(e, {}) /\ e.terminal = d.terminal
    BY <1>3, <1>5, <1>7, <1>9, CleanupWakes
  <2>2. Keeps(d, e)
    BY <1>5, <1>9, CleanupKeeps DEF Good
  <2> QED
    BY <1>5, <1>6, <2>1, <2>2 DEF Wakes, Keeps, Derived
<1>10. CASE e = applyOrdinaryResult(d, op, a, cleanup.run)
  <2>1. ~cleanup.run
    BY <1>1
  <2>2. Wakes(e) /\ e.pending = d.pending /\ (e.terminal # None => e.pending = {})
    BY <1>5, <1>6, <1>7, <1>10, <2>1, OrdinaryWakes
  <2> QED
    BY <1>5, <2>2
<1> QED
  BY <1>2, <1>8, <1>9, <1>10

-----------------------------------------------------------------------------
(*****************************************************************************)
(* The invariant.                                                            *)
(*****************************************************************************)
\* As long as the run goes on, the transition being computed is awake, and one
\* that has selected an outcome left nothing pending.
Wakeful ==
  status = "running" =>
    /\ runCancellation.awaiting = {}
    /\ valid /\ terminal = None => Awake(Draft, {})
    /\ terminal # None => pending = {}
    /\ phase = "rest" => queue = <<>> /\ cleanups = <<>>

\* What the proofs rest on.
WakeInv == TreeInv /\ Wakeful

\* The next state is awake when it is an awake draft.
LEMMA DraftWakes ==
  ASSUME NEW e, Awake(e, {}), frames' = e.frames, pending' = e.pending,
         queue' = e.queue, cleanups' = e.cleanups
  PROVE  Awake(Draft, {})'
<1> DEFINE d == [frames |-> frames', pending |-> pending', queue |-> queue',
                 cleanups |-> cleanups', terminal |-> terminal', cancel |-> NoOwner,
                 valid |-> TRUE, work |-> work']
<1>1. /\ IsDraft(d)
      /\ d.frames = e.frames /\ d.pending = e.pending
      /\ d.queue = e.queue /\ d.cleanups = e.cleanups
  BY DEF IsDraft, DraftFields
<1> HIDE DEF d
<1>2. Awake(d, {})
  BY <1>1, AwakeSame
<1> QED
  BY <1>2 DEF Draft, d

\* A run that goes on is not being cancelled.
LEMMA RunningUncancelled ==
  ASSUME TreeInv, status = "running"
  PROVE  ~runCancellation.requested /\ ~Faulty
BY DEF TreeInv, IInv, Finished, Frozen, Faulty, Terminal, None

\* Steps that serve their frame keep the machine awake.
LEMMA ServesWakes ==
  ASSUME Serves, Wakeful, phase = "drain"
  PROVE  Wakeful'
<1>1. PICK e : /\ Commit(e) /\ e.pending = pending /\ Wakes(e)
               /\ e.terminal # None => pending = {}
  BY DEF Serves
<1>2. /\ Structure(e)
      /\ UNCHANGED <<status, pending, runCancellation, phase>>
  BY <1>1 DEF Commit
<1>3. /\ frames' = e.frames /\ queue' = e.queue /\ cleanups' = e.cleanups
      /\ terminal' = e.terminal /\ valid' = e.valid
  BY <1>2 DEF Structure
<1>4. valid' /\ terminal' = None => Awake(Draft, {})'
  BY <1>1, <1>2, <1>3, DraftWakes DEF Wakes
<1> QED
  BY <1>1, <1>2, <1>3, <1>4 DEF Wakeful

\* Starting an operation keeps it awake.
LEMMA OperationWakes ==
  ASSUME NEW H, Serving(H), Wakeful, phase = "drain", NEW n \in DOMAIN Nodes,
         StartActivity(n) \/ StartWait(n) \/ StartHumanGate(n)
  PROVE  Wakeful'
<1> DEFINE r == Head(queue)
           op == Append(r, n)
           e == consumeRegionNode(Entered, r, n)
           fresh == op \notin pending /\ op \notin DOMAIN resolved
           started == [e EXCEPT !.pending = e.pending \cup {op}]
<1>1. (\E kind : AtNode(n, kind)) /\ addExternalOperation(n)
  BY DEF StartActivity, StartWait, StartHumanGate
<1>2. /\ Structure([e EXCEPT !.valid = fresh])
      /\ pending' = IF fresh THEN pending \cup {op} ELSE pending
      /\ UNCHANGED <<status, runCancellation, phase>>
  BY <1>1 DEF addExternalOperation
<1>3. Awake(e, {r}) /\ r \in DOMAIN e.frames /\ IsRegion(r) /\ Keeps(Entered, e) /\ IsDraft(e)
  BY <1>1, TakenServes
<1> HIDE DEF e, fresh
<1>4. /\ frames' = e.frames /\ queue' = e.queue /\ cleanups' = e.cleanups
      /\ terminal' = e.terminal /\ valid' = fresh
  BY <1>2, <1>3 DEF Structure, IsDraft, DraftFields
<1>5. e.terminal = None /\ e.pending = pending
  BY <1>3, EnteredIsDraft DEF Keeps, Derived, Serving
<1>6. /\ IsDraft(started) /\ started.frames = e.frames
      /\ started.pending = e.pending \cup {op}
      /\ started.queue = e.queue /\ started.cleanups = e.cleanups
  BY <1>3 DEF IsDraft, DraftFields
<1> HIDE DEF started
<1>7. Awake(started, {})
  BY <1>3, <1>6, AwakeDispatch
<1>8. valid' => Awake(Draft, {})'
  <2>1. ASSUME fresh
        PROVE  Awake(Draft, {})'
    <3>1. pending' = started.pending
      BY <1>2, <1>5, <1>6, <2>1
    <3> QED
      BY <1>4, <1>6, <1>7, <3>1, DraftWakes
  <2> QED
    BY <1>4, <2>1
<1> QED
  BY <1>2, <1>4, <1>5, <1>8 DEF Wakeful

\* Draining keeps it awake,
LEMMA DrainWakes ==
  ASSUME Acyclic, WakeInv, Drain
  PROVE  Wakeful'
<1> SUFFICES ASSUME status = "running"
             PROVE  Wakeful'
  <2>1. status' = status
    BY DrainKeepsOutcome DEF WakeInv, TreeInv
  <2> QED
    BY <2>1 DEF Wakeful
<1>1. Ready /\ phase = "drain" /\ valid /\ terminal = None
  BY DrainIsReady DEF Ready
<1>2. Awake(Draft, {}) /\ Cancels /\ Wakeful /\ ~runCancellation.requested
  BY <1>1, RunningUncancelled DEF WakeInv, Wakeful, TreeInv
<1>3. Whole(Known) /\ Awaited
  BY KnownTree DEF WakeInv, Awaited
<1> DEFINE H == Known
<1>4. Whole(H)
  BY <1>3
<1> HIDE DEF H
<1>5. Serving(H)
  BY <1>1, <1>2, <1>4, ServingTaken
<1>6. CASE SkipFrame
  BY <1>1, <1>2, <1>5, <1>6, SkipServes, ServesWakes
<1>7. ASSUME NEW n \in DOMAIN Nodes, ExecuteNode(n)
      PROVE  Wakeful'
  <2>1. CASE StartActivity(n) \/ StartWait(n) \/ StartHumanGate(n)
    BY <1>1, <1>2, <1>5, <2>1, OperationWakes
  <2>2. CASE RejectInput(n) \/ SelectChoice(n) \/ MissChoice(n) \/ EndFails(n) \/ EndRoot(n)
    BY <1>1, <1>2, <1>5, <2>2, RejectServes, ChoiceServes, FailedServes, EndRootServes,
       ServesWakes
  <2>3. CASE StartCall(n) \/ StartRepeat(n) \/ StartParallel(n) \/ StartMap(n)
    BY <1>1, <1>2, <1>5, <2>3, CallServes, ParallelServes, MapServes, ServesWakes
  <2>4. CASE EndCall(n) \/ EndBranch(n) \/ EndItem(n) \/ EndRepeat(n) \/ EndIteration(n)
    BY <1>1, <1>2, <1>5, <2>4, EndCallServes, EndBranchServes, EndItemServes, EndRepeatServes,
       EndIterationServes, ServesWakes
  <2> QED
    BY <1>7, <2>1, <2>2, <2>3, <2>4 DEF ExecuteNode
<1>8. CASE SettleParallel \/ SettleMap
  BY <1>1, <1>2, <1>3, <1>5, <1>8, SettleParallelServes, SettleMapServes, ServesWakes
<1> QED
  BY <1>6, <1>7, <1>8 DEF Drain

\* as do applying an event,
LEMMA AnswerWakes ==
  ASSUME Acyclic, WakeInv, NEW op \in pending, NEW a \in Answers(op), ApplyEvent(op, a)
  PROVE  Wakeful'
<1> SUFFICES ASSUME status = "running"
             PROVE  Wakeful'
  <2>1. status' = status
    BY DEF ApplyEvent
  <2> QED
    BY <2>1 DEF Wakeful
<1> DEFINE H == Known
           e == applied(op, a)
<1>1. Tree(frames, pending, H) /\ DOMAIN frames \subseteq H
  BY KnownTree DEF WakeInv
<1>2. e = applied(op, a)
  OBVIOUS
<1> HIDE DEF H, e
<1>3. phase = "rest" /\ valid /\ terminal = None
  BY DEF ApplyEvent, Live, WakeInv, TreeInv, IInv, Resting
<1>4. Awake(Draft, {}) /\ DOMAIN cleanups = {} /\ runCancellation.awaiting = {}
  BY <1>3 DEF WakeInv, Wakeful
<1>5. Wakes(e) /\ e.pending = pending \ {op} /\ (e.terminal # None => e.pending = {})
  BY <1>1, <1>2, <1>3, <1>4, AppliedWakes
<1>6. Structure(e) /\ pending' = pending \ {op}
  BY <1>2 DEF ApplyEvent, withoutOperation
<1>7. phase' = "drain" /\ runCancellation'.awaiting = {}
  <2>1. runCancellation' = [runCancellation EXCEPT !.awaiting = @ \ {op}]
        /\ phase' = "drain"
    BY DEF ApplyEvent
  <2>2. DOMAIN runCancellation = {"requested", "awaiting"}
    BY DEF WakeInv, TreeInv, IInv, TypeOK
  <2> QED
    BY <1>4, <2>1, <2>2
<1>8. /\ frames' = e.frames /\ queue' = e.queue /\ cleanups' = e.cleanups
      /\ terminal' = e.terminal /\ valid' = e.valid
  BY <1>6 DEF Structure
<1>9. valid' /\ terminal' = None => Awake(Draft, {})'
  BY <1>5, <1>6, <1>8, DraftWakes DEF Wakes
<1> QED
  BY <1>5, <1>6, <1>7, <1>8, <1>9 DEF Wakeful

\* finishing the transition,
LEMMA EndWakes ==
  ASSUME Acyclic, WakeInv, Finish
  PROVE  Wakeful'
<1>1. CASE FinishInvalid
  <2>1. status' = "failed"
    BY <1>1 DEF FinishInvalid
  <2> QED
    BY <2>1 DEF Wakeful
<1>2. CASE FinishTerminal
  <2>1. status' # "running"
    BY <1>2 DEF FinishTerminal, Writable, Outcome, WakeInv, TreeInv, IInv, TypeOK, None
  <2> QED
    BY <2>1 DEF Wakeful
<1>3. CASE FinishRest
  <2> SUFFICES ASSUME status = "running"
               PROVE  Wakeful'
    <3>1. status' = status
      BY <1>3 DEF FinishRest
    <3> QED
      BY <3>1 DEF Wakeful
  <2>1. /\ Drained /\ valid /\ ~Writable
        /\ queue' = <<>> /\ cleanups' = <<>> /\ terminal' = None
        /\ UNCHANGED <<status, frames, pending, runCancellation>>
    BY <1>3 DEF FinishRest, Committable, ClearTransition
  <2>2. \A o \in DOMAIN regionCancellations : regionCancellations[o] \in (SUBSET pending) \ {{}}
    BY DEF WakeInv, TreeInv, IInv, TypeOK
  <2>3. terminal = None
    <3>1. terminal # None => pending = {}
      BY DEF WakeInv, Wakeful
    <3>2. pending = {} => DOMAIN regionCancellations = {}
      BY <2>2
    <3> QED
      BY <2>1, <3>1, <3>2 DEF Writable, Outcome
  <2>4. queue = <<>> /\ Awake(Draft, {}) /\ runCancellation.awaiting = {}
    BY <2>1, <2>3 DEF WakeInv, Wakeful, Drained
  <2> DEFINE D == Draft
             d == [D EXCEPT !.cleanups = <<>>]
  <2>5. /\ D.frames = frames /\ D.pending = pending /\ D.queue = queue
        /\ Awake(D, {}) /\ IsDraft(D)
    BY <2>4, DraftIsDraft DEF Draft
  <2> HIDE DEF D
  <2>6. /\ IsDraft(d) /\ d.frames = D.frames /\ d.pending = D.pending
        /\ d.queue = D.queue /\ d.cleanups = <<>>
    BY <2>5 DEF IsDraft, DraftFields
  <2> HIDE DEF d
  <2>7. Awake(d, {})
    <3>1. Calm(d)
      BY <2>5, <2>6 DEF Awake, Calm
    <3>2. \A k \in DOMAIN d.frames \ {} :
            /\ k \in DOMAIN D.frames \ {}
            /\ d.frames[k] = D.frames[k]
            /\ Now(D, k) \subseteq Now(d, k)
            /\ Queued(D, k) => Queued(d, k)
      BY <2>6 DEF Now, Queued
    <3> QED
      BY <2>5, <3>1, <3>2, AwakeKept
  <2>8. Awake(Draft, {})'
    BY <2>1, <2>4, <2>5, <2>6, <2>7, DraftWakes
  <2> QED
    BY <2>1, <2>4, <2>8 DEF Wakeful
<1> QED
  BY <1>1, <1>2, <1>3 DEF Finish

\* a cancellation of the run and an event that is not applied.
LEMMA OtherWakes ==
  ASSUME Wakeful, RequestRunCancellation \/ (\E verdict : Unapplied(verdict)) \/ UNCHANGED vars
  PROVE  Wakeful'
<1>1. CASE RequestRunCancellation
  <2>1. status' = "cancelling"
    BY <1>1 DEF RequestRunCancellation
  <2> QED
    BY <2>1 DEF Wakeful
<1>2. CASE (\E verdict : Unapplied(verdict)) \/ UNCHANGED vars
  <2>1. UNCHANGED <<state, transition>>
    BY <1>2 DEF Unapplied, vars
  <2> QED
    BY <2>1 DEF Wakeful, Draft, state, transition
<1> QED
  BY <1>1, <1>2

\* The first transition has queued the root.
LEMMA InitWakeInv == Init => WakeInv
<1> SUFFICES ASSUME Init PROVE WakeInv
  OBVIOUS
<1>1. TreeInv
  BY InitTreeInv
<1>2. /\ DOMAIN frames = {Root} /\ frames[Root] = RegionFrame(EntryRegion)
      /\ pending = {} /\ queue = <<Root>> /\ DOMAIN cleanups = {}
      /\ terminal = None /\ phase = "drain" /\ runCancellation.awaiting = {}
  BY DEF Init, NotCancelled
<1>3. IsKey(Root) /\ Len(Root) = 1 /\ IsRegion(Root)
  BY DEF IsKey, Root, IsRegion
<1> DEFINE d == Draft
<1>4. /\ IsDraft(d) /\ d.frames = frames /\ d.pending = pending /\ d.queue = queue
      /\ d.cleanups = cleanups
  BY DraftIsDraft DEF Draft
<1> HIDE DEF d
<1>5. Calm(d)
  <2>1. IsKey(queue)
    BY <1>2 DEF IsKey
  <2>2. Closed(frames, pending)
    BY <1>1 DEF TreeInv, Forest, Tree
  <2> QED
    BY <1>2, <1>3, <1>4, <2>1, <2>2 DEF Calm
<1>6. Served(Root, frames[Root], Now(d, Root), Queued(d, Root))
  <2>1. Queued(d, Root)
    BY <1>2, <1>4 DEF Queued, Contains
  <2>2. frames[Root].ready # {}
    BY <1>2 DEF RegionFrame
  <2> QED
    BY <1>3, <2>1, <2>2 DEF Served
<1>7. Awake(d, {})
  BY <1>2, <1>4, <1>5, <1>6 DEF Awake
<1> QED
  BY <1>1, <1>2, <1>7 DEF WakeInv, Wakeful, d

\* The invariant is inductive.
LEMMA NextWakeInv ==
  ASSUME Acyclic, WakeInv, [Next]_vars
  PROVE  WakeInv'
<1>1. TreeInv'
  BY NextTreeInv DEF WakeInv
<1> SUFFICES Wakeful'
  BY <1>1 DEF WakeInv
<1>2. CASE Drain
  BY <1>2, DrainWakes
<1>3. CASE Finish
  BY <1>3, EndWakes
<1>4. CASE Event
  <2>1. CASE \E op \in pending : \E a \in Answers(op) : ApplyEvent(op, a)
    BY <2>1, AnswerWakes
  <2>2. CASE ~\E op \in pending : \E a \in Answers(op) : ApplyEvent(op, a)
    <3>1. RequestRunCancellation \/ \E verdict : Unapplied(verdict)
      BY <1>4, <2>2, Zenon DEF Event, Redeliver, RedeliverLate, RejectEvent, IgnoreEvent
    <3> QED
      BY <3>1, OtherWakes DEF WakeInv
  <2> QED
    BY <2>1, <2>2
<1>5. CASE UNCHANGED vars
  BY <1>5, OtherWakes DEF WakeInv
<1> QED
  BY <1>2, <1>3, <1>4, <1>5 DEF Next

\* A run that goes on is awake between any two steps, and while no transition is
\* computed it is awake with an empty queue.
THEOREM WakefulInvariant ==
  ASSUME Acyclic
  PROVE  Spec => []WakeInv
<1>1. WakeInv /\ [Next]_vars => WakeInv'
  BY NextWakeInv
<1> QED
  BY InitWakeInv, <1>1, PTL DEF Spec

-----------------------------------------------------------------------------
(*****************************************************************************)
(* At rest.                                                                  *)
(*****************************************************************************)
\* What the run waits for below k.
Awaits(k) == Steps(k, DOMAIN frames \cup pending)

\* The children of a live frame are the keys its steps lead to.
LEMMA ChildrenAreSteps ==
  ASSUME Forest, NEW k \in DOMAIN frames
  PROVE  Children(k) = ChildrenOf(k, Awaits(k))
<1> DEFINE keys == DOMAIN frames \cup pending
<1>1. /\ IsKey(k) /\ Len(k) \in Nat
      /\ \A x \in keys : IsKey(x) /\ Len(x) \in Nat
      /\ Closed(frames, pending)
  BY DEF Forest, Tree, Keyed, IsKey
<1>2. ASSUME NEW x \in keys, Len(x) = Len(k) + 1, IsPrefix(k, x)
      PROVE  x \in ChildrenOf(k, Awaits(k))
  <2> DEFINE s == Step(k, x)
             c == Append(k, s)
  <2>1. Below(k, x)
    BY <1>1, <1>2, BelowIsShorter
  <2>2. s \in Awaits(k)
    BY <2>1 DEF Awaits, Steps
  <2>3. IsKey(c) /\ Len(c) = Len(x) /\ IsPrefix(c, x)
    BY <1>1, <1>2, <2>1, KeyAppend, ChildAbove
  <2> DEFINE m == Len(x)
  <2>4. m \in 1..Len(x) /\ IsKey(x) /\ IsPrefix(x, x)
    BY <1>1, <1>2, PrefixItself
  <2> HIDE DEF c, m
  <2>5. c = SubSeq(x, 1, m) /\ x = SubSeq(x, 1, m)
    BY <2>3, <2>4, PrefixOfKey DEF m
  <2> QED
    BY <2>2, <2>5 DEF c, ChildrenOf
<1>3. ASSUME NEW s \in Awaits(k)
      PROVE  /\ Append(k, s) \in keys
             /\ Len(Append(k, s)) = Len(k) + 1 /\ IsPrefix(k, Append(k, s))
  <2> DEFINE c == Append(k, s)
             m == Len(k) + 1
  <2>1. PICK y \in keys : Below(k, y) /\ Step(k, y) = s
    BY DEF Awaits, Steps
  <2>2. IsKey(c) /\ Len(c) = m /\ IsPrefix(c, y) /\ Len(k) < Len(y)
    BY <1>1, <2>1, KeyAppend, ChildAbove, BelowIsShorter
  <2>3. m \in 1..Len(y) /\ IsKey(y) /\ IsPrefix(y, y)
    BY <1>1, <2>2, PrefixItself
  <2>4. IsPrefix(k, c)
    BY <1>1, <2>2, BelowChild, PrefixItself, BelowIsShorter
  <2> HIDE DEF c
  <2>5. c = SubSeq(y, 1, m) /\ (m = Len(y) => y = SubSeq(y, 1, m))
    BY <2>2, <2>3, PrefixOfKey
  <2>6. ASSUME m < Len(y)
        PROVE  c \in keys
    <3>1. m \in 1..(Len(y) - 1)
      BY <1>1, <2>6
    <3> QED
      BY <1>1, <2>5, <3>1 DEF Closed
  <2>7. ASSUME m = Len(y)
        PROVE  c \in keys
    BY <2>1, <2>5, <2>7
  <2>8. c \in keys
    BY <1>1, <2>3, <2>6, <2>7
  <2> QED
    BY <2>2, <2>4, <2>8 DEF c
<1> QED
  BY <1>2, <1>3 DEF Children, ChildrenOf

\* A region waits for one thing.
LEMMA RegionAwaitsOne ==
  ASSUME Acyclic, Forest, NEW k \in DOMAIN frames, IsRegion(k), Awaits(k) # {}
  PROVE  frames[k].ready = {} /\ \E n : Awaits(k) = {n}
<1> DEFINE now == Awaits(k)
           ever == Steps(k, DOMAIN frames \cup pending \cup answered)
<1>1. RegionFits(frames[k], now, ever)
  BY DEF Forest, Tree, Fits, Awaits
<1>2. now \subseteq ever
  BY StepsLess DEF Awaits
<1> HIDE DEF now, ever
<1>3. Rank \in [DOMAIN Nodes -> Nat]
  BY RankOrders DEF Ordered
<1>4. \A m, n \in now : m = n
  <2> SUFFICES ASSUME NEW m \in now, NEW n \in now
               PROVE  m = n
    OBVIOUS
  <2>1. m \in DOMAIN Nodes /\ n \in DOMAIN Nodes
    BY <1>1, <1>2 DEF RegionFits
  <2>2. (m = n \/ Rank[m] < Rank[n]) /\ (n = m \/ Rank[n] < Rank[m])
    BY <1>1, <1>2 DEF RegionFits
  <2>3. Rank[m] \in Nat /\ Rank[n] \in Nat
    BY <1>3, <2>1
  <2> QED
    BY <2>2, <2>3
<1>5. now # {}
  BY DEF now
<1>6. PICK n : n \in now
  BY <1>5
<1>7. now = {n}
  BY <1>4, <1>6
<1>8. frames[k].ready = {}
  BY <1>1, <1>5 DEF RegionFits
<1> QED
  BY <1>7, <1>8 DEF now

\* In a run at rest that goes on, every frame is served without being queued.
LEMMA RestServes ==
  ASSUME WakeInv, Live, status = "running"
  PROVE  /\ Root \in DOMAIN frames
         /\ \A k \in DOMAIN frames : Served(k, frames[k], Awaits(k), FALSE)
<1>1. Awake(Draft, {}) /\ queue = <<>>
  BY DEF WakeInv, Wakeful, TreeInv, IInv, Resting, Live
<1> DEFINE d == Draft
<1>2. /\ Awake(d, {}) /\ d.frames = frames /\ d.pending = pending /\ d.queue = <<>>
  BY <1>1, DraftIsDraft DEF Draft
<1> HIDE DEF d
<1>3. \A k : ~Queued(d, k)
  BY <1>2 DEF Queued, Contains
<1>4. ASSUME NEW k \in DOMAIN frames
      PROVE  Served(k, frames[k], Awaits(k), FALSE)
  <2>1. Served(k, frames[k], Now(d, k), Queued(d, k))
    BY <1>2 DEF Awake
  <2>2. Now(d, k) = Awaits(k)
    BY <1>2 DEF Now, Awaits
  <2> QED
    BY <1>3, <2>1, <2>2 DEF Served
<1> QED
  BY <1>2, <1>4 DEF Awake, Calm

\* There is no lost wake-up: a running pipeline at rest waits for the host in
\* every region and under every owner, whatever the program.
THEOREM HostIsAwaited ==
  ASSUME Acyclic
  PROVE  Spec => []WaitsForHost
<1>1. ASSUME WakeInv
      PROVE  WaitsForHost
  <2> SUFFICES ASSUME Live, status = "running"
               PROVE  /\ Root \in Regions
                      /\ \A r \in Regions : frames[r].ready = {} /\ Cardinality(Children(r)) = 1
                      /\ \A o \in DOMAIN frames \ Regions : Children(o) # {}
                      /\ \A o \in Parallels :
                           /\ Children(o) = {Append(o, b) : b \in frames[o].live}
                           /\ DOMAIN frames[o].results = ToSet(NodeAt(o).order) \ frames[o].live
                      /\ \A o \in Maps : Children(o) = {Append(o, i) : i \in frames[o].active}
    BY DEF WaitsForHost
  <2>1. /\ Forest /\ Root \in DOMAIN frames
        /\ \A k \in DOMAIN frames : Served(k, frames[k], Awaits(k), FALSE)
    BY <1>1, RestServes DEF WakeInv, TreeInv
  <2>2. \A k \in DOMAIN frames : Children(k) = ChildrenOf(k, Awaits(k))
    BY <2>1, ChildrenAreSteps
  <2>3. Root \in Regions
    <3>1. Len(Root) = 1
      BY DEF Root
    <3>2. IsRegion(Root)
      BY <3>1 DEF IsRegion
    <3> QED
      BY <2>1, <3>2 DEF Regions
  <2>4. ASSUME NEW r \in Regions
        PROVE  frames[r].ready = {} /\ Cardinality(Children(r)) = 1
    <3>1. r \in DOMAIN frames /\ IsRegion(r)
      BY DEF Regions
    <3>2. Awaits(r) # {}
      BY <2>1, <3>1 DEF Served
    <3>3. PICK n : frames[r].ready = {} /\ Awaits(r) = {n}
      BY <2>1, <3>1, <3>2, RegionAwaitsOne
    <3>4. Children(r) = {Append(r, n)}
      BY <2>2, <3>1, <3>3 DEF ChildrenOf
    <3> QED
      BY <3>3, <3>4, FS_Singleton
  <2>5. ASSUME NEW o \in DOMAIN frames, ~IsRegion(o)
        PROVE  /\ NodeAt(o).kind \in {"call", "repeat", "parallel", "map"}
               /\ Awaits(o) # {}
               /\ NodeAt(o).kind = "parallel" =>
                    /\ Awaits(o) = frames[o].live
                    /\ DOMAIN frames[o].results = ToSet(NodeAt(o).order) \ frames[o].live
               /\ NodeAt(o).kind = "map" => Awaits(o) = frames[o].active
    <3> DEFINE now == Awaits(o)
               ever == Steps(o, DOMAIN frames \cup pending \cup answered)
    <3>1. Fits(o, frames[o], now, ever)
      BY <2>1 DEF Forest, Tree, Awaits
    <3>2. Served(o, frames[o], now, FALSE)
      BY <2>1
    <3> HIDE DEF now, ever
    <3>3. NodeAt(o).kind \in {"call", "repeat", "parallel", "map"}
      BY <2>5, <3>1 DEF Fits
    <3>4. NodeAt(o).kind \in {"call", "repeat"} => now # {}
      BY <2>5, <3>2 DEF Served
    <3>5. ASSUME NodeAt(o).kind = "parallel"
          PROVE  /\ now = frames[o].live /\ now # {}
                 /\ DOMAIN frames[o].results = ToSet(NodeAt(o).order) \ frames[o].live
      BY <2>5, <3>1, <3>2, <3>5 DEF Fits, ParallelFits, Served, Minded
    <3>6. ASSUME NodeAt(o).kind = "map"
          PROVE  now = frames[o].active /\ now # {}
      BY <2>5, <3>1, <3>2, <3>6 DEF Fits, MapFits, Served, Lagging
    <3> QED
      BY <3>3, <3>4, <3>5, <3>6 DEF now
  <2>6. ASSUME NEW o \in DOMAIN frames \ Regions
        PROVE  Children(o) # {}
    <3>1. Children(o) = ChildrenOf(o, Awaits(o)) /\ Awaits(o) # {}
      BY <2>2, <2>5 DEF Regions
    <3> QED
      BY <3>1 DEF ChildrenOf
  <2>7. ASSUME NEW o \in Parallels
        PROVE  /\ Children(o) = {Append(o, b) : b \in frames[o].live}
               /\ DOMAIN frames[o].results = ToSet(NodeAt(o).order) \ frames[o].live
    BY <2>2, <2>5 DEF Parallels, ChildrenOf
  <2>8. ASSUME NEW o \in Maps
        PROVE  Children(o) = {Append(o, i) : i \in frames[o].active}
    BY <2>2, <2>5 DEF Maps, ChildrenOf
  <2> QED
    BY <2>3, <2>4, <2>6, <2>7, <2>8
<1> QED
  BY <1>1, WakefulInvariant, PTL

\* At rest a map of a running pipeline runs as many items as it may.
THEOREM MapsKeepBusy ==
  ASSUME Acyclic
  PROVE  Spec => []MapKeepsConcurrency
<1>1. ASSUME WakeInv
      PROVE  MapKeepsConcurrency
  <2> SUFFICES ASSUME Live, status = "running", NEW o \in Maps
               PROVE  /\ Cardinality(frames[o].active) <= NodeAt(o).concurrency
                      /\ frames[o].selected = None /\ frames[o].unstarted # <<>>
                           => Cardinality(frames[o].active) = NodeAt(o).concurrency
    BY DEF MapKeepsConcurrency
  <2>1. o \in DOMAIN frames /\ ~IsRegion(o) /\ NodeAt(o).kind = "map"
    BY DEF Maps
  <2>2. ~Lagging(NodeAt(o), frames[o])
    BY <1>1, <2>1, RestServes DEF Served
  <2>3. Cardinality(frames[o].active) <= NodeAt(o).concurrency
    BY <1>1, <2>1 DEF WakeInv, TreeInv, Forest, Tree, Fits, MapFits
  <2> QED
    BY <2>2, <2>3 DEF Lagging
<1> QED
  BY <1>1, WakefulInvariant, PTL

=============================================================================
