------------------------------ MODULE BoxCaches ------------------------------
(***************************************************************************)
(* Traversal with bounding box caches.  An SoGetBoundingBoxAction goes     *)
(* through the scene graph with a state: a stack for each element, pushed  *)
(* lazily.  A separator keeps what it found in a cache, and so does a      *)
(* shape that is slow; a cache records the elements that were read while   *)
(* it was open and had been set outside of it, and may be used as long as  *)
(* no notification has reached its node and these elements match.          *)
(*                                                                         *)
(* An action is one step, as the application may not change the scene      *)
(* graph while it is traversed.  A box is the list of what went into it.   *)
(* That a notification reaches all nodes above is shown in SceneGraph.     *)
(***************************************************************************)
EXTENDS Naturals, SequencesExt, FiniteSetsExt, Functions

CONSTANTS
    Separator, Property, Shape, None,
    Element,
    CacheElement,   \* SoCacheElement, whose value is an open cache
    Scene,          \* the children of each separator to begin with
    Editable,       \* pairs of a separator and a child it may get or lose
    Sets,           \* the element a property node sets
    Reads,          \* the elements a shape reads
    Accumulating,   \* elements that add to what is below them in the stack
    Lines,          \* shapes of lines or points
    Slow,           \* shapes that have a cache of their own
    Volatile,       \* shapes that change without notification, and so
                    \* invalidate all caches that are open
    MaxChanges      \* bound on the changes of nodes and of their children

Node == Separator \union Property \union Shape
Cache == Separator \union Slow      \* named after its node

ASSUME BoxAssumption ==
    /\ Scene \in [Separator -> Seq(Node)] /\ Editable \subseteq Separator \X Node
    /\ Sets \in [Property -> Element] /\ Reads \in [Shape -> SUBSET Element]
    /\ Accumulating \subseteq Element /\ Lines \union Slow \union Volatile \subseteq Shape
    /\ MaxChanges \in Nat /\ CacheElement \notin Element

VARIABLES
    children,   \* of a separator
    version,    \* of a property or shape: its contents, and its node id
    caches,     \* the cache of a separator or slow shape, or None
    state,      \* the action's state, as the last traversal left it
    root,       \* what the action was applied to, None if it was before a change
    box,        \* what it found
    changes     \* the number of changes so far

vars == <<children, version, caches, state, root, box, changes>>

(* An element in its stack: the ids of the nodes that set it, whether it   *)
(* copied them from the one below, and in the cache element the cache.     *)
Bottom == [depth |-> 0, ids |-> <<>>, recursecapture |-> FALSE, cache |-> None]

InitialState ==
    [depth |-> 0, cacheopen |-> FALSE, pushstore |-> <<<<>>>>,
     stack |-> [e \in Element \union {CacheElement} |-> <<Bottom>>]]

(* A traversal in progress has this state, and these fields.               *)
Traversal(s) == [state |-> s, caches |-> caches, box |-> <<>>]

-----------------------------------------------------------------------------
(* SoState.                                                                *)

Top(s, e) == Last(s.stack[e])

Push(s) == [s EXCEPT !.depth = @ + 1, !.pushstore = Append(@, <<>>)]

(* SoState::getElement: for writing, so at the depth of the state.         *)
GetElement(s, e) ==
    LET below == Top(s, e)
        next == IF e \in Accumulating
                THEN [below EXCEPT !.depth = s.depth, !.recursecapture = TRUE]
                ELSE [Bottom EXCEPT !.depth = s.depth]
    IN  IF below.depth = s.depth THEN s
        ELSE [s EXCEPT !.stack[e] = Append(@, next),
                       !.pushstore[Len(s.pushstore)] = Append(@, e)]

AnyOpen(s) == \E i \in DOMAIN s.stack[CacheElement] : s.stack[CacheElement][i].cache # None

(* SoState::pop, and SoCacheElement::pop.                                  *)
\* mutant: once a cache has been open the state goes on as if one were
PopOpen(s) ==
    LET pushed == ToSet(Last(s.pushstore))
    IN  [s EXCEPT !.depth = @ - 1, !.pushstore = Front(@),
                  !.stack = [e \in DOMAIN @ |-> IF e \in pushed THEN Front(@[e]) ELSE @[e]]]

Pop(s) ==
    LET pushed == ToSet(Last(s.pushstore))
        t == [s EXCEPT !.depth = @ - 1, !.pushstore = Front(@),
                !.stack = [e \in DOMAIN @ |-> IF e \in pushed THEN Front(@[e]) ELSE @[e]]]
    IN  IF CacheElement \in pushed /\ ~AnyOpen(t) THEN [t EXCEPT !.cacheopen = FALSE] ELSE t

(* What the node sets (SoReplacedElement::getElement, addNodeId).          *)
Set(s, n) ==
    LET e == Sets[n]
        t == GetElement(s, e)
        id == <<n, version[n]>>
        ids == IF e \in Accumulating THEN Append(Top(t, e).ids, id) ELSE <<id>>
    IN  [t EXCEPT !.stack[e] = Append(Front(@), [Last(@) EXCEPT !.ids = ids])]

-----------------------------------------------------------------------------
(* SoCache and SoCacheElement.  deps has the elements the cache depends on *)
(* with their ids (copyMatchInfo).                                         *)

NewCache(depth) == [invalidated |-> FALSE, statedepth |-> depth, deps |-> <<>>,
                    box |-> <<>>, lines |-> FALSE]

(* All open caches, and those down to the first element without one.       *)
Open(t) == {t.state.stack[CacheElement][i].cache :
              i \in DOMAIN t.state.stack[CacheElement]} \ {None}

OpenOnTop(t) ==
    LET st == t.state.stack[CacheElement]
        Closed == {i \in DOMAIN st : st[i].cache = None}
    IN  {st[i].cache : i \in Max(Closed) + 1 .. Len(st)}

UpdateCaches(t, C, Op(_)) ==
    [t EXCEPT !.caches = [c \in Cache |-> IF c \in C THEN Op(@[c]) ELSE @[c]]]

\* mutant: also depend on what is set while the cache is open
OutsideAlso(elem, cache) == elem.depth <= cache.statedepth

Outside(elem, cache) == elem.depth < cache.statedepth

(* SoCache::addElement                                                     *)
AddElement(cache, e, elem) ==
    IF Outside(elem, cache) /\ e \notin DOMAIN cache.deps
    THEN [cache EXCEPT !.deps = [x \in DOMAIN @ \union {e} |->
                                   IF x = e THEN elem.ids ELSE @[x]]]
    ELSE cache

(* SoElement::getConstElement with its capture; an accumulating element    *)
(* has those captured that it took over (SoAccumulatedElement).            *)
Capture(t, e) ==
    LET st == t.state.stack[e]
        Copied == {i \in DOMAIN st : \A j \in i + 1 .. Len(st) : st[j].recursecapture}
        down == Reverse(SetToSortSeq(Copied, LAMBDA i, j : i < j))
        Add(x, i) == UpdateCaches(x, Open(t), LAMBDA c : AddElement(c, e, st[i]))
    IN  IF t.state.cacheopen THEN FoldLeft(Add, t, down) ELSE t

(* SoCacheElement::addCacheDependency                                      *)
\* mutant: the open caches do not depend on what a used one depends on
AddCacheDependencyNot(t, used) == t

AddCacheDependency(t, used) ==
    LET Add(c) == FoldSet(LAMBDA e, x : AddElement(x, e, Top(t.state, e)),
                          c, DOMAIN t.caches[used].deps)
    IN  UpdateCaches(t, OpenOnTop(t), Add)

(* SoCache::isValid                                                        *)
IsValid(C, c, s) ==
    /\ C[c] # None /\ ~C[c].invalidated
    /\ \A e \in DOMAIN C[c].deps : C[c].deps[e] = Top(s, e).ids

Invalidate(t) == UpdateCaches(t, OpenOnTop(t), LAMBDA c : [c EXCEPT !.invalidated = TRUE])

SetHasLinesOrPoints(t) == UpdateCaches(t, Open(t), LAMBDA c : [c EXCEPT !.lines = TRUE])

(* SoCacheElement::set, after a push: the cache of n records dependencies. *)
OpenCache(t, n) ==
    LET s == GetElement(Push(t.state), CacheElement)
    IN  [t EXCEPT !.caches[n] = NewCache(s.depth),
                  !.state = [s EXCEPT !.cacheopen = TRUE,
                     !.stack[CacheElement] = Append(Front(@), [Last(@) EXCEPT !.cache = n])]]

(* The box found since the cache of n was opened, before it held outer.    *)
CloseCache(t, n, outer) ==
    [t EXCEPT !.caches[n].box = t.box, !.box = outer \o t.box, !.state = Pop(@)]

-----------------------------------------------------------------------------
(* Traversal: the getBoundingBox of each kind of node.                     *)

(* What a shape finds, with the elements it reads.                         *)
Entry(n, ids) == <<n, version[n], [e \in Reads[n] |-> ids[e]]>>

ComputeBBox(t, n) ==
    LET ids == [e \in Reads[n] |-> Top(t.state, e).ids]
        u == IF n \in Volatile THEN Invalidate(t) ELSE t
    IN  [FoldSet(LAMBDA e, x : Capture(x, e), u, Reads[n]) EXCEPT !.box = Append(@, Entry(n, ids))]

(* SoShape::getBBox: a slow shape gets its cache when it has been computed *)
(* once, and computes again.                                               *)
VisitShape(t, n) ==
    LET found == ComputeBBox(t, n)
        again == CloseCache(ComputeBBox([OpenCache(found, n) EXCEPT !.box = <<>>], n), n, t.box)
        u == IF n \notin Slow THEN found
             ELSE IF IsValid(t.caches, n, t.state)
                  THEN [t EXCEPT !.box = @ \o t.caches[n].box]
                  ELSE again
    IN  IF n \in Lines THEN SetHasLinesOrPoints(u) ELSE u

\* mutant: a cache that is used does not tell whether there are lines in it
UseCacheOnly(t, n) == [AddCacheDependency(t, n) EXCEPT !.box = @ \o t.caches[n].box]

UseCache(t, n) ==
    LET u == [AddCacheDependency(t, n) EXCEPT !.box = @ \o t.caches[n].box]
    IN  IF t.caches[n].lines THEN SetHasLinesOrPoints(u) ELSE u

RECURSIVE Visit(_, _)

(* SoSeparator::getBoundingBox                                             *)
VisitSeparator(t, n) ==
    IF IsValid(t.caches, n, t.state) THEN UseCache(t, n)
    ELSE CloseCache(FoldLeft(Visit, [OpenCache(t, n) EXCEPT !.box = <<>>], children[n]),
                    n, t.box)

Visit(t, n) ==
    IF n \in Separator THEN VisitSeparator(t, n)
    ELSE IF n \in Shape THEN VisitShape(t, n)
    ELSE [t EXCEPT !.state = Set(@, n)]

-----------------------------------------------------------------------------
RECURSIVE Below(_)
Below(n) == {n} \union IF n \notin Separator THEN {}
                       ELSE UNION {Below(c) : c \in ToSet(children[n])}

(* SoSeparator::notify and SoShape::notify, of all nodes above a change.   *)
Notified(n) ==
    [c \in Cache |-> IF n \in Below(c) /\ caches[c] # None
                     THEN [caches[c] EXCEPT !.invalidated = TRUE] ELSE caches[c]]

Changed == changes < MaxChanges /\ changes' = changes + 1 /\ root' = None /\ box' = <<>>

Change(n) ==
    /\ n \in (Property \union Shape) \ Volatile /\ Changed
    /\ version' = [version EXCEPT ![n] = @ + 1]
    /\ caches' = Notified(n)
    /\ UNCHANGED <<children, state>>

ChangeSilently(n) ==
    /\ n \in Volatile /\ Changed
    /\ version' = [version EXCEPT ![n] = @ + 1]
    /\ UNCHANGED <<children, caches, state>>

(* A child is added or removed; its parent starts the notification.        *)
Edit(n, child) ==
    /\ <<n, child>> \in Editable /\ n \notin Below(child) /\ Changed
    /\ children' = [children EXCEPT ![n] = IF Contains(@, child) THEN RemoveFirst(@, child)
                                           ELSE Append(@, child)]
    /\ caches' = Notified(n)
    /\ UNCHANGED <<version, state>>

(* SoGetBoundingBoxAction::apply                                           *)
Apply(n) ==
    LET t == Visit(Traversal(state), n)
    IN  /\ n \in Separator
        /\ root' = n /\ box' = t.box /\ caches' = t.caches /\ state' = t.state
        /\ UNCHANGED <<children, version, changes>>

Init ==
    /\ children = Scene /\ version = [n \in Property \union Shape |-> 0]
    /\ caches = [c \in Cache |-> None] /\ state = InitialState
    /\ root = None /\ box = <<>> /\ changes = 0

Next ==
    \/ \E n \in Node : Change(n) \/ ChangeSilently(n) \/ Apply(n)
    \/ \E pair \in Editable : Edit(pair[1], pair[2])

Spec == Init /\ [][Next]_vars

-----------------------------------------------------------------------------
(* The box of a node without caches: the nodes in order, each shape with   *)
(* the elements as the nodes before it have set them.                      *)
RECURSIVE Reference(_, _)
Reference(r, n) ==
    LET e == Sets[n]
        id == <<n, version[n]>>
        inside == FoldLeft(Reference, r, children[n])
    IN  IF n \in Separator THEN [r EXCEPT !.box = inside.box]
        ELSE IF n \in Shape THEN [r EXCEPT !.box = Append(@, Entry(n, r.ids))]
        ELSE [r EXCEPT !.ids[e] = IF e \in Accumulating THEN Append(@, id) ELSE <<id>>]

(* The caches make no difference: the action finds the box that it would   *)
(* find if it visited every node, whatever was changed, added and removed  *)
(* before and from wherever it was applied (SoCache: the dependencies      *)
(* "will automatically be picked up when creating the cache").             *)
BoxIsCurrent ==
    root # None =>
      box = Reference([ids |-> [e \in Element |-> <<>>], box |-> <<>>], root).box

(* A cache that may be used knows whether there are lines or points in it  *)
(* (SoBoundingBoxCache::hasLinesOrPoints), also those of a separator whose *)
(* own cache was used when it was built.                                   *)
LinesKnown ==
    \A n \in Separator :
      caches[n] # None /\ ~caches[n].invalidated
        => caches[n].lines = (Below(n) \intersect Lines # {})

(* Caches are of use: what the action was just applied to has a cache that *)
(* is valid if it is applied again, unless something in it is volatile.    *)
AppliedIsCached ==
    root # None /\ Below(root) \intersect Volatile = {} => IsValid(caches, root, state)

(* A traversal leaves the state as it found it: every element that was     *)
(* pushed is popped, and no cache is left open.                            *)
StateRestored ==
    /\ state = InitialState
    /\ version \in [Property \union Shape -> 0 .. changes]
    /\ \A c \in Cache : caches[c] = None \/ DOMAIN caches[c].deps \subseteq Element
    /\ root \in Separator \union {None}

=============================================================================
