----------------------------- MODULE SceneGraph -----------------------------
(***************************************************************************)
(* The scene graph: groups and their child lists, the reference counts     *)
(* that keep nodes alive, the notification that gives a changed node and   *)
(* all that is above it a new id, the paths that follow the changes of the *)
(* lists they lead through, and the sensors attached to paths.             *)
(*                                                                         *)
(* A call of the application runs to its end before the next one: the      *)
(* immediate sensors that a call may trigger only take note of it, and     *)
(* change neither the scene graph nor a path.  The application makes no    *)
(* cycles, and uses no node or path it no longer can reach.                *)
(***************************************************************************)
EXTENDS Integers, SequencesExt, FiniteSetsExt

CONSTANTS
    Node, None,
    Groups,         \* the nodes with children, by address (SbPtr order)
    Kit,            \* groups whose children are hidden: not an SoGroup
    Separator,      \* groups that do not affect the state
    Path,
    Scene,          \* the children of each group to begin with
    Routes,         \* to begin with, a path is empty or a head and the
                    \* indices down from it
    MaxChildren,    \* bound on the length of a child list
    MaxCut,         \* bound on the children removed by removeAllChildren
    MaxCalls        \* bound on the calls of the application

Group == ToSet(Groups)

ASSUME SceneAssumption ==
    /\ Group \subseteq Node /\ Kit \union Separator \subseteq Group
    /\ None \notin Node /\ Scene \in [Group -> Seq(Node)]
    /\ {MaxChildren, MaxCut, MaxCalls} \subseteq Nat

VARIABLES
    g,          \* the graph: a record, as one call goes through many objects
    held,       \* the nodes the application has a reference to
    calls       \* calls the application has made

vars == <<g, held, calls>>

(* The fields of g; the last three are history, of the last call.          *)
Graph == [children : [Group -> Seq(Node)],
          auditors : [Node -> [Group -> Nat]],  \* how often a parent audits
          refs : [Node -> Nat], alive : SUBSET Node,
          nodes : [Path -> Seq(Node)], indices : [Path -> Seq(Nat)],
          firsthidden : [Path -> Int], firsthiddendirty : [Path -> BOOLEAN],
          listeners : [Group -> Seq(Path)],     \* the paths a list updates
          headnode : [Path -> Node \union {None}],  \* of the path's sensor
          fresh : SUBSET Node,      \* nodes that got a new id
          told : SUBSET Path,       \* paths whose sensor was scheduled
          source : Node \union {None}]  \* node that was touched

-----------------------------------------------------------------------------
(* Notification.                                                           *)

Affects(n) == n \notin Separator

\* mutant: only the node that changed is asked whether it is a separator
SealedSource(chain, first) == ~Affects(Last(chain))

Sealed(chain, first) == \E k \in first .. Len(chain) : ~Affects(chain[k])

(* SoPath::isRelevantNotification, of the nodes from the head of the path  *)
(* down to the one that changed: in the path, or left of it with no        *)
(* separator in between.                                                   *)
IsRelevant(s, p, chain) ==
    LET path == s.nodes[p]
        On(k) == k <= Len(path) /\ chain[k] = path[k]
        off == {k \in 2 .. Len(chain) : k <= Len(path) /\ ~On(k)}
        first == Min(off)
        parent == path[first - 1]
        childidx == Min({i \in DOMAIN s.children[parent] :
                           s.children[parent][i] = chain[first]}) - 1
    IN  /\ path # <<>>
        /\ IF Len(path) = 1 THEN chain[1] = path[1]
           ELSE off # {} => /\ childidx <= s.indices[p][first]
                            /\ ~Sealed(chain, first)

RECURSIVE Notify(_, _, _)

\* mutant: only the first of a node's parents is told
NotifyParentsFirst(s, n, chain) ==
    LET P == SelectSeq(Groups, LAMBDA q : s.auditors[n][q] > 0)
    IN  IF P = <<>> THEN s ELSE Notify(s, Head(P), chain)

NotifyParents(s, n, chain) ==
    LET P == SelectSeq(Groups, LAMBDA q : s.auditors[n][q] > 0)
    IN  FoldLeft(LAMBDA t, q : Notify(t, q, chain), s, P)

(* SoNode::notify: chain leads from what was told before n to the source.  *)
Notify(s, n, below) ==
    LET chain == <<n>> \o below
        Told == {p \in Path : s.headnode[p] = n /\ IsRelevant(s, p, chain)}
        t == [s EXCEPT !.fresh = @ \union {n}, !.told = @ \union Told]
    IN  IF n \in s.fresh THEN s ELSE NotifyParents(t, n, chain)

(* SoBase::startNotify: a new time stamp, so that no node is told already. *)
StartNotify(s, n) ==
    LET t == Notify([s EXCEPT !.fresh = {}], n, <<>>)
    IN  [t EXCEPT !.fresh = @ \union s.fresh]

-----------------------------------------------------------------------------
(* Reference counts, child lists and paths: when a node dies its child     *)
(* list is truncated, and paths let go of nodes.                           *)

Ref(s, n) == [s EXCEPT !.refs[n] = @ + 1]

AddAuditor(s, n, parent) == [s EXCEPT !.auditors[n][parent] = @ + 1]

\* mutant: a parent that holds a child twice no longer audits it at all
RemoveAuditorAll(s, n, parent) == [s EXCEPT !.auditors[n][parent] = 0]

RemoveAuditor(s, n, parent) == [s EXCEPT !.auditors[n][parent] = @ - 1]

RECURSIVE Unref(_, _)

UnrefAll(s, seq) == FoldLeft(Unref, s, seq)

HiddenCut(s, p, length) ==
    [s EXCEPT !.firsthiddendirty[p] = @ \/ length <= s.firsthidden[p]]

(* SoPath::truncate                                                        *)
TruncatePath(s, p, length) ==
    LET dropped == SubSeq(s.nodes[p], length + 1, Len(s.nodes[p]))
        t == [s EXCEPT !.listeners = [q \in Group |->
                 IF Contains(dropped, q) THEN RemoveFirst(@[q], p) ELSE @[q]]]
        u == UnrefAll(t, dropped)
    IN  HiddenCut([u EXCEPT !.nodes[p] = SubSeq(@, 1, length),
                            !.indices[p] = SubSeq(@, 1, length)], p, length)

(* SoPath::append of a node that is known to be the child with this index. *)
AppendNode(s, p, n, index) ==
    LET Hide == n \in Kit /\ ~s.firsthiddendirty[p] /\ s.firsthidden[p] < 0
    IN  [Ref(s, n) EXCEPT
           !.firsthidden[p] = IF Hide THEN Len(s.nodes[p]) ELSE @,
           !.nodes[p] = Append(@, n), !.indices[p] = Append(@, index),
           !.listeners = [q \in Group |-> IF q = n THEN Append(@[q], p)
                                                   ELSE @[q]]]

(* Where the child of parent is in path p; 0 when the path does not lead   *)
(* on from parent.                                                         *)
Below(s, p, parent) ==
    LET at == SelectInSeq(s.nodes[p], LAMBDA n : n = parent)
    IN  IF at = Len(s.nodes[p]) THEN 0 ELSE at + 1

\* mutant: a child inserted at the place of the path's own is overlooked
InsertIndexAfter(s, p, parent, newindex) ==
    LET pos == Below(s, p, parent)
    IN  IF pos # 0 /\ newindex < s.indices[p][pos]
        THEN [s EXCEPT !.indices[p][pos] = @ + 1] ELSE s

InsertIndex(s, p, parent, newindex) ==
    LET pos == Below(s, p, parent)
    IN  IF pos # 0 /\ newindex <= s.indices[p][pos]
        THEN [s EXCEPT !.indices[p][pos] = @ + 1] ELSE s

RemoveIndex(s, p, parent, oldindex) ==
    LET pos == Below(s, p, parent)
    IN  IF pos = 0 \/ oldindex > s.indices[p][pos] THEN s
        ELSE IF oldindex = s.indices[p][pos] THEN TruncatePath(s, p, pos - 1)
        ELSE [s EXCEPT !.indices[p][pos] = @ - 1]

ReplaceIndex(s, p, parent, index, newchild) ==
    LET pos == Below(s, p, parent)
    IN  IF pos = 0 \/ index # s.indices[p][pos] THEN s
        ELSE AppendNode(TruncatePath(s, p, pos - 1), p, newchild, index)

(* SoChildList::truncate                                                   *)
TruncateList(s, parent, length) ==
    LET list == s.children[parent]
        dropped == SubSeq(list, length + 1, Len(list))
        t == FoldLeft(LAMBDA x, n : RemoveAuditor(x, n, parent), s, dropped)
        gone == [j \in DOMAIN dropped |-> length + j - 1]
        Follow(x, p) == FoldLeft(LAMBDA y, j : RemoveIndex(y, p, parent, j), x, gone)
        u == FoldLeft(Follow, StartNotify(t, parent), s.listeners[parent])
    IN  IF dropped = <<>> THEN s
        ELSE [UnrefAll(u, dropped) EXCEPT !.children[parent] = SubSeq(@, 1, length)]

(* SoBase::unref and destroy: sensors let go of a head that dies, and a    *)
(* group takes its child list with it.                                     *)
Unref(s, n) ==
    LET t == [s EXCEPT !.refs[n] = @ - 1]
        u == [t EXCEPT !.headnode = [p \in Path |-> IF @[p] = n THEN None ELSE @[p]]]
        v == IF n \in Group THEN TruncateList(u, n, 0) ELSE u
    IN  IF t.refs[n] # 0 THEN t ELSE [v EXCEPT !.alive = @ \ {n}]

-----------------------------------------------------------------------------
(* Calls of the application.                                               *)

RECURSIVE Descendants(_, _)
Descendants(s, n) ==
    {n} \union IF n \notin Group THEN {}
               ELSE UNION {Descendants(s, c) : c \in ToSet(s.children[n])}

Start == [g EXCEPT !.fresh = {}, !.told = {}, !.source = None]

Call(s) == calls' = calls + 1 /\ g' = s

(* A node the application can make a child of parent without a cycle.      *)
Addable(parent, n) ==
    {parent, n} \subseteq g.alive /\ parent \notin Descendants(g, n)

(* SoChildList::append, which has no path to tell.                         *)
AddChild(parent, n) ==
    LET s == [Ref(AddAuditor(Start, n, parent), n) EXCEPT
                !.children[parent] = Append(@, n)]
    IN  /\ Addable(parent, n) /\ Len(g.children[parent]) < MaxChildren
        /\ Call(StartNotify(s, parent)) /\ UNCHANGED held

InsertChild(parent, n, index) ==
    LET s == [Ref(AddAuditor(Start, n, parent), n) EXCEPT
                !.children[parent] = InsertAt(@, index + 1, n)]
        t == StartNotify(s, parent)
    IN  /\ Addable(parent, n) /\ Len(g.children[parent]) < MaxChildren
        /\ index <= Len(g.children[parent])
        /\ Call(FoldLeft(LAMBDA x, p : InsertIndex(x, p, parent, index),
                         t, t.listeners[parent]))
        /\ UNCHANGED held

RemoveChild(parent, index) ==
    LET n == g.children[parent][index + 1]
        s == RemoveAuditor(Start, n, parent)
        t == FoldLeft(LAMBDA x, p : RemoveIndex(x, p, parent, index),
                      s, s.listeners[parent])
        u == Unref(StartNotify(t, parent), n)
    IN  /\ parent \in g.alive /\ index < Len(g.children[parent])
        /\ Call([u EXCEPT !.children[parent] = RemoveAt(@, index + 1)])
        /\ UNCHANGED held

(* SoChildList::set: the child that goes is kept until all have been told. *)
ReplaceChild(parent, index, n) ==
    LET prev == g.children[parent][index + 1]
        s == AddAuditor(RemoveAuditor(Start, prev, parent), n, parent)
        t == [Unref(Ref(Ref(s, prev), n), prev) EXCEPT
                !.children[parent][index + 1] = n]
        u == FoldLeft(LAMBDA x, p : ReplaceIndex(x, p, parent, index, n),
                      StartNotify(t, parent), t.listeners[parent])
    IN  /\ Addable(parent, n) /\ index < Len(g.children[parent])
        /\ Call(Unref(u, prev)) /\ UNCHANGED held

RemoveAllChildren(parent) ==
    /\ parent \in g.alive /\ Len(g.children[parent]) \in 1 .. MaxCut
    /\ Call(TruncateList(Start, parent, 0)) /\ UNCHANGED held

Touch(n) ==
    /\ n \in g.alive
    /\ Call(StartNotify([Start EXCEPT !.source = n], n)) /\ UNCHANGED held

(* The application keeps the node across the call, and detaches the        *)
(* sensor of a path before it gives it another head: the sensor would      *)
(* stay with the old one.                                                  *)
SetHead(p, n) ==
    LET s == TruncatePath(Start, p, 0)
    IN  /\ n \in s.alive /\ g.headnode[p] \in {None, n}
        /\ Call(AppendNode([s EXCEPT !.firsthidden[p] = -1,
                                     !.firsthiddendirty[p] = FALSE], p, n, 0))
        /\ UNCHANGED held

(* SoPath::append of a child's index.                                      *)
AppendIndex(p, index) ==
    LET tail == Last(g.nodes[p])
    IN  /\ g.nodes[p] # <<>> /\ tail \in Group
        /\ index < Len(g.children[tail])
        /\ Call(AppendNode(Start, p, g.children[tail][index + 1], index))
        /\ UNCHANGED held

Truncate(p, length) ==
    /\ length < Len(g.nodes[p])
    /\ Call(TruncatePath(Start, p, length)) /\ UNCHANGED held

(* SoPath::operator=, of a path that is empty.                             *)
Assign(p, q) ==
    LET s == FoldLeft(Ref, Start, g.nodes[q])
    IN  /\ g.nodes[p] = <<>> /\ g.nodes[q] # <<>> /\ g.headnode[p] = None
        /\ Call([s EXCEPT !.nodes[p] = s.nodes[q], !.indices[p] = s.indices[q],
                          !.firsthidden[p] = s.firsthidden[q],
                          !.firsthiddendirty[p] = s.firsthiddendirty[q],
                          !.listeners = [x \in Group |->
                             IF Contains(s.nodes[q], x) THEN Append(@[x], p)
                             ELSE @[x]]])
        /\ UNCHANGED held

(* SoPath::getLength, which looks for the first hidden child if need be.   *)
SetFirstHidden(p) ==
    /\ g.firsthiddendirty[p]
    /\ Call([Start EXCEPT !.firsthiddendirty[p] = FALSE,
               !.firsthidden[p] = SelectInSeq(g.nodes[p], LAMBDA n : n \in Kit) - 1])
    /\ UNCHANGED held

(* SoPathSensor::attach and detach; the sensor asks for changes of nodes.  *)
Attach(p) ==
    /\ g.headnode[p] = None /\ g.nodes[p] # <<>>
    /\ Call([Start EXCEPT !.headnode[p] = Head(g.nodes[p])]) /\ UNCHANGED held

Detach(p) ==
    /\ g.headnode[p] # None
    /\ Call([Start EXCEPT !.headnode[p] = None]) /\ UNCHANGED held

Hold(n) ==
    /\ n \in g.alive \ held /\ held' = held \union {n} /\ Call(Ref(Start, n))

Release(n) ==
    /\ n \in held /\ held' = held \ {n} /\ Call(Unref(Start, n))

Empty == [children |-> [q \in Group |-> <<>>],
          auditors |-> [n \in Node |-> [q \in Group |-> 0]],
          refs |-> [n \in Node |-> 1], alive |-> Node,
          nodes |-> [p \in Path |-> <<>>], indices |-> [p \in Path |-> <<>>],
          firsthidden |-> [p \in Path |-> -1],
          firsthiddendirty |-> [p \in Path |-> FALSE],
          listeners |-> [q \in Group |-> <<>>],
          headnode |-> [p \in Path |-> None],
          fresh |-> {}, told |-> {}, source |-> None]

(* The application has built a scene graph and paths into it.              *)
Built ==
    LET Add(s, q, n) == [Ref(AddAuditor(s, n, q), n) EXCEPT
                            !.children[q] = Append(@, n)]
        graph == FoldLeft(LAMBDA s, q : FoldLeft(LAMBDA t, n : Add(t, q, n),
                                                 s, Scene[q]), Empty, Groups)
        Down(s, p, i) == AppendNode(s, p, s.children[Last(s.nodes[p])][i + 1], i)
        Lead(s, p) == IF Routes[p] = <<>> THEN s
                      ELSE FoldLeft(LAMBDA t, i : Down(t, p, i),
                                    AppendNode(s, p, Head(Routes[p]), 0), Tail(Routes[p]))
    IN  FoldSet(LAMBDA p, s : Lead(s, p), graph, Path)

Init == g = Built /\ held = Node /\ calls = 0

Index == 0 .. MaxChildren

Next ==
    /\ calls < MaxCalls
    /\ \/ \E q \in Group, n \in Node :
            \/ AddChild(q, n)
            \/ \E i \in Index : InsertChild(q, n, i) \/ ReplaceChild(q, i, n)
       \/ \E q \in Group : RemoveAllChildren(q) \/ \E i \in Index : RemoveChild(q, i)
       \/ \E n \in Node : Touch(n) \/ Hold(n) \/ Release(n)
       \/ \E p \in Path :
            \/ Attach(p) \/ Detach(p) \/ SetFirstHidden(p)
            \/ \E n \in Node : SetHead(p, n)
            \/ \E i \in 0 .. Cardinality(Node) : AppendIndex(p, i) \/ Truncate(p, i)
            \/ \E q \in Path : Assign(p, q)

Spec == Init /\ [][Next]_vars

-----------------------------------------------------------------------------
(* Every path leads from child to child: the node at each place is the one *)
(* its index names in the list of the node above, however children have    *)
(* been inserted, removed and replaced (SoPath::insertIndex, removeIndex,  *)
(* replaceIndex), and getLength knows where the hidden part begins.        *)
PathsMatch ==
    \A p \in Path :
      /\ \A k \in 2 .. Len(g.nodes[p]) :
           LET list == g.children[g.nodes[p][k - 1]]
           IN  /\ g.indices[p][k] < Len(list)
               /\ list[g.indices[p][k] + 1] = g.nodes[p][k]
      /\ \/ g.firsthiddendirty[p]
         \/ g.firsthidden[p] = SelectInSeq(g.nodes[p], LAMBDA n : n \in Kit) - 1

Count(n, seq) == Cardinality({i \in DOMAIN seq : seq[i] = n})

(* A node's count is the number of references to it, in child lists, paths *)
(* and the application; it is alive as long as there are any; its parents  *)
(* audit it once for every time they hold it, and a list knows the paths   *)
(* that lead through it.  So nothing refers to what has been destroyed.    *)
RefsAgree ==
    /\ g \in Graph
    /\ \A n \in Node :
         /\ g.refs[n] = (IF n \in held THEN 1 ELSE 0)
              + MapThenSumSet(LAMBDA q : Count(n, g.children[q]), Group)
              + MapThenSumSet(LAMBDA p : Count(n, g.nodes[p]), Path)
         /\ n \in g.alive <=> g.refs[n] > 0
         /\ \A q \in Group : g.auditors[n][q] = Count(n, g.children[q])
    /\ \A q \in Group, p \in Path :
         Count(p, g.listeners[q]) = Count(q, g.nodes[p])

Ancestors(s, n) == {q \in Node : n \in Descendants(s, q)}

(* Every change of a child list and every touched node is known to all     *)
(* that is above it: each gets a new id in the same call, which is what    *)
(* caches above are judged by (SoNode::notify and its time stamp).         *)
ChangesReachTheTop ==
    [][\A n \in g'.alive :
         \/ g'.source = n
         \/ n \in Group /\ g'.children[n] # g.children[n]
         => Ancestors(g', n) \subseteq g'.fresh]_vars

(* What a path goes through or depends on: the nodes in it and under its   *)
(* tail, and those to the left that are not shut off by a separator.       *)
RECURSIVE Open(_, _)
Open(s, n) ==
    IF ~Affects(n) THEN {}
    ELSE IF n \notin Group THEN {n}
    ELSE {n} \union UNION {Open(s, c) : c \in ToSet(s.children[n])}

DependsOn(s, p) ==
    LET path == s.nodes[p]
        left(k) == {s.children[path[k - 1]][i] : i \in 1 .. s.indices[p][k]}
    IN  IF path = <<>> THEN {}
        ELSE IF Len(path) = 1 THEN Descendants(s, path[1])
        ELSE ToSet(path) \union Descendants(s, Last(path))
             \union UNION {Open(s, c) : c \in UNION {left(k) : k \in 2 .. Len(path)}}

(* The sensor of a path is scheduled for no node that the path does not    *)
(* depend on: not for one to its right, nor behind a separator.            *)
OnlyRelevantTold ==
    [][\A p \in Path : g'.source # None /\ p \in g'.told
                         => g'.source \in DependsOn(g', p)]_vars

=============================================================================
