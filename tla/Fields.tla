------------------------------- MODULE Fields -------------------------------
(***************************************************************************)
(* Field connections: notification, which marks the slaves of a field that *)
(* has changed as dirty, and lazy evaluation, which brings a dirty field   *)
(* up to date when it is read (src/src/fields/SoField.cpp, the engines     *)
(* between fields, and the immediate sensors that run user code when a     *)
(* notification ends).                                                     *)
(*                                                                         *)
(* FieldLinks has the links and the life of engines; every step of it is a *)
(* part of a step here.  A notification or an evaluation runs no user code *)
(* and is one step; the callbacks of the sensors it made pending are       *)
(* further steps, in which the application may call anything again while   *)
(* the field it first changed is still marked read-only.  Every field is   *)
(* in a container of its own, except that an engine is the container of    *)
(* its input and its output, of which it has one each; a field has the     *)
(* type of its masters.                                                    *)
(***************************************************************************)
EXTENDS FieldLinks

CONSTANTS
    Values,         \* a field's values are 0 .. Values - 1
    Watched,        \* fields with an immediate SoFieldSensor attached
    Switched,       \* fields and engine outputs that are enabled and disabled
    MaxCalls        \* bound on the calls of the application

ASSUME FieldsAssumption ==
    /\ Values \in Nat \ {0} /\ MaxCalls \in Nat
    /\ Watched \subseteq Field /\ Switched \subseteq Node
    /\ \A e, g \in Engine : Input[e] = Input[g] => e = g

VARIABLES
    vals,       \* what fields and engines hold: a record, as one call goes
                \* through many of them
    enabled,    \* FLAG_ENABLECONNECTS of a field, enabled of an output
    readonly,   \* the field with FLAG_READONLY between two steps, or None
    phase,      \* "building" what the application begins with, before it
                \* attaches sensors; "user"; or processing the immediate
                \* sensors, in a "callback" or between them ("sensors")
    calls       \* calls the application has made, other than to read

vars == <<linkVars, vals, enabled, readonly, phase, calls>>

(* The fields of vals; the last two are history the code does not keep.    *)
Vals == [val : [Field -> 0 .. Values - 1],
         dirty : [Node -> BOOLEAN],         \* FLAG_NEEDEVALUATION, FLAG_ISDIRTY
         lastnotify : [Field -> Node \union {None}],
         queue : Seq(Watched),              \* the immediate queue
         source : [Field -> Node],          \* where the value came from
         silent : SUBSET Node]              \* changed since, without telling

(* The links that notification and evaluation follow.                      *)
Net == [masters |-> masters, auditors |-> auditors, alive |-> alive]

Compute(v) == (v + 1) % Values

-----------------------------------------------------------------------------
(* Notification, over the links net.  path holds what is being notified    *)
(* already (FLAG_ISNOTIFIED, FLAG_ISNOTIFYING).                            *)

(* What a notification of n names as its origin: an engine's input and its *)
(* output have the engine in common.                                       *)
Container(n) ==
    LET E == {e \in Engine : n \in {e, Input[e]}}
    IN  IF E = {} THEN n ELSE CHOOSE e \in E : TRUE

Schedule(s, f) ==
    IF f \in Watched /\ phase # "building" /\ ~Contains(s.queue, f)
    THEN [s EXCEPT !.queue = Append(@, f)] ELSE s

RECURSIVE Spread(_, _, _, _)

\* mutant: a slave that is dirty already is not told again
NotifyIfClean(net, s, from, f, path) ==
    LET t == [s EXCEPT !.lastnotify[f] = Container(from)]
    IN  IF ~enabled[f] \/ f \in path \/ s.dirty[f] THEN t
        ELSE Spread(net, [t EXCEPT !.dirty[f] = TRUE], f, path)

(* SoField::notify of a slave, from its master.                            *)
Notify(net, s, from, f, path) ==
    LET t == [s EXCEPT !.lastnotify[f] = Container(from)]
    IN  IF ~enabled[f] \/ f \in path THEN t
        ELSE Spread(net, [t EXCEPT !.dirty[f] = TRUE], f, path)

NotifyAll(net, s, from, path) ==
    FoldLeft(LAMBDA t, f : Notify(net, t, from, f, path), s, net.auditors[from])

(* SoEngine::notify and touchSlaves.                                       *)
NotifyEngine(net, s, e, path) ==
    LET t == [s EXCEPT !.dirty[e] = TRUE, !.silent = @ \ {e}]
    IN  IF e \in path THEN s
        ELSE IF enabled[e] THEN NotifyAll(net, t, e, path \union {e}) ELSE t

(* What a notified field does next: its container, then its auditors.      *)
Spread(net, s, f, path) ==
    LET on == path \union {f}
        told == [s EXCEPT !.silent = @ \ {f}]
        Engines == {e \in net.alive : Input[e] = f}
        container == IF Engines = {} THEN told
                     ELSE NotifyEngine(net, told, CHOOSE e \in Engines : TRUE, on)
    IN  NotifyAll(net, Schedule(container, f), f, on)

-----------------------------------------------------------------------------
(* Evaluation.  busy holds the fields that are evaluating.                 *)

RECURSIVE Evaluate(_, _, _, _)

(* FLAG_ISDESTRUCTING.                                                     *)
Destructing(net, f) == \E e \in Engine \ net.alive : Input[e] = f

(* The slaves SO_ENGINE_OUTPUT writes.                                     *)
Written(net, e) ==
    IF enabled[e] THEN ToSet(net.auditors[e]) \ {readonly} ELSE {}

(* SoEngine::evaluateWrapper and SO_ENGINE_OUTPUT: all slaves are written, *)
(* from the input's old value if the input is what is evaluating.          *)
EvaluateEngine(net, s, e, busy) ==
    LET t == Evaluate(net, [s EXCEPT !.dirty[e] = FALSE], Input[e], busy)
        v == Compute(t.val[Input[e]])
        W == Written(net, e)
        Untold == {f \in W : (~t.dirty[f] \/ ~enabled[f]) /\ t.val[f] # v}
    IN  IF ~s.dirty[e] THEN s
        ELSE [t EXCEPT !.val = [f \in Field |-> IF f \in W THEN v ELSE @[f]],
                       !.source = [f \in Field |->
                           IF f \notin W THEN @[f]
                           ELSE IF Input[e] \in busy THEN f ELSE e],
                       !.dirty = [n \in Node |-> n \notin W /\ @[n]],
                       !.silent = @ \union Untold
                                  \union (IF enabled[e] THEN {} ELSE {e})]

\* mutant: with several masters, the first that is dirty
ChosenDirty(net, s, f) ==
    IF Len(net.masters[f]) = 1 THEN net.masters[f][1]
    ELSE LET D == SelectSeq(net.masters[f], LAMBDA m : s.dirty[m])
         IN  IF D # <<>> THEN D[1] ELSE None

(* The master to take the value from.  With several it is one in the       *)
(* container that notified last, a field rather than an engine's output.   *)
Chosen(net, s, f) ==
    LET Told == SelectSeq(net.masters[f],
                          LAMBDA m : Container(m) = s.lastnotify[f])
        FromFields == SelectSeq(Told, LAMBDA m : m \in Field)
    IN  IF Len(net.masters[f]) = 1 THEN net.masters[f][1]
        ELSE IF FromFields # <<>> THEN FromFields[1]
        ELSE IF Told # <<>> THEN Told[1] ELSE None

\* mutant: the master's value is taken without evaluating the master
CopyFromAsIs(net, s, f, m, busy) ==
    [s EXCEPT !.val[f] = s.val[m], !.source[f] = m]

CopyFrom(net, s, f, m, busy) ==
    LET t == Evaluate(net, s, m, busy)
    IN  [t EXCEPT !.val[f] = t.val[m], !.source[f] = m]

(* SoField::evaluateConnection.  The field keeps its value when there is   *)
(* nobody to take it from, or only a field that is evaluating itself or    *)
(* being destroyed.                                                        *)
EvaluateConnection(net, s, f, busy) ==
    LET m == Chosen(net, s, f)
        kept == [s EXCEPT !.source[f] = f]
    IN  IF m \in Engine
        THEN IF enabled[m] /\ f # readonly THEN EvaluateEngine(net, s, m, busy)
             ELSE EvaluateEngine(net, kept, m, busy)
        ELSE IF m = None \/ m \in busy \/ Destructing(net, m) THEN kept
        ELSE CopyFrom(net, s, f, m, busy)

Evaluate(net, s, f, busy) ==
    IF \/ ~s.dirty[f] \/ ~enabled[f] \/ f \in busy
       \/ net.masters[f] = <<>> \/ Destructing(net, f)
    THEN s
    ELSE [EvaluateConnection(net, s, f, busy \union {f}) EXCEPT !.dirty[f] = FALSE]

-----------------------------------------------------------------------------
(* What cutting and making links does to the values.                       *)

(* SoEngine::destroy evaluates the engine before it goes, when its slaves  *)
(* are cut off already.                                                    *)
LastEvaluation(s, m) ==
    IF m \in alive \ alive'
    THEN EvaluateEngine([Net' EXCEPT !.alive = alive], s, m, {}) ELSE s

(* SoField::disconnect evaluates the field before it cuts the link, but    *)
(* not from an output that is disabled.                                    *)
EvaluatedCut(f, m) ==
    vals' = LastEvaluation(IF m \in Engine /\ ~enabled[m] THEN vals
                           ELSE Evaluate(Net, vals, f, {}), m)

Init ==
    /\ LinkInit
    /\ vals = [val |-> [f \in Field |-> 0],
               dirty |-> [n \in Node |-> n \in Engine],
               lastnotify |-> [f \in Field |-> None], queue |-> <<>>,
               source |-> [f \in Field |-> f], silent |-> {}]
    /\ enabled = [n \in Node |-> TRUE]
    /\ readonly = None /\ phase = "building" /\ calls = 0

-----------------------------------------------------------------------------
(* The calls of the application.                                           *)

Calling == stack = <<>> /\ phase \in {"user", "callback"}

Call == Calling /\ calls < MaxCalls /\ calls' = calls + 1

(* SoDB::endNotify: the immediate sensors are processed, once.             *)
EndNotify(f) ==
    IF phase = "user" /\ vals'.queue # <<>>
    THEN /\ phase' = "sensors" /\ readonly' = f
    ELSE UNCHANGED <<phase, readonly>>

(* setValue and valueChanged.                                              *)
SetValue(f, v) ==
    /\ Call /\ Exists(f) /\ f # readonly
    /\ vals' = Spread(Net, [vals EXCEPT !.val[f] = v, !.dirty[f] = FALSE,
                                        !.source[f] = f], f, {})
    /\ EndNotify(f)
    /\ UNCHANGED <<linkVars, enabled>>

(* setValue of a field from a callback its own change has led to:          *)
(* valueChanged returns at once.                                           *)
SetValueReadOnly(f, v) ==
    /\ Call /\ f = readonly /\ vals.val[f] # v
    /\ vals' = [vals EXCEPT !.val[f] = v, !.source[f] = f, !.silent = @ \union {f}]
    /\ UNCHANGED <<linkVars, enabled, readonly, phase>>

GetValue(f) ==
    /\ Calling /\ Exists(f) /\ vals.dirty[f]
    /\ vals' = Evaluate(Net, vals, f, {})
    /\ UNCHANGED <<linkVars, enabled, readonly, phase, calls>>

CallConnectFrom(f, m, append) ==
    /\ Call /\ ConnectFrom(f, m, append)
    /\ UNCHANGED <<vals, enabled, readonly, phase>>

CallDisconnect(f, m) ==
    /\ Call /\ Disconnect(f, m) /\ EvaluatedCut(f, m)
    /\ UNCHANGED <<enabled, readonly, phase>>

CallUnref(e) ==
    /\ Call /\ Release(e) /\ vals' = LastEvaluation(vals, e)
    /\ UNCHANGED <<enabled, readonly, phase>>

(* enableConnection.  Re-enabled, the field is dirty and tells nobody.     *)
EnableConnection(f, flag) ==
    /\ Call /\ f \in Field \intersect Switched /\ Exists(f) /\ flag # enabled[f]
    /\ enabled' = [enabled EXCEPT ![f] = flag]
    /\ vals' = IF ~flag THEN vals
               ELSE [vals EXCEPT !.dirty[f] = TRUE, !.silent = @ \union {f}]
    /\ UNCHANGED <<linkVars, readonly, phase>>

(* SoEngineOutput::enable.  Re-enabled, the slaves are marked only.        *)
EnableOutput(e, flag) ==
    /\ Call /\ e \in alive \intersect Switched /\ flag # enabled[e]
    /\ enabled' = [enabled EXCEPT ![e] = flag]
    /\ LET S == IF flag THEN ToSet(auditors[e]) ELSE {}
       IN  vals' = [vals EXCEPT !.dirty = [n \in Node |-> n \in S \/ @[n]],
                                !.silent = @ \union S]
    /\ UNCHANGED <<linkVars, readonly, phase>>

-----------------------------------------------------------------------------
(* The steps of a call that cuts and makes links.                          *)

NextCut ==
    /\ \/ \E m \in Node : BreakUp(m) /\ EvaluatedCut(Head(stack).f, m)
       \/ \E f \in Field : DropSlave(f) /\ EvaluatedCut(f, Head(stack).f)
    /\ UNCHANGED <<enabled, readonly, phase, calls>>

(* The notification with which connectFrom ends; an engine that gets a     *)
(* slave is dirty.                                                         *)
MakeLink(f, m) ==
    /\ Link(f, m)
    /\ LET t == [vals EXCEPT !.dirty[m] = m \in Engine \/ @]
       IN  vals' = IF enabled[f]
                   THEN Spread(Net', [t EXCEPT !.dirty[f] = TRUE], f, {}) ELSE t
    /\ EndNotify(None)
    /\ UNCHANGED <<enabled, calls>>

CallEnds ==
    /\ Destroyed \/ AlreadyMade
    /\ UNCHANGED <<vals, enabled, readonly, phase, calls>>

-----------------------------------------------------------------------------
(* The application's sensors are attached when the network is built.       *)
NetworkBuilt ==
    /\ phase = "building" /\ stack = <<>> /\ phase' = "user"
    /\ UNCHANGED <<linkVars, vals, enabled, readonly, calls>>

(* The sensor manager triggers the first immediate sensor, which evaluates *)
(* its field and calls the application.                                    *)
Trigger ==
    /\ phase = "sensors" /\ stack = <<>> /\ vals.queue # <<>>
    /\ vals' = Evaluate(Net, [vals EXCEPT !.queue = Tail(@)], Head(vals.queue), {})
    /\ phase' = "callback"
    /\ UNCHANGED <<linkVars, enabled, readonly, calls>>

CallbackReturns ==
    /\ phase = "callback" /\ stack = <<>> /\ phase' = "sensors"
    /\ UNCHANGED <<linkVars, vals, enabled, readonly, calls>>

QueueProcessed ==
    /\ phase = "sensors" /\ vals.queue = <<>>
    /\ phase' = "user" /\ readonly' = None
    /\ UNCHANGED <<linkVars, vals, enabled, calls>>

Next ==
    \/ \E f \in Field, v \in 0 .. Values - 1 :
           SetValue(f, v) \/ SetValueReadOnly(f, v)
    \/ \E f \in Field : GetValue(f)
    \/ \E f \in Field, m \in Node, append \in BOOLEAN :
           CallConnectFrom(f, m, append)
    \/ \E f \in Field, m \in Node : CallDisconnect(f, m) \/ MakeLink(f, m)
    \/ \E e \in Engine : CallUnref(e)
    \/ \E n \in Node, flag \in BOOLEAN :
           EnableConnection(n, flag) \/ EnableOutput(n, flag)
    \/ NextCut \/ CallEnds \/ NetworkBuilt
    \/ Trigger \/ CallbackReturns \/ QueueProcessed

Spec == Init /\ [][Next]_vars

-----------------------------------------------------------------------------

TypeOK ==
    /\ vals \in Vals /\ IsInjective(vals.queue)
    /\ enabled \in [Node -> BOOLEAN]
    /\ readonly \in Field \union {None} /\ calls \in 0 .. MaxCalls
    /\ phase \in {"building", "user", "callback", "sensors"}
    /\ phase \in {"building", "user"} => readonly = None /\ vals.queue = <<>>

Slaves(n) == ToSet(auditors[n]) \union {e \in alive : Input[e] = n}

Closure(f, Succ(_)) ==
    LET R[k \in 0 .. Cardinality(Node)] ==
            IF k = 0 THEN {f} ELSE R[k - 1] \union UNION {Succ(n) : n \in R[k - 1]}
    IN  R[Cardinality(Node)]

Stale(f) == vals.dirty[f] /\ enabled[f] /\ masters[f] # <<>>

(* A clean field that took its value from a master has the value the       *)
(* master has, and the master is up to date, unless the master changed     *)
(* without notification: by enableConnection, by setValue from a callback  *)
(* of its own notification, or because its engine wrote it for the sake of *)
(* another slave.                                                          *)
CleanIsCurrent ==
    TypeOK /\ \A f \in Field :
        LET m == vals.source[f]
        IN  (/\ m # f /\ Contains(masters[f], m)
             /\ enabled[f] /\ ~vals.dirty[f] /\ m \notin vals.silent) =>
            IF m \in Field THEN ~Stale(m) /\ vals.val[f] = vals.val[m]
            ELSE LET i == Input[m]
                 IN  enabled[m] /\ i \notin vals.silent =>
                         ~Stale(i) /\ vals.val[f] = Compute(vals.val[i])

(* The fields and engines a change of f must reach: everything that        *)
(* follows it over enabled connections and outputs.                        *)
Following(n) ==
    {m \in Slaves(n) : m \in Field => enabled[m] /\ (n \in Engine => enabled[n])}

Reach(f) == Closure(f, Following)

(* However the connections run, with cycles and diamonds, setValue marks   *)
(* everything that follows the field, and nothing else and not the field   *)
(* itself; the master that each one would now take its value from was told *)
(* too; and every sensor on the way is pending.                            *)
NotificationReaches ==
    [][\A f \in Field, v \in 0 .. Values - 1 : SetValue(f, v) =>
          LET R == Reach(f)
          IN  /\ \A n \in Node \ {f} :
                     vals'.dirty[n] = (vals.dirty[n] \/ n \in R)
              /\ ~vals'.dirty[f]
              /\ \A g \in (R \intersect Field) \ {f} :
                     Chosen(Net, vals', g) \in R
              /\ ToSet(vals'.queue)
                     = ToSet(vals.queue) \union (R \intersect Watched)]_vars

ReadOf(f) == Evaluate(Net, vals, f, {}).val[f]

Acyclic == \A f \in Field : \A n \in Slaves(f) : f \notin Closure(n, Slaves)

(* An engine that is to be evaluated finds all its slaves waiting for it.  *)
SlavesAwait ==
    \A e \in alive : vals.dirty[e] =>
        \A f \in ToSet(auditors[e]) :
            Stale(f) /\ f # readonly /\ Chosen(Net, vals, f) = e

(* Lazy evaluation cannot be told from eager: reading one field changes no *)
(* value that another read would return, where no connections run in a     *)
(* circle and no engine writes a slave that does not wait for it.          *)
ReadsArePure ==
    [][\A g \in Field : GetValue(g) /\ Acyclic /\ SlavesAwait =>
          \A f \in Field : ReadOf(f)' = ReadOf(f)]_vars

=============================================================================
