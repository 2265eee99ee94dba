---------------------------- MODULE StateMachine ----------------------------
(***************************************************************************)
(* The SCXML state machine of src/src/scxml/ScXMLStateMachine.cpp: what    *)
(* processOneEvent does with the event it gets.  The transitions that the  *)
(* event sets off are collected first; what they make the machine do is    *)
(* the list todo, worked off one item at a time, because every state that  *)
(* is left or entered calls back into the application.                     *)
(*                                                                         *)
(* Documents are those the machine has nothing to complain about: targets, *)
(* of transitions and of <send>s, exist, and a state with substates that   *)
(* is a target has an <initial> naming one of them (DocumentAssumption).   *)
(* Conditions, data, history and <parallel> (which the code does not       *)
(* handle) are left out.                                                   *)
(***************************************************************************)
EXTENDS EventTargets, SequencesExt

CONSTANTS
    States, Finals,       \* the <state>s and <final>s of the document
    Lineage,              \* a state and what it is in, from the inside out
    Root,                 \* what the outermost states are in
    First,                \* the initial attribute of <scxml>
    Initial,              \* <<t>>: an <initial> with transition t; or <<>>
    Transitions,          \* the transitions of a state, in document order
    OnEntry, OnExit,      \* executable content
    MaxQueue,             \* bound on the events the application queues
    MaxBacklog            \* the application's callbacks queue none when more
                          \* than this many wait for a service

VARIABLES
    alive,                \* active: initialize() has been called
    active,               \* activestatelist
    current,              \* the event being processed
    todo,                 \* what processOneEvent has yet to do
    news,                 \* newstateslist
    inside                \* ghost: states entered and not exited since

stateVars == <<alive, active, current, todo, news, inside>>

NoEvent == <<>>
NoState == "none"
Done(s) == <<s, "done">>
Error == <<"error", "InvalidExpr">>
(* Only the SoEvents of an application have a position. *)
HasPosition(n) == n # NoEvent /\ n[1] = "So"

Exit(s) == [op |-> "exit", state |-> s]
Enter(s) == [op |-> "enter", state |-> s]
Descend(s) == [op |-> "descend", state |-> s]
Leave(t) == [op |-> "leave", transition |-> t]
Swap(old, s) == [op |-> "swap", old |-> old, state |-> s]
RaiseItem(n) == [op |-> "raise", name |-> n]
Settle == [op |-> "settle"]
Call == [op |-> "call"]

Container == [s \in States |-> IF Len(Lineage[s]) = 1 THEN Root ELSE Lineage[s][2]]

IsIn(s, c) == c \in Range(Lineage[s])

Atomic(s) == \A x \in States : Container[x] # s

(* Executable content, and transitions with it.  The event attribute may   *)
(* be missing, and end in ".*".                                            *)
Content ==
    [op : {"assign"}] \cup [op : {"raise"}, name : Seq(STRING)]
    \cup [op : {"send"}, to : Services, name : STRING, position : BOOLEAN]
Transition ==
    [source : States, event : Seq(STRING), star : BOOLEAN,
     target : States \cup {NoState}, content : Seq(Content)]

TransitionsOf(s) == Range(Transitions[s]) \cup Range(Initial[s])
TargetStates ==
    {First} \cup UNION {{t.target : t \in TransitionsOf(s)} \ {NoState} : s \in States}

ASSUME DocumentAssumption ==
    /\ Root \notin States /\ NoState \notin States \cup {Root}
    /\ First \in States /\ Finals \subseteq States
    /\ Lineage \in [States -> Seq(States)]
    /\ \A s \in States :
         /\ Lineage[s] # <<>> /\ Lineage[s][1] = s
         /\ \A i \in 1..Len(Lineage[s]) :
              Lineage[Lineage[s][i]] = SubSeq(Lineage[s], i, Len(Lineage[s]))
    /\ OnEntry \in [States -> Seq(Content)] /\ OnExit \in [States -> Seq(Content)]
    /\ Transitions \in [States -> Seq(Transition)]
    /\ Initial \in [States -> Seq(Transition)]
    /\ \A s \in States :
         /\ \A t \in Range(Transitions[s]) : t.source = s
         /\ Len(Initial[s]) <= 1
         /\ \A t \in Range(Initial[s]) : t.target # NoState /\ Container[t.target] = s
    /\ \A s \in Finals : Transitions[s] = <<>>
    /\ \A s \in TargetStates : Initial[s] = <<>> => Atomic(s)

(* The elements of s that are in S, in their order. *)
Among(s, S) == FlattenSeq([i \in 1..Len(s) |-> IF s[i] \in S THEN <<s[i]>> ELSE <<>>])

(* isEventMatch: no event attribute matches all. *)
Matches(t, n) ==
    IF t.star THEN IsPrefix(t.event, n) ELSE t.event \in {<<>>, n}

(* The transitions of the active states and of all they are in, each once. *)
FindTransitions(list, n) ==
    LET all == FlattenSeq([i \in 1..Len(list) |-> Lineage[list[i]]])
        Fitting(ts) == Among(ts, {t \in Range(ts) : Matches(t, n)})
    IN FlattenSeq([p \in 1..Len(all) |->
                     IF \E q \in 1..(p - 1) : all[q] = all[p] THEN <<>>
                     ELSE Fitting(Transitions[all[p]])])

Starter == [source |-> NoState, event |-> <<>>, star |-> FALSE,
            target |-> First, content |-> <<>>]

TargetLess(t) == t.target = NoState
SelfReferencing(t) == t.source # NoState /\ t.target = t.source
Leaving(t) == ~TargetLess(t) /\ ~SelfReferencing(t)

(* Two transitions that one event may set off. *)
Overlap(t, u) ==
    \/ t.event \in {<<>>, u.event} \/ u.event = <<>>
    \/ t.star /\ (u.star \/ IsPrefix(t.event, u.event))
    \/ u.star /\ IsPrefix(u.event, t.event)

(* An event leads out of the states the machine is in along one transition *)
(* at most, and the states that have transitions to themselves have no     *)
(* substates: processOneEvent takes all that fit, from wherever the ones   *)
(* before have led to.                                                     *)
Unambiguous ==
    /\ \A s \in States : Atomic(s) =>
         \A i, j \in 1..Len(Lineage[s]) :
           LET T == Transitions[Lineage[s][i]] U == Transitions[Lineage[s][j]]
           IN \A k \in 1..Len(T), l \in 1..Len(U) :
                Leaving(T[k]) /\ Leaving(U[l]) /\ Overlap(T[k], U[l]) => i = j /\ k = l
    /\ \A s \in States : \A t \in Range(Transitions[s]) : SelfReferencing(t) => Atomic(s)

(* What processOneEvent does: transitions without a target, then those of  *)
(* a state to itself, then the others.                                     *)
Plan(list, n) ==
    LET found == IF list = <<>> THEN <<Starter>> ELSE FindTransitions(list, n)
        Each(Op(_), S) ==
            LET ts == Among(found, S)
            IN FlattenSeq([i \in 1..Len(ts) |-> Op(ts[i])])
    IN IF found = <<>> THEN <<>>
       ELSE Each(LAMBDA t : t.content, {t \in Range(found) : TargetLess(t)})
            \o Each(LAMBDA t : <<Exit(t.source)>> \o t.content \o <<Enter(t.source)>>,
                    {t \in Range(found) : SelfReferencing(t)})
            \o Each(LAMBDA t : <<Leave(t)>>, {t \in Range(found) : Leaving(t)})
            \o <<Settle>>

Items(Op(_), s) == [i \in 1..Len(s) |-> Op(s[i])]

(* From s up to the first state that is in above. *)
Climb(s, above) ==
    LET up == Lineage[s]
        stop == Min({i \in 1..Len(up) : up[i] \in above} \cup {Len(up) + 1})
    IN SubSeq(up, 1, stop - 1)

(* Out of the active states in the source state, and up from there to what *)
(* the target is in as well.                                               *)
Exits(t, old) ==
    IF t.source = NoState THEN <<>>
    ELSE Items(Exit, FlattenSeq([i \in 1..Len(old) |-> Climb(old[i], {t.source})]))
         \o Items(Exit, Climb(t.source, Range(Lineage[t.target])))

EntryPath(t) ==
    Climb(t.target, IF t.source = NoState THEN {} ELSE Range(Lineage[t.source]))
\* mutant: the path to the target is taken from the inside out
EntersReversed(t) == Items(Enter, EntryPath(t))
(* And down to the target. *)
Enters(t) == Items(Enter, Reverse(EntryPath(t)))

Expand(t, list) ==
    LET old == IF t.source = NoState THEN <<>>
               ELSE Among(list, {s \in Range(list) : IsIn(s, t.source)})
    IN Exits(t, old) \o t.content \o Enters(t) \o <<Swap(Range(old), t.target)>>

\* mutant: an <initial> is not followed
HasInitialNot(s) == FALSE
HasInitial(s) == Initial[s] # <<>>

-----------------------------------------------------------------------------
MachineInit ==
    /\ EventInit
    /\ alive = [m \in Machines |-> FALSE] /\ active = [m \in Machines |-> <<>>]
    /\ current = [m \in Machines |-> NoEvent] /\ todo = [m \in Machines |-> <<>>]
    /\ news = [m \in Machines |-> <<>>] /\ inside = [m \in Machines |-> {}]

(* The application queues events at any time and has them processed by     *)
(* machines that are active, as SoEventManager does.                       *)
Listening == \A m \in Machines : Handling(m) => todo[m] # <<>> /\ Head(todo[m]) = Call

Post(m, n) ==
    /\ Listening /\ Len(external[m]) < MaxQueue
    /\ \A u \in Services : Len(external[u]) <= MaxBacklog
    /\ QueueEvent(m, n)
    /\ UNCHANGED stateVars

ProcessQueue(m) ==
    /\ Listening /\ alive[m]
    /\ ProcessEventQueue(m)
    /\ UNCHANGED stateVars

InitializeMachine(m) ==
    /\ ~alive[m]
    /\ Initialize(m)
    /\ alive' = [alive EXCEPT ![m] = TRUE]
    /\ active' = [active EXCEPT ![m] = <<>>]
    /\ current' = [current EXCEPT ![m] = NoEvent]
    /\ todo' = [todo EXCEPT ![m] = Plan(<<>>, NoEvent)]
    /\ UNCHANGED <<news, inside>>

ProcessOneEvent(m) ==
    LET n == IF internal[m] # <<>> THEN Head(internal[m]) ELSE Head(external[m]).name
    IN /\ NextEvent(m)
       /\ current' = [current EXCEPT ![m] = n]
       /\ todo' = [todo EXCEPT ![m] = Plan(active[m], n)]
       /\ UNCHANGED <<alive, active, news, inside>>

Doing(m, op) == Handling(m) /\ todo[m] # <<>> /\ Head(todo[m]).op = op
Instead(m, items) == todo' = [todo EXCEPT ![m] = items \o Tail(@)]
It(m) == Head(todo[m])

(* exitState and enterState: the callbacks are told, then the content runs *)
(* and a <final> has its container's event raised.                         *)
ExitState(m) ==
    /\ Doing(m, "exit")
    /\ inside' = [inside EXCEPT ![m] = @ \ {It(m).state}]
    /\ Instead(m, IF It(m).state \in Finals THEN <<>>
                  ELSE <<Call>> \o OnExit[It(m).state])
    /\ UNCHANGED <<alive, active, current, news, eventVars>>

EnterState(m) ==
    LET s == It(m).state
    IN /\ Doing(m, "enter")
       /\ inside' = [inside EXCEPT ![m] = @ \cup {s}]
       /\ Instead(m, IF s \notin Finals THEN <<Call>> \o OnEntry[s]
                     ELSE IF Container[s] = Root THEN <<>>
                     ELSE <<RaiseItem(Done(Container[s]))>>)
       /\ UNCHANGED <<alive, active, current, news, eventVars>>

(* The state change callbacks return. *)
CallbacksReturn(m) ==
    /\ Doing(m, "call")
    /\ Instead(m, <<>>)
    /\ UNCHANGED <<alive, active, current, news, inside, eventVars>>

(* <assign> of the event's position, which fails if it has none. *)
Assign(m) ==
    /\ Doing(m, "assign")
    /\ Instead(m, IF HasPosition(current[m]) THEN <<>> ELSE <<RaiseItem(Error)>>)
    /\ UNCHANGED <<alive, active, current, news, inside, eventVars>>

(* <send>; what the namelist asks for and there is not gives an error, and *)
(* the event is sent without it.                                           *)
SendWhole(m) ==
    /\ Doing(m, "send") /\ It(m).to \in Services
    /\ It(m).position => HasPosition(current[m])
    /\ Send(m, It(m).to, <<It(m).name, It(m).position>>)
    /\ Instead(m, <<>>)
    /\ UNCHANGED <<alive, active, current, news, inside>>

SendShort(m) ==
    /\ Doing(m, "send")
    /\ It(m).position /\ ~HasPosition(current[m])
    /\ Raise(m, Error)
    /\ Instead(m, <<[It(m) EXCEPT !.position = FALSE]>>)
    /\ UNCHANGED <<alive, active, current, news, inside>>

RaiseEvent(m) ==
    /\ Doing(m, "raise")
    /\ Raise(m, It(m).name)
    /\ Instead(m, <<>>)
    /\ UNCHANGED <<alive, active, current, news, inside>>

TakeTransition(m) ==
    /\ Doing(m, "leave")
    /\ Instead(m, Expand(It(m).transition, active[m]))
    /\ UNCHANGED <<alive, active, current, news, inside, eventVars>>

(* The states left are taken out of the list, and the target is a new      *)
(* state unless it is in the list.                                         *)
ReplaceActive(m) ==
    LET left == Among(active[m], Range(active[m]) \ It(m).old)
    IN /\ Doing(m, "swap")
       /\ active' = [active EXCEPT ![m] = left]
       /\ news' = [news EXCEPT ![m] =
                    IF Contains(left, It(m).state) THEN @ ELSE Append(@, It(m).state)]
       /\ Instead(m, <<>>)
       /\ UNCHANGED <<alive, current, inside, eventVars>>

SettleNew(m) ==
    /\ Doing(m, "settle")
    /\ Instead(m, Items(Descend, news[m]))
    /\ news' = [news EXCEPT ![m] = <<>>]
    /\ UNCHANGED <<alive, active, current, inside, eventVars>>

(* From a new state down through the <initial>s to the one that is active. *)
FollowInitial(m) ==
    /\ Doing(m, "descend") /\ HasInitial(It(m).state)
    /\ LET t == Initial[It(m).state][1]
       IN Instead(m, t.content \o <<Enter(t.target), Descend(t.target)>>)
    /\ UNCHANGED <<alive, active, current, news, inside, eventVars>>

PushActive(m) ==
    /\ Doing(m, "descend") /\ ~HasInitial(It(m).state)
    /\ active' = [active EXCEPT ![m] = Append(@, It(m).state)]
    /\ Instead(m, <<>>)
    /\ UNCHANGED <<alive, current, news, inside, eventVars>>

EventProcessed(m) ==
    /\ todo[m] = <<>>
    /\ Handled(m)
    /\ current' = [current EXCEPT ![m] = NoEvent]
    /\ UNCHANGED <<alive, active, todo, news, inside>>

Queueing(m) ==
    /\ StartLinks(m) \/ NextLink(m) \/ LinksDone(m) \/ Return(m)
    /\ UNCHANGED stateVars

MachineNext(posted) ==
    \E m \in Machines :
      \/ \E n \in posted[m] : Post(m, n)
      \/ ProcessQueue(m) \/ InitializeMachine(m) \/ ProcessOneEvent(m)
      \/ ExitState(m) \/ EnterState(m) \/ CallbacksReturn(m)
      \/ Assign(m) \/ SendWhole(m) \/ SendShort(m) \/ RaiseEvent(m)
      \/ TakeTransition(m) \/ ReplaceActive(m) \/ SettleNew(m)
      \/ FollowInitial(m) \/ PushActive(m)
      \/ EventProcessed(m) \/ Queueing(m)

-----------------------------------------------------------------------------
(* Between events a machine is in one state, which has no substates, and   *)
(* the states it has told its listeners it is in are that one and those it *)
(* is contained in (getNumActiveStates: "This number should currently be   *)
(* 1"; processOneEvent, exitState and enterState).                         *)
OneActive ==
    \A m \in Machines : alive[m] /\ (\A i \in 1..Len(stack) :
            stack[i].t = m => stack[i].pc \notin {"first", "handle"}) =>
        /\ Len(active[m]) = 1
        /\ inside[m] = Range(Lineage[active[m][1]])
        /\ \A s \in States : Container[s] # active[m][1]

(* A state is left only when it is the innermost one the machine is in,    *)
(* and entered only from what it is contained in, with nothing else inside *)
(* that (processOneEvent, its climb to the common container and its path   *)
(* down to the target).                                                    *)
ProperNesting ==
    \A m \in Machines : todo[m] # <<>> =>
        /\ Head(todo[m]).op = "exit" =>
             /\ Head(todo[m]).state \in inside[m]
             /\ \A s \in inside[m] : Container[s] # Head(todo[m]).state
        /\ Head(todo[m]).op = "enter" =>
             LET c == Container[Head(todo[m]).state]
             IN /\ c \in inside[m] \cup {Root}
                /\ \A s \in inside[m] : Container[s] # c

=============================================================================
