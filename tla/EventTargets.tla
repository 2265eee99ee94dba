---------------------------- MODULE EventTargets ----------------------------
(***************************************************************************)
(* The event queues of src/src/scxml/ScXMLEventTarget.cpp.  State machines *)
(* and navigation services are event targets; each has a queue for events  *)
(* from outside and one for events it raises itself, and a list of the     *)
(* targets it has sent to since it last went through that list.            *)
(* Everything runs in one thread, but processEventQueue is called from     *)
(* within itself: for the targets sent to, and by the application's state  *)
(* change callbacks.  The calls that are under way are the stack.          *)
(*                                                                         *)
(* How a target handles an event is left open here; Navigation says it for *)
(* the state machines and services that Coin has.                          *)
(*                                                                         *)
(* Assumed of the application: it posts to state machines only, calls from *)
(* the callbacks of machines and not from what follows a change that a     *)
(* service makes to the camera, and does not have a machine process its    *)
(* queue in the middle of that machine's own initialize().                 *)
(***************************************************************************)
EXTENDS Naturals, Sequences

CONSTANTS
    Machines,     \* state machines
    Services,     \* navigation services (SoScXML...Target singletons)
    Names,        \* what events carry: names and parameters
    App           \* stands for the application as the source of an event

ASSUME TargetsAssumption ==
    Machines \cap Services = {} /\ App \notin Machines \cup Services

Targets == Machines \cup Services

VARIABLES
    internal,     \* internaleventqueue
    external,     \* externaleventqueue; an event remembers who queued it
    links,        \* targetqueue
    processing,   \* isprocessingqueue
    stack         \* calls under way: whose, and where they are

queues == <<internal, external, links>>
eventVars == <<internal, external, links, processing, stack>>

Event == [name : Names, from : Targets \cup {App}]
(* "first": processOneEvent(NULL) of initialize(); "handle": in            *)
(* processOneEvent; "events" and "links": the loops of processEventQueue.  *)
Frame == [t : Targets, pc : {"first", "handle", "events", "links"}]

Top == stack[Len(stack)]
On(t) == \E i \in 1..Len(stack) : stack[i].t = t
At(t, pc) == stack # <<>> /\ Top.t = t /\ Top.pc = pc
Handling(m) == At(m, "handle") \/ At(m, "first")
Move(pc) == [stack EXCEPT ![Len(stack)].pc = pc]

EventInit ==
    /\ internal = [t \in Targets |-> <<>>] /\ external = [t \in Targets |-> <<>>]
    /\ links = [t \in Targets |-> <<>>] /\ processing = [t \in Targets |-> FALSE]
    /\ stack = <<>>

(* processEventQueue, called by what is on stack st: nothing happens if    *)
(* the target is at it already.                                            *)
Process(t, st) ==
    IF processing[t]
    THEN stack' = st /\ UNCHANGED processing
    ELSE /\ stack' = Append(st, [t |-> t, pc |-> "events"])
         /\ processing' = [processing EXCEPT ![t] = TRUE]

(* The application calls from outside or from a state change callback. *)
Calls == stack = <<>> \/ \E m \in Machines : Handling(m)

QueueEvent(m, n) ==
    /\ Calls
    /\ external' = [external EXCEPT ![m] = Append(@, [name |-> n, from |-> App])]
    /\ UNCHANGED <<internal, links, processing, stack>>

ProcessEventQueue(m) ==
    /\ Calls
    /\ \A i \in 1..Len(stack) : stack[i] # [t |-> m, pc |-> "first"]
    /\ Process(m, stack)
    /\ UNCHANGED queues

Initialize(m) ==
    /\ stack = <<>>
    /\ stack' = <<[t |-> m, pc |-> "first"]>>
    /\ UNCHANGED <<queues, processing>>

(* getNextEvent: what the machine has raised itself comes first. *)
NextEvent(m) ==
    /\ At(m, "events")
    /\ \/ /\ internal[m] # <<>>
          /\ internal' = [internal EXCEPT ![m] = Tail(@)]
          /\ UNCHANGED external
       \/ /\ internal[m] = <<>> /\ external[m] # <<>>
          /\ external' = [external EXCEPT ![m] = Tail(@)]
          /\ UNCHANGED internal
    /\ stack' = Move("handle")
    /\ UNCHANGED <<links, processing>>

(* sendExternalEvent: the target is remembered, once. *)
Send(m, u, n) ==
    /\ Handling(m)
    /\ external' = [external EXCEPT ![u] = Append(@, [name |-> n, from |-> m])]
    /\ links' = IF \E i \in 1..Len(links[m]) : links[m][i] = u THEN links
                ELSE [links EXCEPT ![m] = Append(@, u)]
    /\ UNCHANGED <<internal, processing, stack>>

(* queueInternalEvent *)
Raise(m, n) ==
    /\ Handling(m)
    /\ internal' = [internal EXCEPT ![m] = Append(@, n)]
    /\ UNCHANGED <<external, links, processing, stack>>

(* processOneEvent returns; initialize() goes on with the queue. *)
Handled(m) ==
    /\ Handling(m)
    /\ stack' = Move("events")
    /\ processing' = [processing EXCEPT ![m] = TRUE]
    /\ UNCHANGED queues

(* A service handles an event, and it may post one to the machine whose    *)
(* session the event carries.                                              *)
Serve(u) ==
    /\ At(u, "events") /\ external[u] # <<>>
    /\ external' = [external EXCEPT ![u] = Tail(@)]
    /\ UNCHANGED <<internal, links, processing, stack>>

Answer(u, n) ==
    /\ At(u, "events") /\ external[u] # <<>>
    /\ external' = [external EXCEPT
            ![u] = Tail(@),
            ![Head(external[u]).from] = Append(@, [name |-> n, from |-> u])]
    /\ UNCHANGED <<internal, links, processing, stack>>

Drained(t) == At(t, "events") /\ internal[t] = <<>> /\ external[t] = <<>>

(* The loop over the targets sent to, and back to the events. *)
StartLinks(m) ==
    /\ Drained(m) /\ links[m] # <<>>
    /\ stack' = Move("links")
    /\ UNCHANGED <<queues, processing>>

NextLink(m) ==
    /\ At(m, "links") /\ links[m] # <<>>
    /\ links' = [links EXCEPT ![m] = Tail(@)]
    /\ Process(Head(links[m]), stack)
    /\ UNCHANGED <<internal, external>>

\* mutant: the call is over after the targets sent to
LinksReturn(m) ==
    /\ At(m, "links") /\ links[m] = <<>>
    /\ stack' = SubSeq(stack, 1, Len(stack) - 1)
    /\ processing' = [processing EXCEPT ![m] = FALSE]
    /\ UNCHANGED queues
LinksDone(m) ==
    /\ At(m, "links") /\ links[m] = <<>>
    /\ stack' = Move("events")
    /\ UNCHANGED <<queues, processing>>

Return(t) ==
    /\ Drained(t) /\ links[t] = <<>>
    /\ stack' = SubSeq(stack, 1, Len(stack) - 1)
    /\ processing' = [processing EXCEPT ![t] = FALSE]
    /\ UNCHANGED queues

EventNext ==
    \/ \E m \in Machines :
         \/ \E n \in Names : QueueEvent(m, n) \/ Raise(m, n)
         \/ \E u \in Services, n \in Names : Send(m, u, n)
         \/ ProcessEventQueue(m) \/ Initialize(m) \/ NextEvent(m) \/ Handled(m)
         \/ StartLinks(m) \/ NextLink(m) \/ LinksDone(m)
    \/ \E u \in Services : Serve(u) \/ \E n \in Names : Answer(u, n)
    \/ \E t \in Targets : Return(t)

EventSpec == EventInit /\ [][EventNext]_eventVars

-----------------------------------------------------------------------------
(* When the outermost call has returned, nothing that a state machine sent *)
(* or raised, and nothing a service answered, is left lying: only what the *)
(* application itself queued since then can be waiting.  And a target is   *)
(* never handling two events at a time (ScXMLEventTarget.cpp, the flag     *)
(* isprocessingqueue and the loop over targetqueue).                       *)
NothingStranded ==
    /\ \A i, j \in 1..Len(stack) : stack[i].t = stack[j].t => i = j
    /\ stack = <<>> =>
         /\ \A t \in Targets :
              internal[t] = <<>> /\ links[t] = <<>> /\ ~processing[t]
         /\ \A t \in Targets : \A i \in 1..Len(external[t]) :
              t \in Machines /\ external[t][i].from = App

=============================================================================
