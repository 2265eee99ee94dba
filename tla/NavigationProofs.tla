-------------------------- MODULE NavigationProofs --------------------------
(***************************************************************************)
(* No event is left behind and no target handles two at a time, for any    *)
(* state machines and services and whatever they send, raise and answer;   *)
(* and so it is for the machines and services Coin has, whatever the       *)
(* documents of the machines say.  And in a document where no event leads  *)
(* out of a state along two transitions a machine is in one state between  *)
(* events, and leaves and enters states from the inside out and from the   *)
(* outside in.                                                             *)
(***************************************************************************)
EXTENDS Navigation, SequenceTheorems, WellFoundedInduction, TLAPS

(* Events may carry anything: here what comes from a set N. *)
Events(N) == [name : N, from : Targets \cup {App}]

TypeOK(N) ==
    /\ internal \in [Targets -> Seq(N)]
    /\ external \in [Targets -> Seq(Events(N))]
    /\ links \in [Targets -> Seq(Services)]
    /\ processing \in [Targets -> BOOLEAN]
    /\ stack \in Seq(Frame)

(* A target is not called while it is at it. *)
Alone == \A i, j \in 1..Len(stack) : stack[i].t = stack[j].t => i = j

(* The flag of a target is set as long as its processEventQueue runs. *)
FlagsKept ==
    \A t \in Targets :
        processing[t] <=> \E i \in 1..Len(stack) : stack[i].t = t /\ stack[i].pc # "first"

(* Services call nobody. *)
ServicesOnTop ==
    \A i \in 1..Len(stack) :
        stack[i].t \in Services => i = Len(stack) /\ stack[i].pc = "events"

(* What a machine has raised, and the targets it has sent to, it will look *)
(* after itself.                                                           *)
OwnersRun ==
    \A t \in Targets : internal[t] # <<>> \/ links[t] # <<>> => t \in Machines /\ On(t)

(* A queue holds an event that f has put there. *)
Holds(q, f) == \E i \in 1..Len(q) : q[i].from = f

(* A machine that is answered is still running. *)
AnsweredRun ==
    \A m \in Machines, f \in Targets : Holds(external[m], f) => On(m)

(* What waits for a service was sent by a machine that is running and will *)
(* have the service go through its queue, unless the service is at it.     *)
Linked(f, u) == \E k \in 1..Len(links[f]) : links[f][k] = u
SendersRun ==
    \A u \in Services, f \in Targets \cup {App} : Holds(external[u], f) =>
        f \in Machines /\ On(f) /\ (Linked(f, u) \/ Top.t = u)

StackInv == stack \in Seq(Frame) /\ Alone /\ FlagsKept /\ ServicesOnTop
QueueInv == OwnersRun /\ AnsweredRun /\ SendersRun
IInv(N) == TypeOK(N) /\ StackInv /\ QueueInv

-----------------------------------------------------------------------------
(* Moving on in the top frame. *)
LEMMA MoveFacts ==
    ASSUME stack \in Seq(Frame), stack # <<>>,
           NEW pc \in {"first", "handle", "events", "links"}
    PROVE  /\ Move(pc) \in Seq(Frame) /\ Len(Move(pc)) = Len(stack)
           /\ Len(stack) \in Nat \ {0}
           /\ \A i \in 1..Len(stack) :
                /\ Move(pc)[i].t = stack[i].t
                /\ Move(pc)[i].pc = IF i = Len(stack) THEN pc ELSE stack[i].pc
<1> DEFINE n == Len(stack)
           top == [stack[n] EXCEPT !.pc = pc]
<1>1. n \in Nat \ {0} /\ stack[n] \in Frame
  OBVIOUS
<1>2. top \in Frame /\ top.t = stack[n].t /\ top.pc = pc
  BY <1>1 DEF Frame
<1>3. Move(pc) = [stack EXCEPT ![n] = top]
  BY DEF Move
<1> HIDE DEF top
<1>4. Move(pc) \in Seq(Frame) /\ Len(Move(pc)) = n
  BY <1>1, <1>2, <1>3
<1>5. \A i \in 1..n : Move(pc)[i] = IF i = n THEN top ELSE stack[i]
  BY <1>1, <1>3
<1> QED
  BY <1>1, <1>2, <1>4, <1>5

(* A new top frame. *)
LEMMA PushFacts ==
    ASSUME stack \in Seq(Frame), NEW f \in Frame
    PROVE  /\ Append(stack, f) \in Seq(Frame)
           /\ Len(Append(stack, f)) = Len(stack) + 1 /\ Len(stack) \in Nat
           /\ \A i \in 1..Len(stack) : Append(stack, f)[i] = stack[i]
           /\ Append(stack, f)[Len(stack) + 1] = f
OBVIOUS

(* The top frame gone. *)
LEMMA PopFacts ==
    ASSUME stack \in Seq(Frame), stack # <<>>
    PROVE  /\ SubSeq(stack, 1, Len(stack) - 1) \in Seq(Frame)
           /\ Len(SubSeq(stack, 1, Len(stack) - 1)) = Len(stack) - 1
           /\ Len(stack) \in Nat \ {0}
           /\ \A i \in 1..(Len(stack) - 1) :
                SubSeq(stack, 1, Len(stack) - 1)[i] = stack[i]
<1>1. Len(stack) \in Nat \ {0}
  OBVIOUS
<1> DEFINE k == Len(stack) - 1
<1>2. k \in Nat /\ \A i \in 1..k : stack[i] \in Frame
  BY <1>1
<1>3. /\ SubSeq(stack, 1, k) \in Seq(Frame)
      /\ Len(SubSeq(stack, 1, k)) = k
      /\ \A i \in 1..k : SubSeq(stack, 1, k)[i] = stack[i]
  <2> HIDE DEF k
  <2>1. k - 1 + 1 = k /\ \A i \in 1..k : 1 + i - 1 = i
    BY <1>2
  <2>2. /\ SubSeq(stack, 1, k) \in Seq(Frame)
        /\ Len(SubSeq(stack, 1, k)) = IF 1 <= k THEN k - 1 + 1 ELSE 0
        /\ \A i \in 1..(k - 1 + 1) : SubSeq(stack, 1, k)[i] = stack[1 + i - 1]
    BY <1>2, SubSeqProperties
  <2> QED
    BY <1>2, <2>1, <2>2
<1> QED
  BY <1>1, <1>3

(* An event more, and an event less. *)
LEMMA AppendFacts ==
    ASSUME NEW S, NEW s \in Seq(S), NEW e \in S
    PROVE  /\ Append(s, e) \in Seq(S)
           /\ \A i \in 1..Len(Append(s, e)) :
                \/ i \in 1..Len(s) /\ Append(s, e)[i] = s[i]
                \/ Append(s, e)[i] = e
           /\ \A i \in 1..Len(s) :
                i \in 1..Len(Append(s, e)) /\ Append(s, e)[i] = s[i]
           /\ Len(s) + 1 \in 1..Len(Append(s, e)) /\ Append(s, e)[Len(s) + 1] = e
OBVIOUS

LEMMA TailFacts ==
    ASSUME NEW S, NEW s \in Seq(S), s # <<>>
    PROVE  /\ Tail(s) \in Seq(S) /\ Head(s) \in S /\ Head(s) = s[1]
           /\ 1 \in 1..Len(s)
           /\ \A i \in 1..Len(Tail(s)) : i + 1 \in 1..Len(s) /\ Tail(s)[i] = s[i + 1]
           /\ \A i \in 1..Len(s) :
                i # 1 => i - 1 \in 1..Len(Tail(s)) /\ Tail(s)[i - 1] = s[i]
BY HeadTailProperties

-----------------------------------------------------------------------------
(* What the calls under way promise, and who is called.                    *)

(* A step within a call of a machine, after its first event. *)
LEMMA Moved ==
    ASSUME StackInv, NEW m \in Machines, stack # <<>>, Top.t = m,
           NEW pc \in {"handle", "events", "links"}, stack' = Move(pc),
           processing \in [Targets -> BOOLEAN],
           processing' = [processing EXCEPT ![m] = TRUE]
    PROVE  /\ StackInv' /\ stack' # <<>> /\ Top'.t = m
           /\ \A t \in Targets : On(t)' <=> On(t)
<1> DEFINE n == Len(stack)
<1>1. /\ stack' \in Seq(Frame) /\ Len(stack') = n /\ n \in Nat \ {0}
      /\ \A i \in 1..n : /\ stack'[i].t = stack[i].t
                         /\ stack'[i].pc = IF i = n THEN pc ELSE stack[i].pc
  BY MoveFacts DEF StackInv
<1>2. m \in Targets /\ m \notin Services /\ stack[n].t = m
  BY TargetsAssumption DEF Targets, Top
<1>3. Alone'
  BY <1>1 DEF StackInv, Alone
<1>4. FlagsKept'
  <2> SUFFICES ASSUME NEW t \in Targets
               PROVE  processing'[t] <=>
                        \E i \in 1..n : stack'[i].t = t /\ stack'[i].pc # "first"
    BY <1>1 DEF FlagsKept
  <2>1. CASE t = m
    BY <2>1, <1>1, <1>2
  <2>2. CASE t # m
    <3>1. processing'[t] = processing[t]
      BY <2>2
    <3>2. \A i \in 1..n : /\ stack'[i].t = stack[i].t
                          /\ stack[i].t = t => stack'[i].pc = stack[i].pc
      BY <1>1, <1>2, <2>2
    <3>3. (\E i \in 1..n : stack'[i].t = t /\ stack'[i].pc # "first")
          <=> \E i \in 1..n : stack[i].t = t /\ stack[i].pc # "first"
      BY <3>2
    <3> QED
      BY <3>1, <3>3 DEF StackInv, FlagsKept
  <2> QED
    BY <2>1, <2>2
<1>5. ServicesOnTop'
  BY <1>1, <1>2 DEF StackInv, ServicesOnTop
<1>6. \A t \in Targets : On(t)' <=> On(t)
  BY <1>1 DEF On
<1>7. stack' # <<>> /\ Top'.t = m
  BY <1>1, <1>2 DEF Top
<1> QED
  BY <1>1, <1>3, <1>4, <1>5, <1>6, <1>7 DEF StackInv

(* A machine, or the application, calls a target that is not under way. *)
LEMMA Pushed ==
    ASSUME StackInv, NEW t \in Targets, ~On(t),
           stack = <<>> \/ Top.t \in Machines,
           stack' = Append(stack, [t |-> t, pc |-> "events"]),
           processing \in [Targets -> BOOLEAN],
           processing' = [processing EXCEPT ![t] = TRUE]
    PROVE  /\ StackInv' /\ stack' # <<>> /\ Top'.t = t
           /\ \A s \in Targets : On(s)' <=> On(s) \/ s = t
<1> DEFINE n == Len(stack)
           f == [t |-> t, pc |-> "events"]
<1>0. f \in Frame /\ f.t = t /\ f.pc = "events"
  BY DEF Frame
<1> HIDE DEF f
<1>1. /\ stack' \in Seq(Frame) /\ Len(stack') = n + 1 /\ n \in Nat
      /\ \A i \in 1..n : stack'[i] = stack[i]
      /\ stack'[n + 1] = f
  BY <1>0, PushFacts DEF StackInv, f
<1>2. \A i \in 1..n : stack[i].t # t
  BY DEF On
<1>3. Alone'
  BY <1>0, <1>1, <1>2 DEF StackInv, Alone
<1>4. FlagsKept'
  <2> SUFFICES ASSUME NEW s \in Targets
               PROVE  processing'[s] <=>
                        \E i \in 1..(n + 1) : stack'[i].t = s /\ stack'[i].pc # "first"
    BY <1>1 DEF FlagsKept
  <2>1. CASE s = t
    BY <2>1, <1>0, <1>1
  <2>2. CASE s # t
    <3>1. processing'[s] = processing[s]
      BY <2>2
    <3>2. (\E i \in 1..(n + 1) : stack'[i].t = s /\ stack'[i].pc # "first")
          <=> \E i \in 1..n : stack[i].t = s /\ stack[i].pc # "first"
      BY <1>0, <1>1, <2>2
    <3> QED
      BY <3>1, <3>2 DEF StackInv, FlagsKept
  <2> QED
    BY <2>1, <2>2
<1>5. ServicesOnTop'
  <2>1. \A i \in 1..n : stack[i].t \notin Services
    BY <1>1, TargetsAssumption DEF StackInv, ServicesOnTop, Top
  <2> QED
    BY <1>0, <1>1, <2>1 DEF ServicesOnTop
<1>6. \A s \in Targets : On(s)' <=> On(s) \/ s = t
  BY <1>0, <1>1 DEF On
<1>7. stack' # <<>> /\ Top'.t = t
  BY <1>0, <1>1 DEF Top
<1> QED
  BY <1>1, <1>3, <1>4, <1>5, <1>6, <1>7 DEF StackInv

(* A call returns. *)
LEMMA Popped ==
    ASSUME StackInv, NEW t \in Targets, stack # <<>>, Top.t = t,
           stack' = SubSeq(stack, 1, Len(stack) - 1),
           processing \in [Targets -> BOOLEAN],
           processing' = [processing EXCEPT ![t] = FALSE]
    PROVE  StackInv' /\ \A s \in Targets : On(s)' <=> On(s) /\ s # t
<1> DEFINE n == Len(stack)
<1>1. /\ stack' \in Seq(Frame) /\ Len(stack') = n - 1 /\ n \in Nat \ {0}
      /\ \A i \in 1..(n - 1) : stack'[i] = stack[i]
  BY PopFacts DEF StackInv
<1>2. stack[n].t = t /\ \A i \in 1..(n - 1) : stack[i].t # t
  BY <1>1 DEF StackInv, Alone, Top
<1>3. Alone'
  BY <1>1 DEF StackInv, Alone
<1>4. FlagsKept'
  <2> SUFFICES ASSUME NEW s \in Targets
               PROVE  processing'[s] <=>
                        \E i \in 1..(n - 1) : stack'[i].t = s /\ stack'[i].pc # "first"
    BY <1>1 DEF FlagsKept
  <2>1. CASE s = t
    BY <2>1, <1>1, <1>2
  <2>2. CASE s # t
    <3>1. processing'[s] = processing[s]
      BY <2>2
    <3>2. (\E i \in 1..(n - 1) : stack'[i].t = s /\ stack'[i].pc # "first")
          <=> \E i \in 1..n : stack[i].t = s /\ stack[i].pc # "first"
      BY <1>1, <1>2, <2>2
    <3> QED
      BY <3>1, <3>2 DEF StackInv, FlagsKept
  <2> QED
    BY <2>1, <2>2
<1>5. ServicesOnTop'
  BY <1>1 DEF StackInv, ServicesOnTop
<1>6. \A s \in Targets : On(s)' <=> On(s) /\ s # t
  BY <1>1, <1>2 DEF On
<1> QED
  BY <1>1, <1>3, <1>4, <1>5, <1>6 DEF StackInv

(* Nothing is called and nothing returns. *)
LEMMA Stayed ==
    ASSUME StackInv, UNCHANGED <<stack, processing>>
    PROVE  StackInv' /\ Top' = Top /\ \A t \in Targets : On(t)' <=> On(t)
BY DEF StackInv, Alone, FlagsKept, ServicesOnTop, On, Top

-----------------------------------------------------------------------------
(* What waits in the queues, and who will see to it.                       *)

(* Who is heard of after an event more, and after one less. *)
LEMMA HoldsMore ==
    ASSUME NEW N, NEW q \in Seq(Events(N)), NEW e \in Events(N), NEW f, Holds(Append(q, e), f)
    PROVE  Holds(q, f) \/ f = e.from
<1>1. PICK i \in 1..Len(Append(q, e)) : Append(q, e)[i].from = f
  BY DEF Holds
<1>2. (i \in 1..Len(q) /\ Append(q, e)[i] = q[i]) \/ Append(q, e)[i] = e
  BY AppendFacts
<1> QED
  BY <1>1, <1>2 DEF Holds

LEMMA HoldsLess ==
    ASSUME NEW N, NEW q \in Seq(Events(N)), q # <<>>
    PROVE  /\ Head(q) \in Events(N) /\ Holds(q, Head(q).from)
           /\ \A f : Holds(Tail(q), f) => Holds(q, f)
<1>1. ASSUME NEW f, Holds(Tail(q), f)
      PROVE  Holds(q, f)
  <2>1. PICK i \in 1..Len(Tail(q)) : Tail(q)[i].from = f
    BY <1>1 DEF Holds
  <2>2. i + 1 \in 1..Len(q) /\ Tail(q)[i] = q[i + 1]
    BY TailFacts
  <2> QED
    BY <2>1, <2>2 DEF Holds
<1>2. Head(q) \in Events(N) /\ Holds(q, Head(q).from)
  BY TailFacts DEF Holds
<1> QED
  BY <1>1, <1>2

(* Nothing in the queues changes, and who is under way stays so; of the    *)
(* services none stops being the last called.                              *)
LEMMA QueuesStay ==
    ASSUME QueueInv, UNCHANGED queues,
           \A t \in Targets : On(t) => On(t)',
           \A u \in Services : stack # <<>> /\ Top.t = u => Top'.t = u
    PROVE  QueueInv'
<1>1. OwnersRun'
  BY DEF QueueInv, queues, OwnersRun
<1>2. AnsweredRun'
  BY DEF QueueInv, queues, AnsweredRun, Targets
<1>3. SendersRun'
  <2> SUFFICES ASSUME NEW u \in Services, NEW f \in Targets \cup {App},
                      Holds(external'[u], f)
               PROVE  f \in Machines /\ On(f)' /\ (Linked(f, u)' \/ Top'.t = u)
    BY DEF SendersRun
  <2>1. f \in Machines /\ On(f) /\ (Linked(f, u) \/ Top.t = u)
    BY DEF QueueInv, queues, SendersRun
  <2>2. On(f)' /\ stack # <<>>
    BY <2>1 DEF Targets, On
  <2>3. Linked(f, u)' <=> Linked(f, u)
    BY DEF Linked, queues
  <2> QED
    BY <2>1, <2>2, <2>3
<1> QED
  BY <1>1, <1>2, <1>3 DEF QueueInv

(* A machine that handles an event is under way, and no service is.        *)
LEMMA MachineOnTop ==
    ASSUME StackInv, NEW m \in Machines, stack # <<>>, Top.t = m
    PROVE  /\ On(m) /\ m \in Targets /\ m \notin Services
           /\ \A u \in Services : ~On(u) /\ Top.t # u
<1>1. Len(stack) \in Nat \ {0} /\ m \in Targets /\ m \notin Services
  BY TargetsAssumption DEF StackInv, Targets
<1> QED
  BY <1>1 DEF StackInv, ServicesOnTop, On, Top

LEMMA QueueEventKeeps ==
    ASSUME NEW N, IInv(N), NEW m \in Machines, NEW n \in N, QueueEvent(m, n) PROVE IInv(N)'
<1> DEFINE e == [name |-> n, from |-> App]
<1>1. e \in Events(N) /\ e.from = App /\ App \notin Targets /\ m \in Targets
  BY TargetsAssumption DEF Events, Targets
<1>2. /\ external \in [Targets -> Seq(Events(N))]
      /\ external' = [external EXCEPT ![m] = Append(external[m], e)]
      /\ UNCHANGED <<internal, links, processing, stack>>
  BY DEF QueueEvent, IInv, TypeOK
<1> HIDE DEF e
<1>3. /\ external' \in [Targets -> Seq(Events(N))]
      /\ external[m] \in Seq(Events(N)) /\ external'[m] = Append(external[m], e)
      /\ \A t \in Targets : t # m => external'[t] = external[t]
  BY <1>1, <1>2, AppendFacts
<1>4. TypeOK(N)'
  BY <1>2, <1>3 DEF IInv, TypeOK
<1>5. StackInv' /\ Top' = Top /\ \A t \in Targets : On(t)' <=> On(t)
  BY <1>2, Stayed DEF IInv
<1>6. OwnersRun'
  BY <1>2, <1>5 DEF IInv, QueueInv, OwnersRun
<1>7. AnsweredRun'
  <2> SUFFICES ASSUME NEW t \in Machines, NEW f \in Targets, Holds(external'[t], f)
               PROVE  On(t)'
    BY DEF AnsweredRun
  <2>1. f # e.from /\ t \in Targets
    BY <1>1 DEF Targets
  <2>2. Holds(external[t], f)
    <3>1. CASE t = m
      <4>1. Holds(Append(external[m], e), f) /\ external[m] \in Seq(Events(N))
        BY <3>1, <1>3
      <4> QED
        BY <4>1, <3>1, <2>1, <1>1, HoldsMore
    <3>2. CASE t # m
      BY <3>2, <2>1, <1>3
    <3> QED
      BY <3>1, <3>2
  <2> QED
    BY <2>1, <2>2, <1>5 DEF IInv, QueueInv, AnsweredRun
<1>8. SendersRun'
  <2>1. \A f \in Machines, u \in Services : Linked(f, u)' <=> Linked(f, u)
    BY <1>2 DEF Linked
  <2>2. \A u \in Services : u \in Targets /\ u # m
    BY TargetsAssumption DEF Targets
  <2> QED
    BY <1>3, <1>5, <2>1, <2>2 DEF IInv, QueueInv, SendersRun, Targets
<1> QED
  BY <1>4, <1>5, <1>6, <1>7, <1>8 DEF IInv, QueueInv

LEMMA RaiseKeeps ==
    ASSUME NEW N, IInv(N), NEW m \in Machines, NEW n \in N, Raise(m, n) PROVE IInv(N)'
<1>1. stack # <<>> /\ Top.t = m
  BY DEF Raise, Handling, At
<1>2. On(m) /\ m \in Targets
  BY <1>1, MachineOnTop DEF IInv
<1>3. /\ internal' = [internal EXCEPT ![m] = Append(internal[m], n)]
      /\ UNCHANGED <<external, links, processing, stack>>
  BY DEF Raise
<1>4. TypeOK(N)'
  BY <1>2, <1>3, AppendFacts DEF IInv, TypeOK
<1>5. StackInv' /\ Top' = Top /\ \A t \in Targets : On(t)' <=> On(t)
  BY <1>3, Stayed DEF IInv
<1>6. OwnersRun'
  <2>1. \A t \in Targets : t # m => internal'[t] = internal[t]
    BY <1>3 DEF IInv, TypeOK
  <2> QED
    BY <2>1, <1>2, <1>3, <1>5 DEF IInv, QueueInv, OwnersRun
<1>7. AnsweredRun'
  BY <1>3, <1>5 DEF IInv, QueueInv, AnsweredRun, Targets
<1>8. SendersRun'
  <2>1. \A f \in Machines, u \in Services : Linked(f, u)' <=> Linked(f, u)
    BY <1>3 DEF Linked
  <2> QED
    BY <1>3, <1>5, <2>1 DEF IInv, QueueInv, SendersRun, Targets
<1> QED
  BY <1>4, <1>5, <1>6, <1>7, <1>8 DEF IInv, QueueInv

LEMMA SendKeeps ==
    ASSUME NEW N, IInv(N), NEW m \in Machines, NEW u \in Services, NEW n \in N, Send(m, u, n)
    PROVE  IInv(N)'
<1> DEFINE e == [name |-> n, from |-> m]
<1>1. stack # <<>> /\ Top.t = m
  BY DEF Send, Handling, At
<1>2. On(m) /\ m \in Targets /\ u \in Targets /\ u \notin Machines
      /\ \A v \in Services : Top.t # v
  BY <1>1, MachineOnTop, TargetsAssumption DEF IInv, Targets
<1>3. e \in Events(N) /\ e.from = m
  BY <1>2 DEF Events
<1>4. /\ external' = [external EXCEPT ![u] = Append(external[u], e)]
      /\ links' = IF Linked(m, u) THEN links
                  ELSE [links EXCEPT ![m] = Append(links[m], u)]
      /\ UNCHANGED <<internal, processing, stack>>
  BY DEF Send, Linked
<1> HIDE DEF e
<1>5. /\ external' \in [Targets -> Seq(Events(N))]
      /\ external[u] \in Seq(Events(N)) /\ external'[u] = Append(external[u], e)
      /\ \A t \in Targets : t # u => external'[t] = external[t]
  BY <1>2, <1>3, <1>4, AppendFacts DEF IInv, TypeOK
<1>6. /\ links[m] \in Seq(Services)
      /\ links'[m] = IF Linked(m, u) THEN links[m] ELSE Append(links[m], u)
      /\ \A t \in Targets : t # m => links'[t] = links[t]
  BY <1>2, <1>4 DEF IInv, TypeOK
<1>7. TypeOK(N)'
  <2>1. links' \in [Targets -> Seq(Services)]
    BY <1>2, <1>4, AppendFacts DEF IInv, TypeOK
  <2> QED
    BY <2>1, <1>4, <1>5 DEF IInv, TypeOK
<1>8. StackInv' /\ Top' = Top /\ \A t \in Targets : On(t)' <=> On(t)
  BY <1>4, Stayed DEF IInv
<1>9. OwnersRun'
  BY <1>2, <1>4, <1>6, <1>8 DEF IInv, QueueInv, OwnersRun
<1>10. AnsweredRun'
  <2>1. \A t \in Machines : t # u /\ t \in Targets
    BY <1>2 DEF Targets
  <2> QED
    BY <2>1, <1>5, <1>8 DEF IInv, QueueInv, AnsweredRun
<1>11. SendersRun'
  <2>1. \A f \in Machines, v \in Services : Linked(f, v) => Linked(f, v)'
    <3>1. \A f \in Machines : f # m => links'[f] = links[f]
      BY <1>6 DEF Targets
    <3>2. \A k \in 1..Len(links[m]) :
            k \in 1..Len(links'[m]) /\ links'[m][k] = links[m][k]
      BY <1>6, AppendFacts
    <3> QED
      BY <3>1, <3>2 DEF Linked
  <2>2. Linked(m, u)'
    <3>1. CASE Linked(m, u)
      BY <3>1, <1>6 DEF Linked
    <3>2. CASE ~Linked(m, u)
      BY <3>2, <1>6, AppendFacts DEF Linked
    <3> QED
      BY <3>1, <3>2
  <2> SUFFICES ASSUME NEW v \in Services, NEW f \in Targets \cup {App},
                      Holds(external'[v], f)
               PROVE  f \in Machines /\ On(f)' /\ Linked(f, v)'
    BY DEF SendersRun
  <2>3. CASE v = u /\ f = m
    BY <2>2, <2>3, <1>2, <1>8
  <2>4. CASE ~(v = u /\ f = m)
    <3>1. Holds(external[v], f)
      BY <2>4, <1>3, <1>5, HoldsMore DEF Targets
    <3>2. f \in Machines /\ On(f) /\ Linked(f, v)
      BY <3>1, <1>2 DEF IInv, QueueInv, SendersRun
    <3> QED
      BY <3>2, <2>1, <1>8 DEF Targets
  <2> QED
    BY <2>3, <2>4
<1> QED
  BY <1>7, <1>8, <1>9, <1>10, <1>11 DEF IInv, QueueInv

(* A service takes an event from its queue: whatever happens to the rest,  *)
(* nothing is heard of in it that was not before.                          *)
LEMMA ServeKeeps ==
    ASSUME NEW N, IInv(N), NEW u \in Services, Serve(u) PROVE IInv(N)'
<1>1. stack # <<>> /\ Top.t = u /\ u \in Targets
  BY DEF Serve, At, Targets
<1>2. /\ external[u] # <<>> /\ external[u] \in Seq(Events(N))
      /\ external' = [external EXCEPT ![u] = Tail(external[u])]
      /\ UNCHANGED <<internal, links, processing, stack>>
  BY <1>1 DEF Serve, IInv, TypeOK
<1>3. /\ external' \in [Targets -> Seq(Events(N))]
      /\ external'[u] = Tail(external[u])
      /\ \A t \in Targets : t # u => external'[t] = external[t]
  BY <1>1, <1>2, TailFacts DEF IInv, TypeOK
<1>4. TypeOK(N)'
  BY <1>2, <1>3 DEF IInv, TypeOK
<1>5. StackInv' /\ Top' = Top /\ \A t \in Targets : On(t)' <=> On(t)
  BY <1>2, Stayed DEF IInv
<1>6. OwnersRun'
  BY <1>2, <1>5 DEF IInv, QueueInv, OwnersRun
<1>7. ASSUME NEW t \in Targets, NEW f, Holds(external'[t], f)
      PROVE  Holds(external[t], f)
  <2>1. CASE t = u
    BY <2>1, <1>2, <1>3, <1>7, HoldsLess
  <2>2. CASE t # u
    BY <2>2, <1>3, <1>7
  <2> QED
    BY <2>1, <2>2
<1>8. AnsweredRun'
  BY <1>5, <1>7 DEF IInv, QueueInv, AnsweredRun, Targets
<1>9. SendersRun'
  <2>1. \A f \in Machines, v \in Services : Linked(f, v)' <=> Linked(f, v)
    BY <1>2 DEF Linked
  <2> QED
    BY <1>5, <1>7, <2>1 DEF IInv, QueueInv, SendersRun, Targets
<1> QED
  BY <1>4, <1>5, <1>6, <1>8, <1>9 DEF IInv, QueueInv

(* And it answers the machine the event is from, which is still running.   *)
LEMMA AnswerKeeps ==
    ASSUME NEW N, IInv(N), NEW u \in Services, NEW n \in N, Answer(u, n) PROVE IInv(N)'
<1> DEFINE m == Head(external[u]).from
           e == [name |-> n, from |-> u]
<1>1. stack # <<>> /\ Top.t = u /\ u \in Targets /\ u \notin Machines
  BY TargetsAssumption DEF Answer, At, Targets
<1>2. /\ external[u] # <<>> /\ external[u] \in Seq(Events(N))
      /\ external' = [external EXCEPT ![u] = Tail(external[u]),
                                      ![m] = Append(@, e)]
      /\ UNCHANGED <<internal, links, processing, stack>>
  BY <1>1 DEF Answer, IInv, TypeOK
<1>3. Holds(external[u], m) /\ m \in Targets \cup {App}
  BY <1>2, HoldsLess DEF Events
<1>4. m \in Machines /\ On(m) /\ m \in Targets /\ m # u
  BY <1>1, <1>3 DEF IInv, QueueInv, SendersRun, Targets
<1>5. e \in Events(N) /\ e.from = u
  BY <1>1 DEF Events
<1> HIDE DEF m, e
<1>6. /\ external' \in [Targets -> Seq(Events(N))]
      /\ external[m] \in Seq(Events(N))
      /\ external'[u] = Tail(external[u]) /\ external'[m] = Append(external[m], e)
      /\ \A t \in Targets : t \notin {u, m} => external'[t] = external[t]
  <2>1. Tail(external[u]) \in Seq(Events(N))
    BY <1>2, TailFacts
  <2>2. external[m] \in Seq(Events(N)) /\ Append(external[m], e) \in Seq(Events(N))
    BY <1>4, <1>5, AppendFacts DEF IInv, TypeOK
  <2> QED
    BY <1>1, <1>2, <1>4, <2>1, <2>2 DEF IInv, TypeOK
<1>7. TypeOK(N)'
  BY <1>2, <1>6 DEF IInv, TypeOK
<1>8. StackInv' /\ Top' = Top /\ \A t \in Targets : On(t)' <=> On(t)
  BY <1>2, Stayed DEF IInv
<1>9. OwnersRun'
  BY <1>2, <1>8 DEF IInv, QueueInv, OwnersRun
<1>10. ASSUME NEW t \in Targets, NEW f, Holds(external'[t], f)
       PROVE  Holds(external[t], f) \/ t = m
  <2>1. CASE t = u
    BY <2>1, <1>2, <1>6, <1>10, HoldsLess
  <2>2. CASE t \notin {u, m}
    BY <2>2, <1>6, <1>10
  <2> QED
    BY <2>1, <2>2
<1>11. AnsweredRun'
  BY <1>4, <1>8, <1>10 DEF IInv, QueueInv, AnsweredRun, Targets
<1>12. SendersRun'
  <2>1. \A f \in Machines, v \in Services : Linked(f, v)' <=> Linked(f, v)
    BY <1>2 DEF Linked
  <2>2. \A v \in Services : v # m /\ v \in Targets
    BY <1>4, TargetsAssumption DEF Targets
  <2> QED
    BY <1>8, <1>10, <2>1, <2>2 DEF IInv, QueueInv, SendersRun, Targets
<1> QED
  BY <1>7, <1>8, <1>9, <1>11, <1>12 DEF IInv, QueueInv

(* In a call of processEventQueue the flag is set. *)
LEMMA FlagSet ==
    ASSUME NEW N, IInv(N), NEW t \in Targets, stack # <<>>, Top.t = t, Top.pc # "first"
    PROVE  processing[t]
<1>1. Len(stack) \in 1..Len(stack) /\ stack[Len(stack)] = Top
  BY DEF IInv, StackInv, Top
<1> QED
  BY <1>1 DEF IInv, StackInv, FlagsKept

(* A machine goes on in its own call, whatever it has done to its queues   *)
(* that leaves them as they were.                                          *)
LEMMA MoveKeeps ==
    ASSUME NEW N, IInv(N), NEW m \in Machines, stack # <<>>, Top.t = m,
           NEW pc \in {"handle", "events", "links"}, stack' = Move(pc),
           processing' = [processing EXCEPT ![m] = TRUE], UNCHANGED queues
    PROVE  IInv(N)'
<1>1. /\ StackInv' /\ Top'.t = m
      /\ \A t \in Targets : On(t)' <=> On(t)
  BY Moved DEF IInv, TypeOK
<1>2. QueueInv'
  BY <1>1, QueuesStay DEF IInv
<1>3. TypeOK(N)'
  BY <1>1 DEF IInv, TypeOK, StackInv, queues
<1> QED
  BY <1>1, <1>2, <1>3 DEF IInv

LEMMA HandledKeeps ==
    ASSUME NEW N, IInv(N), NEW m \in Machines, Handled(m) PROVE IInv(N)'
<1>1. /\ stack # <<>> /\ Top.t = m /\ stack' = Move("events")
      /\ processing' = [processing EXCEPT ![m] = TRUE] /\ UNCHANGED queues
  BY DEF Handled, Handling, At
<1> QED
  BY <1>1, MoveKeeps

LEMMA LinksKeep ==
    ASSUME NEW N, IInv(N), NEW m \in Machines, StartLinks(m) \/ LinksDone(m) PROVE IInv(N)'
<1>1. /\ stack # <<>> /\ Top.t = m /\ Top.pc # "first"
      /\ UNCHANGED <<queues, processing>>
  BY DEF StartLinks, LinksDone, Drained, At
<1>2. processing' = [processing EXCEPT ![m] = TRUE]
  BY <1>1, FlagSet DEF IInv, TypeOK, Targets
<1>3. CASE stack' = Move("links")
  BY <1>1, <1>2, <1>3, MoveKeeps
<1>4. CASE stack' = Move("events")
  BY <1>1, <1>2, <1>4, MoveKeeps
<1> QED
  BY <1>3, <1>4 DEF StartLinks, LinksDone

(* getNextEvent: the queues only get shorter. *)
LEMMA NextEventKeeps ==
    ASSUME NEW N, IInv(N), NEW m \in Machines, NextEvent(m) PROVE IInv(N)'
<1>1. /\ stack # <<>> /\ Top.t = m /\ Top.pc # "first" /\ m \in Targets
      /\ stack' = Move("handle") /\ UNCHANGED <<links, processing>>
  BY DEF NextEvent, At, Targets
<1>2. processing' = [processing EXCEPT ![m] = TRUE]
  BY <1>1, FlagSet DEF IInv, TypeOK
<1>3. /\ StackInv' /\ Top'.t = m
      /\ \A t \in Targets : On(t)' <=> On(t)
  BY <1>1, <1>2, Moved DEF IInv, TypeOK
<1>4. On(m) /\ \A u \in Services : Top.t # u
  BY <1>1, MachineOnTop DEF IInv
<1>5. internal' \in [Targets -> Seq(N)] /\ external' \in [Targets -> Seq(Events(N))]
  <2>1. internal[m] \in Seq(N) /\ external[m] \in Seq(Events(N))
    BY <1>1 DEF IInv, TypeOK
  <2>2. /\ internal[m] # <<>> => Tail(internal[m]) \in Seq(N)
        /\ external[m] # <<>> => Tail(external[m]) \in Seq(Events(N))
    BY <2>1, TailFacts
  <2> QED
    BY <2>2, <1>1 DEF NextEvent, IInv, TypeOK
<1>6. TypeOK(N)'
  BY <1>1, <1>3, <1>5 DEF IInv, TypeOK, StackInv
<1>7. OwnersRun'
  <2>1. \A t \in Targets : t # m => internal'[t] = internal[t]
    BY DEF NextEvent, IInv, TypeOK
  <2> QED
    BY <2>1, <1>1, <1>3, <1>4 DEF IInv, QueueInv, OwnersRun
<1>8. ASSUME NEW t \in Targets, NEW f, Holds(external'[t], f)
      PROVE  Holds(external[t], f)
  <2>1. CASE external' = external
    BY <2>1, <1>8
  <2>2. CASE /\ external[m] # <<>>
             /\ external' = [external EXCEPT ![m] = Tail(external[m])]
    <3>1. CASE t = m
      <4>1. external[m] \in Seq(Events(N)) /\ external'[m] = Tail(external[m])
        BY <2>2, <1>1 DEF IInv, TypeOK
      <4> QED
        BY <4>1, <3>1, <2>2, <1>8, HoldsLess
    <3>2. CASE t # m
      BY <3>2, <2>2, <1>8 DEF IInv, TypeOK
    <3> QED
      BY <3>1, <3>2
  <2> QED
    BY <2>1, <2>2 DEF NextEvent
<1>9. AnsweredRun'
  BY <1>3, <1>8 DEF IInv, QueueInv, AnsweredRun, Targets
<1>10. SendersRun'
  <2>1. \A f \in Machines, v \in Services : Linked(f, v)' <=> Linked(f, v)
    BY <1>1 DEF Linked
  <2> QED
    BY <1>3, <1>4, <1>8, <2>1 DEF IInv, QueueInv, SendersRun, Targets
<1> QED
  BY <1>3, <1>6, <1>7, <1>9, <1>10 DEF IInv, QueueInv

(* The application has a machine go through its queue: at once, or not at  *)
(* all if the machine is at it further down.                               *)
LEMMA ProcessEventQueueKeeps ==
    ASSUME NEW N, IInv(N), NEW m \in Machines, ProcessEventQueue(m) PROVE IInv(N)'
<1>1. m \in Targets /\ UNCHANGED queues /\ (stack = <<>> \/ Top.t \in Machines)
  BY DEF ProcessEventQueue, Calls, Handling, At, Targets
<1>2. CASE stack' = stack /\ UNCHANGED processing
  <2>1. StackInv' /\ Top' = Top /\ \A t \in Targets : On(t)' <=> On(t)
    BY <1>2, Stayed DEF IInv
  <2>2. QueueInv'
    BY <1>1, <2>1, QueuesStay DEF IInv
  <2> QED
    BY <1>1, <1>2, <2>1, <2>2 DEF IInv, TypeOK, queues
<1>3. CASE /\ ~processing[m]
           /\ stack' = Append(stack, [t |-> m, pc |-> "events"])
           /\ processing' = [processing EXCEPT ![m] = TRUE]
  <2>1. ~On(m)
    <3> SUFFICES ASSUME NEW i \in 1..Len(stack), stack[i].t = m
                 PROVE  FALSE
      BY DEF On
    <3>1. stack[i].pc = "first"
      BY <1>1, <1>3 DEF IInv, StackInv, FlagsKept
    <3>2. stack[i] \in Frame
      BY DEF IInv, TypeOK
    <3>3. stack[i] = [t |-> m, pc |-> "first"]
      BY <3>1, <3>2 DEF Frame
    <3> QED
      BY <3>3 DEF ProcessEventQueue
  <2>2. /\ StackInv' /\ Top'.t = m
        /\ \A t \in Targets : On(t)' <=> On(t) \/ t = m
    BY <1>1, <1>3, <2>1, Pushed DEF IInv, TypeOK
  <2>3. \A u \in Services : stack # <<>> => Top.t # u
    BY <1>1, TargetsAssumption
  <2>4. QueueInv'
    BY <1>1, <2>2, <2>3, QueuesStay DEF IInv
  <2> QED
    BY <1>1, <1>3, <2>2, <2>4 DEF IInv, TypeOK, StackInv, queues
<1> QED
  BY <1>2, <1>3 DEF ProcessEventQueue, Process

(* initialize() is called from outside. *)
LEMMA InitializeKeeps ==
    ASSUME NEW N, IInv(N), NEW m \in Machines, Initialize(m) PROVE IInv(N)'
<1> DEFINE f == [t |-> m, pc |-> "first"]
<1>1. /\ stack = <<>> /\ stack' = <<f>> /\ UNCHANGED <<queues, processing>>
      /\ m \in Targets /\ m \notin Services
  BY TargetsAssumption DEF Initialize, Targets
<1>2. f \in Frame /\ f.t = m /\ f.pc = "first"
  BY <1>1 DEF Frame
<1> HIDE DEF f
<1>3. stack' \in Seq(Frame) /\ Len(stack') = 1 /\ stack'[1] = f
  BY <1>1, <1>2
<1>4. \A t \in Targets : ~On(t) /\ ~processing[t]
  BY <1>1 DEF On, IInv, StackInv, FlagsKept
<1>5. StackInv'
  <2>1. Alone'
    BY <1>3 DEF Alone
  <2>2. FlagsKept'
    BY <1>1, <1>2, <1>3, <1>4 DEF FlagsKept
  <2>3. ServicesOnTop'
    BY <1>1, <1>2, <1>3 DEF ServicesOnTop
  <2> QED
    BY <1>3, <2>1, <2>2, <2>3 DEF StackInv
<1>6. QueueInv'
  BY <1>1, <1>4, QueuesStay DEF IInv
<1> QED
  BY <1>1, <1>3, <1>5, <1>6 DEF IInv, TypeOK, queues

(* A machine calls a service it has sent to. *)
LEMMA NextLinkKeeps ==
    ASSUME NEW N, IInv(N), NEW m \in Machines, NextLink(m) PROVE IInv(N)'
<1> DEFINE u == Head(links[m])
<1>1. /\ stack # <<>> /\ Top.t = m /\ links[m] # <<>> /\ m \in Targets
      /\ links' = [links EXCEPT ![m] = Tail(links[m])]
      /\ UNCHANGED <<internal, external>>
      /\ Process(u, stack)
  BY DEF NextLink, At, Targets
<1>2. On(m) /\ \A v \in Services : ~On(v) /\ Top.t # v
  BY <1>1, MachineOnTop DEF IInv
<1>3. /\ links[m] \in Seq(Services) /\ u \in Services /\ u = links[m][1]
      /\ Tail(links[m]) \in Seq(Services) /\ u \in Targets
      /\ \A i \in 1..Len(links[m]) :
           i # 1 => i - 1 \in 1..Len(Tail(links[m])) /\ Tail(links[m])[i - 1] = links[m][i]
  <2>1. links[m] \in Seq(Services)
    BY <1>1 DEF IInv, TypeOK
  <2> QED
    BY <2>1, <1>1, TailFacts DEF Targets
<1> HIDE DEF u
<1>4. ~processing[u]
  BY <1>2, <1>3 DEF IInv, StackInv, FlagsKept, On
<1>5. /\ stack' = Append(stack, [t |-> u, pc |-> "events"])
      /\ processing' = [processing EXCEPT ![u] = TRUE]
  BY <1>1, <1>4 DEF Process
<1>6. /\ StackInv' /\ Top'.t = u
      /\ \A t \in Targets : On(t)' <=> On(t) \/ t = u
  BY <1>1, <1>2, <1>3, <1>5, Pushed DEF IInv, TypeOK
<1>7. TypeOK(N)'
  BY <1>1, <1>3, <1>5, <1>6 DEF IInv, TypeOK, StackInv
<1>8. links'[m] = Tail(links[m]) /\ \A t \in Targets : t # m => links'[t] = links[t]
  BY <1>1 DEF IInv, TypeOK
<1>9. OwnersRun'
  BY <1>1, <1>2, <1>6, <1>8 DEF IInv, QueueInv, OwnersRun
<1>10. AnsweredRun'
  BY <1>1, <1>6 DEF IInv, QueueInv, AnsweredRun, Targets
<1>11. SendersRun'
  <2>1. ASSUME NEW f \in Machines, NEW v \in Services, Linked(f, v), v # u
        PROVE  Linked(f, v)'
    <3>1. CASE f = m
      <4>1. PICK k \in 1..Len(links[m]) : links[m][k] = v
        BY <2>1, <3>1 DEF Linked
      <4>2. k # 1
        BY <4>1, <2>1, <1>3
      <4> QED
        BY <3>1, <4>1, <4>2, <1>3, <1>8 DEF Linked
    <3>2. CASE f # m
      BY <2>1, <3>2, <1>8 DEF Linked, Targets
    <3> QED
      BY <3>1, <3>2
  <2> QED
    BY <2>1, <1>1, <1>2, <1>6 DEF IInv, QueueInv, SendersRun, Targets
<1> QED
  BY <1>6, <1>7, <1>9, <1>10, <1>11 DEF IInv, QueueInv

(* A call ends when the queues of its target are empty and it has seen to  *)
(* all it had sent to, so nobody needs it any more.                        *)
LEMMA ReturnKeeps ==
    ASSUME NEW N, IInv(N), NEW t \in Targets, Return(t) PROVE IInv(N)'
<1>1. /\ stack # <<>> /\ Top.t = t
      /\ internal[t] = <<>> /\ external[t] = <<>> /\ links[t] = <<>>
      /\ stack' = SubSeq(stack, 1, Len(stack) - 1)
      /\ processing' = [processing EXCEPT ![t] = FALSE] /\ UNCHANGED queues
  BY DEF Return, Drained, At
<1>2. StackInv' /\ \A s \in Targets : On(s)' <=> On(s) /\ s # t
  BY <1>1, Popped DEF IInv, TypeOK
<1>3. TypeOK(N)'
  BY <1>1, <1>2 DEF IInv, TypeOK, StackInv, queues
<1>4. OwnersRun'
  BY <1>1, <1>2 DEF IInv, QueueInv, OwnersRun, queues
<1>5. \A f : ~Holds(external[t], f)
  BY <1>1 DEF Holds
<1>6. AnsweredRun'
  BY <1>1, <1>2, <1>5 DEF IInv, QueueInv, AnsweredRun, queues, Targets
<1>7. SendersRun'
  <2> SUFFICES ASSUME NEW u \in Services, NEW f \in Targets \cup {App},
                      Holds(external'[u], f)
               PROVE  f \in Machines /\ On(f)' /\ Linked(f, u)'
    BY DEF SendersRun
  <2>1. u # t /\ f \in Machines /\ On(f) /\ Linked(f, u)
    BY <1>1, <1>5 DEF IInv, QueueInv, SendersRun, queues
  <2>2. f # t /\ links'[f] = links[f]
    BY <2>1, <1>1 DEF Linked, queues
  <2> QED
    BY <2>1, <2>2, <1>2 DEF Linked, Targets
<1> QED
  BY <1>2, <1>3, <1>4, <1>6, <1>7 DEF IInv, QueueInv

-----------------------------------------------------------------------------
LEMMA EventInitInv == EventInit => IInv({})
<1> SUFFICES ASSUME EventInit PROVE IInv({})
  OBVIOUS
<1>1. TypeOK({})
  BY DEF EventInit, TypeOK
<1>2. StackInv
  BY DEF EventInit, StackInv, Alone, FlagsKept, ServicesOnTop
<1>3. QueueInv
  BY DEF EventInit, QueueInv, OwnersRun, AnsweredRun, SendersRun, Holds, Targets
<1> QED
  BY <1>1, <1>2, <1>3 DEF IInv

(* Events that carry something from N carry something from a larger set.   *)
LEMMA Wider ==
    ASSUME NEW N, NEW n, IInv(N)
    PROVE  IInv(N \cup {n}) /\ n \in N \cup {n}
<1> DEFINE M == N \cup {n}
<1>1. N \subseteq M /\ n \in M
  OBVIOUS
<1> HIDE DEF M
<1>2. Events(N) \subseteq Events(M)
  BY <1>1 DEF Events
<1>3. Seq(N) \subseteq Seq(M) /\ Seq(Events(N)) \subseteq Seq(Events(M))
  <2>1. ASSUME NEW S, NEW T, S \subseteq T, NEW s \in Seq(S) PROVE s \in Seq(T)
    BY <2>1
  <2> QED
    BY <2>1, <1>1, <1>2
<1>4. TypeOK(M)
  BY <1>3 DEF IInv, TypeOK
<1> QED
  BY <1>1, <1>4 DEF IInv, M

(* A step of the targets, whatever the events carry.                       *)
EventStep ==
    \/ \E m \in Machines :
         \/ \E n : QueueEvent(m, n) \/ Raise(m, n)
         \/ \E u \in Services : \E n : Send(m, u, n)
         \/ ProcessEventQueue(m) \/ Initialize(m) \/ NextEvent(m) \/ Handled(m)
         \/ StartLinks(m) \/ NextLink(m) \/ LinksDone(m)
    \/ \E u \in Services : Serve(u) \/ \E n : Answer(u, n)
    \/ \E t \in Targets : Return(t)
    \/ UNCHANGED eventVars

(* For what the events carry so far, the invariant holds.                  *)
Kept == \E N : IInv(N)

LEMMA EventStepKeeps == Kept /\ EventStep => Kept'
<1> SUFFICES ASSUME Kept, EventStep PROVE Kept'
  OBVIOUS
<1>0. PICK N : IInv(N)
  BY DEF Kept
<1>1. ASSUME NEW m \in Machines, NEW n, QueueEvent(m, n) PROVE Kept'
  BY <1>0, <1>1, Wider, QueueEventKeeps DEF Kept
<1>2. ASSUME NEW m \in Machines, NEW n, Raise(m, n) PROVE Kept'
  BY <1>0, <1>2, Wider, RaiseKeeps DEF Kept
<1>3. ASSUME NEW m \in Machines, NEW u \in Services, NEW n, Send(m, u, n) PROVE Kept'
  BY <1>0, <1>3, Wider, SendKeeps DEF Kept
<1>4. ASSUME NEW m \in Machines, ProcessEventQueue(m) PROVE Kept'
  BY <1>0, <1>4, ProcessEventQueueKeeps DEF Kept
<1>5. ASSUME NEW m \in Machines, Initialize(m) PROVE Kept'
  BY <1>0, <1>5, InitializeKeeps DEF Kept
<1>6. ASSUME NEW m \in Machines, NextEvent(m) PROVE Kept'
  BY <1>0, <1>6, NextEventKeeps DEF Kept
<1>7. ASSUME NEW m \in Machines, Handled(m) PROVE Kept'
  BY <1>0, <1>7, HandledKeeps DEF Kept
<1>8. ASSUME NEW m \in Machines, StartLinks(m) \/ LinksDone(m) PROVE Kept'
  BY <1>0, <1>8, LinksKeep DEF Kept
<1>9. ASSUME NEW m \in Machines, NextLink(m) PROVE Kept'
  BY <1>0, <1>9, NextLinkKeeps DEF Kept
<1>10. ASSUME NEW u \in Services, Serve(u) PROVE Kept'
  BY <1>0, <1>10, ServeKeeps DEF Kept
<1>11. ASSUME NEW u \in Services, NEW n, Answer(u, n) PROVE Kept'
  BY <1>0, <1>11, Wider, AnswerKeeps DEF Kept
<1>12. ASSUME NEW t \in Targets, Return(t) PROVE Kept'
  BY <1>0, <1>12, ReturnKeeps DEF Kept
<1>13. CASE UNCHANGED eventVars
  <2>1. StackInv' /\ Top' = Top /\ \A t \in Targets : On(t)' <=> On(t)
    BY <1>0, <1>13, Stayed DEF IInv, eventVars
  <2>2. QueueInv'
    BY <1>0, <1>13, <2>1, QueuesStay DEF IInv, eventVars, queues
  <2>3. IInv(N)'
    BY <1>0, <1>13, <2>1, <2>2 DEF IInv, TypeOK, eventVars
  <2> QED
    BY <2>3 DEF Kept
<1> QED
  BY <1>1, <1>2, <1>3, <1>4, <1>5, <1>6, <1>7, <1>8, <1>9, <1>10, <1>11, <1>12, <1>13
  DEF EventStep

LEMMA KeptStrandsNothing == Kept => NothingStranded
<1> SUFFICES ASSUME Kept PROVE NothingStranded
  OBVIOUS
<1>0. PICK N : IInv(N)
  BY DEF Kept
<1>1. \A i, j \in 1..Len(stack) : stack[i].t = stack[j].t => i = j
  BY <1>0 DEF IInv, StackInv, Alone
<1>2. ASSUME stack = <<>>, NEW t \in Targets
      PROVE  /\ internal[t] = <<>> /\ links[t] = <<>> /\ ~processing[t]
             /\ \A i \in 1..Len(external[t]) :
                  t \in Machines /\ external[t][i].from = App
  <2>1. \A s : ~On(s)
    BY <1>2 DEF On
  <2>2. internal[t] = <<>> /\ links[t] = <<>> /\ ~processing[t]
    BY <1>0, <1>2, <2>1 DEF IInv, StackInv, QueueInv, OwnersRun, FlagsKept
  <2>3. ASSUME NEW i \in 1..Len(external[t])
        PROVE  t \in Machines /\ external[t][i].from = App
    <3>1. Holds(external[t], external[t][i].from)
      BY DEF Holds
    <3>2. external[t][i] \in Events(N)
      BY <1>0 DEF IInv, TypeOK
    <3>3. external[t][i].from \in Targets \cup {App}
      BY <3>2 DEF Events
    <3> QED
      BY <1>0, <2>1, <3>1, <3>3 DEF IInv, QueueInv, AnsweredRun, SendersRun, Targets
  <2> QED
    BY <2>2, <2>3
<1> QED
  BY <1>1, <1>2 DEF NothingStranded

(* Whatever the machines send and raise and the services answer, nothing   *)
(* of it is left when the outermost call returns, and no target handles    *)
(* two events at a time (ScXMLEventTarget::processEventQueue).             *)
THEOREM EventsAreNotStranded == EventSpec => []NothingStranded
<1>1. EventInit => Kept
  BY EventInitInv DEF Kept
<1>2. [EventNext]_eventVars => EventStep
  BY DEF EventNext, EventStep
<1> QED
  BY <1>1, <1>2, EventStepKeeps, KeptStrandsNothing, PTL DEF EventSpec

-----------------------------------------------------------------------------
(* What the state machines and the services do to the queues.              *)

(* A step of processOneEvent, or a call that leads to it.                  *)
LEMMA MachineSteps == MachineNext(Posted) => EventStep
<1> SUFFICES ASSUME NEW m \in Machines,
                    \/ \E n \in Posted[m] : Post(m, n)
                    \/ ProcessQueue(m) \/ InitializeMachine(m) \/ ProcessOneEvent(m)
                    \/ ExitState(m) \/ EnterState(m) \/ CallbacksReturn(m)
                    \/ Assign(m) \/ SendWhole(m) \/ SendShort(m) \/ RaiseEvent(m)
                    \/ TakeTransition(m) \/ ReplaceActive(m) \/ SettleNew(m)
                    \/ FollowInitial(m) \/ PushActive(m)
                    \/ EventProcessed(m) \/ Queueing(m)
             PROVE  EventStep
  BY DEF MachineNext
<1>1. ASSUME NEW n \in Posted[m], Post(m, n) PROVE EventStep
  BY <1>1 DEF Post, EventStep
<1>2. CASE ProcessQueue(m) \/ InitializeMachine(m) \/ ProcessOneEvent(m) \/ EventProcessed(m)
  BY <1>2 DEF ProcessQueue, InitializeMachine, ProcessOneEvent, EventProcessed, EventStep
<1>3. CASE \/ ExitState(m) \/ EnterState(m) \/ CallbacksReturn(m) \/ Assign(m)
           \/ TakeTransition(m) \/ ReplaceActive(m) \/ SettleNew(m)
           \/ FollowInitial(m) \/ PushActive(m)
  <2>1. UNCHANGED eventVars
    BY <1>3 DEF ExitState, EnterState, CallbacksReturn, Assign, TakeTransition,
                ReplaceActive, SettleNew, FollowInitial, PushActive
  <2> QED
    BY <2>1 DEF EventStep
<1>4. CASE SendWhole(m)
  BY <1>4 DEF SendWhole, EventStep
<1>5. CASE SendShort(m) \/ RaiseEvent(m)
  BY <1>5 DEF SendShort, RaiseEvent, EventStep
<1>6. CASE Queueing(m)
  BY <1>6 DEF Queueing, EventStep, Targets
<1> QED
  BY <1>1, <1>2, <1>3, <1>4, <1>5, <1>6

(* An event that a service handles, or a camera is set.                    *)
LEMMA ServiceSteps ==
    \/ RotateBegin \/ RotateUpdate \/ RotateEnd
    \/ SpinBegin \/ SpinUpdate \/ SpinEnd
    \/ SeekBegin \/ SeekUpdate \/ SeekEnd
    \/ ZoomStep \/ ServiceReturns
    \/ (\E m \in Switching : SetCamera(m)) \/ AssertFails
    => EventStep
<1>1. RotateBegin \/ RotateUpdate \/ RotateEnd => EventStep
  BY ServicesAssumption DEF RotateBegin, RotateUpdate, RotateEnd, Accepts, Answers, EventStep
<1>2. SpinBegin \/ SpinUpdate \/ SpinEnd => EventStep
  BY ServicesAssumption DEF SpinBegin, SpinUpdate, SpinEnd, Accepts, EventStep
<1>3. SeekBegin => EventStep
  BY ServicesAssumption DEF SeekBegin, Accepts, Answers, EventStep
<1>4. SeekUpdate \/ SeekEnd => EventStep
  BY ServicesAssumption DEF SeekUpdate, SeekEnd, Accepts, Answers, EventStep
<1>5. ZoomStep \/ ServiceReturns => EventStep
  BY ServicesAssumption DEF ZoomStep, ServiceReturns, Accepts, EventStep, Targets
<1>6. (\E m \in Switching : SetCamera(m)) \/ AssertFails => EventStep
  BY DEF SetCamera, AssertFails, vars, EventStep
<1> QED
  BY <1>1, <1>2, <1>3, <1>4, <1>5, <1>6

(* Whatever the documents make the machines do, for any number of them, no *)
(* event of theirs or of the navigation services is left when the          *)
(* outermost call returns, and none is handled while another is            *)
(* (ScXMLStateMachine::processOneEvent and the classes of navigation/).    *)
THEOREM NavigationStrandsNothing == Spec => []NothingStranded
<1>1. Init => Kept
  BY EventInitInv DEF Init, MachineInit, Kept
<1>2. [Next]_vars => EventStep
  BY MachineSteps, ServiceSteps DEF Next, vars, EventStep
<1> QED
  BY <1>1, <1>2, EventStepKeeps, KeptStrandsNothing, PTL DEF Spec

-----------------------------------------------------------------------------
(* Numbers and lists: induction over the natural numbers by their least    *)
(* elements, and what FlattenSeq gives of a list of lists.                 *)

(* A set of numbers that is not empty has a least element. *)
LEMMA LeastNumber ==
    ASSUME NEW T, T \subseteq Nat, T # {}
    PROVE  Min(T) \in T /\ \A m \in T : Min(T) <= m
<1> DEFINE R == OpToRel(<, Nat)
<1>1. PICK n \in T : \A m \in T : <<m, n>> \notin R
  <2>1. IsWellFoundedOn(R, Nat)
    BY NatLessThanWellFounded
  <2> HIDE DEF R
  <2> QED
    BY <2>1, WFMin
<1>2. \A m \in T : n <= m
  <2> SUFFICES ASSUME NEW m \in T PROVE n <= m
    OBVIOUS
  <2>1. <<m, n>> \notin R
    BY <1>1
  <2> QED
    BY <2>1 DEF OpToRel
<1> QED
  BY <1>2 DEF Min

(* Induction, for a set of numbers up to n. *)
LEMMA UpTo ==
    ASSUME NEW n \in Nat, NEW S, 0 \in S,
           \A k \in 0..(n - 1) : k \in S => k + 1 \in S
    PROVE  n \in S
<1> SUFFICES ASSUME n \notin S PROVE FALSE
  OBVIOUS
<1> DEFINE T == {k \in 0..n : k \notin S}
<1>1. Min(T) \in T /\ \A m \in T : Min(T) <= m
  <2>1. T \subseteq Nat /\ n \in T
    OBVIOUS
  <2> HIDE DEF T
  <2> QED
    BY <2>1, LeastNumber
<1> DEFINE k == Min(T)
<1>2. k \in 1..n /\ k \notin S
  BY <1>1
<1>3. k - 1 \in 0..(n - 1) /\ k - 1 \notin T
  <2> HIDE DEF T
  <2> QED BY <1>1, <1>2
<1> QED
  BY <1>2, <1>3

-----------------------------------------------------------------------------
(* FlattenSeq goes through the sequences from the first to the last.       *)
Glues(ss, n, g) == g = [i \in 1..n |-> IF i = 1 THEN ss[i] ELSE g[i - 1] \o ss[i]]

(* For every list of lists there is the function that glues their          *)
(* beginnings together.                                                    *)
LEMMA Glued ==
    ASSUME NEW ss, NEW n \in Nat
    PROVE  \E g : Glues(ss, n, g)
<1> DEFINE S == {k \in Nat : \E g : Glues(ss, k, g)}
<1>1. 0 \in S
  <2>1. Glues(ss, 0, [i \in 1..0 |-> 0])
    BY DEF Glues
  <2> QED
    BY <2>1
<1>2. ASSUME NEW k \in 0..(n - 1), k \in S PROVE k + 1 \in S
  <2>1. PICK g : Glues(ss, k, g)
    BY <1>2
  <2> DEFINE x == IF k = 0 THEN ss[1] ELSE g[k] \o ss[k + 1]
             h == [i \in 1..(k + 1) |-> IF i = k + 1 THEN x ELSE g[i]]
  <2>2. ASSUME NEW i \in 1..(k + 1)
        PROVE  h[i] = IF i = 1 THEN ss[i] ELSE h[i - 1] \o ss[i]
    <3>1. CASE i = k + 1
      BY <3>1, <2>1 DEF Glues
    <3>2. CASE i # k + 1
      <4>1. i \in 1..k /\ h[i] = g[i]
        BY <3>2
      <4>2. i # 1 => i - 1 \in 1..(k + 1) /\ h[i - 1] = g[i - 1]
        BY <3>2
      <4>3. g[i] = IF i = 1 THEN ss[i] ELSE g[i - 1] \o ss[i]
        BY <4>1, <2>1 DEF Glues
      <4> HIDE DEF h
      <4> QED
        BY <4>1, <4>2, <4>3
    <3> QED
      BY <3>1, <3>2
  <2>3. h = [i \in 1..(k + 1) |-> h[i]]
    <3> HIDE DEF x
    <3> QED
      OBVIOUS
  <2>4. Glues(ss, k + 1, h)
    <3> HIDE DEF h
    <3> QED
      BY <2>2, <2>3 DEF Glues
  <2> QED
    BY <2>4
<1> QED
  <2> HIDE DEF S
  <2>1. n \in S
    BY <1>1, <1>2, UpTo
  <2> QED
    BY <2>1 DEF S

(* What holds of nothing, and of a sequence with one more part when it     *)
(* holds without, holds of all parts together.                             *)
LEMMA FlattenInduction ==
    ASSUME NEW A, NEW ss \in Seq(Seq(A)), NEW R, <<0, <<>> >> \in R,
           \A k \in 0..(Len(ss) - 1) : \A s \in Seq(A) :
             <<k, s>> \in R => <<k + 1, s \o ss[k + 1]>> \in R
    PROVE  FlattenSeq(ss) \in Seq(A) /\ <<Len(ss), FlattenSeq(ss)>> \in R
<1> DEFINE n == Len(ss)
<1>0. n \in Nat /\ \A k \in 1..n : ss[k] \in Seq(A)
  OBVIOUS
<1>1. CASE n = 0
  BY <1>1 DEF FlattenSeq
<1>2. CASE n # 0
  <2> DEFINE g == CHOOSE f : f = [i \in 1..n |-> IF i = 1 THEN ss[i] ELSE f[i - 1] \o ss[i]]
  <2>1. Glues(ss, n, g)
    <3>1. \E f : f = [i \in 1..n |-> IF i = 1 THEN ss[i] ELSE f[i - 1] \o ss[i]]
      BY <1>0, Glued DEF Glues
    <3> QED
      BY <3>1 DEF Glues
  <2>2. FlattenSeq(ss) = g[n]
    BY <1>2 DEF FlattenSeq
  <2> HIDE DEF g
  <2>3. \A i \in 1..n : g[i] = IF i = 1 THEN ss[i] ELSE g[i - 1] \o ss[i]
    BY <2>1 DEF Glues
  <2> DEFINE S == {k \in 0..n : k = 0 \/ (g[k] \in Seq(A) /\ <<k, g[k]>> \in R)}
  <2>4. 0 \in S
    BY <1>0
  <2>5. ASSUME NEW k \in 0..(n - 1), k \in S PROVE k + 1 \in S
    <3>1. k + 1 \in 1..n /\ k + 1 \in 0..n /\ k + 1 # 0 /\ ss[k + 1] \in Seq(A)
      BY <1>0
    <3>2. CASE k = 0
      <4>1. g[k + 1] = ss[k + 1] /\ <<>> \o ss[k + 1] = ss[k + 1] /\ <<>> \in Seq(A)
        BY <2>3, <3>1, <3>2
      <4>2. <<k, <<>> >> \in R
        BY <3>2
      <4>3. <<k + 1, ss[k + 1]>> \in R
        BY <4>1, <4>2, <1>0
      <4> QED
        BY <3>1, <4>1, <4>3
    <3>3. CASE k # 0
      <4>1. g[k] \in Seq(A) /\ <<k, g[k]>> \in R
        BY <2>5, <3>3
      <4>2. g[k + 1] = g[k] \o ss[k + 1]
        <5>1. PICK j \in 1..n : j = k + 1
          BY <3>1
        <5>2. j # 1 /\ j - 1 = k
          BY <3>3, <5>1
        <5>3. g[j] = g[j - 1] \o ss[j]
          BY <2>3, <5>2
        <5> QED
          BY <5>1, <5>2, <5>3
      <4>3. <<k + 1, g[k] \o ss[k + 1]>> \in R
        BY <4>1, <1>0
      <4>4. g[k] \o ss[k + 1] \in Seq(A)
        BY <4>1, <3>1
      <4> QED
        BY <3>1, <4>2, <4>3, <4>4
    <3> QED
      BY <3>2, <3>3
  <2>6. n \in S
    <3> HIDE DEF S
    <3> QED
      BY <1>0, <2>4, <2>5, UpTo
  <2>7. g[n] \in Seq(A) /\ <<n, g[n]>> \in R
    BY <1>2, <2>6
  <2> QED
    BY <2>2, <2>7
<1> QED
  BY <1>1, <1>2

(* Flattening a list with one list in it gives that list.                  *)
LEMMA FlattenOne ==
    ASSUME NEW s, NEW A, s \in Seq(A)
    PROVE  FlattenSeq(<<s>>) = s
<1> DEFINE R == {<<0, <<>> >>, <<1, s>>}
<1>1. <<s>> \in Seq(Seq(A)) /\ Len(<<s>>) = 1 /\ <<s>>[1] = s /\ <<>> \o s = s
  OBVIOUS
<1>2. ASSUME NEW k \in 0..(Len(<<s>>) - 1), NEW t \in Seq(A), <<k, t>> \in R
      PROVE  <<k + 1, t \o <<s>>[k + 1]>> \in R
  <2>1. k = 0
    BY <1>1
  <2>2. t = <<>>
    BY <1>2, <2>1
  <2>3. k + 1 = 1 /\ t \o <<s>>[k + 1] = s
    BY <1>1, <2>1, <2>2
  <2> QED
    BY <2>3
<1>3. <<Len(<<s>>), FlattenSeq(<<s>>)>> \in R
  <2>1. <<0, <<>> >> \in R
    OBVIOUS
  <2> HIDE DEF R
  <2> QED
    BY <1>1, <1>2, <2>1, FlattenInduction
<1> QED
  BY <1>1, <1>3

(* Where each element of the flat sequence comes from. *)
LEMMA FlattenPositions ==
    ASSUME NEW A, NEW ss \in Seq(Seq(A))
    PROVE  /\ FlattenSeq(ss) \in Seq(A)
           /\ \E f \in [1..Len(FlattenSeq(ss)) -> Nat \X Nat] :
                /\ \A i \in 1..Len(FlattenSeq(ss)) :
                     /\ f[i][1] \in 1..Len(ss) /\ f[i][2] \in 1..Len(ss[f[i][1]])
                     /\ FlattenSeq(ss)[i] = ss[f[i][1]][f[i][2]]
                /\ \A i, j \in 1..Len(FlattenSeq(ss)) : f[i] = f[j] => i = j
<1> DEFINE From(k, s, f) ==
             /\ \A i \in 1..Len(s) :
                  /\ f[i][1] \in 1..k /\ f[i][2] \in 1..Len(ss[f[i][1]])
                  /\ s[i] = ss[f[i][1]][f[i][2]]
             /\ \A i, j \in 1..Len(s) : f[i] = f[j] => i = j
           Good(k, s) == \E f \in [1..Len(s) -> Nat \X Nat] : From(k, s, f)
           R == {r \in Nat \X Seq(A) : Good(r[1], r[2])}
<1>0. Len(ss) \in Nat /\ \A k \in 1..Len(ss) : ss[k] \in Seq(A)
  OBVIOUS
<1>4. \A k \in Nat, s \in Seq(A) : <<k, s>> \in R <=> Good(k, s)
  <2> HIDE DEF Good
  <2> QED
    OBVIOUS
<1>5. <<Len(ss), FlattenSeq(ss)>> \in R => Good(Len(ss), FlattenSeq(ss))
  <2> HIDE DEF Good
  <2> QED
    OBVIOUS
<1>1. <<0, <<>> >> \in R
  <2>1. [i \in 1..0 |-> <<0, 0>>] \in [1..0 -> Nat \X Nat]
    OBVIOUS
  <2>2. From(0, <<>>, [i \in 1..0 |-> <<0, 0>>])
    OBVIOUS
  <2>3. Len(<<>>) = 0 /\ <<>> \in Seq(A)
    OBVIOUS
  <2>4. Good(0, <<>>)
    <3> HIDE DEF From
    <3> QED
      BY <2>1, <2>2, <2>3
  <2> HIDE DEF R, Good
  <2> QED
    BY <1>4, <2>3, <2>4
<1>2. ASSUME NEW k \in 0..(Len(ss) - 1), NEW s \in Seq(A), <<k, s>> \in R
      PROVE  <<k + 1, s \o ss[k + 1]>> \in R
  <2> DEFINE p == ss[k + 1]
             n == Len(s)
             u == s \o p
  <2>0. p \in Seq(A) /\ k + 1 \in 1..Len(ss) /\ n \in Nat /\ k \in Nat
    BY <1>0
  <2>1. PICK f \in [1..n -> Nat \X Nat] : From(k, s, f)
    <3>1. Good(k, s)
      <4> HIDE DEF R, Good
      <4> QED
        BY <1>2, <1>4, <2>0
    <3> HIDE DEF From
    <3> QED
      BY <3>1
  <2> DEFINE g == [i \in 1..Len(u) |-> IF i <= n THEN f[i] ELSE <<k + 1, i - n>>]
  <2>2. /\ u \in Seq(A) /\ Len(u) = n + Len(p) /\ Len(p) \in Nat
        /\ \A i \in 1..n : u[i] = s[i]
        /\ \A i \in 1..Len(u) : ~(i <= n) => i - n \in 1..Len(p) /\ u[i] = p[i - n]
    <3> HIDE DEF p
    <3> QED
      BY <2>0, ConcatProperties
  <2> HIDE DEF u, From
  <2>3. g \in [1..Len(u) -> Nat \X Nat]
    BY <2>0, <2>2
  <2>4. ASSUME NEW i \in 1..Len(u)
        PROVE  /\ g[i][1] \in 1..(k + 1) /\ g[i][2] \in 1..Len(ss[g[i][1]])
               /\ u[i] = ss[g[i][1]][g[i][2]]
               /\ g[i][1] = k + 1 <=> ~(i <= n)
    <3>1. CASE i <= n
      <4>1. i \in 1..n /\ g[i] = f[i]
        BY <3>1, <2>0, <2>2
      <4>2. /\ f[i][1] \in 1..k /\ f[i][2] \in 1..Len(ss[f[i][1]])
            /\ s[i] = ss[f[i][1]][f[i][2]]
        BY <4>1, <2>1 DEF From
      <4>3. u[i] = s[i] /\ f[i][1] \in 1..(k + 1) /\ f[i][1] # k + 1
        <5>1. u[i] = s[i]
          BY <4>1, <2>2
        <5>2. \A j \in 1..k : j \in 1..(k + 1) /\ j # k + 1
          BY <2>0
        <5> QED
          BY <4>2, <5>1, <5>2
      <4> HIDE DEF g, p
      <4> QED
        BY <3>1, <4>1, <4>2, <4>3
    <3>2. CASE ~(i <= n)
      <4>1. g[i] = <<k + 1, i - n>>
        BY <3>2
      <4>2. i - n \in 1..Len(p) /\ u[i] = p[i - n]
        BY <3>2, <2>2
      <4> QED
        BY <3>2, <4>1, <4>2, <2>0
    <3> QED
      BY <3>1, <3>2
  <2>5. ASSUME NEW i \in 1..Len(u), NEW j \in 1..Len(u), g[i] = g[j]
        PROVE  i = j
    <3>1. i <= n <=> j <= n
      BY <2>4, <2>5
    <3>2. CASE i <= n
      <4>1. i \in 1..n /\ j \in 1..n /\ g[i] = f[i] /\ g[j] = f[j]
        BY <3>1, <3>2, <2>0
      <4> QED
        BY <4>1, <2>1, <2>5 DEF From
    <3>3. CASE ~(i <= n)
      <4>1. <<k + 1, i - n>> = <<k + 1, j - n>>
        BY <3>1, <3>3, <2>5
      <4> QED
        BY <4>1, <2>0
    <3> QED
      BY <3>2, <3>3
  <2>6. From(k + 1, u, g)
    <3> HIDE DEF g
    <3> QED
      BY <2>4, <2>5 DEF From
  <2>7. Good(k + 1, u)
    <3> HIDE DEF g
    <3> QED
      BY <2>3, <2>6
  <2>8. k + 1 \in Nat /\ u \in Seq(A)
    BY <2>0, <2>2
  <2> HIDE DEF R, Good
  <2>9. <<k + 1, u>> \in R
    BY <1>4, <2>7, <2>8
  <2> QED
    BY <2>9 DEF u
<1>3. FlattenSeq(ss) \in Seq(A) /\ <<Len(ss), FlattenSeq(ss)>> \in R
  <2> HIDE DEF R
  <2> QED
    BY <1>1, <1>2, FlattenInduction
<1>6. Good(Len(ss), FlattenSeq(ss))
  <2> HIDE DEF R, Good
  <2> QED
    BY <1>3, <1>5
<1> HIDE DEF R
<1> QED
  BY <1>3, <1>6

-----------------------------------------------------------------------------
(* The lineage of a state, and what is picked out of a list.               *)

(* The elements that are picked out, each from a place of its own. *)
LEMMA AmongFacts ==
    ASSUME NEW A, NEW s \in Seq(A), NEW S
    PROVE  /\ Among(s, S) \in Seq(A)
           /\ \E g \in [1..Len(Among(s, S)) -> 1..Len(s)] :
                /\ \A i \in 1..Len(Among(s, S)) : Among(s, S)[i] = s[g[i]] /\ s[g[i]] \in S
                /\ \A i, j \in 1..Len(Among(s, S)) : g[i] = g[j] => i = j
<1> DEFINE ss == [i \in 1..Len(s) |-> IF s[i] \in S THEN <<s[i]>> ELSE <<>>]
           u == FlattenSeq(ss)
<1>1. Len(s) \in Nat /\ \A i \in 1..Len(s) : s[i] \in A
  OBVIOUS
<1>2. ss \in Seq(Seq(A)) /\ Len(ss) = Len(s)
  <2>1. \A i \in 1..Len(s) : ss[i] \in Seq(A)
    BY <1>1
  <2> QED
    BY <1>1, <2>1
<1>3. \A i \in 1..Len(s) : \A j \in 1..Len(ss[i]) : s[i] \in S /\ j = 1 /\ ss[i][j] = s[i]
  BY <1>1
<1>4. Among(s, S) = u
  BY DEF Among
<1> HIDE DEF ss
<1>5. u \in Seq(A) /\
        \E f \in [1..Len(u) -> Nat \X Nat] :
          /\ \A i \in 1..Len(u) :
               /\ f[i][1] \in 1..Len(ss) /\ f[i][2] \in 1..Len(ss[f[i][1]])
               /\ u[i] = ss[f[i][1]][f[i][2]]
          /\ \A i, j \in 1..Len(u) : f[i] = f[j] => i = j
  BY <1>2, FlattenPositions
<1> HIDE DEF u
<1>6. PICK f \in [1..Len(u) -> Nat \X Nat] :
          /\ \A i \in 1..Len(u) :
               /\ f[i][1] \in 1..Len(ss) /\ f[i][2] \in 1..Len(ss[f[i][1]])
               /\ u[i] = ss[f[i][1]][f[i][2]]
          /\ \A i, j \in 1..Len(u) : f[i] = f[j] => i = j
  BY <1>5
<1> DEFINE g == [i \in 1..Len(u) |-> f[i][1]]
<1>7. ASSUME NEW i \in 1..Len(u)
      PROVE  g[i] \in 1..Len(s) /\ u[i] = s[g[i]] /\ s[g[i]] \in S /\ f[i] = <<g[i], 1>>
  <2>1. f[i] \in Nat \X Nat /\ g[i] = f[i][1]
    OBVIOUS
  <2>2. g[i] \in 1..Len(s) /\ f[i][2] \in 1..Len(ss[g[i]]) /\ u[i] = ss[g[i]][f[i][2]]
    BY <1>2, <1>6, <2>1
  <2> HIDE DEF g
  <2>3. s[g[i]] \in S /\ f[i][2] = 1 /\ ss[g[i]][f[i][2]] = s[g[i]]
    BY <1>3, <2>2
  <2> QED
    BY <2>1, <2>2, <2>3
<1>8. g \in [1..Len(u) -> 1..Len(s)]
  BY <1>7
<1> HIDE DEF g
<1>9. ASSUME NEW i \in 1..Len(u), NEW j \in 1..Len(u), g[i] = g[j]
      PROVE  i = j
  <2>1. f[i] = <<g[i], 1>> /\ f[j] = <<g[j], 1>>
    BY <1>7
  <2>2. f[i] = f[j]
    BY <1>9, <2>1
  <2> QED
    BY <1>6, <2>2
<1>10. \E h \in [1..Len(u) -> 1..Len(s)] :
         /\ \A i \in 1..Len(u) : u[i] = s[h[i]] /\ s[h[i]] \in S
         /\ \A i, j \in 1..Len(u) : h[i] = h[j] => i = j
  BY <1>7, <1>8, <1>9
<1> QED
  <2>1. PICK h \in [1..Len(u) -> 1..Len(s)] :
          /\ \A i \in 1..Len(u) : u[i] = s[h[i]] /\ s[h[i]] \in S
          /\ \A i, j \in 1..Len(u) : h[i] = h[j] => i = j
    BY <1>10
  <2>2. h \in [1..Len(Among(s, S)) -> 1..Len(s)]
    BY <1>4
  <2>3. \A i \in 1..Len(Among(s, S)) : Among(s, S)[i] = s[h[i]] /\ s[h[i]] \in S
    BY <1>4, <2>1
  <2>4. \A i, j \in 1..Len(Among(s, S)) : h[i] = h[j] => i = j
    BY <1>4, <2>1
  <2>5. Among(s, S) \in Seq(A)
    BY <1>4, <1>5
  <2> QED
    BY <2>2, <2>3, <2>4, <2>5

(* Nothing is picked out of a list by the empty set.                       *)
LEMMA AmongNone ==
    ASSUME NEW A, NEW s \in Seq(A)
    PROVE  Among(s, {}) = <<>>
<1>1. Among(s, {}) \in Seq(A) /\ \A i \in 1..Len(Among(s, {})) : FALSE
  BY AmongFacts
<1> QED
  BY <1>1

(* What is picked out of a list with one element.                          *)
LEMMA AmongOne ==
    ASSUME NEW a, NEW S
    PROVE  Among(<<a>>, S) = IF a \in S THEN <<a>> ELSE <<>>
<1> DEFINE x == IF a \in S THEN <<a>> ELSE <<>>
<1>1. x \in Seq({a})
  <2>1. <<a>> \in Seq({a}) /\ <<>> \in Seq({a})
    OBVIOUS
  <2> QED
    BY <2>1
<1>2. [i \in 1..Len(<<a>>) |-> IF <<a>>[i] \in S THEN <<(<<a>>[i])>> ELSE <<>>] = <<x>>
  OBVIOUS
<1>3. Among(<<a>>, S) = FlattenSeq(<<x>>)
  <2> HIDE DEF x
  <2> QED
    BY <1>2 DEF Among
<1> HIDE DEF x
<1>4. FlattenSeq(<<x>>) = x
  BY <1>1, FlattenOne
<1> QED
  BY <1>3, <1>4 DEF x

-----------------------------------------------------------------------------
(* The states of the document, and what they are in. *)
Inside(x) == IF x = Root THEN {} ELSE Range(Lineage[x])

(* The line from a state out to the root: each element is the container of *)
(* the one before, no state is in it twice, and its end is the line of     *)
(* each state in it (DocumentAssumption).                                  *)
LEMMA LineageFacts ==
    ASSUME NEW s \in States
    PROVE  LET up == Lineage[s]
           IN /\ up \in Seq(States) /\ Len(up) \in Nat \ {0} /\ up[1] = s
              /\ Range(up) = {up[i] : i \in 1..Len(up)}
              /\ \A i \in 1..Len(up) :
                   /\ Lineage[up[i]] = SubSeq(up, i, Len(up))
                   /\ Len(Lineage[up[i]]) = Len(up) - i + 1
                   /\ \A k \in 1..(Len(up) - i + 1) : Lineage[up[i]][k] = up[i + k - 1]
                   /\ Container[up[i]] = IF i = Len(up) THEN Root ELSE up[i + 1]
              /\ \A i, j \in 1..Len(up) : up[i] = up[j] => i = j
<1> DEFINE up == Lineage[s]
<1>1. up \in Seq(States) /\ up # <<>> /\ up[1] = s
      /\ \A i \in 1..Len(up) : Lineage[up[i]] = SubSeq(up, i, Len(up))
  BY DocumentAssumption
<1>2. Lineage \in [States -> Seq(States)]
  BY DocumentAssumption
<1> HIDE DEF up
<1>3. Len(up) \in Nat \ {0} /\ \A i \in 1..Len(up) : up[i] \in States
  BY <1>1
<1>4. Range(up) = {up[i] : i \in 1..Len(up)}
  BY <1>1 DEF Range
<1>5. ASSUME NEW i \in 1..Len(up)
      PROVE  /\ Len(Lineage[up[i]]) = Len(up) - i + 1
             /\ \A k \in 1..(Len(up) - i + 1) : Lineage[up[i]][k] = up[i + k - 1]
             /\ Container[up[i]] = IF i = Len(up) THEN Root ELSE up[i + 1]
  <2> DEFINE n == Len(up)
             w == SubSeq(up, i, n)
  <2>1. i \in 1..(n + 1) /\ n \in i - 1 .. n
    BY <1>3
  <2>2. /\ Len(w) = IF i <= n THEN n - i + 1 ELSE 0
        /\ \A k \in 1..(n - i + 1) : w[k] = up[i + k - 1]
    <3> HIDE DEF n
    <3>1. n = Len(up)
      BY DEF n
    <3> QED
      BY <1>1, <2>1, <3>1, SubSeqProperties
  <2>3. Len(w) = n - i + 1 /\ n \in Nat
    BY <1>3, <2>2
  <2>4. Lineage[up[i]] = w
    BY <1>1
  <2>5. Container[up[i]] = IF Len(w) = 1 THEN Root ELSE w[2]
    BY <1>3, <2>4 DEF Container
  <2> HIDE DEF w, n
  <2>6. i # n => w[2] = up[i + 1]
    <3> SUFFICES ASSUME i # n PROVE w[2] = up[i + 1]
      OBVIOUS
    <3>1. 2 \in 1..(n - i + 1) /\ i + 2 - 1 = i + 1
      BY <1>3, <2>3 DEF n
    <3> QED
      BY <2>2, <3>1
  <2>7. i = n <=> Len(w) = 1
    BY <2>3
  <2> QED
    BY <2>2, <2>3, <2>4, <2>5, <2>6, <2>7 DEF n
<1>6. ASSUME NEW i \in 1..Len(up), NEW j \in 1..Len(up), up[i] = up[j]
      PROVE  i = j
  <2>1. Len(up) - i + 1 = Len(up) - j + 1
    BY <1>5, <1>6
  <2> QED
    BY <1>3, <2>1
<1>7. up = Lineage[s]
  BY DEF up
<1> QED
  BY <1>1, <1>3, <1>4, <1>5, <1>6, <1>7

(* The states a machine is in when it is in s: s itself is the only one    *)
(* without a substate among them, and with s left those of its container   *)
(* remain.                                                                 *)
LEMMA InsideFacts ==
    ASSUME NEW s \in States
    PROVE  /\ s # Root /\ Inside(s) = Range(Lineage[s]) /\ s \in Inside(s)
           /\ Inside(s) \subseteq States
           /\ Container[s] \in States \cup {Root}
           /\ Inside(Container[s]) = Inside(s) \ {s}
           /\ \A x \in Inside(s) : Container[x] # s
           /\ \A x \in Inside(s) : x = s \/ ~Atomic(x)
<1> DEFINE up == Lineage[s]
           n == Len(up)
<1>1. /\ up \in Seq(States) /\ n \in Nat \ {0} /\ up[1] = s
      /\ Range(up) = {up[i] : i \in 1..n}
      /\ \A i \in 1..n :
           /\ Len(Lineage[up[i]]) = n - i + 1
           /\ \A k \in 1..(n - i + 1) : Lineage[up[i]][k] = up[i + k - 1]
           /\ Container[up[i]] = IF i = n THEN Root ELSE up[i + 1]
      /\ \A i, j \in 1..n : up[i] = up[j] => i = j
  BY LineageFacts
<1>2. s # Root /\ Root \notin States
  BY DocumentAssumption
<1>3. Inside(s) = Range(up)
  BY <1>2 DEF Inside
<1> HIDE DEF up
<1>0. n \in Nat \ {0}
  BY <1>1
<1>4. \A i \in 1..n : up[i] \in States
  BY <1>1
<1> HIDE DEF n
<1>5. 1 \in 1..n /\ Container[s] = IF 1 = n THEN Root ELSE up[1 + 1]
  <2>1. 1 \in 1..n
    BY <1>0
  <2>2. Container[up[1]] = IF 1 = n THEN Root ELSE up[1 + 1]
    BY <1>1, <2>1
  <2> QED
    BY <1>1, <2>1, <2>2
<1>6. n # 1 => 2 \in 1..n
  BY <1>0
<1>7. Container[s] \in States \cup {Root}
  BY <1>4, <1>5, <1>6
<1>8. Inside(Container[s]) = Inside(s) \ {s}
  <2>1. CASE n = 1
    <3>1. Range(up) = {s}
      BY <1>1, <2>1
    <3>2. Inside(Container[s]) = {}
      BY <1>5, <2>1 DEF Inside
    <3> QED
      BY <1>3, <3>1, <3>2
  <2>2. CASE n # 1
    <3> DEFINE w == Lineage[up[2]]
    <3>1. up[2] \in States /\ Container[s] = up[2] /\ 2 \in 1..n
      BY <1>4, <1>5, <1>6, <2>2
    <3>2. Inside(up[2]) = Range(w)
      BY <1>2, <3>1 DEF Inside
    <3>3. Len(w) = n - 2 + 1 /\ \A k \in 1..(n - 2 + 1) : w[k] = up[2 + k - 1]
      BY <1>1, <3>1
    <3>4. Len(w) = n - 1 /\ \A k \in 1..(n - 1) : k + 1 \in 1..n /\ w[k] = up[k + 1]
      BY <1>1, <3>3
    <3>5. Range(w) = {w[k] : k \in 1..(n - 1)}
      BY <3>1, <3>4, LineageFacts
    <3> HIDE DEF w, n
    <3>6. ASSUME NEW x \in Range(w) PROVE x \in Range(up) /\ x # s
      <4>1. PICK k \in 1..(n - 1) : x = w[k]
        BY <3>5
      <4>2. k + 1 \in 1..n /\ x = up[k + 1]
        BY <3>4, <4>1
      <4>3. k + 1 # 1
        BY <1>1
      <4> QED
        BY <1>1, <1>5, <4>2, <4>3
    <3>7. ASSUME NEW x \in Range(up), x # s PROVE x \in Range(w)
      <4>1. PICK i \in 1..n : x = up[i]
        BY <1>1
      <4>2. i # 1
        BY <1>1, <3>7, <4>1
      <4>3. i - 1 \in 1..(n - 1) /\ i - 1 + 1 = i
        BY <1>1, <4>2
      <4>4. x = w[i - 1]
        BY <3>4, <4>1, <4>3
      <4> QED
        BY <3>5, <4>3, <4>4
    <3>8. s \in Range(up)
      BY <1>1, <1>5
    <3> QED
      BY <1>3, <3>1, <3>2, <3>6, <3>7
  <2> QED
    BY <2>1, <2>2
<1>9. ASSUME NEW x \in Inside(s) PROVE Container[x] # s /\ (x = s \/ ~Atomic(x))
  <2>1. PICK i \in 1..n : x = up[i]
    BY <1>1, <1>3, <1>9
  <2>2. Container[x] = IF i = n THEN Root ELSE up[i + 1]
    BY <1>1, <2>1
  <2>3. i # n => i + 1 \in 1..n /\ i + 1 # 1
    BY <1>1
  <2>4. Container[x] # s
    BY <1>1, <1>2, <1>5, <2>2, <2>3
  <2>5. ASSUME i # 1 PROVE ~Atomic(x)
    <3>1. i - 1 \in 1..n /\ i - 1 # n /\ i - 1 + 1 = i
      BY <1>1, <2>5
    <3>2. Container[up[i - 1]] = up[i - 1 + 1]
      BY <1>1, <3>1
    <3>3. Container[up[i - 1]] = x /\ up[i - 1] \in States
      BY <1>4, <2>1, <3>1, <3>2
    <3> QED
      BY <3>3 DEF Atomic
  <2> QED
    BY <1>1, <2>1, <2>4, <2>5
<1>10. s \in Inside(s) /\ Inside(s) \subseteq States
  BY <1>1, <1>3, <1>4, <1>5
<1>11. Inside(s) = Range(Lineage[s])
  BY <1>3 DEF up
<1> QED
  BY <1>2, <1>7, <1>8, <1>9, <1>10, <1>11

(* A climb ends below what it looks for, or all the way up. *)
LEMMA ClimbFacts ==
    ASSUME NEW s \in States, NEW above
    PROVE  LET up == Lineage[s]
           IN \E n \in 0..Len(up) :
                /\ Climb(s, above) = SubSeq(up, 1, n)
                /\ Climb(s, above) \in Seq(States)
                /\ Len(Climb(s, above)) = n
                /\ \A i \in 1..n : Climb(s, above)[i] = up[i] /\ up[i] \notin above
                /\ n # Len(up) => up[n + 1] \in above
<1> DEFINE up == Lineage[s]
           T == {i \in 1..Len(up) : up[i] \in above} \cup {Len(up) + 1}
<1>1. up \in Seq(States) /\ Len(up) \in Nat \ {0} /\ \A i \in 1..Len(up) : up[i] \in States
  BY LineageFacts
<1>2. T \subseteq Nat /\ T # {}
  <2> HIDE DEF up
  <2> QED
    BY <1>1
<1>3. Climb(s, above) = SubSeq(up, 1, Min(T) - 1)
  BY DEF Climb
<1>4. Min(T) \in T /\ \A m \in T : Min(T) <= m
  <2> HIDE DEF T
  <2> QED
    BY <1>2, LeastNumber
<1> HIDE DEF up
<1> DEFINE n == Min(T) - 1
<1>5. n \in 0..Len(up)
  BY <1>1, <1>4
<1>6. \A i \in 1..n : i \in 1..Len(up) /\ up[i] \notin above
  <2> SUFFICES ASSUME NEW i \in 1..n PROVE i \in 1..Len(up) /\ up[i] \notin above
    OBVIOUS
  <2>1. i \in 1..Len(up) /\ ~(Min(T) <= i)
    BY <1>1, <1>4
  <2> QED
    BY <1>4, <2>1
<1>7. n # Len(up) => up[n + 1] \in above
  <2>1. n + 1 = Min(T)
    BY <1>1, <1>4
  <2>2. n # Len(up) => Min(T) # Len(up) + 1
    BY <1>1, <2>1
  <2>3. Min(T) # Len(up) + 1 => up[Min(T)] \in above
    BY <1>4
  <2> HIDE DEF n
  <2> QED
    BY <2>1, <2>2, <2>3
<1>8. n \in 0..Len(up) /\ n - 1 + 1 = n /\ \A i \in 1..n : 1 + i - 1 = i
  BY <1>5
<1> HIDE DEF n
<1>9. /\ SubSeq(up, 1, n) \in Seq(States)
      /\ Len(SubSeq(up, 1, n)) = IF 1 <= n THEN n - 1 + 1 ELSE 0
      /\ \A i \in 1..(n - 1 + 1) : SubSeq(up, 1, n)[i] = up[1 + i - 1]
  <2>1. 1 \in 1..(Len(up) + 1) /\ n \in (1 - 1)..Len(up)
    BY <1>1, <1>8
  <2>2. \A i \in 1..n : up[i] \in States
    BY <1>1, <1>6
  <2> QED
    BY <1>1, <2>1, <2>2, SubSeqProperties
<1>10. Len(SubSeq(up, 1, n)) = n /\ \A i \in 1..n : SubSeq(up, 1, n)[i] = up[i]
  BY <1>8, <1>9
<1>11. Climb(s, above) = SubSeq(up, 1, n)
  BY <1>3 DEF n
<1>12. up = Lineage[s]
  BY DEF up
<1> QED
  BY <1>5, <1>6, <1>7, <1>9, <1>10, <1>11, <1>12

-----------------------------------------------------------------------------
(* What a list of items leads to: each item says from where it may be done *)
(* and where it leads, and a list leads on if its items do so one after    *)
(* the other.                                                              *)

Quiet ==
    Content \cup {Call, RaiseItem(Error)} \cup {RaiseItem(Done(s)) : s \in States}
Item ==
    Quiet \cup {Exit(s) : s \in States} \cup {Enter(s) : s \in States}
    \cup {Descend(s) : s \in States} \cup {Leave(t) : t \in Transition \cup {Starter}}
    \cup {Swap(old, s) : old \in SUBSET States, s \in States} \cup {Settle}

(* Where a machine is: the innermost of the states entered and not exited, *)
(* and its lists.  Somewhere stands for a descent yet to come.             *)
Where(a, x, y) == [at |-> a, active |-> x, news |-> y]
Somewhere == Where(NoState, <<>>, <<>>)
Resting(s) == Where(s, <<s>>, <<>>)

(* Where an item may be done, and where it leads. *)
Does(i, c, d) ==
    /\ c.at # NoState
    /\ \/ i \in Quiet /\ d = c
       \/ \E s \in States :
            i = Exit(s) /\ c.at = s /\ d = Where(Container[s], c.active, c.news)
       \/ \E s \in States :
            i = Enter(s) /\ c.at = Container[s] /\ d = Where(s, c.active, c.news)
       \/ \E t \in Transition \cup {Starter} :
            /\ i = Leave(t) /\ t.target \in TargetStates /\ c.news = <<>>
            /\ IF t.source = NoState THEN c.at = Root /\ c.active = <<>>
               ELSE c.at \in States /\ c.active = <<c.at>> /\ t.source \in Inside(c.at)
            /\ d = Where(t.target, <<>>, <<t.target>>)
       \/ \E old \in SUBSET States, s \in TargetStates :
            /\ i = Swap(old, s) /\ c.at = s /\ Range(c.active) \subseteq old /\ c.news = <<>>
            /\ d = Where(s, <<>>, <<s>>)
       \/ i = Settle /\ c.news = <<>> /\ d = c
       \/ i = Settle /\ \E s \in TargetStates : c = Where(s, <<>>, <<s>>) /\ d = Somewhere
       \/ \E s \in TargetStates :
            i = Descend(s) /\ c = Where(s, <<>>, <<>>) /\ d = Somewhere

(* Where a list of items leads. *)
Leads(L, c, d) ==
    \E h : /\ h[1] = c /\ h[Len(L) + 1] = d
           /\ \A i \in 1..Len(L) : Does(L[i], h[i], h[i + 1])

(* Nothing to be done leads nowhere.                                       *)
LEMMA LeadsNothing == \A c, d : Leads(<<>>, c, d) <=> c = d
<1> SUFFICES ASSUME NEW c, NEW d PROVE Leads(<<>>, c, d) <=> c = d
  OBVIOUS
<1>1. ASSUME c = d PROVE Leads(<<>>, c, d)
  <2> DEFINE h == [i \in {1} |-> c]
  <2>1. h[1] = c /\ Len(<<>>) + 1 = 1 /\ 1..Len(<<>>) = {}
    OBVIOUS
  <2> HIDE DEF h
  <2>2. h[1] = c /\ h[Len(<<>>) + 1] = d
    BY <1>1, <2>1
  <2>3. \A i \in 1..Len(<<>>) : Does(<<>>[i], h[i], h[i + 1])
    BY <2>1
  <2> QED
    BY <2>2, <2>3 DEF Leads
<1>2. ASSUME Leads(<<>>, c, d) PROVE c = d
  <2>1. PICK h : h[1] = c /\ h[Len(<<>>) + 1] = d
    BY <1>2 DEF Leads
  <2> QED
    BY <2>1
<1> QED
  BY <1>1, <1>2

(* One item leads where it says.                                           *)
LEMMA LeadsOne ==
    ASSUME NEW i, NEW c, NEW d, Does(i, c, d) PROVE Leads(<<i>>, c, d)
<1> DEFINE h == [k \in 1..2 |-> IF k = 1 THEN c ELSE d]
<1>1. h[1] = c /\ h[2] = d /\ Len(<<i>>) = 1 /\ <<i>>[1] = i
  OBVIOUS
<1> HIDE DEF h
<1>2. h[Len(<<i>>) + 1] = d
  BY <1>1
<1>3. \A k \in 1..Len(<<i>>) : Does(<<i>>[k], h[k], h[k + 1])
  <2> SUFFICES ASSUME NEW k \in 1..Len(<<i>>) PROVE Does(<<i>>[k], h[k], h[k + 1])
    OBVIOUS
  <2>1. k = 1 /\ k + 1 = 2 /\ <<i>>[k] = i
    BY <1>1
  <2> QED
    BY <1>1, <2>1
<1> QED
  BY <1>1, <1>2, <1>3 DEF Leads

(* The first item of a list may be done, and the rest leads on from there. *)
LEMMA LeadsHead ==
    ASSUME NEW A, NEW L \in Seq(A), L # <<>>, NEW c, NEW d, Leads(L, c, d)
    PROVE  \E e : Does(Head(L), c, e) /\ Leads(Tail(L), e, d)
<1>1. PICK h : /\ h[1] = c /\ h[Len(L) + 1] = d
               /\ \A i \in 1..Len(L) : Does(L[i], h[i], h[i + 1])
  BY DEF Leads
<1> DEFINE n == Len(L)
           T == Tail(L)
           g == [i \in 1..n |-> h[i + 1]]
<1>2. n \in Nat \ {0} /\ Len(T) = n - 1 /\ Head(L) = L[1]
      /\ \A i \in 1..(n - 1) : T[i] = L[i + 1]
  BY HeadTailProperties
<1>3. Does(Head(L), c, h[2])
  <2>1. 1 \in 1..n /\ 1 + 1 = 2
    BY <1>2
  <2>2. Does(L[1], h[1], h[1 + 1])
    BY <1>1, <2>1
  <2> QED
    BY <1>1, <1>2, <2>1, <2>2
<1> HIDE DEF n, T
<1>4. \A i \in 1..n : g[i] = h[i + 1]
  OBVIOUS
<1> HIDE DEF g
<1>5. g[1] = h[2] /\ g[Len(T) + 1] = d
  <2>1. 1 \in 1..n /\ n \in 1..n /\ Len(T) + 1 = n
    BY <1>2
  <2>2. h[n + 1] = d
    BY <1>1 DEF n
  <2> QED
    BY <1>4, <2>1, <2>2
<1>6. ASSUME NEW i \in 1..Len(T) PROVE Does(T[i], g[i], g[i + 1])
  <2>1. i \in 1..(n - 1) /\ i \in 1..n /\ i + 1 \in 1..n
    BY <1>2
  <2>2. Does(L[i + 1], h[i + 1], h[i + 1 + 1])
    <3>1. PICK j \in 1..n : j = i + 1
      BY <2>1
    <3>2. Does(L[j], h[j], h[j + 1])
      BY <1>1 DEF n
    <3> QED
      BY <3>1, <3>2
  <2> QED
    BY <1>2, <1>4, <2>1, <2>2
<1>7. Leads(T, h[2], d)
  BY <1>5, <1>6 DEF Leads
<1> QED
  BY <1>3, <1>7 DEF T

(* Lists that lead on from one another.                                    *)
LEMMA LeadsOn ==
    ASSUME NEW A, NEW L \in Seq(A), NEW M \in Seq(A), NEW c, NEW e, NEW d,
           Leads(L, c, e), Leads(M, e, d)
    PROVE  Leads(L \o M, c, d) /\ L \o M \in Seq(A)
<1>1. PICK h : /\ h[1] = c /\ h[Len(L) + 1] = e
               /\ \A i \in 1..Len(L) : Does(L[i], h[i], h[i + 1])
  BY DEF Leads
<1>2. PICK g : /\ g[1] = e /\ g[Len(M) + 1] = d
               /\ \A i \in 1..Len(M) : Does(M[i], g[i], g[i + 1])
  BY DEF Leads
<1> DEFINE n == Len(L)
           k == Len(M)
           w == L \o M
           f == [i \in 1..(n + k + 1) |-> IF i <= n THEN h[i] ELSE g[i - n]]
<1>3. n \in Nat /\ k \in Nat /\ w \in Seq(A) /\ Len(w) = n + k
      /\ \A i \in 1..(n + k) : w[i] = IF i <= n THEN L[i] ELSE M[i - n]
  BY ConcatProperties
<1>4. \A i \in 1..n : i + 1 \in 1..(n + k + 1)
  BY <1>3
<1>5. \A i \in 1..(n + 1) : f[i] = h[i]
  <2> SUFFICES ASSUME NEW i \in 1..(n + 1) PROVE f[i] = h[i]
    OBVIOUS
  <2>1. i \in 1..(n + k + 1)
    BY <1>3
  <2>2. CASE i <= n
    BY <2>1, <2>2
  <2>3. CASE ~(i <= n)
    <3>1. i = n + 1 /\ i - n = 1
      BY <1>3, <2>3
    <3>2. f[i] = g[i - n]
      BY <2>1, <2>3
    <3>3. h[i] = e
      BY <1>1, <3>1
    <3> HIDE DEF f, n
    <3> QED
      BY <1>2, <3>1, <3>2, <3>3
  <2> QED
    BY <2>2, <2>3
<1>6. \A i \in 1..(k + 1) : f[n + i] = g[i]
  <2> SUFFICES ASSUME NEW i \in 1..(k + 1) PROVE f[n + i] = g[i]
    OBVIOUS
  <2>1. n + i \in 1..(n + k + 1) /\ ~(n + i <= n) /\ n + i - n = i
    BY <1>3
  <2> QED
    BY <2>1
<1> HIDE DEF f
<1>7. f[1] = c /\ f[Len(w) + 1] = d
  <2>1. 1 \in 1..(n + 1) /\ k + 1 \in 1..(k + 1) /\ Len(w) + 1 = n + (k + 1)
    BY <1>3
  <2>2. f[n + (k + 1)] = g[k + 1]
    BY <1>6, <2>1
  <2> QED
    BY <1>1, <1>2, <1>5, <2>1, <2>2
<1> HIDE DEF n, k, w
<1>8. ASSUME NEW i \in 1..(n + k) PROVE Does(w[i], f[i], f[i + 1])
  <2>1. CASE i <= n
    <3>1. i \in 1..n /\ i \in 1..(n + 1) /\ i + 1 \in 1..(n + 1)
      BY <1>3, <2>1
    <3>2. Does(L[i], h[i], h[i + 1])
      BY <1>1, <3>1 DEF n
    <3>3. w[i] = L[i] /\ f[i] = h[i] /\ f[i + 1] = h[i + 1]
      BY <1>3, <1>5, <2>1, <3>1
    <3> QED
      BY <3>2, <3>3
  <2>2. CASE ~(i <= n)
    <3>1. PICK j \in 1..k : j = i - n
      BY <1>3, <2>2
    <3>2. j \in 1..(k + 1) /\ j + 1 \in 1..(k + 1) /\ n + j = i /\ n + (j + 1) = i + 1
      BY <1>3, <3>1
    <3>3. Does(M[j], g[j], g[j + 1])
      BY <1>2 DEF k
    <3>4. w[i] = M[j]
      BY <1>3, <2>2, <3>1
    <3>5. f[i] = g[j] /\ f[i + 1] = g[j + 1]
      BY <1>6, <3>2
    <3> QED
      BY <3>3, <3>4, <3>5
  <2> QED
    BY <2>1, <2>2
<1>9. Len(w) = n + k
  BY <1>3
<1>10. Leads(w, c, d)
  BY <1>7, <1>8, <1>9 DEF Leads
<1> QED
  BY <1>3, <1>10 DEF w

(* Content and raised events lead nowhere.                                 *)
LEMMA LeadsQuiet ==
    ASSUME NEW L \in Seq(Quiet), NEW c, c.at # NoState
    PROVE  Leads(L, c, c) /\ L \in Seq(Item)
<1> DEFINE h == [i \in 1..(Len(L) + 1) |-> c]
<1>1. Len(L) \in Nat /\ \A i \in 1..Len(L) : L[i] \in Quiet
  OBVIOUS
<1>2. \A i \in 1..(Len(L) + 1) : h[i] = c
  OBVIOUS
<1> HIDE DEF h
<1>3. h[1] = c /\ h[Len(L) + 1] = c
  BY <1>1, <1>2
<1>4. ASSUME NEW i \in 1..Len(L) PROVE Does(L[i], h[i], h[i + 1])
  <2>1. h[i] = c /\ h[i + 1] = c
    BY <1>1, <1>2
  <2>2. Does(L[i], c, c)
    BY <1>1 DEF Does
  <2> QED
    BY <2>1, <2>2
<1>5. Leads(L, c, c)
  BY <1>3, <1>4 DEF Leads
<1>6. Quiet \subseteq Item
  BY DEF Item
<1>7. L \in Seq(Item)
  BY <1>6
<1> QED
  BY <1>5, <1>7

(* Lists each of which leads back lead back together.                      *)
LEMMA FlattenStays ==
    ASSUME NEW ss \in Seq(Seq(Item)), NEW c, \A k \in 1..Len(ss) : Leads(ss[k], c, c)
    PROVE  FlattenSeq(ss) \in Seq(Item) /\ Leads(FlattenSeq(ss), c, c)
<1> DEFINE R == {r \in Nat \X Seq(Item) : Leads(r[2], c, c)}
<1>1. \A k \in Nat, s \in Seq(Item) : <<k, s>> \in R <=> Leads(s, c, c)
  OBVIOUS
<1>2. <<Len(ss), FlattenSeq(ss)>> \in R => Leads(FlattenSeq(ss), c, c)
  OBVIOUS
<1> HIDE DEF R
<1>3. <<0, <<>> >> \in R
  <2>1. Leads(<<>>, c, c) /\ <<>> \in Seq(Item)
    BY LeadsNothing
  <2> QED
    BY <1>1, <2>1
<1>4. ASSUME NEW k \in 0..(Len(ss) - 1), NEW s \in Seq(Item), <<k, s>> \in R
      PROVE  <<k + 1, s \o ss[k + 1]>> \in R
  <2>1. k + 1 \in 1..Len(ss) /\ k \in Nat /\ k + 1 \in Nat
    OBVIOUS
  <2>2. ss[k + 1] \in Seq(Item) /\ Leads(ss[k + 1], c, c)
    BY <2>1
  <2>3. Leads(s, c, c)
    BY <1>1, <1>4, <2>1
  <2>4. s \o ss[k + 1] \in Seq(Item) /\ Leads(s \o ss[k + 1], c, c)
    BY <2>2, <2>3, LeadsOn
  <2> QED
    BY <1>1, <2>1, <2>4
<1>5. FlattenSeq(ss) \in Seq(Item) /\ <<Len(ss), FlattenSeq(ss)>> \in R
  BY <1>3, <1>4, FlattenInduction
<1> QED
  BY <1>2, <1>5

-----------------------------------------------------------------------------
(* The exits and entries of a transition.                                  *)

(* The k-th state that s is in, or else the root. *)
Above(s, k) == IF k = Len(Lineage[s]) + 1 THEN Root ELSE Lineage[s][k]

(* What is above a state, step by step out to the root.                    *)
LEMMA AboveFacts ==
    ASSUME NEW s \in States
    PROVE  /\ Len(Lineage[s]) \in Nat \ {0} /\ Above(s, 1) = s
           /\ \A k \in 1..Len(Lineage[s]) :
                /\ Lineage[s][k] \in States /\ Above(s, k) = Lineage[s][k]
                /\ Container[Lineage[s][k]] = Above(s, k + 1)
           /\ \A k \in 1..(Len(Lineage[s]) + 1) : Above(s, k) # NoState
<1> DEFINE up == Lineage[s]
           n == Len(up)
<1>1. /\ up \in Seq(States) /\ n \in Nat \ {0} /\ up[1] = s
      /\ \A i \in 1..n : Container[up[i]] = IF i = n THEN Root ELSE up[i + 1]
  BY LineageFacts
<1>2. NoState \notin States /\ NoState # Root
  BY DocumentAssumption
<1>3. \A k : Above(s, k) = IF k = n + 1 THEN Root ELSE up[k]
  BY DEF Above
<1> HIDE DEF up
<1>4. \A i \in 1..n : up[i] \in States
  BY <1>1
<1> HIDE DEF n
<1>5. n \in Nat \ {0}
  BY <1>1
<1>6. ASSUME NEW k \in 1..n PROVE Above(s, k) = up[k] /\ Container[up[k]] = Above(s, k + 1)
  <2>1. k # n + 1 /\ (k = n <=> k + 1 = n + 1)
    BY <1>5
  <2> QED
    BY <1>1, <1>3, <2>1
<1>7. 1 \in 1..n /\ \A k \in 1..(n + 1) : k = n + 1 \/ k \in 1..n
  BY <1>5
<1>8. Above(s, 1) = s
  BY <1>1, <1>6, <1>7
<1>9. \A k \in 1..(n + 1) : Above(s, k) # NoState
  BY <1>2, <1>3, <1>4, <1>6, <1>7
<1> QED
  BY <1>4, <1>5, <1>6, <1>8, <1>9 DEF up, n

(* Up the states that s is in, leaving one after the other. *)
LEMMA ExitsLead ==
    ASSUME NEW s \in States, NEW n \in 0..Len(Lineage[s]), NEW path \in Seq(States),
           Len(path) = n, \A i \in 1..n : path[i] = Lineage[s][i], NEW x, NEW y
    PROVE  /\ Items(Exit, path) \in Seq(Item)
           /\ Leads(Items(Exit, path), Where(s, x, y), Where(Above(s, n + 1), x, y))
<1> DEFINE L == Items(Exit, path)
           h == [i \in 1..(n + 1) |-> Where(Above(s, i), x, y)]
<1>1. n \in Nat /\ \A i \in 1..n : i \in 1..Len(Lineage[s]) /\ i \in 1..(Len(Lineage[s]) + 1)
  BY AboveFacts
<1>2. L = [i \in 1..n |-> Exit(path[i])]
  BY DEF Items
<1>3. \A i \in 1..n : path[i] \in States
  OBVIOUS
<1> HIDE DEF L
<1>4. L \in Seq(Item) /\ Len(L) = n /\ \A i \in 1..n : L[i] = Exit(path[i])
  <2>1. \A i \in 1..n : Exit(path[i]) \in Item
    BY <1>3 DEF Item
  <2> QED
    BY <1>1, <1>2, <2>1
<1>5. \A i \in 1..(n + 1) : h[i] = Where(Above(s, i), x, y)
  OBVIOUS
<1> HIDE DEF h
<1>6. h[1] = Where(s, x, y) /\ h[Len(L) + 1] = Where(Above(s, n + 1), x, y)
  BY <1>1, <1>4, <1>5, AboveFacts
<1>7. ASSUME NEW i \in 1..Len(L) PROVE Does(L[i], h[i], h[i + 1])
  <2>1. i \in 1..n /\ i \in 1..(n + 1) /\ i + 1 \in 1..(n + 1)
    BY <1>1, <1>4
  <2>2. /\ L[i] = Exit(path[i]) /\ path[i] = Lineage[s][i] /\ path[i] \in States
        /\ h[i] = Where(path[i], x, y)
        /\ h[i + 1] = Where(Container[path[i]], x, y)
        /\ path[i] # NoState
    BY <1>1, <1>3, <1>4, <1>5, <2>1, AboveFacts
  <2>3. h[i].at = path[i] /\ h[i].active = x /\ h[i].news = y
    BY <2>2 DEF Where
  <2> QED
    BY <2>2, <2>3 DEF Does
<1>8. Leads(L, Where(s, x, y), Where(Above(s, n + 1), x, y))
  BY <1>6, <1>7 DEF Leads
<1> QED
  BY <1>4, <1>8 DEF L

(* And down to s, entering them from the outside in. *)
LEMMA EntersLead ==
    ASSUME NEW s \in States, NEW n \in 0..Len(Lineage[s]), NEW path \in Seq(States),
           Len(path) = n, \A i \in 1..n : path[i] = Lineage[s][i], NEW x, NEW y
    PROVE  /\ Items(Enter, Reverse(path)) \in Seq(Item)
           /\ Leads(Items(Enter, Reverse(path)), Where(Above(s, n + 1), x, y), Where(s, x, y))
<1> DEFINE w == Reverse(path)
           L == Items(Enter, w)
           h == [i \in 1..(n + 1) |-> Where(Above(s, n - i + 2), x, y)]
<1>1. n \in Nat /\ \A i \in 1..n : i \in 1..Len(Lineage[s]) /\ i \in 1..(Len(Lineage[s]) + 1)
  BY AboveFacts
<1>2. w = [i \in 1..n |-> path[n - i + 1]]
  BY DEF Reverse
<1>3. \A i \in 1..n : path[i] \in States
  OBVIOUS
<1> HIDE DEF w
<1>4. Len(w) = n /\ \A i \in 1..n : w[i] = path[n - i + 1] /\ w[i] \in States
  <2>1. \A i \in 1..n : n - i + 1 \in 1..n
    BY <1>1
  <2>2. w \in [1..n -> States]
    BY <1>2, <1>3, <2>1
  <2>3. w \in Seq(States) /\ Len(w) = n
    BY <1>1, <2>2
  <2> QED
    BY <1>2, <1>3, <2>1, <2>3
<1>5. L = [i \in 1..n |-> Enter(w[i])]
  BY <1>4 DEF Items
<1> HIDE DEF L
<1>6. L \in Seq(Item) /\ Len(L) = n /\ \A i \in 1..n : L[i] = Enter(w[i])
  <2>1. \A i \in 1..n : Enter(w[i]) \in Item
    BY <1>4 DEF Item
  <2> QED
    BY <1>1, <1>5, <2>1
<1>7. \A i \in 1..(n + 1) : h[i] = Where(Above(s, n - i + 2), x, y)
  OBVIOUS
<1> HIDE DEF h
<1>8. h[1] = Where(Above(s, n + 1), x, y) /\ h[Len(L) + 1] = Where(s, x, y)
  <2>1. 1 \in 1..(n + 1) /\ n + 1 \in 1..(n + 1) /\ n - 1 + 2 = n + 1 /\ n - (n + 1) + 2 = 1
    BY <1>1
  <2> QED
    BY <1>6, <1>7, <2>1, AboveFacts
<1>9. ASSUME NEW i \in 1..Len(L) PROVE Does(L[i], h[i], h[i + 1])
  <2>1. i \in 1..n /\ i \in 1..(n + 1) /\ i + 1 \in 1..(n + 1)
    BY <1>1, <1>6
  <2>2. PICK k \in 1..n : k = n - i + 1
    BY <1>1, <2>1
  <2>3. n - i + 2 = k + 1 /\ n - (i + 1) + 2 = k /\ k + 1 \in 1..(Len(Lineage[s]) + 1)
    BY <1>1, <2>2
  <2>4. L[i] = Enter(path[k]) /\ path[k] = Lineage[s][k] /\ path[k] \in States
    BY <1>3, <1>4, <1>6, <2>1, <2>2
  <2>5. h[i] = Where(Above(s, k + 1), x, y) /\ h[i + 1] = Where(Above(s, k), x, y)
    BY <1>7, <2>1, <2>3
  <2>6. /\ Above(s, k) = path[k] /\ Above(s, k + 1) = Container[path[k]]
        /\ Container[path[k]] # NoState
    BY <1>1, <2>3, <2>4, AboveFacts
  <2>7. h[i].at = Container[path[k]] /\ h[i].active = x /\ h[i].news = y
    BY <2>5, <2>6 DEF Where
  <2>8. h[i + 1] = Where(path[k], x, y)
    BY <2>5, <2>6
  <2> QED
    BY <2>4, <2>6, <2>7, <2>8 DEF Does
<1>10. Leads(L, Where(Above(s, n + 1), x, y), Where(s, x, y))
  BY <1>8, <1>9 DEF Leads
<1> QED
  BY <1>6, <1>10 DEF L, w

(* The climb from s to what t is in goes up n states. *)
ClimbIs(s, t, n) ==
    /\ \A i \in 1..n : Lineage[s][i] \notin Range(Lineage[t])
    /\ n # Len(Lineage[s]) => Lineage[s][n + 1] \in Range(Lineage[t])

(* The climbs from s and from t to what is above the other end at the same *)
(* state.                                                                  *)
LEMMA ClimbsMeet ==
    ASSUME NEW s \in States, NEW t \in States,
           NEW n \in 0..Len(Lineage[s]), NEW k \in 0..Len(Lineage[t]),
           ClimbIs(s, t, n), ClimbIs(t, s, k)
    PROVE  Above(s, n + 1) = Above(t, k + 1)
<1> DEFINE u == Lineage[s]
           v == Lineage[t]
           a == Len(u)
           b == Len(v)
<1>1. a \in Nat \ {0} /\ Range(u) = {u[i] : i \in 1..a}
      /\ \A i \in 1..a : Len(Lineage[u[i]]) = a - i + 1
  BY LineageFacts
<1>2. b \in Nat \ {0} /\ Range(v) = {v[i] : i \in 1..b}
      /\ \A i \in 1..b : Len(Lineage[v[i]]) = b - i + 1
  BY LineageFacts
<1>3. n \in 0..a /\ k \in 0..b /\ n \in Nat /\ k \in Nat
  BY <1>1, <1>2
<1>4. /\ \A i \in 1..n : u[i] \notin Range(v)
      /\ n # a => u[n + 1] \in Range(v)
      /\ \A i \in 1..k : v[i] \notin Range(u)
      /\ k # b => v[k + 1] \in Range(u)
  BY DEF ClimbIs
<1>5. Above(s, n + 1) = (IF n + 1 = a + 1 THEN Root ELSE u[n + 1])
      /\ Above(t, k + 1) = (IF k + 1 = b + 1 THEN Root ELSE v[k + 1])
  BY DEF Above
<1> HIDE DEF a, b, u, v
<1>6. ASSUME n = a PROVE k = b
  <2> SUFFICES ASSUME k # b PROVE FALSE
    OBVIOUS
  <2>1. k + 1 \in 1..b
    BY <1>2, <1>3
  <2>2. v[k + 1] \in Range(u) /\ v[k + 1] \in Range(v)
    BY <1>2, <1>4, <2>1
  <2> QED
    BY <1>1, <1>4, <1>6, <2>2
<1>7. ASSUME k = b PROVE n = a
  <2> SUFFICES ASSUME n # a PROVE FALSE
    OBVIOUS
  <2>1. n + 1 \in 1..a
    BY <1>1, <1>3
  <2>2. u[n + 1] \in Range(v) /\ u[n + 1] \in Range(u)
    BY <1>1, <1>4, <2>1
  <2> QED
    BY <1>2, <1>4, <1>7, <2>2
<1>8. CASE n = a /\ k = b
  BY <1>5, <1>8
<1>9. CASE n # a /\ k # b
  <2>1. n + 1 \in 1..a /\ k + 1 \in 1..b
    BY <1>1, <1>2, <1>3, <1>9
  <2>2. PICK j \in 1..b : u[n + 1] = v[j]
    BY <1>2, <1>4, <1>9
  <2>3. PICK i \in 1..a : v[k + 1] = u[i]
    BY <1>1, <1>4, <1>9
  <2>4. v[k + 1] \in Range(v) /\ u[n + 1] \in Range(u)
    BY <1>1, <1>2, <2>1
  <2>5. i \notin 1..n /\ j \notin 1..k
    BY <1>4, <2>2, <2>3, <2>4
  <2>6. a - (n + 1) + 1 = b - j + 1 /\ b - (k + 1) + 1 = a - i + 1
    BY <1>1, <1>2, <2>1, <2>2, <2>3
  <2>7. i = n + 1
    BY <1>1, <1>2, <1>3, <2>5, <2>6
  <2>8. n + 1 # a + 1 /\ k + 1 # b + 1
    BY <1>1, <1>2, <1>3, <1>9
  <2> QED
    BY <1>5, <2>3, <2>7, <2>8
<1> QED
  BY <1>6, <1>7, <1>8, <1>9

-----------------------------------------------------------------------------
(* A whole transition.                                                     *)

(* Executable content leads nowhere.                                       *)
LEMMA ContentQuiet ==
    ASSUME NEW L \in Seq(Content), NEW c, c.at # NoState
    PROVE  Leads(L, c, c) /\ L \in Seq(Item)
<1>1. Content \subseteq Quiet
  BY DEF Quiet
<1>2. L \in Seq(Quiet)
  BY <1>1
<1> QED
  BY <1>2, LeadsQuiet

(* To take a transition leads to its target. *)
LEMMA ExpandLeads ==
    ASSUME NEW t \in Transition \cup {Starter}, NEW c, NEW d,
           t.target \in TargetStates, c.at # NoState, c.news = <<>>,
           IF t.source = NoState THEN c.at = Root /\ c.active = <<>>
           ELSE c.at \in States /\ c.active = <<c.at>> /\ t.source \in Inside(c.at),
           d = Where(t.target, <<>>, <<t.target>>), c = Where(c.at, c.active, c.news)
    PROVE  Expand(t, c.active) \in Seq(Item) /\ Leads(Expand(t, c.active), c, d)
<1> DEFINE a == c.at
           list == c.active
           old == IF t.source = NoState THEN <<>>
                  ELSE Among(list, {s \in Range(list) : IsIn(s, t.source)})
           path == EntryPath(t)
           exits == Exits(t, old)
           enters == Enters(t)
           swap == <<Swap(Range(old), t.target)>>
           top == Above(t.target, Len(path) + 1)
<1>1. t.target \in States /\ t.content \in Seq(Content)
  <2>1. First \in States
    BY DocumentAssumption
  <2>2. t \in Transition => t.content \in Seq(Content) /\ t.target \in States \cup {NoState}
    BY DEF Transition
  <2>3. t = Starter => t.content = <<>> /\ t.target = First
    BY DEF Starter
  <2>4. <<>> \in Seq(Content)
    OBVIOUS
  <2>5. NoState \notin TargetStates
    BY DocumentAssumption DEF TargetStates
  <2> QED
    BY <2>1, <2>2, <2>3, <2>4, <2>5
<1>2. Expand(t, list) = ((exits \o t.content) \o enters) \o swap
  BY DEF Expand
<1>3. Root # NoState /\ NoState \notin States
  BY DocumentAssumption
<1>4. /\ Len(path) \in 0..Len(Lineage[t.target]) /\ path \in Seq(States)
      /\ \A i \in 1..Len(path) : path[i] = Lineage[t.target][i]
  <2>1. \E above : path = Climb(t.target, above)
    BY DEF EntryPath
  <2> HIDE DEF path
  <2>2. PICK above : path = Climb(t.target, above)
    BY <2>1
  <2> QED
    BY <1>1, <2>2, ClimbFacts
<1>5. /\ exits \in Seq(Item)
      /\ Leads(exits, Where(a, list, <<>>), Where(top, list, <<>>))
      /\ Range(list) \subseteq Range(old) /\ Range(old) \in SUBSET States
  <2>1. CASE t.source = NoState
    <3>1. exits = <<>> /\ old = <<>> /\ list = <<>> /\ a = Root
      BY <2>1 DEF Exits
    <3>2. path = Climb(t.target, {})
      BY <2>1 DEF EntryPath
    <3> HIDE DEF path
    <3>3. Len(path) = Len(Lineage[t.target])
      BY <1>1, <3>2, ClimbFacts
    <3>4. top = Root
      BY <3>3 DEF Above
    <3>5. exits \in Seq(Item) /\ Leads(exits, Where(a, list, <<>>), Where(top, list, <<>>))
      <4>1. <<>> \in Seq(Item) /\ Leads(<<>>, Where(Root, list, <<>>), Where(Root, list, <<>>))
        BY LeadsNothing
      <4> HIDE DEF exits, a, top, list
      <4> QED
        BY <3>1, <3>4, <4>1
    <3>6. Range(old) = {} /\ Range(list) = {}
      BY <3>1 DEF Range
    <3> QED
      BY <3>5, <3>6
  <2>2. CASE t.source # NoState
    <3> DEFINE s == t.source
               one == Climb(a, {s})
               two == Climb(s, Range(Lineage[t.target]))
    <3>1. a \in States /\ list = <<a>> /\ s \in Range(Lineage[a]) /\ s \in States
      BY <2>2, InsideFacts
    <3>2. Range(<<a>>) = {a}
      BY DEF Range
    <3>3. {x \in Range(<<a>>) : IsIn(x, s)} = {a}
      BY <3>1, <3>2 DEF IsIn
    <3>4. old = <<a>>
      BY <2>2, <3>1, <3>3, AmongOne
    <3>5. [i \in 1..Len(<<a>>) |-> Climb(<<a>>[i], {s})] = <<one>>
      <4>1. Len(<<a>>) = 1 /\ \A i \in 1..1 : <<a>>[i] = a
        OBVIOUS
      <4>2. \A i \in 1..1 : Climb(<<a>>[i], {s}) = one
        BY <4>1
      <4> HIDE DEF one
      <4>3. [i \in 1..1 |-> Climb(<<a>>[i], {s})] = [i \in 1..1 |-> one]
        BY <4>2
      <4> QED
        BY <4>1, <4>3
    <3>6. PICK n \in 0..Len(Lineage[a]) :
            /\ one \in Seq(States) /\ Len(one) = n
            /\ \A i \in 1..n : one[i] = Lineage[a][i] /\ Lineage[a][i] \notin {s}
            /\ n # Len(Lineage[a]) => Lineage[a][n + 1] \in {s}
      BY <3>1, ClimbFacts
    <3>7. PICK k \in 0..Len(Lineage[s]) :
            /\ two \in Seq(States) /\ Len(two) = k
            /\ \A i \in 1..k : two[i] = Lineage[s][i] /\ Lineage[s][i] \notin Range(Lineage[t.target])
            /\ k # Len(Lineage[s]) => Lineage[s][k + 1] \in Range(Lineage[t.target])
      BY <3>1, ClimbFacts
    <3>8. path = Climb(t.target, Range(Lineage[s]))
      BY <2>2 DEF EntryPath
    <3> HIDE DEF one, two, path, top, old, list, a, s
    <3>9. FlattenSeq(<<one>>) = one
      BY <3>6, FlattenOne
    <3>10. exits = Items(Exit, one) \o Items(Exit, two)
      <4>1. Exits(t, <<a>>) = Items(Exit, FlattenSeq([i \in 1..Len(<<a>>) |-> Climb(<<a>>[i], {s})])) \o Items(Exit, two)
        BY <2>2 DEF Exits, s, two
      <4> QED
        BY <3>4, <3>5, <3>9, <4>1
    <3>11. Above(a, n + 1) = s
      <4>1. /\ Len(Lineage[a]) \in Nat \ {0}
            /\ Range(Lineage[a]) = {Lineage[a][i] : i \in 1..Len(Lineage[a])}
        BY <3>1, LineageFacts
      <4>2. PICK i \in 1..Len(Lineage[a]) : s = Lineage[a][i]
        BY <3>1, <4>1
      <4>3. i \notin 1..n
        BY <3>6, <4>2
      <4>4. n # Len(Lineage[a])
        BY <4>1, <4>3
      <4>5. n + 1 # Len(Lineage[a]) + 1
        BY <4>1, <4>4
      <4>6. Lineage[a][n + 1] = s
        BY <3>6, <4>4
      <4> QED
        BY <4>5, <4>6 DEF Above
    <3>12. Above(s, k + 1) = top
      <4>1. PICK j \in 0..Len(Lineage[t.target]) :
              /\ Len(path) = j
              /\ \A i \in 1..j : path[i] = Lineage[t.target][i]
                               /\ Lineage[t.target][i] \notin Range(Lineage[s])
              /\ j # Len(Lineage[t.target]) => Lineage[t.target][j + 1] \in Range(Lineage[s])
        <5> DEFINE up == Climb(t.target, Range(Lineage[s]))
        <5>1. PICK j \in 0..Len(Lineage[t.target]) :
                /\ Len(up) = j
                /\ \A i \in 1..j : up[i] = Lineage[t.target][i]
                                 /\ Lineage[t.target][i] \notin Range(Lineage[s])
                /\ j # Len(Lineage[t.target]) => Lineage[t.target][j + 1] \in Range(Lineage[s])
          BY <1>1, ClimbFacts
        <5>2. up = path
          BY <3>8
        <5> HIDE DEF up
        <5> QED
          BY <5>1, <5>2
      <4>2. Above(s, k + 1) = Above(t.target, j + 1)
        <5>1. ClimbIs(s, t.target, k)
          BY <3>7 DEF ClimbIs
        <5>2. ClimbIs(t.target, s, j)
          BY <4>1 DEF ClimbIs
        <5>3. s \in States /\ t.target \in States
          BY <1>1, <3>1
        <5> QED
          BY <5>1, <5>2, <5>3, ClimbsMeet
      <4> QED
        BY <4>1, <4>2 DEF top
    <3>13. /\ Items(Exit, one) \in Seq(Item)
           /\ Leads(Items(Exit, one), Where(a, list, <<>>), Where(s, list, <<>>))
      BY <3>1, <3>6, <3>11, ExitsLead
    <3>14. /\ Items(Exit, two) \in Seq(Item)
           /\ Leads(Items(Exit, two), Where(s, list, <<>>), Where(top, list, <<>>))
      BY <3>1, <3>7, <3>12, ExitsLead
    <3>15. /\ exits \in Seq(Item)
           /\ Leads(exits, Where(a, list, <<>>), Where(top, list, <<>>))
      BY <3>10, <3>13, <3>14, LeadsOn
    <3>16. Range(list) \subseteq Range(old) /\ Range(old) \in SUBSET States
      BY <3>1, <3>2, <3>4
    <3> QED
      BY <3>15, <3>16
  <2> QED
    BY <2>1, <2>2
<1>6. Where(top, list, <<>>).at # NoState
  <2> HIDE DEF path
  <2>1. Len(path) + 1 \in 1..(Len(Lineage[t.target]) + 1)
    BY <1>1, <1>4, AboveFacts
  <2>2. top # NoState
    BY <1>1, <2>1, AboveFacts
  <2> QED
    BY <2>2 DEF Where
<1> HIDE DEF exits, old, path, top
<1>7. /\ t.content \in Seq(Item)
      /\ Leads(t.content, Where(top, list, <<>>), Where(top, list, <<>>))
  BY <1>1, <1>6, ContentQuiet
<1>8. /\ enters \in Seq(Item)
      /\ Leads(enters, Where(top, list, <<>>), Where(t.target, list, <<>>))
  <2>1. enters = Items(Enter, Reverse(path))
    BY DEF Enters, path
  <2> QED
    BY <1>1, <1>4, <2>1, EntersLead DEF top
<1> HIDE DEF enters
<1>9. /\ swap \in Seq(Item) /\ Leads(swap, Where(t.target, list, <<>>), d)
  <2> DEFINE e == Where(t.target, list, <<>>)
             i == Swap(Range(old), t.target)
  <2>1. e.at = t.target /\ e.active = list /\ e.news = <<>>
    BY DEF Where
  <2>2. i \in Item
    BY <1>1, <1>5 DEF Item
  <2>3. t.target # NoState
    BY <1>1, <1>3
  <2> HIDE DEF e, list
  <2>4. Does(i, e, d)
    BY <1>5, <2>1, <2>3 DEF Does
  <2>5. Leads(<<i>>, e, d)
    BY <2>4, LeadsOne
  <2> HIDE DEF i
  <2>6. <<i>> \in Seq(Item)
    BY <2>2
  <2> QED
    BY <2>5, <2>6 DEF e, i
<1> HIDE DEF swap, list
<1>10. /\ exits \o t.content \in Seq(Item)
       /\ Leads(exits \o t.content, Where(a, list, <<>>), Where(top, list, <<>>))
  BY <1>5, <1>7, LeadsOn
<1> DEFINE out == exits \o t.content
<1>14. out \in Seq(Item) /\ Leads(out, Where(a, list, <<>>), Where(top, list, <<>>))
  BY <1>10
<1> HIDE DEF out
<1>11. /\ out \o enters \in Seq(Item)
       /\ Leads(out \o enters, Where(a, list, <<>>), Where(t.target, list, <<>>))
  BY <1>8, <1>14, LeadsOn
<1> DEFINE there == out \o enters
<1>15. there \in Seq(Item)
       /\ Leads(there, Where(a, list, <<>>), Where(t.target, list, <<>>))
  BY <1>11
<1> HIDE DEF there
<1>12. /\ there \o swap \in Seq(Item)
       /\ Leads(there \o swap, Where(a, list, <<>>), d)
  BY <1>9, <1>15, LeadsOn
<1>13. c = Where(a, list, <<>>)
  BY DEF list
<1> QED
  BY <1>2, <1>12, <1>13 DEF list, there, out

-----------------------------------------------------------------------------
(* What findTransitions finds, and that two transitions found overlap.     *)

(* The transitions found, each at a place of its own in the document. *)
LEMMA FoundFacts ==
    ASSUME NEW a \in States, NEW n
    PROVE  LET found == FindTransitions(<<a>>, n) up == Lineage[a]
           IN /\ found \in Seq(Transition)
              /\ \E f \in [1..Len(found) -> Nat \X Nat] :
                   /\ \A i \in 1..Len(found) :
                        /\ f[i][1] \in 1..Len(up) /\ f[i][2] \in 1..Len(Transitions[up[f[i][1]]])
                        /\ found[i] = Transitions[up[f[i][1]]][f[i][2]] /\ Matches(found[i], n)
                   /\ \A i, j \in 1..Len(found) : f[i] = f[j] => i = j
<1> DEFINE up == Lineage[a]
           all == FlattenSeq([i \in 1..Len(<<a>>) |-> Lineage[<<a>>[i]]])
           Fit(p) == {t \in Range(Transitions[up[p]]) : Matches(t, n)}
           part == [p \in 1..Len(up) |-> Among(Transitions[up[p]], Fit(p))]
           ss == [p \in 1..Len(up) |->
                    IF \E q \in 1..(p - 1) : up[q] = up[p] THEN <<>>
                    ELSE Among(Transitions[up[p]], Fit(p))]
           found == FindTransitions(<<a>>, n)
<1>1. up \in Seq(States) /\ Len(up) \in Nat
  BY LineageFacts
<1>2. all = up
  <2>1. [i \in 1..Len(<<a>>) |-> Lineage[<<a>>[i]]] = <<up>>
    OBVIOUS
  <2> HIDE DEF up
  <2>2. FlattenSeq(<<up>>) = up
    BY <1>1, FlattenOne
  <2> QED
    BY <2>1, <2>2
<1>3. found = FlattenSeq(ss)
  BY <1>2 DEF FindTransitions
<1> HIDE DEF up, found, all
<1>4. \A p \in 1..Len(up) : Transitions[up[p]] \in Seq(Transition)
  <2>1. \A p \in 1..Len(up) : up[p] \in States
    BY <1>1
  <2> QED
    BY <2>1, DocumentAssumption
<1> DEFINE Maps(p, g) ==
             /\ \A i \in 1..Len(part[p]) : part[p][i] = Transitions[up[p]][g[i]]
                                           /\ Transitions[up[p]][g[i]] \in Fit(p)
             /\ \A i, j \in 1..Len(part[p]) : g[i] = g[j] => i = j
           G == [p \in 1..Len(up) |->
                   CHOOSE g \in [1..Len(part[p]) -> 1..Len(Transitions[up[p]])] : Maps(p, g)]
<1>5. ASSUME NEW p \in 1..Len(up)
      PROVE  /\ part[p] \in Seq(Transition)
             /\ G[p] \in [1..Len(part[p]) -> 1..Len(Transitions[up[p]])] /\ Maps(p, G[p])
  <2> DEFINE T == Transitions[up[p]]
             w == Among(T, Fit(p))
  <2>1. part[p] = w
    OBVIOUS
  <2>2. T \in Seq(Transition)
    BY <1>4
  <2> HIDE DEF T, part, Fit
  <2>3. /\ w \in Seq(Transition)
        /\ \E g \in [1..Len(w) -> 1..Len(T)] :
             /\ \A i \in 1..Len(w) : w[i] = T[g[i]] /\ T[g[i]] \in Fit(p)
             /\ \A i, j \in 1..Len(w) : g[i] = g[j] => i = j
    BY <2>2, AmongFacts
  <2> HIDE DEF w
  <2>4. PICK g \in [1..Len(w) -> 1..Len(T)] :
             /\ \A i \in 1..Len(w) : w[i] = T[g[i]] /\ T[g[i]] \in Fit(p)
             /\ \A i, j \in 1..Len(w) : g[i] = g[j] => i = j
    BY <2>3
  <2>5. g \in [1..Len(part[p]) -> 1..Len(Transitions[up[p]])] /\ Maps(p, g)
    BY <2>1, <2>4 DEF T
  <2> HIDE DEF Maps
  <2> QED
    BY <2>1, <2>3, <2>5
<1>6. ASSUME NEW p \in 1..Len(up)
      PROVE  ss[p] \in Seq(Transition) /\ (ss[p] = <<>> \/ ss[p] = part[p])
  <2>1. ss[p] = <<>> \/ ss[p] = part[p]
    OBVIOUS
  <2>2. <<>> \in Seq(Transition)
    OBVIOUS
  <2> HIDE DEF ss, part, G, Fit
  <2>3. part[p] \in Seq(Transition)
    BY <1>5
  <2> QED
    BY <2>1, <2>2, <2>3
<1>7. ss \in Seq(Seq(Transition)) /\ Len(ss) = Len(up)
  <2>1. ss = [p \in 1..Len(up) |-> ss[p]]
    OBVIOUS
  <2> HIDE DEF ss, part
  <2> QED
    BY <1>1, <1>6, <2>1
<1> HIDE DEF ss
<1> DEFINE u == FlattenSeq(ss)
<1>8. u \in Seq(Transition) /\
        \E h \in [1..Len(u) -> Nat \X Nat] :
          /\ \A i \in 1..Len(u) :
               /\ h[i][1] \in 1..Len(ss) /\ h[i][2] \in 1..Len(ss[h[i][1]])
               /\ u[i] = ss[h[i][1]][h[i][2]]
          /\ \A i, j \in 1..Len(u) : h[i] = h[j] => i = j
  BY <1>7, FlattenPositions
<1> HIDE DEF u
<1>9. PICK h \in [1..Len(u) -> Nat \X Nat] :
          /\ \A i \in 1..Len(u) :
               /\ h[i][1] \in 1..Len(ss) /\ h[i][2] \in 1..Len(ss[h[i][1]])
               /\ u[i] = ss[h[i][1]][h[i][2]]
          /\ \A i, j \in 1..Len(u) : h[i] = h[j] => i = j
  BY <1>8
<1> DEFINE f == [i \in 1..Len(u) |-> <<h[i][1], G[h[i][1]][h[i][2]]>>]
<1> HIDE DEF G, part
<1>10. ASSUME NEW i \in 1..Len(u)
       PROVE  /\ h[i][1] \in 1..Len(up) /\ h[i][2] \in 1..Len(part[h[i][1]])
              /\ u[i] = part[h[i][1]][h[i][2]]
  <2> DEFINE p == h[i][1]
             q == h[i][2]
  <2>1. p \in 1..Len(up) /\ q \in 1..Len(ss[p]) /\ u[i] = ss[p][q]
    BY <1>7, <1>9
  <2> HIDE DEF p, q
  <2>2. ss[p] # <<>>
    BY <2>1
  <2>3. ss[p] = part[p]
    BY <1>6, <2>1, <2>2
  <2>4. p \in 1..Len(up) /\ q \in 1..Len(part[p]) /\ u[i] = part[p][q]
    BY <2>1, <2>3
  <2> QED
    BY <2>4 DEF p, q
<1>11. ASSUME NEW i \in 1..Len(u)
       PROVE  /\ f[i][1] = h[i][1] /\ f[i][2] = G[h[i][1]][h[i][2]]
              /\ f[i] \in Nat \X Nat
              /\ f[i][1] \in 1..Len(up) /\ f[i][2] \in 1..Len(Transitions[up[f[i][1]]])
              /\ u[i] = Transitions[up[f[i][1]]][f[i][2]] /\ Matches(u[i], n)
  <2> DEFINE p == h[i][1]
             q == h[i][2]
             k == G[p][q]
  <2>1. f[i] = <<p, k>>
    OBVIOUS
  <2>2. p \in 1..Len(up) /\ q \in 1..Len(part[p]) /\ u[i] = part[p][q]
    BY <1>10
  <2> HIDE DEF p, q
  <2>3. k \in 1..Len(Transitions[up[p]])
    BY <1>5, <2>2
  <2>4. part[p][q] = Transitions[up[p]][k] /\ Transitions[up[p]][k] \in Fit(p)
    BY <1>5, <2>2
  <2>5. Matches(Transitions[up[p]][k], n)
    BY <2>4
  <2> HIDE DEF k, Fit, f
  <2>6. f[i][1] = p /\ f[i][2] = k
    BY <2>1
  <2>7. p \in Nat /\ k \in Nat
    BY <1>1, <2>2, <2>3
  <2> QED
    BY <2>1, <2>2, <2>3, <2>4, <2>5, <2>6, <2>7 DEF p, q, k
<1>12. f \in [1..Len(u) -> Nat \X Nat]
  BY <1>11
<1> HIDE DEF f, Fit
<1>13. ASSUME NEW i \in 1..Len(u), NEW j \in 1..Len(u), f[i] = f[j] PROVE i = j
  <2> DEFINE p == h[i][1]
             q == h[i][2]
             r == h[j][2]
  <2>1. h[j][1] = p /\ G[p][q] = G[p][r]
    BY <1>11, <1>13
  <2>2. p \in 1..Len(up) /\ q \in 1..Len(part[p]) /\ r \in 1..Len(part[p])
    BY <1>10, <2>1
  <2> HIDE DEF p, q, r
  <2>3. q = r
    BY <1>5, <2>1, <2>2
  <2>4. h[i] = h[j]
    <3>1. h[i] \in Nat \X Nat /\ h[j] \in Nat \X Nat
      OBVIOUS
    <3> QED
      BY <2>1, <2>3, <3>1 DEF p, q, r
  <2> QED
    BY <1>9, <2>4
<1>14. u = found
  BY <1>3 DEF u
<1>15. \E e \in [1..Len(found) -> Nat \X Nat] :
         /\ \A i \in 1..Len(found) :
              /\ e[i][1] \in 1..Len(up) /\ e[i][2] \in 1..Len(Transitions[up[e[i][1]]])
              /\ found[i] = Transitions[up[e[i][1]]][e[i][2]] /\ Matches(found[i], n)
         /\ \A i, j \in 1..Len(found) : e[i] = e[j] => i = j
  <2>1. f \in [1..Len(found) -> Nat \X Nat]
    BY <1>12, <1>14
  <2>2. \A i \in 1..Len(found) :
          /\ f[i][1] \in 1..Len(up) /\ f[i][2] \in 1..Len(Transitions[up[f[i][1]]])
          /\ found[i] = Transitions[up[f[i][1]]][f[i][2]] /\ Matches(found[i], n)
    BY <1>11, <1>14
  <2>3. \A i, j \in 1..Len(found) : f[i] = f[j] => i = j
    BY <1>13, <1>14
  <2> QED
    BY <2>1, <2>2, <2>3
<1>16. found \in Seq(Transition)
  BY <1>8, <1>14
<1> QED
  BY <1>15, <1>16 DEF up, found

(* Transitions that match the same event overlap.                          *)
LEMMA OverlapFacts ==
    ASSUME NEW t, NEW u, NEW n, Matches(t, n), Matches(u, n)
    PROVE  Overlap(t, u)
BY DEF Matches, Overlap

-----------------------------------------------------------------------------
(* At most one transition leaves, and what comes after it.                 *)

(* No event leads out of a state along two transitions. *)
LEMMA OneLeaving ==
    ASSUME Unambiguous, NEW a \in States, Atomic(a), NEW n
    PROVE  LET found == FindTransitions(<<a>>, n)
           IN Len(Among(found, {t \in Range(found) : Leaving(t)})) \in {0, 1}
<1> DEFINE found == FindTransitions(<<a>>, n)
           S == {t \in Range(found) : Leaving(t)}
           up == Lineage[a]
           w == Among(found, S)
<1>1. /\ found \in Seq(Transition)
      /\ \E f \in [1..Len(found) -> Nat \X Nat] :
           /\ \A i \in 1..Len(found) :
                /\ f[i][1] \in 1..Len(up) /\ f[i][2] \in 1..Len(Transitions[up[f[i][1]]])
                /\ found[i] = Transitions[up[f[i][1]]][f[i][2]] /\ Matches(found[i], n)
           /\ \A i, j \in 1..Len(found) : f[i] = f[j] => i = j
  BY FoundFacts
<1> HIDE DEF found
<1>2. PICK f \in [1..Len(found) -> Nat \X Nat] :
           /\ \A i \in 1..Len(found) :
                /\ f[i][1] \in 1..Len(up) /\ f[i][2] \in 1..Len(Transitions[up[f[i][1]]])
                /\ found[i] = Transitions[up[f[i][1]]][f[i][2]] /\ Matches(found[i], n)
           /\ \A i, j \in 1..Len(found) : f[i] = f[j] => i = j
  BY <1>1
<1>3. \A t \in S : Leaving(t)
  OBVIOUS
<1> HIDE DEF S
<1>4. /\ w \in Seq(Transition)
      /\ \E g \in [1..Len(w) -> 1..Len(found)] :
           /\ \A i \in 1..Len(w) : w[i] = found[g[i]] /\ found[g[i]] \in S
           /\ \A i, j \in 1..Len(w) : g[i] = g[j] => i = j
  BY <1>1, AmongFacts
<1> HIDE DEF w
<1>5. PICK g \in [1..Len(w) -> 1..Len(found)] :
           /\ \A i \in 1..Len(w) : w[i] = found[g[i]] /\ found[g[i]] \in S
           /\ \A i, j \in 1..Len(w) : g[i] = g[j] => i = j
  BY <1>4
<1>6. Len(w) \in Nat
  BY <1>4
<1>7. ASSUME Len(w) \notin {0, 1} PROVE FALSE
  <2>1. 1 \in 1..Len(w) /\ 2 \in 1..Len(w)
    <3>1. PICK z \in Nat : z = Len(w)
      BY <1>6
    <3>2. 1 \in 1..z /\ 2 \in 1..z
      BY <1>7, <3>1
    <3> QED
      BY <3>1, <3>2
  <2> DEFINE x == g[1]
             y == g[2]
             i == f[x][1]
             k == f[x][2]
             j == f[y][1]
             l == f[y][2]
  <2>2. x \in 1..Len(found) /\ y \in 1..Len(found) /\ x # y
        /\ found[x] \in S /\ found[y] \in S
    BY <1>5, <2>1
  <2> HIDE DEF x, y
  <2>3. f[x] \in Nat \X Nat /\ f[y] \in Nat \X Nat /\ f[x] # f[y]
    BY <1>2, <2>2
  <2>4. /\ i \in 1..Len(up) /\ k \in 1..Len(Transitions[up[i]])
        /\ found[x] = Transitions[up[i]][k] /\ Matches(found[x], n)
        /\ j \in 1..Len(up) /\ l \in 1..Len(Transitions[up[j]])
        /\ found[y] = Transitions[up[j]][l] /\ Matches(found[y], n)
    BY <1>2, <2>2
  <2>5. ~(i = j /\ k = l)
    BY <2>3
  <2> HIDE DEF i, j, k, l
  <2>6. Leaving(found[x]) /\ Leaving(found[y]) /\ Overlap(found[x], found[y])
    BY <1>3, <2>2, <2>4, OverlapFacts
  <2>7. \A i1, j1 \in 1..Len(up) :
          \A k1 \in 1..Len(Transitions[up[i1]]), l1 \in 1..Len(Transitions[up[j1]]) :
            Leaving(Transitions[up[i1]][k1]) /\ Leaving(Transitions[up[j1]][l1])
            /\ Overlap(Transitions[up[i1]][k1], Transitions[up[j1]][l1]) => i1 = j1 /\ k1 = l1
    BY DEF Unambiguous
  <2> HIDE DEF up
  <2>9. Leaving(Transitions[up[i]][k]) /\ Leaving(Transitions[up[j]][l])
        /\ Overlap(Transitions[up[i]][k], Transitions[up[j]][l])
    BY <2>4, <2>6
  <2>8. i = j /\ k = l
    BY <2>4, <2>7, <2>9
  <2> QED
    BY <2>5, <2>8
<1> QED
  BY <1>7 DEF w, S, found

(* Settling without new states leaves the machine where it is; with one    *)
(* new state it goes on to the descent from it.                            *)
LEMMA SettleLeads ==
    ASSUME NEW s
    PROVE  /\ <<Settle>> \in Seq(Item)
           /\ s \in States => Leads(<<Settle>>, Resting(s), Resting(s))
           /\ s \in TargetStates => Leads(<<Settle>>, Where(s, <<>>, <<s>>), Somewhere)
<1>1. Settle \in Item
  BY DEF Item
<1>2. s \in States => Does(Settle, Resting(s), Resting(s))
  <2>1. Resting(s).at = s /\ Resting(s).news = <<>>
    BY DEF Resting, Where
  <2>2. s \in States => s # NoState
    BY DocumentAssumption
  <2> QED
    BY <2>1, <2>2 DEF Does
<1>3. s \in TargetStates => Does(Settle, Where(s, <<>>, <<s>>), Somewhere)
  <2>1. Where(s, <<>>, <<s>>).at = s
    BY DEF Where
  <2>2. s \in TargetStates => s # NoState
    BY DocumentAssumption DEF TargetStates
  <2> QED
    BY <2>1, <2>2 DEF Does
<1> QED
  BY <1>1, <1>2, <1>3, LeadsOne

(* A machine that starts enters its first state with all that is around    *)
(* it, from the outside in.                                                *)
LEMMA StartLeads ==
    /\ Plan(<<>>, NoEvent) \in Seq(Item)
    /\ Leads(Plan(<<>>, NoEvent), Where(Root, <<>>, <<>>), Somewhere)
<1> DEFINE found == <<Starter>>
           S1 == {t \in Range(found) : TargetLess(t)}
           S2 == {t \in Range(found) : SelfReferencing(t)}
           S3 == {t \in Range(found) : Leaving(t)}
           f1 == FlattenSeq([i \in 1..Len(Among(found, S1)) |-> Among(found, S1)[i].content])
           f2 == FlattenSeq([i \in 1..Len(Among(found, S2)) |->
                   <<Exit(Among(found, S2)[i].source)>> \o Among(found, S2)[i].content
                   \o <<Enter(Among(found, S2)[i].source)>>])
           f3 == FlattenSeq([i \in 1..Len(Among(found, S3)) |-> <<Leave(Among(found, S3)[i])>>])
<1>1. Plan(<<>>, NoEvent) = f1 \o f2 \o f3 \o <<Settle>>
  BY DEF Plan
<1>2. First # NoState /\ First \in TargetStates /\ Root # NoState
  BY DocumentAssumption DEF TargetStates
<1>3. Starter.target = First /\ Starter.source = NoState
  BY DEF Starter
<1>4. S1 = {} /\ S2 = {} /\ S3 = {Starter}
  <2>1. Range(found) = {Starter}
    BY DEF Range
  <2>2. ~TargetLess(Starter) /\ ~SelfReferencing(Starter) /\ Leaving(Starter)
    BY <1>2, <1>3 DEF TargetLess, SelfReferencing, Leaving
  <2> HIDE DEF found
  <2> QED
    BY <2>1, <2>2
<1> HIDE DEF S1, S2, S3
<1>5. Among(found, S1) = <<>> /\ Among(found, S2) = <<>> /\ Among(found, S3) = <<Starter>>
  BY <1>4, AmongOne
<1> HIDE DEF found
<1>6. f1 = <<>> /\ f2 = <<>>
  <2>1. \A ss : Len(ss) = 0 => FlattenSeq(ss) = <<>>
    BY DEF FlattenSeq
  <2> QED
    BY <1>5, <2>1
<1>7. f3 = <<Leave(Starter)>>
  <2>1. [i \in 1..Len(<<Starter>>) |-> <<Leave(<<Starter>>[i])>>] = <<(<<Leave(Starter)>>)>>
    OBVIOUS
  <2>2. <<Leave(Starter)>> \in Seq({Leave(Starter)})
    OBVIOUS
  <2>3. FlattenSeq(<<(<<Leave(Starter)>>)>>) = <<Leave(Starter)>>
    BY <2>2, FlattenOne
  <2> QED
    BY <1>5, <2>1, <2>3
<1> DEFINE c == Where(Root, <<>>, <<>>)
           e == Where(First, <<>>, <<First>>)
           it == Leave(Starter)
<1>8. it \in Item
  BY DEF Item
<1>9. Does(it, c, e)
  <2>1. c.at = Root /\ c.news = <<>> /\ c.active = <<>>
    BY DEF Where
  <2> HIDE DEF c
  <2> QED
    BY <1>2, <1>3, <2>1 DEF Does
<1>10. /\ <<Settle>> \in Seq(Item) /\ Leads(<<Settle>>, e, Somewhere)
  BY <1>2, SettleLeads
<1> HIDE DEF it, c, e, f1, f2, f3
<1>11. <<it>> \in Seq(Item) /\ Leads(<<it>>, c, e)
  BY <1>8, <1>9, LeadsOne
<1> DEFINE one == <<it>>
           two == <<Settle>>
<1> HIDE DEF one, two
<1>12. one \in Seq(Item) /\ two \in Seq(Item) /\ Leads(one, c, e) /\ Leads(two, e, Somewhere)
  BY <1>10, <1>11 DEF one, two
<1>13. one \o two \in Seq(Item) /\ Leads(one \o two, c, Somewhere)
  BY <1>12, LeadsOn
<1>14. <<>> \o <<>> \o one \o two = one \o two
  BY <1>12
<1> QED
  BY <1>1, <1>6, <1>7, <1>13, <1>14 DEF it, one, two, c

-----------------------------------------------------------------------------
(* The plan of an event leads from one state to one state.                 *)

(* A transition of a state to itself leaves it and enters it again. *)
LEMMA SelfLeads ==
    ASSUME NEW a \in States, Atomic(a), Unambiguous, NEW t \in Transition,
           t.source \in Range(Lineage[a]), t \in Range(Transitions[t.source]), SelfReferencing(t)
    PROVE  LET L == <<Exit(t.source)>> \o t.content \o <<Enter(t.source)>>
           IN L \in Seq(Item) /\ Leads(L, Resting(a), Resting(a))
<1>1. t.source \in States /\ t.content \in Seq(Content)
  BY DEF Transition
<1>2. Atomic(t.source)
  BY <1>1 DEF Unambiguous
<1>3. t.source = a
  BY <1>2, InsideFacts
<1> DEFINE e == Where(Container[a], <<a>>, <<>>)
           x == <<Exit(a)>>
           y == t.content
           z == <<Enter(a)>>
<1>4. Container[a] \in States \cup {Root} /\ Container[a] # NoState /\ a # NoState
  <2>1. NoState \notin States \cup {Root}
    BY DocumentAssumption
  <2>2. Container[a] \in States \cup {Root}
    BY InsideFacts
  <2> QED
    BY <2>1, <2>2
<1>5. /\ Resting(a).at = a /\ Resting(a).active = <<a>> /\ Resting(a).news = <<>>
      /\ e.at = Container[a] /\ e.active = <<a>> /\ e.news = <<>>
      /\ Resting(a) = Where(a, <<a>>, <<>>)
  BY DEF Resting, Where
<1> HIDE DEF e
<1>6. Does(Exit(a), Resting(a), e)
  BY <1>4, <1>5 DEF Does, e
<1>7. Does(Enter(a), e, Resting(a))
  BY <1>4, <1>5 DEF Does
<1>8. Exit(a) \in Item /\ Enter(a) \in Item
  BY DEF Item
<1>9. x \in Seq(Item) /\ Leads(x, Resting(a), e) /\ z \in Seq(Item) /\ Leads(z, e, Resting(a))
  BY <1>6, <1>7, <1>8, LeadsOne
<1>10. y \in Seq(Item) /\ Leads(y, e, e)
  BY <1>1, <1>4, <1>5, ContentQuiet
<1> HIDE DEF x, y, z
<1>11. x \o y \in Seq(Item) /\ Leads(x \o y, Resting(a), e)
  BY <1>9, <1>10, LeadsOn
<1> DEFINE xy == x \o y
<1>12. xy \in Seq(Item) /\ Leads(xy, Resting(a), e)
  BY <1>11
<1> HIDE DEF xy
<1>13. xy \o z \in Seq(Item) /\ Leads(xy \o z, Resting(a), Resting(a))
  BY <1>9, <1>12, LeadsOn
<1> QED
  BY <1>3, <1>13 DEF x, y, z, xy

(* Where an event leads. *)
LEMMA PlanLeads ==
    ASSUME Unambiguous, NEW a \in States, Atomic(a), NEW n
    PROVE  /\ Plan(<<a>>, n) \in Seq(Item)
           /\ \/ Leads(Plan(<<a>>, n), Resting(a), Resting(a))
              \/ Leads(Plan(<<a>>, n), Resting(a), Somewhere)
<1> DEFINE found == FindTransitions(<<a>>, n)
           S1 == {t \in Range(found) : TargetLess(t)}
           S2 == {t \in Range(found) : SelfReferencing(t)}
           S3 == {t \in Range(found) : Leaving(t)}
           w1 == Among(found, S1)
           w2 == Among(found, S2)
           w3 == Among(found, S3)
           ss1 == [i \in 1..Len(w1) |-> w1[i].content]
           ss2 == [i \in 1..Len(w2) |-> <<Exit(w2[i].source)>> \o w2[i].content
                                        \o <<Enter(w2[i].source)>>]
           ss3 == [i \in 1..Len(w3) |-> <<Leave(w3[i])>>]
           f1 == FlattenSeq(ss1)
           f2 == FlattenSeq(ss2)
           f3 == FlattenSeq(ss3)
           c == Resting(a)
<1>1. Plan(<<a>>, n) = IF found = <<>> THEN <<>> ELSE f1 \o f2 \o f3 \o <<Settle>>
  BY DEF Plan
<1>2. /\ found \in Seq(Transition)
      /\ \A t \in Range(found) :
           /\ t \in Transition /\ t.source \in Range(Lineage[a])
           /\ t \in Range(Transitions[t.source]) /\ t.source \in States
           /\ t.target \in TargetStates \cup {NoState}
  <2> DEFINE up == Lineage[a]
  <2>1. /\ found \in Seq(Transition)
        /\ \E f \in [1..Len(found) -> Nat \X Nat] :
             /\ \A i \in 1..Len(found) :
                  /\ f[i][1] \in 1..Len(up) /\ f[i][2] \in 1..Len(Transitions[up[f[i][1]]])
                  /\ found[i] = Transitions[up[f[i][1]]][f[i][2]] /\ Matches(found[i], n)
             /\ \A i, j \in 1..Len(found) : f[i] = f[j] => i = j
    BY FoundFacts
  <2> HIDE DEF found
  <2>2. PICK f \in [1..Len(found) -> Nat \X Nat] :
             \A i \in 1..Len(found) :
               /\ f[i][1] \in 1..Len(up) /\ f[i][2] \in 1..Len(Transitions[up[f[i][1]]])
               /\ found[i] = Transitions[up[f[i][1]]][f[i][2]]
    BY <2>1
  <2> SUFFICES ASSUME NEW t \in Range(found)
               PROVE  /\ t \in Transition /\ t.source \in Range(Lineage[a])
                      /\ t \in Range(Transitions[t.source]) /\ t.source \in States
                      /\ t.target \in TargetStates \cup {NoState}
    BY <2>1
  <2>3. PICK i \in 1..Len(found) : t = found[i]
    <3>1. found \in Seq(Transition)
      BY <2>1
    <3>2. DOMAIN found = 1..Len(found)
      BY <3>1
    <3> QED
      BY <3>2 DEF Range
  <2> DEFINE p == f[i][1]
             k == f[i][2]
             s == up[p]
  <2>4. p \in 1..Len(up) /\ k \in 1..Len(Transitions[s]) /\ t = Transitions[s][k]
    BY <2>2, <2>3
  <2>5. t \in Transition
    BY <2>1, <2>3
  <2> HIDE DEF p, k
  <2>6. s \in States /\ s \in Range(up)
    <3>1. up \in Seq(States) /\ Range(up) = {up[i1] : i1 \in 1..Len(up)}
      BY LineageFacts
    <3> HIDE DEF up
    <3> QED
      BY <2>4, <3>1
  <2> HIDE DEF s
  <2>7. Transitions[s] \in Seq(Transition)
    BY <2>6, DocumentAssumption
  <2>8. t \in Range(Transitions[s])
    BY <2>4, <2>7 DEF Range
  <2>9. t.source = s
    BY <2>6, <2>8, DocumentAssumption
  <2>10. t.target \in TargetStates \cup {NoState}
    BY <2>6, <2>8 DEF TargetStates, TransitionsOf
  <2> QED
    BY <2>5, <2>6, <2>8, <2>9, <2>10
<1> HIDE DEF found
<1>3. c = Where(a, <<a>>, <<>>) /\ c.at = a /\ c.active = <<a>> /\ c.news = <<>>
      /\ a # NoState /\ c.at # NoState
  BY DocumentAssumption DEF Resting, Where
<1> HIDE DEF c
<1>4. \A S : /\ Among(found, S) \in Seq(Transition)
             /\ \A i \in 1..Len(Among(found, S)) :
                  Among(found, S)[i] \in S /\ Among(found, S)[i] \in Range(found)
  <2> SUFFICES ASSUME NEW S
               PROVE  /\ Among(found, S) \in Seq(Transition)
                      /\ \A i \in 1..Len(Among(found, S)) :
                           Among(found, S)[i] \in S /\ Among(found, S)[i] \in Range(found)
    OBVIOUS
  <2> DEFINE w == Among(found, S)
  <2>1. /\ w \in Seq(Transition)
        /\ \E g \in [1..Len(w) -> 1..Len(found)] :
             \A i \in 1..Len(w) : w[i] = found[g[i]] /\ found[g[i]] \in S
    BY <1>2, AmongFacts
  <2> HIDE DEF w
  <2>2. PICK g \in [1..Len(w) -> 1..Len(found)] :
             \A i \in 1..Len(w) : w[i] = found[g[i]] /\ found[g[i]] \in S
    BY <2>1
  <2>3. \A i \in 1..Len(found) : found[i] \in Range(found)
    BY <1>2 DEF Range
  <2>4. \A i \in 1..Len(w) : w[i] \in S /\ w[i] \in Range(found)
    BY <2>2, <2>3
  <2> QED
    BY <2>1, <2>4 DEF w
<1>5. /\ w1 \in Seq(Transition)
      /\ w2 \in Seq(Transition) /\ \A i \in 1..Len(w2) : w2[i] \in S2
      /\ w3 \in Seq(Transition) /\ \A i \in 1..Len(w3) : w3[i] \in S3
  <2> HIDE DEF S1, S2, S3
  <2> QED
    BY <1>4
<1>6. Len(w3) \in {0, 1}
  BY OneLeaving DEF found
<1> HIDE DEF w1, w2, w3
<1>7. f1 \in Seq(Item) /\ Leads(f1, c, c)
  <2>1. ss1 \in Seq(Seq(Content))
    <3>1. \A i \in 1..Len(w1) : w1[i].content \in Seq(Content)
      <4>1. \A t \in Transition : t.content \in Seq(Content)
        BY DEF Transition
      <4>2. \A i \in 1..Len(w1) : w1[i] \in Transition
        BY <1>5
      <4> QED
        BY <4>1, <4>2
    <3> QED
      BY <1>5, <3>1
  <2> HIDE DEF ss1
  <2>2. f1 \in Seq(Content)
    BY <2>1, FlattenPositions
  <2> QED
    BY <1>3, <2>2, ContentQuiet
<1>8. f2 \in Seq(Item) /\ Leads(f2, c, c)
  <2>1. ASSUME NEW i \in 1..Len(w2) PROVE ss2[i] \in Seq(Item) /\ Leads(ss2[i], c, c)
    <3> DEFINE t == w2[i]
    <3>1. t \in S2
      BY <1>5
    <3>2. ss2[i] = <<Exit(t.source)>> \o t.content \o <<Enter(t.source)>>
      OBVIOUS
    <3> HIDE DEF t, ss2
    <3>3. t \in Transition /\ t.source \in Range(Lineage[a])
          /\ t \in Range(Transitions[t.source]) /\ SelfReferencing(t)
      BY <1>2, <3>1
    <3> QED
      BY <3>2, <3>3, SelfLeads DEF c
  <2>2. Len(w2) \in Nat /\ ss2 = [i \in 1..Len(w2) |-> ss2[i]]
    BY <1>5
  <2> HIDE DEF ss2
  <2>3. ss2 \in Seq(Seq(Item)) /\ Len(ss2) = Len(w2)
    BY <2>1, <2>2
  <2> QED
    BY <2>1, <2>3, FlattenStays
<1>9. f3 \in Seq(Item)
      /\ \/ f3 = <<>>
         \/ \E s \in TargetStates : Leads(f3, c, Where(s, <<>>, <<s>>))
  <2>1. CASE Len(w3) = 0
    BY <2>1 DEF FlattenSeq
  <2>2. CASE Len(w3) = 1
    <3> DEFINE t == w3[1]
               it == Leave(t)
               d == Where(t.target, <<>>, <<t.target>>)
    <3>1. t \in S3
      BY <1>5, <2>2
    <3>2. ss3 = <<(<<it>>)>>
      BY <2>2
    <3> HIDE DEF it, ss3
    <3>3. FlattenSeq(<<(<<it>>)>>) = <<it>>
      <4>1. <<it>> \in Seq({it})
        OBVIOUS
      <4> QED
        BY <4>1, FlattenOne
    <3> HIDE DEF t
    <3>4. t \in Transition /\ t.source \in Range(Lineage[a]) /\ t.source \in States
          /\ t.target \in TargetStates \cup {NoState} /\ Leaving(t)
      BY <1>2, <3>1
    <3>5. t.target \in TargetStates /\ t.source # NoState
      BY <3>4, DocumentAssumption DEF Leaving, TargetLess
    <3>6. t.source \in Inside(c.at)
      BY <1>3, <3>4, InsideFacts
    <3>7. it \in Item
      BY <3>4 DEF Item, it
    <3>8. Does(it, c, d)
      BY <1>3, <3>4, <3>5, <3>6 DEF Does, it
    <3> HIDE DEF d
    <3>9. <<it>> \in Seq(Item) /\ Leads(<<it>>, c, d)
      BY <3>7, <3>8, LeadsOne
    <3>10. f3 = <<it>>
      BY <3>2, <3>3
    <3> QED
      BY <3>5, <3>9, <3>10 DEF d
  <2> QED
    BY <1>6, <2>1, <2>2
<1> HIDE DEF f1, f2, f3
<1>10. f1 \o f2 \in Seq(Item) /\ Leads(f1 \o f2, c, c)
  BY <1>7, <1>8, LeadsOn
<1> DEFINE f12 == f1 \o f2
<1>11. f12 \in Seq(Item) /\ Leads(f12, c, c)
  BY <1>10
<1> HIDE DEF f12
<1>12. \E d : /\ Leads(f12 \o f3, c, d) /\ f12 \o f3 \in Seq(Item)
              /\ d = c \/ \E s \in TargetStates : d = Where(s, <<>>, <<s>>)
  <2>1. CASE f3 = <<>>
    <3>1. f12 \o f3 = f12
      BY <1>11, <2>1
    <3> QED
      BY <1>11, <3>1
  <2>2. ASSUME NEW s \in TargetStates, Leads(f3, c, Where(s, <<>>, <<s>>))
        PROVE  Leads(f12 \o f3, c, Where(s, <<>>, <<s>>)) /\ f12 \o f3 \in Seq(Item)
    BY <1>9, <1>11, <2>2, LeadsOn
  <2> QED
    BY <1>9, <2>1, <2>2
<1> DEFINE f123 == f12 \o f3
           end == <<Settle>>
<1>13. PICK d : /\ Leads(f123, c, d) /\ f123 \in Seq(Item)
                /\ d = c \/ \E s \in TargetStates : d = Where(s, <<>>, <<s>>)
  BY <1>12
<1> HIDE DEF f123, end
<1>14. end \in Seq(Item) /\ ((Leads(end, d, c) /\ d = c) \/ Leads(end, d, Somewhere))
  BY <1>13, SettleLeads DEF end, c
<1>15. f123 \o end \in Seq(Item) /\ (Leads(f123 \o end, c, c) \/ Leads(f123 \o end, c, Somewhere))
  BY <1>13, <1>14, LeadsOn
<1>16. CASE found = <<>>
  BY <1>1, <1>16, LeadsNothing DEF c
<1>17. CASE found # <<>>
  BY <1>1, <1>15, <1>17 DEF f12, f123, end, c
<1> QED
  BY <1>16, <1>17

-----------------------------------------------------------------------------
(* The invariant: what a machine has yet to do leads from where it is to   *)
(* an end, and one with nothing to do is in one state.                     *)

(* The end of what an event sets off: a state without substates, or one    *)
(* yet to be found by a descent.                                           *)
Ends == {Somewhere} \cup {Resting(s) : s \in {x \in States : Atomic(x)}}

InHand(m) == \E i \in 1..Len(stack) : stack[i].t = m /\ stack[i].pc \in {"first", "handle"}

Now(m, a) == Where(a, active[m], news[m])

(* What is to be done leads on from where the machine is. *)
Course(m) ==
    \E a \in States \cup {Root} :
      /\ inside[m] = Inside(a)
      /\ \E d \in Ends : Leads(todo[m], Now(m, a), d)

Rests(m) ==
    /\ todo[m] = <<>> /\ news[m] = <<>>
    /\ IF alive[m]
       THEN \E a \in States : Atomic(a) /\ inside[m] = Inside(a) /\ active[m] = <<a>>
       ELSE inside[m] = {} /\ active[m] = <<>>

MachineType ==
    /\ alive \in [Machines -> BOOLEAN]
    /\ active \in [Machines -> Seq(States)] /\ news \in [Machines -> Seq(States)]
    /\ todo \in [Machines -> Seq(Item)]
    /\ inside \in [Machines -> SUBSET States]

MachineInv ==
    /\ MachineType
    /\ \A m \in Machines :
         /\ On(m) => alive[m]
         /\ IF InHand(m) THEN Course(m) ELSE Rests(m)

(* What an item says, by what kind it is. *)
SaysQuiet(i, c, e) == i \in Quiet /\ e = c
SaysExit(i, c, e) ==
    i.state \in States /\ c.at = i.state /\ e = Where(Container[i.state], c.active, c.news)
SaysEnter(i, c, e) ==
    i.state \in States /\ c.at = Container[i.state] /\ e = Where(i.state, c.active, c.news)
SaysLeave(t, c, e) ==
    /\ t \in Transition \cup {Starter} /\ t.target \in TargetStates /\ c.news = <<>>
    /\ IF t.source = NoState THEN c.at = Root /\ c.active = <<>>
       ELSE c.at \in States /\ c.active = <<c.at>> /\ t.source \in Inside(c.at)
    /\ e = Where(t.target, <<>>, <<t.target>>)
SaysSwap(i, c, e) ==
    /\ i.state \in TargetStates /\ c.at = i.state
    /\ Range(c.active) \subseteq i.old /\ c.news = <<>>
    /\ e = Where(i.state, <<>>, <<i.state>>)
SaysSettle(c, e) ==
    \/ c.news = <<>> /\ e = c
    \/ \E s \in TargetStates : c = Where(s, <<>>, <<s>>) /\ e = Somewhere
SaysDescend(i, c, e) ==
    i.state \in TargetStates /\ c = Where(i.state, <<>>, <<>>) /\ e = Somewhere

(* What an item says, found from its kind.                                 *)
LEMMA DoesFacts ==
    ASSUME NEW i, NEW c, NEW e, Does(i, c, e)
    PROVE  /\ i.op \in {"assign", "raise", "send", "call"} => SaysQuiet(i, c, e)
           /\ i.op = "exit" => SaysExit(i, c, e)
           /\ i.op = "enter" => SaysEnter(i, c, e)
           /\ i.op = "leave" => SaysLeave(i.transition, c, e)
           /\ i.op = "swap" => SaysSwap(i, c, e)
           /\ i.op = "settle" => SaysSettle(c, e)
           /\ i.op = "descend" => SaysDescend(i, c, e)
<1>1. \A q \in Quiet : q.op \in {"assign", "raise", "send", "call"}
  <2>1. \A q \in Content : q.op \in {"assign", "raise", "send"}
    BY DEF Content
  <2>2. Call.op = "call" /\ \A n : RaiseItem(n).op = "raise"
    BY DEF Call, RaiseItem
  <2> QED
    BY <2>1, <2>2 DEF Quiet
<1>2. \A s : /\ Exit(s).op = "exit" /\ Exit(s).state = s
             /\ Enter(s).op = "enter" /\ Enter(s).state = s
             /\ Descend(s).op = "descend" /\ Descend(s).state = s
             /\ Leave(s).op = "leave" /\ Leave(s).transition = s
  BY DEF Exit, Enter, Descend, Leave
<1>3. Settle.op = "settle"
  BY DEF Settle
<1>4. \A old, s : Swap(old, s).op = "swap" /\ Swap(old, s).old = old /\ Swap(old, s).state = s
  BY DEF Swap
<1>6. ASSUME NEW s \in States, i = Exit(s) /\ c.at = s /\ e = Where(Container[s], c.active, c.news)
      PROVE  i.op = "exit" /\ i.state = s
  BY <1>2, <1>6
<1>7. ASSUME NEW s \in States, i = Enter(s) /\ c.at = Container[s] /\ e = Where(s, c.active, c.news)
      PROVE  i.op = "enter" /\ i.state = s
  BY <1>2, <1>7
<1>8. ASSUME NEW t \in Transition \cup {Starter}, i = Leave(t)
      PROVE  i.op = "leave" /\ i.transition = t
  BY <1>2, <1>8
<1>9. ASSUME NEW old \in SUBSET States, NEW s \in TargetStates, i = Swap(old, s)
      PROVE  i.op = "swap" /\ i.old = old /\ i.state = s
  BY <1>4, <1>9
<1>10. ASSUME NEW s \in TargetStates, i = Descend(s)
       PROVE  i.op = "descend" /\ i.state = s
  BY <1>2, <1>10
<1>12. CASE i \in Quiet /\ e = c
  BY <1>1, <1>12 DEF SaysQuiet
<1>13. CASE \E s \in States :
              i = Exit(s) /\ c.at = s /\ e = Where(Container[s], c.active, c.news)
  BY <1>6, <1>13 DEF SaysExit
<1>14. CASE \E s \in States :
              i = Enter(s) /\ c.at = Container[s] /\ e = Where(s, c.active, c.news)
  BY <1>7, <1>14 DEF SaysEnter
<1>15. CASE \E t \in Transition \cup {Starter} :
              /\ i = Leave(t) /\ t.target \in TargetStates /\ c.news = <<>>
              /\ IF t.source = NoState THEN c.at = Root /\ c.active = <<>>
                 ELSE c.at \in States /\ c.active = <<c.at>> /\ t.source \in Inside(c.at)
              /\ e = Where(t.target, <<>>, <<t.target>>)
  <2>1. PICK t \in Transition \cup {Starter} :
              /\ i = Leave(t) /\ t.target \in TargetStates /\ c.news = <<>>
              /\ IF t.source = NoState THEN c.at = Root /\ c.active = <<>>
                 ELSE c.at \in States /\ c.active = <<c.at>> /\ t.source \in Inside(c.at)
              /\ e = Where(t.target, <<>>, <<t.target>>)
    BY <1>15
  <2>2. i.op = "leave" /\ i.transition = t
    BY <1>8, <2>1
  <2> QED
    BY <2>1, <2>2 DEF SaysLeave
<1>16. CASE \E old \in SUBSET States, s \in TargetStates :
              /\ i = Swap(old, s) /\ c.at = s /\ Range(c.active) \subseteq old /\ c.news = <<>>
              /\ e = Where(s, <<>>, <<s>>)
  <2>1. PICK old \in SUBSET States, s \in TargetStates :
              /\ i = Swap(old, s) /\ c.at = s /\ Range(c.active) \subseteq old /\ c.news = <<>>
              /\ e = Where(s, <<>>, <<s>>)
    BY <1>16
  <2>2. i.op = "swap" /\ i.old = old /\ i.state = s
    BY <1>9, <2>1
  <2> QED
    BY <2>1, <2>2 DEF SaysSwap
<1>17. CASE i = Settle /\ c.news = <<>> /\ e = c
  BY <1>3, <1>17 DEF SaysSettle
<1>18. CASE i = Settle /\ \E s \in TargetStates : c = Where(s, <<>>, <<s>>) /\ e = Somewhere
  BY <1>3, <1>18 DEF SaysSettle
<1>19. CASE \E s \in TargetStates :
              i = Descend(s) /\ c = Where(s, <<>>, <<>>) /\ e = Somewhere
  BY <1>10, <1>19 DEF SaysDescend
<1> QED
  BY <1>12, <1>13, <1>14, <1>15, <1>16, <1>17, <1>18, <1>19 DEF Does

-----------------------------------------------------------------------------
(* What the steps of others leave alone.                                   *)

(* The invariant holds before any machine is initialized.                  *)
LEMMA MachineInitInv == Init => MachineInv
<1> SUFFICES ASSUME Init PROVE MachineInv
  OBVIOUS
<1>1. /\ alive = [m \in Machines |-> FALSE] /\ active = [m \in Machines |-> <<>>]
      /\ todo = [m \in Machines |-> <<>>] /\ news = [m \in Machines |-> <<>>]
      /\ inside = [m \in Machines |-> {}] /\ stack = <<>>
  BY DEF Init, MachineInit, EventInit
<1>2. MachineType
  BY <1>1 DEF MachineType
<1>3. ASSUME NEW m \in Machines PROVE ~On(m) /\ ~InHand(m) /\ Rests(m)
  BY <1>1 DEF On, InHand, Rests
<1> QED
  BY <1>2, <1>3 DEF MachineInv

(* Other machines are where they were. *)
Others(m) ==
    \A k \in Machines \ {m} :
      /\ alive'[k] = alive[k] /\ active'[k] = active[k] /\ news'[k] = news[k]
      /\ todo'[k] = todo[k] /\ inside'[k] = inside[k]
      /\ InHand(k)' <=> InHand(k)
      /\ On(k)' <=> On(k)

(* A step of one machine keeps the invariant of all others.                *)
LEMMA OthersKeep ==
    ASSUME MachineInv, MachineType', NEW m \in Machines, Others(m),
           On(m)' => alive'[m], IF InHand(m)' THEN Course(m)' ELSE Rests(m)'
    PROVE  MachineInv'
<1>1. ASSUME NEW k \in Machines, k # m
      PROVE  /\ On(k)' => alive'[k]
             /\ IF InHand(k)' THEN Course(k)' ELSE Rests(k)'
  <2>1. /\ On(k) => alive[k]
        /\ IF InHand(k) THEN Course(k) ELSE Rests(k)
    BY DEF MachineInv
  <2>2. /\ alive'[k] = alive[k] /\ active'[k] = active[k] /\ news'[k] = news[k]
        /\ todo'[k] = todo[k] /\ inside'[k] = inside[k]
        /\ InHand(k)' <=> InHand(k)
        /\ On(k)' <=> On(k)
    BY <1>1 DEF Others
  <2>3. Course(k)' <=> Course(k)
    BY <2>2 DEF Course, Now
  <2>4. Rests(k)' <=> Rests(k)
    BY <2>2 DEF Rests
  <2> QED
    BY <2>1, <2>2, <2>3, <2>4
<1> QED
  BY <1>1 DEF MachineInv



(* A machine that is called is in the middle of an event. *)
LEMMA HandlingFacts ==
    ASSUME MachineInv, stack \in Seq(Frame), NEW m \in Machines, Handling(m)
    PROVE  Course(m) /\ alive[m] /\ InHand(m)
<1>1. Len(stack) \in 1..Len(stack)
  BY DEF Handling, At
<1>2. InHand(m) /\ On(m)
  BY <1>1 DEF Handling, At, Top, InHand, On
<1> QED
  BY <1>2 DEF MachineInv

(* An item of a machine is done: others are put in its place. *)
LEMMA ItemDone ==
    ASSUME MachineInv, stack \in Seq(Frame), NEW m \in Machines,
           Handling(m), todo[m] # <<>>, UNCHANGED <<stack, alive>>, MachineType',
           \A k \in Machines \ {m} :
             /\ active'[k] = active[k] /\ news'[k] = news[k]
             /\ todo'[k] = todo[k] /\ inside'[k] = inside[k],
           NEW X \in Seq(Item), todo'[m] = X \o Tail(todo[m]),
           \A a \in States \cup {Root} : inside[m] = Inside(a) =>
             \A e : Does(Head(todo[m]), Now(m, a), e) =>
               \E b \in States \cup {Root} :
                 inside'[m] = Inside(b) /\ Leads(X, Where(b, active'[m], news'[m]), e)
    PROVE  MachineInv'
<1>1. Course(m) /\ alive[m] /\ InHand(m)
  BY HandlingFacts
<1>2. Others(m)
  BY DEF Others, InHand, On
<1>3. InHand(m)' /\ alive'[m]
  BY <1>1 DEF InHand
<1>4. Course(m)'
  <2>1. PICK a \in States \cup {Root} :
          inside[m] = Inside(a) /\ \E d \in Ends : Leads(todo[m], Now(m, a), d)
    BY <1>1 DEF Course
  <2>2. PICK d \in Ends : Leads(todo[m], Now(m, a), d)
    BY <2>1
  <2>3. todo[m] \in Seq(Item) /\ Tail(todo[m]) \in Seq(Item)
    BY DEF MachineInv, MachineType
  <2>4. PICK e : Does(Head(todo[m]), Now(m, a), e) /\ Leads(Tail(todo[m]), e, d)
    BY <2>2, <2>3, LeadsHead
  <2>5. PICK b \in States \cup {Root} :
          inside'[m] = Inside(b) /\ Leads(X, Where(b, active'[m], news'[m]), e)
    BY <2>1, <2>4
  <2> DEFINE T == Tail(todo[m])
             c == Where(b, active'[m], news'[m])
  <2>6. Leads(X \o T, c, d)
    <3>1. T \in Seq(Item) /\ Leads(T, e, d) /\ Leads(X, c, e)
      BY <2>3, <2>4, <2>5
    <3> HIDE DEF T, c
    <3> QED
      BY <3>1, LeadsOn
  <2>7. Leads(todo'[m], Where(b, active'[m], news'[m]), d)
    BY <2>6
  <2>8. Ends' = Ends /\ Now(m, b)' = Where(b, active'[m], news'[m])
    BY DEF Now
  <2> QED
    BY <2>5, <2>7, <2>8 DEF Course
<1> QED
  BY <1>2, <1>3, <1>4, OthersKeep

(* Who is in the middle of an event after the last call has moved on. *)
LEMMA HandMoves ==
    ASSUME stack \in Seq(Frame), Alone, stack # <<>>, NEW m \in Machines, Top.t = m,
           NEW pc \in {"first", "handle", "events", "links"}, stack' = Move(pc)
    PROVE  /\ InHand(m)' <=> pc \in {"first", "handle"}
           /\ On(m)' /\ On(m)
           /\ InHand(m) <=> Handling(m)
           /\ \A k \in Machines \ {m} : (InHand(k)' <=> InHand(k)) /\ (On(k)' <=> On(k))
<1> DEFINE n == Len(stack)
<1>1. /\ stack' \in Seq(Frame) /\ Len(stack') = n /\ n \in Nat \ {0}
      /\ \A i \in 1..n : /\ stack'[i].t = stack[i].t
                         /\ stack'[i].pc = IF i = n THEN pc ELSE stack[i].pc
  BY MoveFacts
<1>2. n \in 1..n /\ stack[n].t = m /\ \A i \in 1..n : stack[i].t = m <=> i = n
  BY <1>1 DEF Alone, Top
<1>3. InHand(m)' <=> pc \in {"first", "handle"}
  BY <1>1, <1>2 DEF InHand
<1>4. On(m)' /\ On(m)
  BY <1>1, <1>2 DEF On
<1>5. InHand(m) <=> Handling(m)
  BY <1>1, <1>2 DEF InHand, Handling, At, Top
<1>6. ASSUME NEW k \in Machines \ {m}
      PROVE  (InHand(k)' <=> InHand(k)) /\ (On(k)' <=> On(k))
  <2>1. \A i \in 1..n : stack[i].t = k => stack'[i].pc = stack[i].pc
    BY <1>1, <1>2
  <2> QED
    BY <1>1, <2>1 DEF InHand, On
<1> QED
  BY <1>3, <1>4, <1>5, <1>6

(* The machines are left alone. *)
LEMMA CallsKeep ==
    ASSUME MachineInv, UNCHANGED stateVars,
           \A m \in Machines : (InHand(m)' <=> InHand(m)) /\ (On(m)' => On(m) \/ alive[m])
    PROVE  MachineInv'
<1>1. UNCHANGED <<alive, active, todo, news, inside>>
  BY DEF stateVars
<1>2. MachineType'
  BY <1>1 DEF MachineInv, MachineType
<1>3. ASSUME NEW m \in Machines
      PROVE  /\ On(m)' => alive'[m]
             /\ IF InHand(m)' THEN Course(m)' ELSE Rests(m)'
  <2>1. Course(m)' <=> Course(m)
    BY <1>1 DEF Course, Now
  <2>2. Rests(m)' <=> Rests(m)
    BY <1>1 DEF Rests
  <2> QED
    BY <1>1, <2>1, <2>2 DEF MachineInv
<1> QED
  BY <1>2, <1>3 DEF MachineInv

-----------------------------------------------------------------------------
(* Items done by exitState, enterState and the taking of a transition.     *)

(* What takes the place of an item that has been done is quiet.            *)
LEMMA QuietFacts ==
    /\ <<>> \in Seq(Quiet) /\ <<RaiseItem(Error)>> \in Seq(Quiet)
    /\ \A s \in States : /\ <<Call>> \o OnExit[s] \in Seq(Quiet)
                         /\ <<Call>> \o OnEntry[s] \in Seq(Quiet)
                         /\ <<RaiseItem(Done(s))>> \in Seq(Quiet)
    /\ Seq(Quiet) \subseteq Seq(Item)
<1>1. Call \in Quiet /\ RaiseItem(Error) \in Quiet /\ \A s \in States : RaiseItem(Done(s)) \in Quiet
  BY DEF Quiet
<1>2. \A i \in Quiet : <<i>> \in Seq(Quiet)
  OBVIOUS
<1>3. ASSUME NEW s \in States
      PROVE  <<Call>> \o OnExit[s] \in Seq(Quiet) /\ <<Call>> \o OnEntry[s] \in Seq(Quiet)
  <2>1. OnExit[s] \in Seq(Content) /\ OnEntry[s] \in Seq(Content)
    BY DocumentAssumption
  <2>2. Content \subseteq Quiet
    BY DEF Quiet
  <2>3. OnExit[s] \in Seq(Quiet) /\ OnEntry[s] \in Seq(Quiet)
    BY <2>1, <2>2
  <2>4. <<Call>> \in Seq(Quiet)
    BY <1>1, <1>2
  <2> DEFINE one == <<Call>>
  <2> HIDE DEF one
  <2>5. one \o OnExit[s] \in Seq(Quiet) /\ one \o OnEntry[s] \in Seq(Quiet)
    BY <2>3, <2>4 DEF one
  <2> QED
    BY <2>5 DEF one
<1>4. Quiet \subseteq Item
  BY DEF Item
<1>5. Seq(Quiet) \subseteq Seq(Item)
  BY <1>4
<1>6. <<>> \in Seq(Quiet)
  OBVIOUS
<1> QED
  BY <1>1, <1>2, <1>3, <1>5, <1>6

(* What is next to be done can be done where the machine is. *)
LEMMA ItFacts ==
    ASSUME MachineInv, stack \in Seq(Frame), NEW m \in Machines, Handling(m), todo[m] # <<>>
    PROVE  \E a \in States \cup {Root} :
             /\ inside[m] = Inside(a)
             /\ \E d \in Ends : \E e : Does(It(m), Now(m, a), e) /\ Leads(Tail(todo[m]), e, d)
<1>1. Course(m)
  BY HandlingFacts
<1>2. PICK a \in States \cup {Root} :
        inside[m] = Inside(a) /\ \E d \in Ends : Leads(todo[m], Now(m, a), d)
  BY <1>1 DEF Course
<1>3. PICK d \in Ends : Leads(todo[m], Now(m, a), d)
  BY <1>2
<1>4. todo[m] \in Seq(Item)
  BY DEF MachineInv, MachineType
<1>5. \E e : Does(Head(todo[m]), Now(m, a), e) /\ Leads(Tail(todo[m]), e, d)
  BY <1>3, <1>4, LeadsHead
<1> QED
  BY <1>2, <1>5 DEF It

(* Where a machine in a state a is.                                        *)
LEMMA NowFacts ==
    ASSUME NEW m, NEW a
    PROVE  Now(m, a).at = a /\ Now(m, a).active = active[m] /\ Now(m, a).news = news[m]
BY DEF Now, Where

(* Something is said, and nothing else happens. *)
LEMMA Said ==
    ASSUME MachineInv, stack \in Seq(Frame), NEW m \in Machines, NEW op,
           Doing(m, op), op \in {"assign", "raise", "send", "call"},
           NEW X \in Seq(Quiet), Instead(m, X), UNCHANGED <<alive, active, news, inside, stack>>
    PROVE  MachineInv'
<1>1. Handling(m) /\ todo[m] # <<>> /\ It(m).op = op
  BY DEF Doing, It
<1>2. MachineType
  BY DEF MachineInv
<1>3. X \in Seq(Item) /\ Tail(todo[m]) \in Seq(Item)
  BY <1>1, <1>2, QuietFacts DEF MachineType
<1>4. todo' = [todo EXCEPT ![m] = X \o Tail(todo[m])] /\ X \o Tail(todo[m]) \in Seq(Item)
  BY <1>3 DEF Instead
<1>5. MachineType' /\ todo'[m] = X \o Tail(todo[m])
      /\ \A k \in Machines \ {m} : todo'[k] = todo[k]
  BY <1>2, <1>4 DEF MachineType
<1>6. ASSUME NEW a \in States \cup {Root}, inside[m] = Inside(a),
             NEW e, Does(It(m), Now(m, a), e)
      PROVE  inside'[m] = Inside(a) /\ Leads(X, Where(a, active'[m], news'[m]), e)
  <2>1. e = Now(m, a)
    <3>1. SaysQuiet(It(m), Now(m, a), e)
      BY <1>1, <1>6, DoesFacts
    <3> QED
      BY <3>1 DEF SaysQuiet
  <2>2. e.at # NoState
    <3>1. NoState \notin States \cup {Root}
      BY DocumentAssumption
    <3> QED
      BY <2>1, <3>1, NowFacts
  <2>3. e = Where(a, active'[m], news'[m])
    BY <2>1 DEF Now
  <2>4. Leads(X, e, e)
    BY <2>2, LeadsQuiet
  <2> QED
    BY <1>6, <2>3, <2>4
<1> QED
  BY <1>1, <1>3, <1>5, <1>6, ItemDone DEF It

(* exitState goes to the container of the state it leaves.                 *)
LEMMA ExitKeeps ==
    ASSUME MachineInv, stack \in Seq(Frame), NEW m \in Machines, ExitState(m)
    PROVE  MachineInv'
<1> DEFINE s == It(m).state
           X == IF s \in Finals THEN <<>> ELSE <<Call>> \o OnExit[s]
<1>1. /\ Handling(m) /\ todo[m] # <<>> /\ It(m).op = "exit"
      /\ UNCHANGED <<alive, active, news, stack>>
      /\ inside' = [inside EXCEPT ![m] = @ \ {s}] /\ Instead(m, X)
  BY DEF ExitState, Doing, It, eventVars
<1>2. MachineType
  BY DEF MachineInv
<1>3. s \in States
  <2>1. PICK a, e : Does(It(m), Now(m, a), e)
    BY <1>1, ItFacts
  <2> QED
    BY <1>1, <2>1, DoesFacts DEF SaysExit
<1> HIDE DEF s
<1>4. X \in Seq(Quiet) /\ X \in Seq(Item)
  BY <1>3, QuietFacts
<1> HIDE DEF X
<1>5. todo' = [todo EXCEPT ![m] = X \o Tail(todo[m])] /\ X \o Tail(todo[m]) \in Seq(Item)
  <2>1. Tail(todo[m]) \in Seq(Item)
    BY <1>1, <1>2 DEF MachineType
  <2> QED
    BY <1>1, <1>4, <2>1 DEF Instead
<1>6. MachineType' /\ todo'[m] = X \o Tail(todo[m]) /\ inside'[m] = inside[m] \ {s}
      /\ \A k \in Machines \ {m} : todo'[k] = todo[k] /\ inside'[k] = inside[k]
  BY <1>1, <1>2, <1>5 DEF MachineType
<1>7. ASSUME NEW a \in States \cup {Root}, inside[m] = Inside(a),
             NEW e, Does(It(m), Now(m, a), e)
      PROVE  \E b \in States \cup {Root} :
               inside'[m] = Inside(b) /\ Leads(X, Where(b, active'[m], news'[m]), e)
  <2>1. a = s /\ e = Where(Container[s], active[m], news[m])
    <3>1. SaysExit(It(m), Now(m, a), e)
      BY <1>1, <1>7, DoesFacts
    <3> QED
      BY <3>1, NowFacts DEF SaysExit, s
  <2>2. Container[s] \in States \cup {Root} /\ Inside(Container[s]) = Inside(s) \ {s}
    BY <1>3, InsideFacts
  <2>3. e.at = Container[s]
    BY <2>1 DEF Where
  <2>4. e.at # NoState
    <3>1. NoState \notin States \cup {Root}
      BY DocumentAssumption
    <3> QED
      BY <2>2, <2>3, <3>1
  <2>5. Leads(X, e, e)
    BY <1>4, <2>4, LeadsQuiet
  <2>6. inside'[m] = Inside(Container[s]) /\ e = Where(Container[s], active'[m], news'[m])
    BY <1>1, <1>6, <1>7, <2>1, <2>2
  <2> QED
    BY <2>2, <2>5, <2>6
<1> QED
  BY <1>1, <1>4, <1>6, <1>7, ItemDone DEF It

(* enterState goes to the state it enters.                                 *)
LEMMA EnterKeeps ==
    ASSUME MachineInv, stack \in Seq(Frame), NEW m \in Machines, EnterState(m)
    PROVE  MachineInv'
<1> DEFINE s == It(m).state
           X == IF s \notin Finals THEN <<Call>> \o OnEntry[s]
                ELSE IF Container[s] = Root THEN <<>>
                ELSE <<RaiseItem(Done(Container[s]))>>
<1>1. /\ Handling(m) /\ todo[m] # <<>> /\ It(m).op = "enter"
      /\ UNCHANGED <<alive, active, news, stack>>
      /\ inside' = [inside EXCEPT ![m] = @ \cup {s}] /\ Instead(m, X)
  BY DEF EnterState, Doing, It, eventVars
<1>2. MachineType
  BY DEF MachineInv
<1>3. s \in States
  <2>1. PICK a, e : Does(It(m), Now(m, a), e)
    BY <1>1, ItFacts
  <2> QED
    BY <1>1, <2>1, DoesFacts DEF SaysEnter
<1> HIDE DEF s
<1>8. /\ Container[s] \in States \cup {Root} /\ Inside(Container[s]) = Inside(s) \ {s}
      /\ s \in Inside(s)
  BY <1>3, InsideFacts
<1>4. X \in Seq(Quiet) /\ X \in Seq(Item)
  BY <1>3, <1>8, QuietFacts
<1> HIDE DEF X
<1>5. todo' = [todo EXCEPT ![m] = X \o Tail(todo[m])] /\ X \o Tail(todo[m]) \in Seq(Item)
  <2>1. Tail(todo[m]) \in Seq(Item)
    BY <1>1, <1>2 DEF MachineType
  <2> QED
    BY <1>1, <1>4, <2>1 DEF Instead
<1>6. MachineType' /\ todo'[m] = X \o Tail(todo[m]) /\ inside'[m] = inside[m] \cup {s}
      /\ \A k \in Machines \ {m} : todo'[k] = todo[k] /\ inside'[k] = inside[k]
  BY <1>1, <1>2, <1>3, <1>5 DEF MachineType
<1>7. ASSUME NEW a \in States \cup {Root}, inside[m] = Inside(a),
             NEW e, Does(It(m), Now(m, a), e)
      PROVE  \E b \in States \cup {Root} :
               inside'[m] = Inside(b) /\ Leads(X, Where(b, active'[m], news'[m]), e)
  <2>1. a = Container[s] /\ e = Where(s, active[m], news[m])
    <3>1. SaysEnter(It(m), Now(m, a), e)
      BY <1>1, <1>7, DoesFacts
    <3> QED
      BY <3>1, NowFacts DEF SaysEnter, s
  <2>3. e.at = s
    BY <2>1 DEF Where
  <2>4. e.at # NoState
    BY <1>3, <2>3, DocumentAssumption
  <2>5. Leads(X, e, e)
    BY <1>4, <2>4, LeadsQuiet
  <2>6. inside'[m] = Inside(s) /\ e = Where(s, active'[m], news'[m])
    BY <1>1, <1>6, <1>7, <1>8, <2>1
  <2> QED
    BY <1>3, <2>5, <2>6
<1> QED
  BY <1>1, <1>4, <1>6, <1>7, ItemDone DEF It

(* A transition is replaced by the way from its source to its target.      *)
LEMMA TakeKeeps ==
    ASSUME MachineInv, stack \in Seq(Frame), NEW m \in Machines, TakeTransition(m)
    PROVE  MachineInv'
<1> DEFINE t == It(m).transition
           X == Expand(t, active[m])
<1>1. /\ Handling(m) /\ todo[m] # <<>> /\ It(m).op = "leave"
      /\ UNCHANGED <<alive, active, news, inside, stack>> /\ Instead(m, X)
  BY DEF TakeTransition, Doing, It, eventVars
<1>2. MachineType
  BY DEF MachineInv
<1>3. ASSUME NEW a \in States \cup {Root}, NEW e, Does(It(m), Now(m, a), e)
      PROVE  X \in Seq(Item) /\ Leads(X, Now(m, a), e)
  <2> DEFINE c == Now(m, a)
  <2>1. /\ t \in Transition \cup {Starter} /\ t.target \in TargetStates /\ c.news = <<>>
        /\ IF t.source = NoState THEN c.at = Root /\ c.active = <<>>
           ELSE c.at \in States /\ c.active = <<c.at>> /\ t.source \in Inside(c.at)
        /\ e = Where(t.target, <<>>, <<t.target>>)
    BY <1>1, <1>3, DoesFacts DEF SaysLeave
  <2>2. c.at = a /\ c.active = active[m] /\ c = Where(c.at, c.active, c.news)
    BY DEF Now, Where
  <2>3. c.at # NoState
    BY <2>2, DocumentAssumption
  <2> HIDE DEF c, t
  <2>4. Expand(t, c.active) \in Seq(Item) /\ Leads(Expand(t, c.active), c, e)
    BY <2>1, <2>2, <2>3, ExpandLeads
  <2> QED
    BY <2>2, <2>4 DEF c
<1> HIDE DEF X, t
<1>4. X \in Seq(Item)
  <2>1. PICK a \in States \cup {Root} : \E e : Does(It(m), Now(m, a), e)
    BY <1>1, ItFacts
  <2> QED
    BY <1>3, <2>1
<1>5. todo' = [todo EXCEPT ![m] = X \o Tail(todo[m])] /\ X \o Tail(todo[m]) \in Seq(Item)
  <2>1. Tail(todo[m]) \in Seq(Item)
    BY <1>1, <1>2 DEF MachineType
  <2> QED
    BY <1>1, <1>4, <2>1 DEF Instead
<1>6. MachineType' /\ todo'[m] = X \o Tail(todo[m])
      /\ \A k \in Machines \ {m} : todo'[k] = todo[k]
  BY <1>1, <1>2, <1>5 DEF MachineType
<1>7. ASSUME NEW a \in States \cup {Root}, inside[m] = Inside(a),
             NEW e, Does(It(m), Now(m, a), e)
      PROVE  inside'[m] = Inside(a) /\ Leads(X, Where(a, active'[m], news'[m]), e)
  BY <1>1, <1>3, <1>7 DEF Now
<1> QED
  BY <1>1, <1>4, <1>6, <1>7, ItemDone DEF It

-----------------------------------------------------------------------------
(* New states and the descent from them.                                   *)

(* A target is a state, and has an <initial> if it has substates.          *)
LEMMA TargetFacts ==
    ASSUME NEW s \in TargetStates
    PROVE  s \in States /\ s # NoState /\ (~HasInitial(s) => Atomic(s))
<1>1. NoState \notin States
  BY DocumentAssumption
<1>2. s \in States
  <2>1. CASE s = First
    BY <2>1, DocumentAssumption
  <2>2. ASSUME NEW x \in States, s \in {t.target : t \in TransitionsOf(x)} \ {NoState}
        PROVE  s \in States
    <3>1. PICK t \in TransitionsOf(x) : s = t.target
      BY <2>2
    <3>2. Transitions[x] \in Seq(Transition) /\ Initial[x] \in Seq(Transition)
      BY DocumentAssumption
    <3>3. t \in Transition
      BY <3>2 DEF TransitionsOf, Range
    <3> QED
      BY <2>2, <3>1, <3>3 DEF Transition
  <2> QED
    BY <2>1, <2>2 DEF TargetStates
<1>3. Initial[s] = <<>> => Atomic(s)
  BY DocumentAssumption
<1> QED
  BY <1>1, <1>2, <1>3 DEF HasInitial

(* The states left are taken out of the list and the target becomes the    *)
(* only new state.                                                         *)
LEMMA ReplaceKeeps ==
    ASSUME MachineInv, stack \in Seq(Frame), NEW m \in Machines, ReplaceActive(m)
    PROVE  MachineInv'
<1> DEFINE s == It(m).state
           left == Among(active[m], Range(active[m]) \ It(m).old)
<1>1. /\ Handling(m) /\ todo[m] # <<>> /\ It(m).op = "swap"
      /\ UNCHANGED <<alive, inside, stack>> /\ Instead(m, <<>>)
      /\ active' = [active EXCEPT ![m] = left]
      /\ news' = [news EXCEPT ![m] = IF Contains(left, s) THEN @ ELSE Append(@, s)]
  BY DEF ReplaceActive, Doing, It, eventVars
<1>2. MachineType
  BY DEF MachineInv
<1>3. PICK a \in States \cup {Root} : \E e : Does(It(m), Now(m, a), e)
  BY <1>1, ItFacts
<1>4. /\ s \in TargetStates /\ Range(active[m]) \subseteq It(m).old /\ news[m] = <<>>
  <2>1. PICK e : Does(It(m), Now(m, a), e)
    BY <1>3
  <2>2. SaysSwap(It(m), Now(m, a), e)
    BY <1>1, <2>1, DoesFacts
  <2> QED
    BY <2>2, NowFacts DEF SaysSwap
<1>5. left = <<>>
  <2>1. Range(active[m]) \ It(m).old = {}
    BY <1>4
  <2>2. active[m] \in Seq(States)
    BY <1>2 DEF MachineType
  <2> QED
    BY <2>1, <2>2, AmongNone
<1>6. ~Contains(left, s)
  BY <1>5 DEF Contains
<1> HIDE DEF left, s
<1>7. s \in States
  BY <1>4, TargetFacts
<1>8. /\ active' = [active EXCEPT ![m] = <<>>] /\ news' = [news EXCEPT ![m] = <<s>>]
      /\ <<>> \in Seq(States) /\ <<s>> \in Seq(States)
  <2>1. Append(news[m], s) = <<s>>
    BY <1>4
  <2> QED
    BY <1>1, <1>5, <1>6, <1>7, <2>1
<1>9. <<>> \in Seq(Item) /\ <<>> \o Tail(todo[m]) \in Seq(Item)
  <2>1. Tail(todo[m]) \in Seq(Item)
    BY <1>1, <1>2 DEF MachineType
  <2> QED
    BY <2>1
<1>10. todo' = [todo EXCEPT ![m] = <<>> \o Tail(todo[m])]
  BY <1>1 DEF Instead
<1>11. MachineType' /\ todo'[m] = <<>> \o Tail(todo[m])
       /\ active'[m] = <<>> /\ news'[m] = <<s>>
       /\ \A k \in Machines \ {m} :
            active'[k] = active[k] /\ news'[k] = news[k] /\ todo'[k] = todo[k]
  BY <1>1, <1>2, <1>8, <1>9, <1>10 DEF MachineType
<1>12. ASSUME NEW b \in States \cup {Root}, inside[m] = Inside(b),
              NEW f, Does(It(m), Now(m, b), f)
       PROVE  inside'[m] = Inside(b) /\ Leads(<<>>, Where(b, active'[m], news'[m]), f)
  <2>1. SaysSwap(It(m), Now(m, b), f)
    BY <1>1, <1>12, DoesFacts
  <2>2. b = s /\ f = Where(s, <<>>, <<s>>)
    BY <2>1, NowFacts DEF SaysSwap, s
  <2>3. f = Where(b, active'[m], news'[m])
    BY <1>11, <2>2
  <2> QED
    BY <1>1, <1>12, <2>3, LeadsNothing
<1> QED
  BY <1>1, <1>9, <1>11, <1>12, ItemDone DEF It

(* Two elements in a list.                                                 *)
LEMMA PairFacts ==
    ASSUME NEW A, NEW x \in A, NEW y \in A PROVE <<x>> \o <<y>> = <<x, y>>
<1> DEFINE p == <<x>>
           q == <<y>>
           w == p \o q
           v == <<x, y>>
<1>1. p \in Seq(A) /\ Len(p) = 1 /\ p[1] = x /\ q \in Seq(A) /\ Len(q) = 1 /\ q[1] = y
  OBVIOUS
<1>2. v \in Seq(A) /\ Len(v) = 2 /\ v[1] = x /\ v[2] = y
  OBVIOUS
<1> HIDE DEF p, q, v
<1>3. w \in Seq(A) /\ Len(w) = 2 /\ w[1] = p[1] /\ w[2] = q[1]
  <2>1. w \in Seq(A) /\ Len(w) = Len(p) + Len(q)
        /\ \A i \in 1..(Len(p) + Len(q)) : w[i] = IF i <= Len(p) THEN p[i] ELSE q[i - Len(p)]
    BY <1>1, ConcatProperties
  <2> HIDE DEF w
  <2>2. 1 \in 1..(1 + 1) /\ 2 \in 1..(1 + 1) /\ 1 <= 1 /\ ~(2 <= 1) /\ 2 - 1 = 1 /\ 1 + 1 = 2
    OBVIOUS
  <2> QED
    BY <1>1, <2>1, <2>2
<1> HIDE DEF w
<1>4. \A i \in 1..2 : w[i] = v[i]
  BY <1>1, <1>2, <1>3
<1>5. w = v
  BY <1>2, <1>3, <1>4
<1> QED
  BY <1>5 DEF p, q, v, w

(* A descent leads on from its state.                                      *)
LEMMA DescendLeads ==
    ASSUME NEW s \in TargetStates
    PROVE  /\ <<Descend(s)>> \in Seq(Item)
           /\ Leads(<<Descend(s)>>, Where(s, <<>>, <<>>), Somewhere)
<1>1. s \in States /\ s # NoState
  BY TargetFacts
<1>2. Descend(s) \in Item
  BY <1>1 DEF Item
<1>3. Where(s, <<>>, <<>>).at = s
  BY DEF Where
<1>4. Does(Descend(s), Where(s, <<>>, <<>>), Somewhere)
  BY <1>1, <1>3 DEF Does
<1> QED
  BY <1>2, <1>4, LeadsOne

(* The new state is taken for a descent.                                   *)
LEMMA SettleKeeps ==
    ASSUME MachineInv, stack \in Seq(Frame), NEW m \in Machines, SettleNew(m)
    PROVE  MachineInv'
<1> DEFINE X == Items(Descend, news[m])
<1>1. /\ Handling(m) /\ todo[m] # <<>> /\ It(m).op = "settle"
      /\ UNCHANGED <<alive, active, inside, stack>> /\ Instead(m, X)
      /\ news' = [news EXCEPT ![m] = <<>>]
  BY DEF SettleNew, Doing, It, eventVars
<1>2. MachineType /\ news[m] \in Seq(States)
  BY DEF MachineInv, MachineType
<1>3. X = [i \in 1..Len(news[m]) |-> Descend(news[m][i])]
  BY DEF Items
<1> HIDE DEF X
<1>4. X \in Seq(Item)
  <2>1. \A i \in 1..Len(news[m]) : Descend(news[m][i]) \in Item
    BY <1>2 DEF Item
  <2> QED
    BY <1>2, <1>3, <2>1
<1>5. todo' = [todo EXCEPT ![m] = X \o Tail(todo[m])] /\ X \o Tail(todo[m]) \in Seq(Item)
  <2>1. Tail(todo[m]) \in Seq(Item)
    BY <1>1, <1>2 DEF MachineType
  <2> QED
    BY <1>1, <1>4, <2>1 DEF Instead
<1>6. MachineType' /\ todo'[m] = X \o Tail(todo[m]) /\ news'[m] = <<>>
      /\ \A k \in Machines \ {m} : todo'[k] = todo[k] /\ news'[k] = news[k]
  BY <1>1, <1>2, <1>5 DEF MachineType
<1>7. ASSUME NEW a \in States \cup {Root}, inside[m] = Inside(a),
             NEW e, Does(It(m), Now(m, a), e)
      PROVE  inside'[m] = Inside(a) /\ Leads(X, Where(a, active'[m], news'[m]), e)
  <2>1. SaysSettle(Now(m, a), e)
    BY <1>1, <1>7, DoesFacts
  <2>2. CASE Now(m, a).news = <<>> /\ e = Now(m, a)
    <3>1. news[m] = <<>>
      BY <2>2, NowFacts
    <3>2. X = <<>>
      BY <1>3, <3>1
    <3>3. e = Where(a, active'[m], news'[m])
      BY <1>1, <1>6, <2>2, <3>1 DEF Now
    <3> QED
      BY <1>1, <1>7, <3>2, <3>3, LeadsNothing
  <2>3. ASSUME NEW s \in TargetStates, Now(m, a) = Where(s, <<>>, <<s>>) /\ e = Somewhere
        PROVE  Leads(X, Where(a, active'[m], news'[m]), e)
    <3>1. a = s /\ active[m] = <<>> /\ news[m] = <<s>>
      BY <2>3, NowFacts DEF Where
    <3>2. X = <<Descend(s)>>
      BY <1>3, <3>1
    <3>3. Where(a, active'[m], news'[m]) = Where(s, <<>>, <<>>)
      BY <1>1, <1>6, <3>1
    <3> QED
      BY <2>3, <3>2, <3>3, DescendLeads
  <2> QED
    BY <1>1, <1>7, <2>1, <2>2, <2>3 DEF SaysSettle
<1> QED
  BY <1>1, <1>4, <1>6, <1>7, ItemDone DEF It

(* A step down an <initial> leads to a descent from its target.            *)
LEMMA FollowKeeps ==
    ASSUME MachineInv, stack \in Seq(Frame), NEW m \in Machines, FollowInitial(m)
    PROVE  MachineInv'
<1> DEFINE s == It(m).state
           t == Initial[s][1]
           X == t.content \o <<Enter(t.target), Descend(t.target)>>
<1>1. /\ Handling(m) /\ todo[m] # <<>> /\ It(m).op = "descend" /\ HasInitial(s)
      /\ UNCHANGED <<alive, active, news, inside, stack>> /\ Instead(m, X)
  BY DEF FollowInitial, Doing, It, eventVars
<1>2. MachineType
  BY DEF MachineInv
<1>3. s \in TargetStates
  <2>1. PICK a \in States \cup {Root} : \E e : Does(It(m), Now(m, a), e)
    BY <1>1, ItFacts
  <2> QED
    BY <1>1, <2>1, DoesFacts DEF SaysDescend
<1> HIDE DEF s
<1>4. s \in States /\ s # NoState
  BY <1>3, TargetFacts
<1>5. /\ t \in Transition /\ t.target \in TargetStates /\ Container[t.target] = s
      /\ t.content \in Seq(Content)
  <2>1. Initial[s] \in Seq(Transition)
        /\ \A u \in Range(Initial[s]) : u.target # NoState /\ Container[u.target] = s
    BY <1>4, DocumentAssumption
  <2>2. Initial[s] # <<>>
    BY <1>1 DEF HasInitial
  <2>3. t \in Transition /\ t \in Range(Initial[s])
    BY <2>1, <2>2 DEF Range
  <2> HIDE DEF t
  <2>4. t.target # NoState /\ Container[t.target] = s
    BY <2>1, <2>3
  <2>5. t.target \in TargetStates
    BY <1>4, <2>3, <2>4 DEF TargetStates, TransitionsOf
  <2> QED
    BY <2>3, <2>4, <2>5 DEF Transition
<1>6. X \in Seq(Item) /\ Leads(X, Where(s, <<>>, <<>>), Somewhere)
  <2> DEFINE u == t.target
             c == Where(s, <<>>, <<>>)
             d == Where(u, <<>>, <<>>)
             in == <<Enter(u)>>
             down == <<Descend(u)>>
  <2>1. u \in States /\ u # NoState /\ down \in Seq(Item) /\ Leads(down, d, Somewhere)
    BY <1>5, TargetFacts, DescendLeads
  <2>2. c.at = s /\ c.active = <<>> /\ c.news = <<>>
    BY DEF Where
  <2>3. Enter(u) \in Item /\ Does(Enter(u), c, d)
    <3> HIDE DEF c
    <3> QED
      BY <1>4, <1>5, <2>1, <2>2 DEF Does, Item
  <2>4. in \in Seq(Item) /\ Leads(in, c, d)
    BY <2>3, LeadsOne
  <2>5. t.content \in Seq(Item) /\ Leads(t.content, c, c)
    BY <1>4, <1>5, <2>2, ContentQuiet
  <2>6. in \o down = <<Enter(u), Descend(u)>>
    <3>1. Enter(u) \in Item /\ Descend(u) \in Item
      BY <2>1 DEF Item
    <3> QED
      BY <3>1, PairFacts
  <2> HIDE DEF c, d, in, down, u, t
  <2> DEFINE w == in \o down
  <2>7. w \in Seq(Item) /\ Leads(w, c, Somewhere)
    BY <2>1, <2>4, LeadsOn
  <2> HIDE DEF w
  <2>8. t.content \o w \in Seq(Item) /\ Leads(t.content \o w, c, Somewhere)
    BY <2>5, <2>7, LeadsOn
  <2>9. X = t.content \o w
    BY <2>6 DEF w, u
  <2> QED
    BY <2>8, <2>9 DEF c
<1> HIDE DEF X
<1>7. todo' = [todo EXCEPT ![m] = X \o Tail(todo[m])] /\ X \o Tail(todo[m]) \in Seq(Item)
  <2>1. Tail(todo[m]) \in Seq(Item)
    BY <1>1, <1>2 DEF MachineType
  <2> QED
    BY <1>1, <1>6, <2>1 DEF Instead
<1>8. MachineType' /\ todo'[m] = X \o Tail(todo[m])
      /\ \A k \in Machines \ {m} : todo'[k] = todo[k]
  BY <1>1, <1>2, <1>7 DEF MachineType
<1>9. ASSUME NEW a \in States \cup {Root}, inside[m] = Inside(a),
             NEW e, Does(It(m), Now(m, a), e)
      PROVE  inside'[m] = Inside(a) /\ Leads(X, Where(a, active'[m], news'[m]), e)
  <2>1. SaysDescend(It(m), Now(m, a), e)
    BY <1>1, <1>9, DoesFacts
  <2>2. Where(a, active'[m], news'[m]) = Where(s, <<>>, <<>>) /\ e = Somewhere
    BY <1>1, <2>1 DEF SaysDescend, Now, s
  <2> QED
    BY <1>1, <1>6, <1>9, <2>2
<1> QED
  BY <1>1, <1>6, <1>8, <1>9, ItemDone DEF It

(* A descent ends in the state without substates, which becomes the active *)
(* one.                                                                    *)
LEMMA PushKeeps ==
    ASSUME MachineInv, stack \in Seq(Frame), NEW m \in Machines, PushActive(m)
    PROVE  MachineInv'
<1> DEFINE s == It(m).state
<1>1. /\ Handling(m) /\ todo[m] # <<>> /\ It(m).op = "descend" /\ ~HasInitial(s)
      /\ UNCHANGED <<alive, news, inside, stack>> /\ Instead(m, <<>>)
      /\ active' = [active EXCEPT ![m] = Append(@, s)]
  BY DEF PushActive, Doing, It, eventVars
<1>2. MachineType /\ todo[m] \in Seq(Item) /\ Tail(todo[m]) \in Seq(Item)
  BY <1>1 DEF MachineInv, MachineType
<1>3. PICK a \in States \cup {Root} :
        /\ inside[m] = Inside(a)
        /\ \E d \in Ends : \E e : Does(It(m), Now(m, a), e) /\ Leads(Tail(todo[m]), e, d)
  BY <1>1, ItFacts
<1>4. PICK d \in Ends : \E e : Does(It(m), Now(m, a), e) /\ Leads(Tail(todo[m]), e, d)
  BY <1>3
<1>5. PICK e : Does(It(m), Now(m, a), e) /\ Leads(Tail(todo[m]), e, d)
  BY <1>4
<1>6. /\ s \in TargetStates /\ a = s /\ active[m] = <<>> /\ news[m] = <<>> /\ e = Somewhere
  <2>1. SaysDescend(It(m), Now(m, a), e)
    BY <1>1, <1>5, DoesFacts
  <2> QED
    BY <2>1 DEF SaysDescend, Now, Where
<1>7. Tail(todo[m]) = <<>>
  <2> SUFFICES ASSUME Tail(todo[m]) # <<>> PROVE FALSE
    OBVIOUS
  <2>1. PICK f : Does(Head(Tail(todo[m])), Somewhere, f)
    BY <1>2, <1>5, <1>6, LeadsHead
  <2>2. Somewhere.at = NoState
    BY DEF Somewhere, Where
  <2> QED
    BY <2>1, <2>2 DEF Does
<1> HIDE DEF s
<1>8. a \in States /\ Atomic(a)
  BY <1>1, <1>6, TargetFacts
<1>9. todo' = [todo EXCEPT ![m] = <<>>] /\ active' = [active EXCEPT ![m] = <<a>>]
  <2>1. Append(active[m], s) = <<a>> /\ <<>> \o Tail(todo[m]) = <<>>
    BY <1>6, <1>7
  <2> QED
    BY <1>1, <2>1 DEF Instead
<1>10. <<>> \in Seq(Item) /\ <<a>> \in Seq(States)
  BY <1>8
<1>11. MachineType' /\ todo'[m] = <<>> /\ active'[m] = <<a>> /\ news'[m] = <<>>
       /\ \A k \in Machines \ {m} : todo'[k] = todo[k] /\ active'[k] = active[k]
  BY <1>1, <1>2, <1>6, <1>9, <1>10 DEF MachineType
<1>12. Others(m)
  BY <1>1, <1>11 DEF Others, InHand, On
<1>13. InHand(m)' /\ alive'[m]
  <2>1. InHand(m) /\ alive[m]
    BY <1>1, HandlingFacts
  <2> QED
    BY <1>1, <2>1 DEF InHand
<1>14. Course(m)'
  <2>1. Resting(a) \in Ends
    BY <1>8 DEF Ends
  <2>2. Now(m, a)' = Resting(a)
    BY <1>11 DEF Now, Resting
  <2>3. Leads(todo'[m], Now(m, a)', Resting(a))
    BY <1>11, <2>2, LeadsNothing
  <2>4. inside'[m] = Inside(a)
    BY <1>1, <1>3, <1>6
  <2> QED
    BY <1>8, <2>1, <2>3, <2>4 DEF Course
<1> QED
  BY <1>11, <1>12, <1>13, <1>14, OthersKeep

-----------------------------------------------------------------------------
(* Events, and the theorems.                                               *)

(* A machine is initialized.                                               *)
LEMMA InitializeKeepsMachines ==
    ASSUME MachineInv, NEW m \in Machines, InitializeMachine(m) PROVE MachineInv'
<1> DEFINE P == Plan(<<>>, NoEvent)
           f == [t |-> m, pc |-> "first"]
<1>1. /\ ~alive[m] /\ stack = <<>> /\ stack' = <<f>>
      /\ alive' = [alive EXCEPT ![m] = TRUE] /\ active' = [active EXCEPT ![m] = <<>>]
      /\ todo' = [todo EXCEPT ![m] = P] /\ UNCHANGED <<news, inside>>
  BY DEF InitializeMachine, Initialize
<1>2. P \in Seq(Item) /\ Leads(P, Where(Root, <<>>, <<>>), Somewhere)
  BY StartLeads
<1> HIDE DEF P
<1>3. MachineType /\ <<>> \in Seq(States)
  BY DEF MachineInv
<1>4. MachineType' /\ alive'[m] /\ active'[m] = <<>> /\ todo'[m] = P
      /\ \A k \in Machines \ {m} :
           alive'[k] = alive[k] /\ active'[k] = active[k] /\ todo'[k] = todo[k]
  BY <1>1, <1>2, <1>3 DEF MachineType
<1>5. f.t = m /\ f.pc = "first" /\ Len(stack') = 1 /\ stack'[1] = f
  BY <1>1
<1> HIDE DEF f
<1>6. Others(m) /\ InHand(m)'
  <2>1. ASSUME NEW k PROVE ~InHand(k) /\ ~On(k)
    BY <1>1 DEF InHand, On
  <2>2. ASSUME NEW k \in Machines \ {m} PROVE ~InHand(k)' /\ ~On(k)'
    BY <1>5 DEF InHand, On
  <2>3. InHand(m)'
    BY <1>5 DEF InHand
  <2> QED
    BY <1>1, <1>4, <2>1, <2>2, <2>3 DEF Others
<1>7. Rests(m)
  <2>1. ~InHand(m)
    BY <1>1 DEF InHand
  <2> QED
    BY <2>1 DEF MachineInv
<1>8. Course(m)'
  <2>1. inside'[m] = {} /\ news'[m] = <<>>
    BY <1>1, <1>7 DEF Rests
  <2>2. Inside(Root) = {}
    BY DEF Inside
  <2>3. Now(m, Root)' = Where(Root, <<>>, <<>>)
    BY <1>4, <2>1 DEF Now
  <2>4. Somewhere \in Ends
    BY DEF Ends
  <2> QED
    BY <1>2, <1>4, <2>1, <2>2, <2>3, <2>4 DEF Course
<1> QED
  BY <1>4, <1>6, <1>8, OthersKeep

(* A machine in one state plans what an event sets off, and it leads from  *)
(* that state to one state.                                                *)
LEMMA EventKeepsMachines ==
    ASSUME Unambiguous, MachineInv, stack \in Seq(Frame), Alone,
           NEW m \in Machines, ProcessOneEvent(m)
    PROVE  MachineInv'
<1>1. PICK n : todo' = [todo EXCEPT ![m] = Plan(active[m], n)]
  BY DEF ProcessOneEvent
<1>2. /\ stack # <<>> /\ Top.t = m /\ Top.pc = "events" /\ stack' = Move("handle")
      /\ UNCHANGED <<alive, active, news, inside>>
  BY DEF ProcessOneEvent, NextEvent, At
<1>3. /\ InHand(m)' /\ On(m) /\ ~InHand(m)
      /\ \A k \in Machines \ {m} : (InHand(k)' <=> InHand(k)) /\ (On(k)' <=> On(k))
  BY <1>2, HandMoves DEF Handling, At
<1>4. MachineType /\ alive[m] /\ Rests(m)
  BY <1>3 DEF MachineInv
<1>5. PICK a \in States : Atomic(a) /\ inside[m] = Inside(a) /\ active[m] = <<a>>
  BY <1>4 DEF Rests
<1> DEFINE P == Plan(<<a>>, n)
<1>6. P \in Seq(Item) /\ \E d \in Ends : Leads(P, Resting(a), d)
  <2>1. Somewhere \in Ends /\ Resting(a) \in Ends
    BY <1>5 DEF Ends
  <2> QED
    BY <1>5, <2>1, PlanLeads
<1>7. todo' = [todo EXCEPT ![m] = P]
  BY <1>1, <1>5
<1> HIDE DEF P
<1>8. MachineType' /\ todo'[m] = P /\ \A k \in Machines \ {m} : todo'[k] = todo[k]
  BY <1>2, <1>4, <1>6, <1>7 DEF MachineType
<1>9. Others(m)
  BY <1>2, <1>3, <1>8 DEF Others
<1>10. Course(m)'
  <2>1. Now(m, a)' = Resting(a)
    BY <1>2, <1>4, <1>5 DEF Now, Resting, Rests
  <2>2. inside'[m] = Inside(a)
    BY <1>2, <1>5
  <2> QED
    BY <1>6, <1>8, <2>1, <2>2 DEF Course
<1> QED
  BY <1>2, <1>3, <1>4, <1>8, <1>9, <1>10, OthersKeep

(* When all is done the machine is in one state.                           *)
LEMMA ProcessedKeepsMachines ==
    ASSUME MachineInv, stack \in Seq(Frame), Alone, NEW m \in Machines, EventProcessed(m)
    PROVE  MachineInv'
<1>1. /\ todo[m] = <<>> /\ Handling(m) /\ stack' = Move("events")
      /\ stack # <<>> /\ Top.t = m /\ UNCHANGED <<alive, active, todo, news, inside>>
  BY DEF EventProcessed, Handled, Handling, At
<1>2. /\ ~InHand(m)' /\ On(m) /\ InHand(m)
      /\ \A k \in Machines \ {m} : (InHand(k)' <=> InHand(k)) /\ (On(k)' <=> On(k))
  BY <1>1, HandMoves
<1>3. MachineType /\ alive[m] /\ Course(m)
  BY <1>2 DEF MachineInv
<1>4. PICK a \in States \cup {Root} :
        inside[m] = Inside(a) /\ \E d \in Ends : Leads(todo[m], Now(m, a), d)
  BY <1>3 DEF Course
<1>5. Now(m, a) \in Ends
  BY <1>1, <1>4, LeadsNothing
<1>6. Now(m, a) # Somewhere
  <2>1. Somewhere.at = NoState /\ NoState \notin States \cup {Root}
    BY DocumentAssumption DEF Somewhere, Where
  <2> QED
    BY <2>1, NowFacts
<1>7. PICK s \in States : Atomic(s) /\ Now(m, a) = Resting(s)
  BY <1>5, <1>6 DEF Ends
<1>8. a = s /\ active[m] = <<s>> /\ news[m] = <<>>
  <2>1. Resting(s).at = s /\ Resting(s).active = <<s>> /\ Resting(s).news = <<>>
    BY DEF Resting, Where
  <2> QED
    BY <1>7, <2>1, NowFacts
<1>9. Rests(m)'
  BY <1>1, <1>3, <1>4, <1>7, <1>8 DEF Rests
<1>10. MachineType'
  BY <1>1, <1>3 DEF MachineType
<1>11. Others(m)
  BY <1>1, <1>2 DEF Others
<1> QED
  BY <1>1, <1>2, <1>3, <1>9, <1>10, <1>11, OthersKeep

(* A call is added: that of a machine that is active, or of a service.     *)
LEMMA CallAdded ==
    ASSUME MachineInv, stack \in Seq(Frame), UNCHANGED stateVars,
           NEW t \in Targets, t \in Machines => alive[t], Process(t, stack)
    PROVE  MachineInv'
<1> DEFINE f == [t |-> t, pc |-> "events"]
<1>1. CASE stack' = stack
  <2>1. \A m \in Machines : (InHand(m)' <=> InHand(m)) /\ (On(m)' => On(m))
    BY <1>1 DEF InHand, On
  <2> QED
    BY <2>1, CallsKeep
<1>2. CASE stack' = Append(stack, f)
  <2>1. f \in Frame /\ f.t = t /\ f.pc = "events"
    BY DEF Frame
  <2> HIDE DEF f
  <2>2. /\ stack' \in Seq(Frame) /\ Len(stack') = Len(stack) + 1 /\ Len(stack) \in Nat
        /\ \A i \in 1..Len(stack) : stack'[i] = stack[i]
        /\ stack'[Len(stack) + 1] = f
    BY <1>2, <2>1, PushFacts
  <2>3. ASSUME NEW m \in Machines
        PROVE  (InHand(m)' <=> InHand(m)) /\ (On(m)' => On(m) \/ alive[m])
    BY <2>1, <2>2 DEF InHand, On
  <2> QED
    BY <2>3, CallsKeep
<1> QED
  BY <1>1, <1>2 DEF Process

(* A call goes on, or returns, outside of processOneEvent.                 *)
LEMMA CallMoves ==
    ASSUME MachineInv, stack \in Seq(Frame), Alone, UNCHANGED stateVars,
           stack # <<>>, Top.pc \in {"events", "links"},
           \/ Top.t \in Machines /\ \E pc \in {"events", "links"} : stack' = Move(pc)
           \/ stack' = SubSeq(stack, 1, Len(stack) - 1)
           \/ stack' = stack
    PROVE  MachineInv'
<1>1. ASSUME NEW pc \in {"events", "links"}, stack' = Move(pc)
      PROVE  \A m \in Machines : (InHand(m)' <=> InHand(m)) /\ (On(m)' <=> On(m))
  <2>1. /\ Len(stack') = Len(stack) /\ Len(stack) \in Nat \ {0}
        /\ \A i \in 1..Len(stack) :
             /\ stack'[i].t = stack[i].t
             /\ stack'[i].pc = IF i = Len(stack) THEN pc ELSE stack[i].pc
    BY <1>1, MoveFacts
  <2> QED
    BY <2>1 DEF InHand, On, Top
<1>2. CASE stack' = SubSeq(stack, 1, Len(stack) - 1)
  <2>1. /\ Len(stack') = Len(stack) - 1 /\ Len(stack) \in Nat \ {0}
        /\ \A i \in 1..(Len(stack) - 1) : stack'[i] = stack[i]
    BY <1>2, PopFacts
  <2>2. \A m \in Machines : (InHand(m)' <=> InHand(m)) /\ (On(m)' => On(m))
    BY <2>1 DEF InHand, On, Top
  <2> QED
    BY <2>2, CallsKeep
<1>3. CASE stack' = stack
  <2>1. \A m \in Machines : (InHand(m)' <=> InHand(m)) /\ (On(m)' => On(m))
    BY <1>3 DEF InHand, On
  <2> QED
    BY <2>1, CallsKeep
<1> QED
  BY <1>1, <1>2, <1>3, CallsKeep

(* One step of the machines and of the services. *)
LEMMA NextKeepsMachines ==
    ASSUME Unambiguous, MachineInv, Kept, [Next]_vars
    PROVE  MachineInv'
<1>1. stack \in Seq(Frame) /\ Alone /\ links \in [Targets -> Seq(Services)]
  BY DEF Kept, IInv, TypeOK, StackInv
<1>2. ASSUME NEW m \in Machines, \E n \in Posted[m] : Post(m, n) PROVE MachineInv'
  <2>1. UNCHANGED stateVars /\ stack' = stack
    BY <1>2 DEF Post, QueueEvent
  <2>2. \A k \in Machines : (InHand(k)' <=> InHand(k)) /\ (On(k)' => On(k))
    BY <2>1 DEF InHand, On
  <2> QED
    BY <2>1, <2>2, CallsKeep
<1>3. ASSUME NEW m \in Machines, ProcessQueue(m) PROVE MachineInv'
  BY <1>1, <1>3, CallAdded DEF ProcessQueue, ProcessEventQueue, Targets
<1>4. ASSUME NEW m \in Machines,
             InitializeMachine(m) \/ ProcessOneEvent(m) \/ EventProcessed(m)
      PROVE  MachineInv'
  BY <1>1, <1>4, InitializeKeepsMachines, EventKeepsMachines, ProcessedKeepsMachines
<1>5. ASSUME NEW m \in Machines, ExitState(m) \/ EnterState(m) \/ TakeTransition(m)
             \/ ReplaceActive(m) \/ SettleNew(m) \/ FollowInitial(m) \/ PushActive(m)
      PROVE  MachineInv'
  BY <1>1, <1>5, ExitKeeps, EnterKeeps, TakeKeeps, ReplaceKeeps, SettleKeeps,
     FollowKeeps, PushKeeps
<1>6. ASSUME NEW m \in Machines, CallbacksReturn(m) PROVE MachineInv'
  <2>1. /\ Doing(m, "call") /\ Instead(m, <<>>)
        /\ UNCHANGED <<alive, active, news, inside, stack>>
    BY <1>6 DEF CallbacksReturn, eventVars
  <2> QED
    BY <1>1, <2>1, Said, QuietFacts
<1>7. ASSUME NEW m \in Machines, Assign(m) PROVE MachineInv'
  <2>1. PICK X \in {<<>>, <<RaiseItem(Error)>>} :
          /\ Doing(m, "assign") /\ Instead(m, X)
          /\ UNCHANGED <<alive, active, news, inside, stack>>
    BY <1>7 DEF Assign, eventVars
  <2>2. X \in Seq(Quiet)
    BY QuietFacts
  <2> QED
    BY <1>1, <2>1, <2>2, Said
<1>8. ASSUME NEW m \in Machines, SendWhole(m) \/ RaiseEvent(m) PROVE MachineInv'
  <2>1. PICK op \in {"send", "raise"} :
          /\ Doing(m, op) /\ Instead(m, <<>>)
          /\ UNCHANGED <<alive, active, news, inside, stack>>
    BY <1>8 DEF SendWhole, RaiseEvent, Send, Raise
  <2> QED
    BY <1>1, <2>1, Said, QuietFacts
<1>9. ASSUME NEW m \in Machines, SendShort(m) PROVE MachineInv'
  <2> DEFINE i == It(m)
             j == [i EXCEPT !.position = FALSE]
  <2>1. /\ Doing(m, "send") /\ Instead(m, <<j>>)
        /\ UNCHANGED <<alive, active, news, inside, stack>>
    BY <1>9 DEF SendShort, Raise
  <2>2. PICK a, e : Does(i, Now(m, a), e)
    BY <1>1, <2>1, ItFacts DEF Doing
  <2>3. i \in Quiet /\ i.op = "send"
    BY <2>1, <2>2, DoesFacts DEF SaysQuiet, Doing, It
  <2> HIDE DEF i
  <2>4. i \in [op : {"send"}, to : Services, name : STRING, position : BOOLEAN]
    <3>1. Call.op = "call" /\ \A n : RaiseItem(n).op = "raise"
      BY DEF Call, RaiseItem
    <3>2. i \in Content
      BY <2>3, <3>1 DEF Quiet
    <3> QED
      BY <2>3, <3>2 DEF Content
  <2>5. j \in [op : {"send"}, to : Services, name : STRING, position : BOOLEAN]
    BY <2>4
  <2>6. j \in Quiet
    BY <2>5 DEF Quiet, Content
  <2> HIDE DEF j
  <2>7. <<j>> \in Seq(Quiet)
    BY <2>6
  <2> QED
    BY <1>1, <2>1, <2>7, Said
<1>10. ASSUME NEW t \in Targets, Return(t), UNCHANGED stateVars PROVE MachineInv'
  <2>1. /\ stack # <<>> /\ Top.pc \in {"events", "links"}
        /\ stack' = SubSeq(stack, 1, Len(stack) - 1)
    BY <1>10 DEF Return, Drained, At
  <2> QED
    BY <1>1, <1>10, <2>1, CallMoves
<1>11. ASSUME NEW m \in Machines, Queueing(m) PROVE MachineInv'
  <2>1. UNCHANGED stateVars /\ m \in Targets
    BY <1>11 DEF Queueing, Targets
  <2>2. CASE StartLinks(m) \/ LinksDone(m)
    <3>1. /\ stack # <<>> /\ Top.pc \in {"events", "links"} /\ Top.t = m
          /\ \E pc \in {"events", "links"} : stack' = Move(pc)
      BY <2>2 DEF StartLinks, LinksDone, Drained, At
    <3> QED
      BY <1>1, <2>1, <3>1, CallMoves
  <2>3. CASE NextLink(m)
    <3>1. links[m] \in Seq(Services) /\ links[m] # <<>> /\ Process(Head(links[m]), stack)
      BY <1>1, <2>1, <2>3 DEF NextLink
    <3>2. Head(links[m]) \in Services
      BY <3>1
    <3>3. Head(links[m]) \in Targets /\ Head(links[m]) \notin Machines
      BY <3>2, TargetsAssumption DEF Targets
    <3> QED
      BY <1>1, <2>1, <3>1, <3>3, CallAdded
  <2>4. CASE Return(m)
    BY <1>10, <2>1, <2>4
  <2> QED
    BY <1>11, <2>2, <2>3, <2>4 DEF Queueing
<1>12. ASSUME UNCHANGED stateVars, stack' = stack PROVE MachineInv'
  <2>1. \A k \in Machines : (InHand(k)' <=> InHand(k)) /\ (On(k)' => On(k))
    BY <1>12 DEF InHand, On
  <2> QED
    BY <1>12, <2>1, CallsKeep
<1>13. CASE MachineNext(Posted)
  BY <1>2, <1>3, <1>4, <1>5, <1>6, <1>7, <1>8, <1>9, <1>11, <1>13 DEF MachineNext
<1>14. CASE RotateBegin \/ RotateUpdate \/ RotateEnd \/ SpinBegin \/ SpinUpdate \/ SpinEnd
  <2>1. UNCHANGED stateVars /\ stack' = stack
    BY <1>14 DEF RotateBegin, RotateUpdate, RotateEnd, SpinBegin, SpinUpdate, SpinEnd,
                 Accepts, Answers, Serve, Answer
  <2> QED
    BY <1>12, <2>1
<1>15. CASE SeekBegin \/ SeekUpdate \/ SeekEnd \/ ZoomStep
  <2>1. UNCHANGED stateVars /\ stack' = stack
    BY <1>15 DEF SeekBegin, SeekUpdate, SeekEnd, ZoomStep, Accepts, Answers, Serve, Answer
  <2> QED
    BY <1>12, <2>1
<1>16. CASE ServiceReturns
  BY <1>10, <1>16 DEF ServiceReturns, Targets
<1>17. CASE (\E m \in Switching : SetCamera(m)) \/ AssertFails \/ UNCHANGED vars
  <2>1. UNCHANGED stateVars /\ stack' = stack
    BY <1>17 DEF SetCamera, AssertFails, vars, eventVars
  <2> QED
    BY <1>12, <2>1
<1> QED
  BY <1>13, <1>14, <1>15, <1>16, <1>17 DEF Next

(* Between events nothing is left to be done, so the machine rests.        *)
LEMMA InvOneActive == MachineInv => OneActive
<1> SUFFICES ASSUME MachineInv, NEW m \in Machines, alive[m],
                    \A i \in 1..Len(stack) :
                      stack[i].t = m => stack[i].pc \notin {"first", "handle"}
             PROVE  /\ Len(active[m]) = 1
                    /\ inside[m] = Range(Lineage[active[m][1]])
                    /\ \A s \in States : Container[s] # active[m][1]
  BY DEF OneActive
<1>1. ~InHand(m)
  BY DEF InHand
<1>2. PICK a \in States : Atomic(a) /\ inside[m] = Inside(a) /\ active[m] = <<a>>
  BY <1>1 DEF MachineInv, Rests
<1>3. Len(active[m]) = 1 /\ active[m][1] = a
  BY <1>2
<1>4. inside[m] = Range(Lineage[a])
  BY <1>2, InsideFacts
<1> QED
  BY <1>2, <1>3, <1>4 DEF Atomic

(* An exit or an entry that is due leads on from where the machine is.     *)
LEMMA InvProperNesting == MachineInv => ProperNesting
<1> SUFFICES ASSUME MachineInv, NEW m \in Machines, todo[m] # <<>>
             PROVE  /\ Head(todo[m]).op = "exit" =>
                         /\ Head(todo[m]).state \in inside[m]
                         /\ \A s \in inside[m] : Container[s] # Head(todo[m]).state
                    /\ Head(todo[m]).op = "enter" =>
                         LET c == Container[Head(todo[m]).state]
                         IN /\ c \in inside[m] \cup {Root}
                            /\ \A s \in inside[m] : Container[s] # c
  BY DEF ProperNesting
<1>1. Course(m) /\ todo[m] \in Seq(Item)
  BY DEF MachineInv, Rests, MachineType
<1>2. PICK a \in States \cup {Root} :
        inside[m] = Inside(a) /\ \E d \in Ends : Leads(todo[m], Now(m, a), d)
  BY <1>1 DEF Course
<1>3. PICK d : Leads(todo[m], Now(m, a), d)
  BY <1>2
<1>4. PICK e : Does(Head(todo[m]), Now(m, a), e)
  BY <1>1, <1>3, LeadsHead
<1> DEFINE i == Head(todo[m])
<1>5. a \in States => a \in Inside(a) /\ \A x \in Inside(a) : Container[x] # a
  BY InsideFacts
<1>6. a = Root => Inside(a) = {}
  BY DEF Inside
<1>7. ASSUME i.op = "exit" PROVE i.state = a /\ a \in States
  BY <1>4, <1>7, DoesFacts, NowFacts DEF SaysExit
<1>8. ASSUME i.op = "enter" PROVE Container[i.state] = a
  BY <1>4, <1>8, DoesFacts, NowFacts DEF SaysEnter
<1> HIDE DEF i
<1>9. ASSUME i.op = "exit"
      PROVE  i.state \in inside[m] /\ \A s \in inside[m] : Container[s] # i.state
  BY <1>2, <1>5, <1>7, <1>9
<1>10. ASSUME i.op = "enter"
       PROVE  /\ Container[i.state] \in inside[m] \cup {Root}
              /\ \A s \in inside[m] : Container[s] # Container[i.state]
  BY <1>2, <1>5, <1>6, <1>8, <1>10
<1> QED
  BY <1>9, <1>10 DEF i

(* In any document in which no event leads out of a state along two        *)
(* transitions (Unambiguous; the context menu of examiner.xml is no such   *)
(* place), and for any number of machines, whatever events come and are    *)
(* posted from callbacks: between events a machine is in exactly one       *)
(* state, which has no substates, and the states it has told its listeners *)
(* it is in are that state and all it is contained in (getNumActiveStates: *)
(* "This number should currently be 1"; processOneEvent).                  *)
THEOREM MachinesAreInOneState ==
    ASSUME Unambiguous PROVE Spec => []OneActive
<1>1. Init => Kept /\ MachineInv
  BY EventInitInv, MachineInitInv DEF Init, MachineInit, Kept
<1>2. Kept /\ MachineInv /\ [Next]_vars => (Kept /\ MachineInv)'
  <2>1. [Next]_vars => EventStep
    BY MachineSteps, ServiceSteps DEF Next, vars, EventStep
  <2> QED
    BY <2>1, EventStepKeeps, NextKeepsMachines
<1>3. Kept /\ MachineInv => OneActive
  BY InvOneActive
<1> QED
  BY <1>1, <1>2, <1>3, PTL DEF Spec

(* Under the same hypothesis a state is exited only after all that is in   *)
(* it, and entered only from its container with nothing else in that,      *)
(* along every transition, self transition and <initial> (the climb and    *)
(* the path down of processOneEvent, exitState and enterState).            *)
THEOREM StatesNest ==
    ASSUME Unambiguous PROVE Spec => []ProperNesting
<1>1. Init => Kept /\ MachineInv
  BY EventInitInv, MachineInitInv DEF Init, MachineInit, Kept
<1>2. Kept /\ MachineInv /\ [Next]_vars => (Kept /\ MachineInv)'
  <2>1. [Next]_vars => EventStep
    BY MachineSteps, ServiceSteps DEF Next, vars, EventStep
  <2> QED
    BY <2>1, EventStepKeeps, NextKeepsMachines
<1>3. Kept /\ MachineInv => ProperNesting
  BY InvProperNesting
<1> QED
  BY <1>1, <1>2, <1>3, PTL DEF Spec

=============================================================================
