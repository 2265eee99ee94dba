------------------------------ MODULE Sensors -------------------------------
(***************************************************************************)
(* The sensor manager of src/src/sensors/SoSensorManager.cpp with the      *)
(* delay, idle and timer sensors it serves, in a build with COIN_DEBUG.    *)
(*                                                                         *)
(* One thread runs it, but the code is reentrant: a sensor's callback is   *)
(* user code, which may schedule, unschedule and re-prioritise any sensor  *)
(* and process the queues again.  The thread's call stack is therefore     *)
(* part of the state, its top first.                                       *)
(*                                                                         *)
(* Time is abstracted to what processTimerQueue reads of it: which of the  *)
(* timers, a prefix of the queue, are due.  A timer set for the future     *)
(* goes anywhere behind them.                                              *)
(***************************************************************************)
EXTENDS Naturals, SequencesExt, FiniteSetsExt

CONSTANTS
    Delays,         \* SoDelayQueueSensors
    IdleOnly,       \* those of them that are SoIdleSensors
    Timers,         \* SoTimerSensors
    Timeout,        \* the manager's own timeoutsensor
    Prios,          \* the priorities in use; 0 is "immediate"
    MaxTriggers,    \* 10000 in the code
    MaxDepth        \* bound on the calls nested in callbacks

ASSUME SensorsAssumption ==
    /\ IdleOnly \subseteq Delays /\ Delays \intersect Timers = {}
    /\ Timeout \notin Delays \union Timers
    /\ Prios \subseteq Nat /\ MaxTriggers \in Nat /\ MaxDepth \in Nat

VARIABLES
    immediatequeue, delayqueue,     \* sequences of delay sensors
    reinsertdict, triggerdict,      \* sets of delay sensors
    priority,                       \* of each delay sensor
    timerqueue,                     \* sequence of timer sensors and Timeout
    due,                            \* how many of them are due
    reschedulelist,                 \* timers to be put back
    istriggering,                   \* timers with this flag
    scheduled,                      \* flag of every sensor
    delaysensortimeout,             \* 0, or 1 for any other interval
    processing,                     \* the queues whose processing flag is set
    stack,                          \* call stack
    idlewatch                       \* the application means to empty the
                                    \* delay queue when it is next idle

delayVars == <<immediatequeue, delayqueue, reinsertdict, priority>>
timerVars == <<timerqueue, due, reschedulelist, istriggering>>
vars == <<delayVars, triggerdict, timerVars, scheduled, delaysensortimeout,
          processing, stack, idlewatch>>

Sensor == Delays \union Timers \union {Timeout}
Callback == [at |-> "callback"]
App == [at |-> "app"]
Immediate(n) == [at |-> "immediate", n |-> n]
Enter(idle) == [at |-> "enter", idle |-> idle]
Delay(idle) == [at |-> "delay", idle |-> idle]
Timer == [at |-> "timer"]

Init ==
    /\ immediatequeue = <<>> /\ delayqueue = <<>>
    /\ reinsertdict = {} /\ triggerdict = {}
    /\ priority \in [Delays -> Prios]
    /\ timerqueue = <<>> /\ due = 0
    /\ reschedulelist = <<>> /\ istriggering = {}
    /\ scheduled = [s \in Sensor |-> FALSE]
    /\ delaysensortimeout = 1
    /\ processing = {}
    /\ stack = <<>>
    /\ idlewatch = FALSE

At(label) == stack # <<>> /\ Head(stack).at = label
InUserCode == stack = <<>> \/ At("callback")
Pending(i, q) == i # <<>> \/ q # <<>>

(* notifyChanged: the application's callback looks at the queues; while a  *)
(* queue is processed it is not called.                                    *)
Notified(i, q) == IF processing = {} THEN Pending(i, q) ELSE idlewatch

(* Behind the sensors of the same priority. *)
InsertSorted(q, d, p) ==
    InsertAt(q, Min({i \in DOMAIN q : priority[q[i]] > p} \union {Len(q) + 1}), d)

(* Insertion of s in what is left of the timer queue. *)
InsertTimer(rest, n, s) ==
    /\ \E i \in n + 1 .. Len(rest) + 1 : timerqueue' = InsertAt(rest, i, s)
    /\ due' = n
DueWithout(s) == IF \E i \in 1 .. due : timerqueue[i] = s THEN due - 1 ELSE due
RemoveTimer(s) ==
    /\ timerqueue' = RemoveFirst(timerqueue, s)
    /\ due' = DueWithout(s)

(* The timeout sensor is set unless it is already. *)
Arm(wanted) ==
    IF wanted /\ ~scheduled[Timeout]
    THEN InsertTimer(timerqueue, due, Timeout)
    ELSE UNCHANGED <<timerqueue, due>>

(***************************************************************************)
(* Delay sensors.  Enqueue is SoDelayQueueSensor::schedule, given what the *)
(* queues and the application's watch are before it.                       *)
(***************************************************************************)
Enqueue(d, p, i, q, watch) ==
    /\ immediatequeue' = IF p = 0 THEN Append(i, d) ELSE i
    /\ delayqueue' = IF p = 0 THEN q ELSE InsertSorted(q, d, p)
    /\ Arm(p # 0 /\ delaysensortimeout # 0)
    /\ scheduled' = [scheduled EXCEPT
         ![d] = TRUE, ![Timeout] = @ \/ (p # 0 /\ delaysensortimeout # 0)]
    /\ idlewatch' = IF p = 0 THEN watch ELSE Notified(i, delayqueue')

Schedule(d) ==
    /\ InUserCode /\ ~scheduled[d]
    /\ Enqueue(d, priority[d], immediatequeue, delayqueue, idlewatch)
    /\ UNCHANGED <<reinsertdict, triggerdict, priority, reschedulelist,
                   istriggering, delaysensortimeout, processing, stack>>

(* A sensor is in one of the three at most (FlagMeansQueued). *)
Unschedule(d) ==
    /\ InUserCode /\ scheduled[d]
    /\ immediatequeue' = RemoveFirst(immediatequeue, d)
    /\ delayqueue' = RemoveFirst(delayqueue, d)
    /\ reinsertdict' = reinsertdict \ {d}
    /\ scheduled' = [scheduled EXCEPT ![d] = FALSE]
    /\ idlewatch' = Notified(immediatequeue', delayqueue')
    /\ UNCHANGED <<triggerdict, priority, timerVars, delaysensortimeout,
                   processing, stack>>

SetPriorityOnly(d, p) ==                    \* mutant: stays where it is
    /\ InUserCode /\ priority[d] # p
    /\ priority' = [priority EXCEPT ![d] = p]
    /\ UNCHANGED <<immediatequeue, delayqueue, reinsertdict, scheduled,
                   idlewatch, triggerdict, timerVars, delaysensortimeout,
                   processing, stack>>
SetPriority(d, p) ==
    /\ InUserCode /\ priority[d] # p
    /\ priority' = [priority EXCEPT ![d] = p]
    /\ LET i == RemoveFirst(immediatequeue, d)
           q == RemoveFirst(delayqueue, d) IN
       IF scheduled[d]
       THEN /\ reinsertdict' = reinsertdict \ {d}
            /\ Enqueue(d, p, i, q, Notified(i, q))
       ELSE UNCHANGED <<immediatequeue, delayqueue, reinsertdict, timerqueue,
                        due, scheduled, idlewatch>>
    /\ UNCHANGED <<triggerdict, reschedulelist, istriggering,
                   delaysensortimeout, processing, stack>>

(***************************************************************************)
(* Timer sensors, and the timeout of the delay queue.                      *)
(***************************************************************************)
ScheduleTimer(t) ==
    /\ InUserCode /\ ~scheduled[t]
    /\ IF t \in istriggering
       THEN /\ reschedulelist' = Append(reschedulelist, t)
            /\ UNCHANGED <<timerqueue, due, scheduled, idlewatch>>
       ELSE /\ InsertTimer(timerqueue, due, t)
            /\ scheduled' = [scheduled EXCEPT ![t] = TRUE]
            /\ idlewatch' = Notified(immediatequeue, delayqueue)
            /\ UNCHANGED reschedulelist
    /\ UNCHANGED <<delayVars, triggerdict, istriggering, delaysensortimeout,
                   processing, stack>>

UnscheduleTimer(t) ==
    /\ InUserCode /\ scheduled[t]
    /\ IF t \in istriggering /\ Contains(reschedulelist, t)
       THEN /\ reschedulelist' = RemoveFirst(reschedulelist, t)
            /\ UNCHANGED <<timerqueue, due, idlewatch>>
       ELSE /\ RemoveTimer(t)
            /\ idlewatch' = Notified(immediatequeue, delayqueue)
            /\ UNCHANGED reschedulelist
    /\ istriggering' = istriggering \ {t}
    /\ scheduled' = [scheduled EXCEPT ![t] = FALSE]
    /\ UNCHANGED <<delayVars, triggerdict, delaysensortimeout, processing, stack>>

(* The alarm is moved if it is set; a schedule() of a set alarm is refused *)
(* with a warning only because of COIN_DEBUG.                              *)
SetDelaySensorTimeoutTwice(v) ==            \* mutant: not refused
    /\ InUserCode
    /\ delaysensortimeout' = v
    /\ IF delayqueue # <<>>
       THEN /\ InsertTimer(timerqueue, due, Timeout)
            /\ scheduled' = [scheduled EXCEPT ![Timeout] = TRUE]
            /\ idlewatch' = Notified(immediatequeue, delayqueue)
       ELSE UNCHANGED <<timerqueue, due, scheduled, idlewatch>>
    /\ UNCHANGED <<delayVars, triggerdict, reschedulelist, istriggering,
                   processing, stack>>
SetDelaySensorTimeout(v) ==
    /\ InUserCode
    /\ delaysensortimeout' = v
    /\ IF v = 0 /\ scheduled[Timeout]
       THEN /\ RemoveTimer(Timeout)
            /\ scheduled' = [scheduled EXCEPT ![Timeout] = FALSE]
            /\ idlewatch' = Notified(immediatequeue, delayqueue)
       ELSE IF delayqueue # <<>>
       THEN /\ InsertTimer(RemoveFirst(timerqueue, Timeout), DueWithout(Timeout),
                           Timeout)
            /\ scheduled' = [scheduled EXCEPT ![Timeout] = TRUE]
            /\ idlewatch' = Notified(immediatequeue, delayqueue)
       ELSE UNCHANGED <<timerqueue, due, scheduled, idlewatch>>
    /\ UNCHANGED <<delayVars, triggerdict, reschedulelist, istriggering,
                   processing, stack>>

(* The clock reaches the trigger time of s.  processTimerQueue reads it    *)
(* once, so what becomes due during its loop is as if due after it.        *)
Tick(s) ==
    /\ "timer" \notin processing
    /\ \E i \in due + 1 .. Len(timerqueue) : timerqueue[i] = s /\ due' = i
    /\ UNCHANGED <<delayVars, triggerdict, timerqueue, reschedulelist,
                   istriggering, scheduled, delaysensortimeout, processing,
                   stack, idlewatch>>

(***************************************************************************)
(* Calls that process a queue.  processDelayQueue begins with the          *)
(* immediate queue.                                                        *)
(***************************************************************************)
queueVars == <<delayVars, timerVars, scheduled, delaysensortimeout>>

CallImmediate(rest) ==
    IF "immediate" \in processing
    THEN stack' = rest /\ UNCHANGED processing
    ELSE /\ stack' = <<Immediate(0)>> \o rest
         /\ processing' = processing \union {"immediate"}

(* SoDB::endNotify, when the last notification has finished. *)
EndNotify ==
    /\ InUserCode /\ Len(stack) < MaxDepth
    /\ Pending(immediatequeue, delayqueue)
    /\ CallImmediate(stack)
    /\ UNCHANGED <<queueVars, triggerdict, idlewatch>>

CallTimers(rest) ==
    /\ "timer" \notin processing /\ timerqueue # <<>>
    /\ stack' = <<Timer>> \o rest
    /\ processing' = processing \union {"timer"}
    /\ UNCHANGED <<queueVars, triggerdict, idlewatch>>

(* A callback may run a loop of its own. *)
NestedTimers == At("callback") /\ Len(stack) < MaxDepth /\ CallTimers(stack)
NestedDelay(idle) ==
    /\ At("callback") /\ Len(stack) < MaxDepth
    /\ CallImmediate(<<Enter(idle)>> \o stack)
    /\ UNCHANGED <<queueVars, triggerdict, idlewatch>>

(* The application: it processes what it was told of, and looks at the     *)
(* queues again after that.                                                *)
AppTimers == stack = <<>> /\ due > 0 /\ CallTimers(<<App>>)
AppIdle ==
    /\ stack = <<>> /\ idlewatch
    /\ CallImmediate(<<Enter(TRUE), App>>)
    /\ UNCHANGED <<queueVars, triggerdict, idlewatch>>
AppLooks ==
    /\ At("app")
    /\ stack' = Tail(stack)
    /\ idlewatch' = Pending(immediatequeue, delayqueue)
    /\ UNCHANGED <<queueVars, triggerdict, processing>>

Return ==
    /\ At("callback")
    /\ stack' = Tail(stack)
    /\ UNCHANGED <<queueVars, triggerdict, processing, idlewatch>>

(***************************************************************************)
(* processImmediateQueue                                                   *)
(***************************************************************************)
TriggerImmediate ==
    /\ At("immediate") /\ immediatequeue # <<>>
    /\ Head(stack).n <= MaxTriggers
    /\ immediatequeue' = Tail(immediatequeue)
    /\ scheduled' = [scheduled EXCEPT ![Head(immediatequeue)] = FALSE]
    /\ stack' = <<Callback, Immediate(Head(stack).n + 1)>> \o Tail(stack)
    /\ UNCHANGED <<delayqueue, reinsertdict, priority, triggerdict, timerVars,
                   delaysensortimeout, processing, idlewatch>>

EndImmediate ==
    /\ At("immediate")
    /\ immediatequeue = <<>> \/ Head(stack).n > MaxTriggers
    /\ processing' = processing \ {"immediate"}
    /\ stack' = Tail(stack)
    /\ UNCHANGED <<queueVars, triggerdict, idlewatch>>

(***************************************************************************)
(* processDelayQueue                                                       *)
(***************************************************************************)
BeginDelay ==
    /\ At("enter")
    /\ IF "delay" \in processing \/ delayqueue = <<>>
       THEN stack' = Tail(stack) /\ UNCHANGED <<processing, triggerdict>>
       ELSE /\ stack' = <<Delay(Head(stack).idle)>> \o Tail(stack)
            /\ processing' = processing \union {"delay"}
            /\ triggerdict' = {}
    /\ UNCHANGED <<queueVars, idlewatch>>

MayTriggerAgain(d) ==                       \* mutant: no triggerdict
    Head(stack).idle \/ d \notin IdleOnly
MayTrigger(d) == (Head(stack).idle \/ d \notin IdleOnly) /\ d \notin triggerdict

TriggerDelay ==
    /\ At("delay") /\ delayqueue # <<>>
    /\ LET d == Head(delayqueue) IN
         /\ MayTrigger(d)
         /\ triggerdict' = triggerdict \union {d}
         /\ scheduled' = [scheduled EXCEPT ![d] = FALSE]
    /\ delayqueue' = Tail(delayqueue)
    /\ stack' = <<Callback>> \o stack
    /\ UNCHANGED <<immediatequeue, reinsertdict, priority, timerVars,
                   delaysensortimeout, processing, idlewatch>>

Defer ==
    /\ At("delay") /\ delayqueue # <<>>
    /\ ~MayTrigger(Head(delayqueue))
    /\ reinsertdict' = reinsertdict \union {Head(delayqueue)}
    /\ delayqueue' = Tail(delayqueue)
    /\ UNCHANGED <<immediatequeue, priority, triggerdict, timerVars, scheduled,
                   delaysensortimeout, processing, stack, idlewatch>>

(* The deferred sensors go back, in the order of the hash table where they *)
(* have the same priority, and the timeout is set even if it is zero; only *)
(* in that case, and after the flag is reset, is the application told.     *)
Reinserted(q) ==
    \A i, j \in DOMAIN q : i < j => priority[q[i]] <= priority[q[j]]

EndDelayUnarmed ==                          \* mutant: timeout not set again
    /\ At("delay") /\ delayqueue = <<>>
    /\ delayqueue' \in {q \in SetToSeqs(reinsertdict) : Reinserted(q)}
    /\ reinsertdict' = {}
    /\ processing' = processing \ {"delay"}
    /\ stack' = Tail(stack)
    /\ UNCHANGED <<immediatequeue, priority, triggerdict, timerVars, scheduled,
                   delaysensortimeout, idlewatch>>
EndDelayKeepsFlag ==                        \* mutant: still "processing"
    /\ At("delay") /\ delayqueue = <<>>
    /\ delayqueue' \in {q \in SetToSeqs(reinsertdict) : Reinserted(q)}
    /\ reinsertdict' = {}
    /\ Arm(reinsertdict # {})
    /\ scheduled' = [scheduled EXCEPT ![Timeout] = @ \/ reinsertdict # {}]
    /\ stack' = Tail(stack)
    /\ UNCHANGED <<immediatequeue, priority, triggerdict, reschedulelist,
                   istriggering, delaysensortimeout, processing, idlewatch>>
EndDelay ==
    /\ At("delay") /\ delayqueue = <<>>
    /\ delayqueue' \in {q \in SetToSeqs(reinsertdict) : Reinserted(q)}
    /\ reinsertdict' = {}
    /\ Arm(reinsertdict # {})
    /\ scheduled' = [scheduled EXCEPT ![Timeout] = @ \/ reinsertdict # {}]
    /\ processing' = processing \ {"delay"}
    /\ idlewatch' = (idlewatch \/ ( /\ reinsertdict # {} /\ processing' = {}
                                    /\ delaysensortimeout = 0
                                    /\ ~scheduled[Timeout] ))
    /\ stack' = Tail(stack)
    /\ UNCHANGED <<immediatequeue, priority, triggerdict, reschedulelist,
                   istriggering, delaysensortimeout>>

(***************************************************************************)
(* processTimerQueue.  A timer stays scheduled while it triggers and is    *)
(* put back at the end; the timeout sensor's callback is                   *)
(* processDelayQueue.                                                      *)
(***************************************************************************)
TriggerTimer ==
    /\ At("timer") /\ due > 0
    /\ Head(timerqueue) \in Timers
    /\ timerqueue' = Tail(timerqueue) /\ due' = due - 1
    /\ istriggering' = istriggering \union {Head(timerqueue)}
    /\ reschedulelist' = Append(reschedulelist, Head(timerqueue))
    /\ stack' = <<Callback>> \o stack
    /\ UNCHANGED <<delayVars, triggerdict, scheduled, delaysensortimeout,
                   processing, idlewatch>>

TriggerTimeout ==
    /\ At("timer") /\ due > 0
    /\ Head(timerqueue) = Timeout
    /\ timerqueue' = Tail(timerqueue) /\ due' = due - 1
    /\ scheduled' = [scheduled EXCEPT ![Timeout] = FALSE]
    /\ CallImmediate(<<Enter(FALSE)>> \o stack)
    /\ UNCHANGED <<delayVars, triggerdict, reschedulelist, istriggering,
                   delaysensortimeout, idlewatch>>

KeepsOrder(q) ==
    \A i, j \in DOMAIN timerqueue : i < j =>
        \E k, l \in DOMAIN q : k < l /\ q[k] = timerqueue[i] /\ q[l] = timerqueue[j]
EndTimers ==
    /\ At("timer") /\ due = 0
    /\ timerqueue' \in {q \in SetToSeqs(ToSet(timerqueue) \union ToSet(reschedulelist)) :
                          KeepsOrder(q)}
    /\ reschedulelist' = <<>>
    /\ istriggering' = istriggering \ ToSet(reschedulelist)
    /\ scheduled' = [s \in Sensor |-> scheduled[s] \/ Contains(reschedulelist, s)]
    /\ processing' = processing \ {"timer"}
    /\ stack' = Tail(stack)
    /\ UNCHANGED <<delayVars, triggerdict, due, delaysensortimeout, idlewatch>>

UserCode ==
    \/ \E d \in Delays : Schedule(d) \/ Unschedule(d)
    \/ \E d \in Delays, p \in Prios : SetPriority(d, p)
    \/ \E t \in Timers : ScheduleTimer(t) \/ UnscheduleTimer(t)
    \/ \E v \in {0, 1} : SetDelaySensorTimeout(v)
    \/ EndNotify \/ NestedTimers
    \/ \E idle \in BOOLEAN : NestedDelay(idle)
Manager ==
    \/ TriggerImmediate \/ EndImmediate
    \/ BeginDelay \/ TriggerDelay \/ Defer \/ EndDelay
    \/ TriggerTimer \/ TriggerTimeout \/ EndTimers
    \/ AppLooks
Next ==
    \/ UserCode \/ Return \/ Manager \/ AppIdle \/ AppTimers
    \/ \E s \in Timers \union {Timeout} : Tick(s)

Spec == Init /\ [][Next]_vars

(* The thread runs, callbacks return, and the application is idle again    *)
(* and again and then does what it was told to.                            *)
LiveSpec == Spec /\ WF_vars(Manager \/ Return) /\ SF_vars(AppIdle)

(***************************************************************************)
(* Properties                                                              *)
(***************************************************************************)
Frame ==
    {Callback, App, Timer} \union {Immediate(n) : n \in 0 .. MaxTriggers + 1}
      \union {Enter(b) : b \in BOOLEAN} \union {Delay(b) : b \in BOOLEAN}

(* Types; the due timers are a prefix of the queue. *)
TypeOK ==
    /\ immediatequeue \in Seq(Delays) /\ delayqueue \in Seq(Delays)
    /\ reinsertdict \subseteq Delays /\ triggerdict \subseteq Delays
    /\ priority \in [Delays -> Prios]
    /\ timerqueue \in Seq(Timers \union {Timeout}) /\ due \in 0 .. Len(timerqueue)
    /\ reschedulelist \in Seq(Timers) /\ istriggering \subseteq Timers
    /\ scheduled \in [Sensor -> BOOLEAN]
    /\ delaysensortimeout \in {0, 1}
    /\ processing \subseteq {"immediate", "delay", "timer"}
    /\ stack \in Seq(Frame) /\ idlewatch \in BOOLEAN

Places(s) ==
    LET In(q) == Cardinality({i \in DOMAIN q : q[i] = s}) IN
    In(immediatequeue) + In(delayqueue) + In(timerqueue) + In(reschedulelist)
      + (IF s \in reinsertdict THEN 1 ELSE 0)

(* A sensor whose scheduled flag is set is in exactly one queue, once, and *)
(* one whose flag is not set is in none: so it triggers once for each time *)
(* it was scheduled, and its destructor leaves no queue pointing at it.    *)
(* And no timer is left half triggered: outside processTimerQueue the      *)
(* reschedule list is empty, as it asserts, and no istriggering is set.    *)
FlagMeansQueued ==
    /\ TypeOK
    /\ istriggering = ToSet(reschedulelist)
    /\ "timer" \notin processing => reschedulelist = <<>>
    /\ \A s \in Sensor : Places(s) = IF scheduled[s] THEN 1 ELSE 0

(* The delay queue is in the order of the priorities the sensors have now; *)
(* an immediate sensor never waits in it, nor another one with those.      *)
PriorityOrder ==
    /\ Reinserted(delayqueue)
    /\ \A d \in ToSet(delayqueue) \union reinsertdict : priority[d] # 0
    /\ \A d \in ToSet(immediatequeue) : priority[d] = 0

(* A delay queue that is not empty never starves: unless it is being       *)
(* processed, or is about to be because the timeout went off, the timeout  *)
(* is set.                                                                 *)
TimeoutArmed ==
    delayqueue # <<>> /\ delaysensortimeout # 0 /\ "delay" \notin processing
      => \/ scheduled[Timeout]
         \/ \E i \in DOMAIN stack : stack[i] = Enter(FALSE)

(* Callbacks never stop making calls that process a queue. *)
NestsForever == []<><<At("callback") /\ Len(stack') > Len(stack)>>_vars

(* Processing ends whatever the callbacks schedule, provided each of them  *)
(* returns: a delay sensor triggers once per call, immediate sensors at    *)
(* most MaxTriggers + 1 times, and no timer set during the loop is due.    *)
ProcessingEnds == []<>(stack = <<>>) \/ NestsForever

(* A delay sensor that stays scheduled, with the priority it has, is       *)
(* triggered, unless the application no longer looks at the queue.         *)
DelaySensorsRun ==
    \A d \in Delays :
        \/ NestsForever
        \/ []<>(~scheduled[d])
        \/ []<><<priority'[d] # priority[d]>>_vars
        \/ <>[](~idlewatch)
=============================================================================
