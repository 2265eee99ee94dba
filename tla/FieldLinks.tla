----------------------------- MODULE FieldLinks -----------------------------
(***************************************************************************)
(* The links between fields and engines: the masters of a field, the       *)
(* slaves of a field or an engine output, and the life of an engine, which *)
(* dies with the last reference to it (src/src/fields/SoField.cpp,         *)
(* src/src/engines/SoEngineOutput.cpp).                                    *)
(*                                                                         *)
(* connectFrom breaks up what connected the field, one link after the      *)
(* other; cutting a link may destroy an engine, and the destructor of the  *)
(* engine's input field cuts links in its turn.  These calls are kept on a *)
(* stack, and one step cuts or makes one link.  The application does       *)
(* nothing until they have returned.  It names the input field of an       *)
(* engine only while it holds a reference to the engine.                   *)
(***************************************************************************)
EXTENDS Naturals, SequencesExt, FiniteSetsExt

CONSTANTS
    Field, Engine,
    None,           \* no field, no engine
    Input,          \* the input field of every engine
    Built,          \* the connections the application begins with, in order
    Links           \* the pairs <<slave, master>> it connects and disconnects

Node == Field \union Engine

ASSUME LinksAssumption ==
    /\ Field \intersect Engine = {} /\ None \notin Node
    /\ Input \in [Engine -> Field]
    /\ Links \subseteq Field \X Node /\ Built \in Seq(Field \X Node)

VARIABLES
    masters,    \* masterfields and masterengineouts of every field
    auditors,   \* the slaves of every field and engine output
    alive,      \* the engines that are not destroyed
    held,       \* the engines the application holds a reference to
    stack       \* the calls under way, innermost first

linkVars == <<masters, auditors, alive, held, stack>>

(* connectFrom(m) of f, or the destructor of f.                            *)
Frame == [f : Field, m : Node \union {None}, append : BOOLEAN]

Connecting(f, m, append) == [f |-> f, m |-> m, append |-> append]

Destroying(f) == [f |-> f, m |-> None, append |-> FALSE]

LinkInit ==
    /\ masters = [f \in Field |-> <<>>] /\ auditors = [n \in Node |-> <<>>]
    /\ alive = Engine /\ held = Engine
    /\ stack = [i \in DOMAIN Built |-> Connecting(Built[i][1], Built[i][2], TRUE)]

-----------------------------------------------------------------------------

(* An engine's input field dies with it.                                   *)
Exists(n) == \A e \in Engine : n \in {e, Input[e]} => e \in alive

Owned(n) == \A e \in Engine : n = Input[e] => e \in held

(* A slave in the engine itself holds no reference to it.                  *)
HasSlave(e) == \E f \in ToSet(auditors[e]) : f # Input[e]

\* mutant: without the reference
NeverConnected(e) == FALSE

(* connectFrom holds a reference to the master's engine meanwhile.         *)
BeingConnected(e) == \E call \in ToSet(stack) : call.m = e

(* unref of n, after a reference to it went: SoEngine::destroy.            *)
Unref(n) ==
    IF n \in alive \ held' /\ ~HasSlave(n)' /\ ~BeingConnected(n)
    THEN alive' = alive \ {n} /\ stack' = <<Destroying(Input[n])>> \o stack
    ELSE UNCHANGED <<alive, stack>>

Without(q, x) == RemoveAt(q, CHOOSE i \in DOMAIN q : q[i] = x)

(* SoField::disconnect of f from the master m.                             *)
Cut(f, m) ==
    /\ masters' = [masters EXCEPT ![f] = Without(@, m)]
    /\ auditors' = [auditors EXCEPT ![m] = Without(@, f)]
    /\ UNCHANGED held
    /\ Unref(m)

(* SoField::disconnect from all takes the fields first.                    *)
IsNext(q, i) ==
    LET fields == {j \in DOMAIN q : q[j] \in Field}
    IN  IF fields = {} THEN i = 1 ELSE i \in fields /\ \A j \in fields : i <= j

-----------------------------------------------------------------------------
(* The calls of the application.                                           *)

ConnectFrom(f, m, append) ==
    /\ stack = <<>> /\ <<f, m>> \in Links
    /\ Owned(f) /\ Owned(m) /\ Exists(m)
    /\ stack' = <<Connecting(f, m, append)>>
    /\ UNCHANGED <<masters, auditors, alive, held>>

Disconnect(f, m) ==
    /\ stack = <<>> /\ <<f, m>> \in Links
    /\ Owned(f) /\ Contains(masters[f], m)
    /\ Cut(f, m)

(* The application lets go of an engine.                                   *)
Release(e) ==
    /\ stack = <<>> /\ e \in held
    /\ held' = held \ {e} /\ UNCHANGED <<masters, auditors>>
    /\ Unref(e)

-----------------------------------------------------------------------------
(* The steps of the innermost call.                                        *)

(* Both calls begin by disconnecting the field, one master at a time.      *)
BreakUp(m) ==
    /\ stack # <<>> /\ ~Head(stack).append
    /\ LET q == masters[Head(stack).f]
       IN  \E i \in DOMAIN q : IsNext(q, i) /\ q[i] = m
    /\ Cut(Head(stack).f, m)

(* The destructor then disconnects the slaves.                             *)
DropSlave(f) ==
    /\ stack # <<>> /\ Head(stack).m = None
    /\ LET i == Head(stack).f
       IN  /\ masters[i] = <<>> /\ auditors[i] # <<>> /\ f = Head(auditors[i])
           /\ Cut(f, i)

Destroyed ==
    /\ stack # <<>> /\ Head(stack).m = None
    /\ masters[Head(stack).f] = <<>> /\ auditors[Head(stack).f] = <<>>
    /\ stack' = Tail(stack)
    /\ UNCHANGED <<masters, auditors, alive, held>>

AlreadyMade ==
    /\ stack # <<>> /\ Head(stack).append
    /\ Contains(masters[Head(stack).f], Head(stack).m)
    /\ stack' = Tail(stack)
    /\ UNCHANGED <<masters, auditors, alive, held>>

Link(f, m) ==
    /\ stack # <<>> /\ f = Head(stack).f /\ m = Head(stack).m /\ m # None
    /\ IF Head(stack).append THEN ~Contains(masters[f], m) ELSE masters[f] = <<>>
    /\ masters' = [masters EXCEPT ![f] = Append(@, m)]
    /\ auditors' = [auditors EXCEPT ![m] = Append(@, f)]
    /\ stack' = Tail(stack)
    /\ UNCHANGED <<alive, held>>

LinkNext ==
    \/ \E f \in Field, m \in Node, append \in BOOLEAN : ConnectFrom(f, m, append)
    \/ \E f \in Field, m \in Node : Disconnect(f, m) \/ Link(f, m)
    \/ \E e \in Engine : Release(e)
    \/ \E m \in Node : BreakUp(m)
    \/ \E f \in Field : DropSlave(f)
    \/ Destroyed \/ AlreadyMade

LinkSpec == LinkInit /\ [][LinkNext]_linkVars

-----------------------------------------------------------------------------

LinkTypeOK ==
    /\ masters \in [Field -> Seq(Node)] /\ auditors \in [Node -> Seq(Field)]
    /\ alive \subseteq Engine /\ held \subseteq alive
    /\ stack \in Seq(Frame)

BothEnds ==
    /\ \A f \in Field : IsInjective(masters[f])
    /\ \A n \in Node : IsInjective(auditors[n])
    /\ \A f \in Field, n \in Node :
           Contains(masters[f], n) <=> Contains(auditors[n], f)

Pending ==
    \A call \in ToSet(stack) :
        call.m # None => Exists(call.f) /\ Exists(call.m)

NothingLeaks ==
    \A e \in alive : e \in held \/ HasSlave(e) \/ BeingConnected(e)

NothingDangles ==
    stack = <<>> => \A f \in Field, n \in Node :
        Contains(masters[f], n) => Exists(f) /\ Exists(n)

(* The links of fields and of engine outputs agree from both ends and none *)
(* is made twice; what a call is about to link has not been destroyed      *)
(* while it broke up the old links; an engine lives only as long as        *)
(* somebody has a reference to it; and once the calls have returned,       *)
(* nothing is linked to an engine that is gone or to its input: the        *)
(* destructors of SoField and SoEngineOutput rely on it.                   *)
LinksAgree ==
    LinkTypeOK /\ BothEnds /\ Pending /\ NothingLeaks /\ NothingDangles

=============================================================================
