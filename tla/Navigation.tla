----------------------------- MODULE Navigation -----------------------------
(***************************************************************************)
(* Camera navigation: state machines with the services they send to, the   *)
(* SoScXML...Target classes of src/src/navigation.  A service keeps data   *)
(* for the session of each machine from BEGIN to END, and answers by       *)
(* posting an event to the machine.  Of the data there is what the asserts *)
(* and the answers of the services depend on.  The camera to move is the   *)
(* one the application has given the machine, if it has.                   *)
(***************************************************************************)
EXTENDS StateMachine, Integers

CONSTANTS
    Posted,               \* the events the application posts to a machine
    Switching,            \* machines whose camera is set, changed and taken away
    Rotating, Spinning    \* states of the document

ASSUME ServicesAssumption ==
    /\ {"Rotate", "Spin", "Seek", "Zoom"} \subseteq Services
    /\ Switching \subseteq Machines

VARIABLES
    camera,     \* machines with an active camera
    rotate,     \* RotateData: Gone, Blank, or how many positions are logged
    clone,      \* machines whose RotateData has a copy of the camera
    spin,       \* SpinData: "gone", or "blank", or "spinning" with its camera
    seek        \* SeekData: "gone", or "still" or "seeking"

rotation == <<rotate, clone>>
sessions == <<camera, rotation, spin, seek>>
vars == <<eventVars, stateVars, sessions>>

Gone == -1
Blank == 0
LogFull == 3

Init ==
    /\ MachineInit
    /\ camera = Machines \ Switching
    /\ rotate = [m \in Machines |-> Gone] /\ clone = {}
    /\ spin = [m \in Machines |-> "gone"]
    /\ seek = [m \in Machines |-> "gone"]

(* The application calls setCamera from outside or from a callback. *)
SetCamera(m) ==
    /\ m \in Switching
    /\ Listening /\ Calls
    /\ camera' = IF m \in camera THEN camera \ {m} ELSE camera \cup {m}
    /\ UNCHANGED <<eventVars, stateVars, rotation, spin, seek>>

Gets(u, name) == At(u, "events") /\ external[u] # <<>> /\ Head(external[u]).name[1] = name
Session(u) == Head(external[u]).from
WithPosition(u) == Head(external[u]).name[2]
HasCamera(u) == Session(u) \in camera
Accepts(u) == Serve(u) /\ UNCHANGED stateVars
Answers(u, n) == Answer(u, n) /\ UNCHANGED stateVars

(* The asserts: to rotate takes the copy of the camera, and spinning       *)
(* begins where there is none and goes on where it has begun.              *)
AssertsHold ==
    /\ Gets("Rotate", "UPDATE") /\ HasCamera("Rotate") => Session("Rotate") \in clone
    /\ Gets("Spin", "BEGIN") => spin[Session("Spin")] # "spinning"
    /\ Gets("Spin", "UPDATE") /\ HasCamera("Spin") => spin[Session("Spin")] = "spinning"

(* The program has ended at an assert. *)
AssertFails == ~AssertsHold /\ UNCHANGED vars

(* The rotation begins with a position and a copy of the camera; without a *)
(* position there is only the data, and without a camera no copy.          *)
RotateBegin ==
    LET m == Session("Rotate")
    IN /\ Gets("Rotate", "BEGIN")
       /\ IF WithPosition("Rotate")
          THEN /\ rotate' = [rotate EXCEPT ![m] = 1]
               /\ clone' = clone \cup ({m} \cap camera)
          ELSE /\ rotate' = [rotate EXCEPT ![m] = IF @ = Gone THEN Blank ELSE @]
               /\ UNCHANGED clone
       /\ Accepts("Rotate")
       /\ UNCHANGED <<camera, spin, seek>>

(* A position is logged, unless the camera is gone or of another type now. *)
RotateUpdate ==
    LET m == Session("Rotate")
        size == IF rotate[m] = Gone THEN Blank ELSE rotate[m]
    IN /\ Gets("Rotate", "UPDATE") /\ AssertsHold
       /\ \/ /\ HasCamera("Rotate") /\ WithPosition("Rotate")
             /\ rotate' = [rotate EXCEPT ![m] = IF size < LogFull THEN size + 1 ELSE size]
          \/ /\ HasCamera("Rotate") /\ WithPosition("Rotate") => m \in Switching
             /\ rotate' = [rotate EXCEPT ![m] = size]
       /\ Accepts("Rotate")
       /\ UNCHANGED <<camera, clone, spin, seek>>

RotateForget(m) ==
    /\ rotate' = [rotate EXCEPT ![m] = Gone]
    /\ clone' = clone \ {m}

(* A quick movement up to the end makes the camera spin. *)
RotateEnd ==
    /\ Gets("Rotate", "END")
    /\ RotateForget(Session("Rotate"))
    /\ \/ Accepts("Rotate")
       \/ /\ rotate[Session("Rotate")] = LogFull
          /\ Answers("Rotate", <<"Rotate", "TRIGGER_SPIN">>)
    /\ UNCHANGED <<camera, spin, seek>>

SpinBegin ==
    /\ Gets("Spin", "BEGIN") /\ AssertsHold
    /\ spin' = [spin EXCEPT ![Session("Spin")] =
                  IF HasCamera("Spin") THEN "spinning" ELSE "blank"]
    /\ Accepts("Spin")
    /\ UNCHANGED <<camera, rotation, seek>>

SpinUpdate ==
    /\ Gets("Spin", "UPDATE") /\ AssertsHold
    /\ spin' = [spin EXCEPT ![Session("Spin")] = IF @ = "gone" THEN "blank" ELSE @]
    /\ Accepts("Spin")
    /\ UNCHANGED <<camera, rotation, seek>>

SpinEnd ==
    /\ Gets("Spin", "END")
    /\ spin' = [spin EXCEPT ![Session("Spin")] = "gone"]
    /\ Accepts("Spin")
    /\ UNCHANGED <<camera, rotation, seek>>

(* Something is picked at the position, or nothing; or the machine has no  *)
(* scene or no camera, or the event no position.                           *)
SeekBegin ==
    LET m == Session("Seek")
        able == HasCamera("Seek") /\ WithPosition("Seek")
        Still == [seek EXCEPT ![m] = IF @ = "gone" THEN "still" ELSE @]
    IN /\ Gets("Seek", "BEGIN")
       /\ \/ able /\ seek' = [seek EXCEPT ![m] = "seeking"] /\ Accepts("Seek")
          \/ able /\ seek' = Still /\ Answers("Seek", <<"Seek", "MISS">>)
          \/ (able => m \in Switching) /\ seek' = Still /\ Accepts("Seek")
       /\ UNCHANGED <<camera, rotation, spin>>

(* The camera is there, or not yet. *)
SeekUpdate ==
    LET m == Session("Seek")
    IN /\ Gets("Seek", "UPDATE")
       /\ seek' = [seek EXCEPT ![m] = IF @ = "gone" THEN "still" ELSE @]
       /\ \/ Accepts("Seek")
          \/ /\ seek[m] = "seeking" /\ HasCamera("Seek")
             /\ Answers("Seek", <<"Seek", "DONE">>)
       /\ UNCHANGED <<camera, rotation, spin>>

SeekEnd ==
    /\ Gets("Seek", "END")
    /\ seek' = [seek EXCEPT ![Session("Seek")] = "gone"]
    /\ Accepts("Seek")
    /\ UNCHANGED <<camera, rotation, spin>>

ZoomStep ==
    /\ Gets("Zoom", "ZOOM_IN")
    /\ Accepts("Zoom")
    /\ UNCHANGED sessions

ServiceReturns ==
    /\ \E u \in Services : Return(u)
    /\ UNCHANGED <<stateVars, sessions>>

Next ==
    \/ MachineNext(Posted) /\ UNCHANGED sessions
    \/ RotateBegin \/ RotateUpdate \/ RotateEnd
    \/ SpinBegin \/ SpinUpdate \/ SpinEnd
    \/ SeekBegin \/ SeekUpdate \/ SeekEnd
    \/ ZoomStep \/ ServiceReturns
    \/ (\E m \in Switching : SetCamera(m))
    \/ AssertFails

Spec == Init /\ [][Next]_vars

-----------------------------------------------------------------------------

=============================================================================
