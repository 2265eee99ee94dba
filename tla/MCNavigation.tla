---------------------------- MODULE MCNavigation ----------------------------
(* Part of the document src/data/scxml/navigation/examiner.xml, with the   *)
(* rotate state of common.xml, for TLC: one state of each shape it has.    *)
EXTENDS Navigation

CONSTANTS m1, m2

MCServices == {"Rotate", "Spin", "Seek", "Zoom"}
MCContainer ==
    "base" :> Root @@ "interact" :> "base" @@ "idle" :> "base" @@ "rotate" :> "base"
    @@ "spin" :> "base" @@ "step" :> "base" @@ "stepping" :> "step" @@ "stepped" :> "stepping"
    @@ "seek" :> "base" @@ "seek_wait" :> "seek" @@ "seek_move" :> "seek"
    @@ "seek_done" :> "seek"
MCStates == DOMAIN MCContainer
MCLineage == [s \in MCStates |->
    LET Up[c \in MCStates \cup {Root}] == IF c = Root THEN <<>> ELSE <<c>> \o Up[MCContainer[c]]
    IN Up[s]]
MCFinals == {"stepped", "seek_done"}

Go(s, e, target, content) ==
    [source |-> s, event |-> e, star |-> FALSE, target |-> target, content |-> content]
Tell(u, n, p) == [op |-> "send", to |-> u, name |-> n, position |-> p]
Place == [op |-> "assign"]
So(n) == <<"So", n>>

None == [s \in MCStates |-> <<>>]
MCInitial == [None EXCEPT !["seek"] = <<Go("seek", <<>>, "seek_wait", <<>>)>>]
MCOnEntry == [None EXCEPT
    !["rotate"] = <<Place, Tell("Rotate", "BEGIN", TRUE)>>,
    !["stepping"] = <<Tell("Zoom", "ZOOM_IN", FALSE)>>]
MCOnExit == [None EXCEPT
    !["rotate"] = <<Place, Tell("Rotate", "END", TRUE)>>,
    !["spin"] = <<Tell("Spin", "END", FALSE)>>]
MCTransitions == [None EXCEPT
    !["base"] = <<
        [Go("base", <<"error">>, "none", <<>>) EXCEPT !.star = TRUE],
        Go("base", So("ALT_DOWN"), "interact", <<>>),
        Go("base", So("ALT_UP"), "idle", <<>>),
        Go("base", <<"coin", "PopupMenuOpen">>, "idle", <<>>),
        Go("base", <<"coin", "Seek">>, "seek_wait", <<>>)>>,
    !["idle"] = <<
        Go("idle", So("S"), "seek", <<>>),
        Go("idle", So("BUTTON1"), "rotate", <<>>),
        Go("idle", So("BUTTON4"), "stepped", <<>>),
        Go("idle", <<"Rotate", "TRIGGER_SPIN">>, "spin", <<Tell("Spin", "BEGIN", FALSE)>>)>>,
    !["rotate"] = <<
        Go("rotate", So("LOCATION"), "none", <<Place, Tell("Rotate", "UPDATE", TRUE)>>),
        Go("rotate", So("BUTTON1_UP"), "idle", <<>>)>>,
    !["spin"] = <<
        Go("spin", <<"coin", "RENDER">>, "none", <<Tell("Spin", "UPDATE", FALSE)>>),
        Go("spin", So("BUTTON1"), "rotate", <<>>)>>,
    !["step"] = <<Go("step", Done("stepping"), "idle", <<>>)>>,
    !["seek"] = <<Go("seek", Done("seek"), "idle", <<>>)>>,
    !["seek_wait"] = <<
        Go("seek_wait", So("S"), "idle", <<>>),
        Go("seek_wait", So("BUTTON1"), "seek_move", <<Place, Tell("Seek", "BEGIN", TRUE)>>)>>,
    !["seek_move"] = <<
        Go("seek_move", <<"coin", "RENDER">>, "none", <<Tell("Seek", "UPDATE", FALSE)>>),
        Go("seek_move", So("BUTTON1"), "seek_move",
           <<Place, Tell("Seek", "END", FALSE), Tell("Seek", "BEGIN", TRUE)>>),
        Go("seek_move", <<"Seek", "DONE">>, "seek_done", <<Tell("Seek", "END", FALSE)>>),
        Go("seek_move", <<"Seek", "MISS">>, "seek_done", <<Tell("Seek", "END", FALSE)>>)>>]

ASSUME OneTarget == Unambiguous

(* The first machine gets the events that lead through all these states,   *)
(* the second only begins a rotation.                                      *)
Navigating == {So("BUTTON1"), So("BUTTON1_UP"), So("LOCATION"), So("ALT_DOWN"), So("S"),
    So("BUTTON4"), <<"coin", "PopupMenuOpen">>, <<"coin", "RENDER">>}
MCPosted == [m \in Machines |-> IF m = m1 THEN Navigating ELSE {So("BUTTON1")}]
MCNames == Navigating

=============================================================================
