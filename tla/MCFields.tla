------------------------------ MODULE MCFields ------------------------------
(* A small network for TLC: an engine e with its input d, b that follows   *)
(* the engine, c that may follow each of them, and d that may follow b.    *)
EXTENDS Fields

CONSTANTS b, c, d, e

MCField == {b, c, d}
MCEngine == {e}
MCInput == [x \in {e} |-> d]
MCBuilt == <<<<b, e>>, <<c, d>>>>
MCLinks == {<<b, e>>, <<c, b>>, <<c, e>>, <<d, b>>}
MCWatched == {c}
MCSwitched == {b, e}

=============================================================================
