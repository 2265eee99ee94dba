----------------------------- MODULE MCBoxCaches -----------------------------
(* A small scene for TLC: a root with a property left of two separators,   *)
(* one in the other and the inner one shared.                              *)
EXTENDS BoxCaches

CONSTANTS r, o, i, p, q, x, y, v, elt

MCScene == r :> <<p, o, i>> @@ o :> <<q, i, y>> @@ i :> <<x>>
MCEditable == {<<o, q>>, <<i, v>>}
MCSets == p :> elt @@ q :> elt
MCReads == x :> {elt} @@ y :> {} @@ v :> {}

=============================================================================
