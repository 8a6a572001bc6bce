---------------------------- MODULE MCTimeVortex ----------------------------
(* TimeVortex for TLC: two handlers, one with an earlier order tag. *)
EXTENDS TimeVortex

Form(binned, ts) == [binned |-> binned, ts |-> ts]

(* All forms but the thread-safe binned map, see the README. *)
MCKinds == {Form(FALSE, FALSE), Form(FALSE, TRUE), Form(TRUE, FALSE)}
DirectKinds == {Form(TRUE, TRUE)}

(* The forms of which a checkpoint keeps the events, and the other one. *)
MCSaved == {Form(FALSE, FALSE), Form(FALSE, TRUE)}
BinnedSaved == {Form(TRUE, FALSE)}

MCPrio == <<50, 51>>
=============================================================================
