--------------------------- MODULE CallLifecycle ---------------------------
(***************************************************************************)
(* What a guarded tool call promises, whatever enforces it: it is judged,  *)
(* and each judgement recorded, before its tool is called; the tool is     *)
(* called at most once; the record of its result comes last.               *)
(***************************************************************************)
EXTENDS Sequences

CONSTANT Calls

VARIABLES
    phase,           \* of each call: new, open, running, closing or ended
    records,         \* what the recorders were given about each call
    bypass,          \* calls that may run unjudged when judging fails
    lax              \* calls that may end without the record of a result

vars == <<phase, records, bypass, lax>>

Phases == {"new", "open", "running", "closing", "ended"}

Init ==
    /\ phase = [c \in Calls |-> "new"]
    /\ records = [c \in Calls |-> <<>>]
    /\ bypass \in SUBSET Calls
    /\ lax \in SUBSET Calls

Moves(c, from, to) == phase[c] \in from /\ phase' = [phase EXCEPT ![c] = to]

\* The agent asks.
Open(c) == Moves(c, {"new"}, "open") /\ UNCHANGED records

\* The last of the records of a judgement, and what follows from it at once.
Judge(c) ==
    /\ phase[c] = "open"
    /\ \E to \in {"open", "running", "closing"} : Moves(c, {"open"}, to)
    /\ records' = [records EXCEPT ![c] = Append(@, "attempt")]

\* The tool is called.
Run(c) ==
    /\ Moves(c, {"open"}, "running")
    /\ records[c] # <<>> \/ c \in bypass
    /\ UNCHANGED records

\* The call is refused, or its tool is done.
Close(c) == Moves(c, {"open", "running"}, "closing") /\ UNCHANGED records

\* The result is recorded.
End(c) ==
    /\ Moves(c, {"closing"}, "ended")
    /\ records' = [records EXCEPT ![c] = Append(@, "result")]

\* The call ends without that.
Abandon(c) ==
    /\ c \in lax
    /\ Moves(c, {"open", "running", "closing"}, "ended")
    /\ UNCHANGED records

Next ==
    /\ \E c \in Calls :
           Open(c) \/ Judge(c) \/ Run(c) \/ Close(c) \/ End(c) \/ Abandon(c)
    /\ UNCHANGED <<bypass, lax>>

Spec == Init /\ [][Next]_vars

=============================================================================
