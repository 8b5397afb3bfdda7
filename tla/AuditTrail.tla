----------------------------- MODULE AuditTrail -----------------------------
(***************************************************************************)
(* audit/logger.py, the ring buffer of audit records, and the AuditLoop of *)
(* runtime/loops/audit_loop.py, which sends the newest of them to a sink.  *)
(*                                                                         *)
(* A record is a call with its kind and its decision.  The position of a   *)
(* record in `logged`, which the code does not keep, names it.             *)
(***************************************************************************)
EXTENDS Integers, SequencesExt

CONSTANTS
    BufferSize,     \* buffer_size of the AuditLogWriter
    Batch           \* batch_size of the AuditLoop

ASSUME AuditAssumption == BufferSize \in Nat /\ Batch \in Nat

VARIABLES
    logged,         \* every record ever logged, in order: a history variable
    buffer,         \* the positions of the records that are still buffered
    dropped,        \* dropped_count
    loopOn,         \* the AuditLoop runs
    sent            \* the positions the sink has got

auditVars == <<logged, buffer, dropped, loopOn, sent>>

AuditInit ==
    /\ logged = <<>> /\ buffer = <<>> /\ dropped = 0
    /\ loopOn = FALSE /\ sent = {}

\* log: under the lock the oldest record makes room and is counted; the sink of
\* the writer itself is left out, its exceptions are swallowed.
Log(record) ==
    /\ logged' = Append(logged, record)
    /\ dropped' = IF Len(buffer) >= BufferSize THEN dropped + 1 ELSE dropped
    /\ buffer' = LET all == Append(buffer, Len(logged) + 1)
                 IN IF Len(all) > BufferSize THEN Tail(all) ELSE all
    /\ UNCHANGED <<loopOn, sent>>

\* recent(n): buffer[-n:], which for n = 0 is all of it.
Recent(n) ==
    IF n = 0 \/ n >= Len(buffer) THEN buffer
    ELSE SubSeq(buffer, Len(buffer) - n + 1, Len(buffer))

StartLoop == ~loopOn /\ loopOn' = TRUE /\ UNCHANGED <<logged, buffer, dropped, sent>>
StopLoop == loopOn /\ loopOn' = FALSE /\ UNCHANGED <<logged, buffer, dropped, sent>>

\* _tick: the newest batch goes to the sink, whether or not it went before; a
\* sink that raises is passed over.
Tick(accepted) ==
    /\ loopOn
    /\ sent' = IF accepted THEN sent \cup ToSet(Recent(Batch)) ELSE sent
    /\ UNCHANGED <<logged, buffer, dropped, loopOn>>

=============================================================================
