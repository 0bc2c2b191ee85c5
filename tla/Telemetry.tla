------------------------------- MODULE Telemetry -------------------------------
(***************************************************************************)
(* The telemetry queue (app/signals.py): rows are queued by whoever has       *)
(* something to report, in no time and without waiting, and written in        *)
(* batches by one background task, drain_loop, whose transaction runs in a    *)
(* worker thread.                                                            *)
(***************************************************************************)
EXTENDS Naturals, Sequences, FiniteSets

CONSTANTS
    Rows,        \* the events that may be reported
    QueueSize,   \* _QUEUE_SIZE
    BatchSize,   \* _BATCH_SIZE
    MaxFailures  \* bound: batches that cannot be written

ASSUME TelemetryAssumption ==
    /\ QueueSize \in Nat \ {0}
    /\ BatchSize \in Nat \ {0}
    /\ MaxFailures \in Nat

VARIABLES
    queue,     \* _queue
    batch,     \* what the worker thread is writing for drain_once
    orphan,    \* what a worker thread is writing although nobody waits for it any more
    table,     \* turn_events
    writer,    \* drain_loop
    failures,
    recorded   \* history: how often each event was reported

telemetry == <<queue, batch, orphan, table, writer, failures, recorded>>
TelemetryTypeOK ==
    /\ queue \in Seq(Rows) /\ Len(queue) <= QueueSize
    /\ batch \in Seq(Rows) /\ orphan \in Seq(Rows) /\ table \in Seq(Rows)
    /\ writer \in {"asleep", "writing", "flushing", "gone"}
    /\ failures \in 0 .. MaxFailures
    /\ recorded \in [Rows -> Nat]

TelemetryInit ==
    /\ queue = <<>> /\ batch = <<>> /\ orphan = <<>> /\ table = <<>>
    /\ writer = "asleep"
    /\ failures = 0
    /\ recorded = [r \in Rows |-> 0]

\* Mutant of Record: whoever reports waits for room.
Record_Waits(r) ==
    /\ Len(queue) < QueueSize
    /\ queue' = Append(queue, r)
    /\ recorded' = [recorded EXCEPT ![r] = @ + 1]
    /\ UNCHANGED <<batch, orphan, table, writer, failures>>

\* record: put_nowait, and if there is no room the new row is dropped.
Record(r) ==
    /\ queue' = IF Len(queue) < QueueSize THEN Append(queue, r) ELSE queue
    /\ recorded' = [recorded EXCEPT ![r] = @ + 1]
    /\ UNCHANGED <<batch, orphan, table, writer, failures>>

Quiet == UNCHANGED telemetry

-----------------------------------------------------------------------------
(* The writer                                                              *)

Batched == IF Len(queue) < BatchSize THEN Len(queue) ELSE BatchSize

\* drain_once's loop: what is queued, up to a batch
Take ==
    /\ batch' = SubSeq(queue, 1, Batched)
    /\ queue' = SubSeq(queue, Batched + 1, Len(queue))

\* The interval is over.
Drain ==
    /\ writer = "asleep" /\ queue # <<>>
    /\ Take
    /\ writer' = "writing"
    /\ UNCHANGED <<orphan, table, failures, recorded>>

\* add_turn_events: one transaction
Written(rows) == table' = table \o rows /\ UNCHANGED failures
Unwritten == failures < MaxFailures /\ failures' = failures + 1 /\ UNCHANGED table

\* The thread is through, with the rows in the table or not.
Wrote ==
    /\ writer \in {"writing", "flushing"}
    /\ Written(batch) \/ Unwritten
    /\ batch' = <<>>
    /\ writer' = IF writer = "writing" THEN "asleep" ELSE "gone"
    /\ UNCHANGED <<queue, orphan, recorded>>

\* Mutant of Orphaned: the flush writes again what the cancelled write had taken.
Orphaned_Again ==
    /\ orphan' = batch
    /\ batch' = batch \o SubSeq(queue, 1, Batched)
    /\ queue' = SubSeq(queue, Batched + 1, Len(queue))

\* What is under way when drain_loop is cancelled goes on in its thread, unless the thread
\* has not begun.
Orphaned == orphan' \in {batch, <<>>} /\ Take

\* lifespan cancels drain_loop, which flushes once more.
Stop ==
    /\ writer \in {"asleep", "writing"}
    /\ Orphaned
    /\ writer' = IF queue = <<>> THEN "gone" ELSE "flushing"
    /\ UNCHANGED <<table, failures, recorded>>

OrphanWrote ==
    /\ orphan # <<>>
    /\ Written(orphan) \/ Unwritten
    /\ orphan' = <<>>
    /\ UNCHANGED <<queue, batch, writer, recorded>>

Write == Drain \/ Wrote \/ OrphanWrote

-----------------------------------------------------------------------------
Everywhere == queue \o batch \o orphan \o table
Copies(r) == Cardinality({i \in DOMAIN Everywhere : Everywhere[i] = r})

\* drain_once and drain_loop: a row is never written more often than it was reported,
\* although the write a shutdown cuts off goes on in its thread beside the last flush.
NothingIsWrittenTwice == \A r \in Rows : Copies(r) <= recorded[r]
=============================================================================
