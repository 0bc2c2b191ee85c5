------------------------------ MODULE PushOutbox -------------------------------
(***************************************************************************)
(* Letting Amber speak first: the durable outbox (app/memory/store.py, push *)
(* rows), the deliverer that drains it into the live connections            *)
(* (app/push.py), the scheduler that files due reminders (app/reminders.py) *)
(* and the acknowledgements that come back.                                 *)
(*                                                                         *)
(* A flush is a coroutine with three awaits: it reads the outbox, sends a    *)
(* row to one connection, marks a row.  The delivery loop runs one, and so   *)
(* does every connection right after its handshake.  The process may crash   *)
(* at any point: the rows and the reminders survive, nothing else does.      *)
(***************************************************************************)
EXTENDS Naturals, FiniteSets

CONSTANTS
    NumConns,   \* connections that may be made; those of a session, in this order
    MaxConns,   \* bound: connections that are made
    SessionOf,  \* the session each of them serves
    NumPushes,  \* bound: rows ever filed, in the order they are filed
    Batch,      \* push_batch
    Reminders,  \* reminders with a time
    Notes,      \* self-review notes
    NoRef,
    MaxTurns,   \* bound: turns the clients take
    MaxFaults   \* bound: crashes and failed writes

ASSUME OutboxAssumption ==
    /\ NumConns \in Nat \ {0}
    /\ MaxConns \in Nat
    /\ SessionOf \in [1 .. NumConns -> Nat]
    /\ NumPushes \in Nat
    /\ Batch \in Nat \ {0}
    /\ NoRef \notin Reminders \cup Notes
    /\ Reminders \cap Notes = {}
    /\ MaxTurns \in Nat
    /\ MaxFaults \in Nat

Conns == 1 .. NumConns
Sessions == {SessionOf[c] : c \in Conns}
Pushes == 1 .. NumPushes
None == 0
Asked == NumPushes + 1           \* finished on request, not by a push
Loop == 0                        \* the flush of deliver_loop
Flushes == {Loop} \cup Conns     \* and the one each connection runs
Kinds == {"reminder", "reflection", "notice"}

VARIABLES
    conn,      \* per connection: the socket and its handler
    busy,      \* per connection: a turn is in flight
    sink,      \* Deliverer._sinks: the connection bound for each session
    row,       \* push_outbox
    reminder,  \* reminders: due, fired_at, and who finished it
    retired,   \* the dismissed notes
    flush,     \* the flushes under way
    fire,      \* the pass of fire_due: reminders to file, and the one to mark
    ack,       \* per connection: the push_ack its loop is applying
    inbox,     \* per connection: the pushes that reached its client
    accepted,  \* the pushes some send returned from, or some client acknowledged
    count,     \* turns taken
    faults     \* crashes and failed writes so far

vars == <<conn, busy, sink, row, reminder, retired, flush, fire, ack, inbox,
          accepted, count, faults>>

Row == [status : {"absent", "pending", "delivered", "expired"}, kind : Kinds,
        ref : Reminders \cup Notes \cup {NoRef}]
NoRow == [status |-> "absent", kind |-> "notice", ref |-> NoRef]

FlushState == [pc : {"off", "read", "send", "mark"}, rows : SUBSET Pushes,
               left : SUBSET Conns, to : Conns \cup {None}, ok : BOOLEAN]
FlushOff == [pc |-> "off", rows |-> {}, left |-> {}, to |-> None, ok |-> FALSE]

TypeOK ==
    /\ conn \in [Conns -> {"off", "up", "lost", "gone"}]
    /\ busy \in [Conns -> BOOLEAN]
    /\ sink \in [Sessions -> Conns \cup {None}]
    /\ row \in [Pushes -> Row]
    /\ reminder \in [Reminders -> [due : BOOLEAN, fired : BOOLEAN,
                                   done : Pushes \cup {None, Asked}]]
    /\ retired \in SUBSET Notes
    /\ flush \in [Flushes -> FlushState]
    /\ fire \in [at : Reminders \cup {NoRef}, todo : SUBSET Reminders]
    /\ ack \in [Conns -> Pushes \cup {None}]
    /\ inbox \in [Conns -> SUBSET Pushes]
    /\ accepted \in SUBSET Pushes
    /\ count \in 0 .. MaxTurns
    /\ faults \in 0 .. MaxFaults

FireOff == [at |-> NoRef, todo |-> {}]

Init ==
    /\ conn = [c \in Conns |-> "off"]
    /\ busy = [c \in Conns |-> FALSE]
    /\ sink = [s \in Sessions |-> None]
    /\ row = [p \in Pushes |-> NoRow]
    /\ reminder = [r \in Reminders |-> [due |-> FALSE, fired |-> FALSE, done |-> None]]
    /\ retired = {}
    /\ flush = [f \in Flushes |-> FlushOff]
    /\ fire = FireOff
    /\ ack = [c \in Conns |-> None]
    /\ inbox = [c \in Conns |-> {}]
    /\ accepted = {}
    /\ count = 0
    /\ faults = 0

-----------------------------------------------------------------------------
(* The outbox (store.py)                                                   *)

Status(p) == row[p].status
Pending == {p \in Pushes : Status(p) = "pending"}

\* A write to the store may fail, as often as the bound allows.
Fault == faults < MaxFaults /\ faults' = faults + 1
NoFault == UNCHANGED faults

\* Mutant of Oldest: the order of pending_pushes is reversed.
Oldest_Newest(S) == CHOOSE p \in S : \A q \in S : p >= q

\* pending_pushes orders by creation.
Oldest(S) == CHOOSE p \in S : \A q \in S : p <= q

\* The id the next row gets: ids are fresh, and ordered as the rows are filed.
Fresh(p) == Status(p) = "absent" /\ \A q \in Pushes : q < p => Status(q) # "absent"

\* add_push
File(kind, ref) ==
    \E p \in Pushes :
        /\ Fresh(p)
        /\ row' = [row EXCEPT ![p] = [status |-> "pending", kind |-> kind, ref |-> ref]]

\* mark_push_delivered
Marked(p) == IF Status(p) = "pending" THEN [row EXCEPT ![p].status = "delivered"]
             ELSE row

-----------------------------------------------------------------------------
(* Connections                                                             *)

\* Deliverer.bind
Bind(c) == [sink EXCEPT ![SessionOf[c]] = c]

\* Mutant of Unbind: the token is not looked at.
Unbind_AnyToken(c) == [sink EXCEPT ![SessionOf[c]] = None]

\* Deliverer.unbind(session, token)
Unbind(c) == [sink EXCEPT ![SessionOf[c]] = IF @ = c THEN None ELSE @]

Idle(c) == ~busy[c]

\* Mutant of Targets: whoever is bound.
Targets_AnySink(f, sinks) ==
    {c \in Conns : sinks[SessionOf[c]] = c /\ (f # Loop => SessionOf[f] = SessionOf[c])}

\* Deliverer._targets: for the loop, every idle sink; for a connection, the sink
\* its session has by then.
Targets(f, sinks) ==
    {c \in Conns : /\ sinks[SessionOf[c]] = c
                   /\ f # Loop => SessionOf[f] = SessionOf[c]
                   /\ Idle(c)}

\* Bound
RoomForConn == Cardinality({c \in Conns : conn[c] # "off"}) < MaxConns

\* The handshake is done: bind the sink, and flush to this session.
Connect(c) ==
    /\ conn[c] = "off" /\ RoomForConn
    /\ \A d \in Conns : d < c /\ SessionOf[d] = SessionOf[c] => conn[d] # "off"
    /\ conn' = [conn EXCEPT ![c] = "up"]
    /\ sink' = Bind(c)
    /\ flush' = [flush EXCEPT ![c].pc = "read"]
    /\ UNCHANGED <<busy, row, reminder, retired, fire, ack, inbox, accepted, count, faults>>

\* Bound: the last connection stays, so that somebody is left to deliver to.
Lose(c) ==
    /\ conn[c] = "up" /\ c # NumConns
    /\ conn' = [conn EXCEPT ![c] = "lost"]
    /\ UNCHANGED <<busy, sink, row, reminder, retired, flush, fire, ack, inbox,
                   accepted, count, faults>>

\* The receive loop runs once the connection's own flush is over.
Reading(c) == conn[c] \in {"up", "lost"} /\ flush[c].pc = "off" /\ ack[c] = None

StartTurn(c) ==
    /\ Reading(c) /\ ~busy[c]
    /\ count < MaxTurns /\ count' = count + 1
    /\ busy' = [busy EXCEPT ![c] = TRUE]
    /\ UNCHANGED <<conn, sink, row, reminder, retired, flush, fire, ack, inbox,
                   accepted, faults>>

EndTurn(c) ==
    /\ busy[c]
    /\ busy' = [busy EXCEPT ![c] = FALSE]
    /\ UNCHANGED <<conn, sink, row, reminder, retired, flush, fire, ack, inbox,
                   accepted, count, faults>>

\* The finally of voice_socket: the turn is cancelled first, then the sink goes.
Detach(c) ==
    /\ conn[c] = "lost" /\ Reading(c) /\ ~busy[c]
    /\ conn' = [conn EXCEPT ![c] = "gone"]
    /\ sink' = Unbind(c)
    /\ UNCHANGED <<busy, row, reminder, retired, flush, fire, ack, inbox,
                   accepted, count, faults>>

-----------------------------------------------------------------------------
(* Delivery                                                                *)

\* The frame is on its way to c: a client that is still there gets it.
Arrives(c, p) ==
    inbox' = IF conn[c] = "up" THEN [inbox EXCEPT ![c] = @ \cup {p}] ELSE inbox

\* The body of flush's loop up to its first send: the targets are read anew for
\* each row, and without any the flush is over.
Take(f, rows) ==
    LET targets == Targets(f, sink)
    IN  IF rows = {} \/ targets = {}
        THEN flush' = [flush EXCEPT ![f] = FlushOff] /\ UNCHANGED inbox
        ELSE \E c \in targets :
               /\ flush' = [flush EXCEPT ![f] =
                    [pc |-> "send", rows |-> rows, left |-> targets \ {c},
                     to |-> c, ok |-> FALSE]]
               /\ Arrives(c, Oldest(rows))

\* deliver_loop wakes up, by the timer or a nudge, and finds somebody idle.
Wake ==
    /\ flush[Loop].pc = "off"
    /\ Targets(Loop, sink) # {}
    /\ flush' = [flush EXCEPT ![Loop].pc = "read"]
    /\ UNCHANGED <<conn, busy, sink, row, reminder, retired, fire, ack, inbox,
                   accepted, count, faults>>

\* pending_pushes returns a batch, oldest first; or the read fails.
Read(f) ==
    /\ flush[f].pc = "read"
    /\ \/ /\ Take(f, {p \in Pending : Cardinality({q \in Pending : q < p}) < Batch})
          /\ NoFault
       \/ /\ Fault
          /\ flush' = [flush EXCEPT ![f] = FlushOff]
          /\ UNCHANGED inbox
    /\ UNCHANGED <<conn, busy, sink, row, reminder, retired, fire, ack, accepted, count>>

\* Mutant of Delivered: a row that was offered counts.
Delivered_Anyhow(f, took) == TRUE

\* Mutant of Delivered: every target has to take it, and the first finds nothing.
Delivered_AllTook(f, took) == flush[f].ok /\ took

\* _fan_out returns True if at least one target accepted the frame.
Delivered(f, took) == flush[f].ok \/ took

\* _fan_out: a send is over.  On a dead socket it may raise, and then that sink goes;
\* it may as well seem to succeed.  The next target is the one chosen before.
Sent(f) ==
    LET c == flush[f].to
        p == Oldest(flush[f].rows)
    IN  /\ flush[f].pc = "send"
        /\ \E took \in BOOLEAN :
             /\ took \/ conn[c] # "up"
             /\ accepted' = IF took THEN accepted \cup {p} ELSE accepted
             /\ sink' = IF took THEN sink ELSE Unbind(c)
             /\ \/ /\ flush[f].left # {}
                   /\ \E d \in flush[f].left :
                        /\ flush' = [flush EXCEPT ![f].left = @ \ {d}, ![f].to = d,
                                                  ![f].ok = @ \/ took]
                        /\ Arrives(d, p)
                \/ /\ flush[f].left = {}
                   /\ flush' = [flush EXCEPT ![f] = IF Delivered(f, took)
                                  THEN [@ EXCEPT !.pc = "mark"] ELSE FlushOff]
                   /\ UNCHANGED inbox
        /\ UNCHANGED <<conn, busy, row, reminder, retired, fire, ack, count, faults>>

\* mark_push_delivered is over, or has failed in silence; on to the next row.
Mark(f) ==
    /\ flush[f].pc = "mark"
    /\ \/ row' = Marked(Oldest(flush[f].rows)) /\ NoFault
       \/ Fault /\ UNCHANGED row
    /\ Take(f, flush[f].rows \ {Oldest(flush[f].rows)})
    /\ UNCHANGED <<conn, busy, sink, reminder, retired, fire, ack, accepted, count>>

\* expire_pushes retires what nobody collected in push_keep_days.
Expire(p) ==
    /\ Status(p) = "pending"
    /\ row' = [row EXCEPT ![p].status = "expired"]
    /\ UNCHANGED <<conn, busy, sink, reminder, retired, flush, fire, ack, inbox,
                   accepted, count, faults>>

-----------------------------------------------------------------------------
(* What is said: reminders, notes and the notices of other services         *)

\* Time passes.
FallDue(r) ==
    /\ ~reminder[r].due
    /\ reminder' = [reminder EXCEPT ![r].due = TRUE]
    /\ UNCHANGED <<conn, busy, sink, row, retired, flush, fire, ack, inbox,
                   accepted, count, faults>>

\* complete_reminder, by asking for it
Finish(r) ==
    /\ reminder[r].done = None
    /\ reminder' = [reminder EXCEPT ![r].done = Asked]
    /\ UNCHANGED <<conn, busy, sink, row, retired, flush, fire, ack, inbox,
                   accepted, count, faults>>

\* fire_due reads the reminders that are pending, unfired and due.
Scan ==
    LET due == {r \in Reminders : /\ reminder[r].due /\ ~reminder[r].fired
                                  /\ reminder[r].done = None}
    IN  /\ fire = FireOff /\ due # {}
        /\ fire' = [fire EXCEPT !.todo = due]
        /\ UNCHANGED <<conn, busy, sink, row, reminder, retired, flush, ack, inbox,
                       accepted, count, faults>>

\* Mutant of Enqueue: what could not be filed is marked all the same.
Enqueue_Anyhow(r) ==
    /\ fire.at = NoRef /\ r \in fire.todo
    /\ \/ File("reminder", r) /\ NoFault
       \/ Fault /\ UNCHANGED row
    /\ fire' = [at |-> r, todo |-> fire.todo \ {r}]
    /\ UNCHANGED <<conn, busy, sink, reminder, retired, flush, ack, inbox, accepted, count>>

\* enqueue, for the next reminder of the pass; one that cannot be filed is left for
\* the next pass.
Enqueue(r) ==
    /\ fire.at = NoRef /\ r \in fire.todo
    /\ \/ /\ File("reminder", r) /\ NoFault
          /\ fire' = [at |-> r, todo |-> fire.todo \ {r}]
       \/ /\ Fault /\ UNCHANGED row
          /\ fire' = [fire EXCEPT !.todo = @ \ {r}]
    /\ UNCHANGED <<conn, busy, sink, reminder, retired, flush, ack, inbox, accepted, count>>

\* mark_reminder_fired, for the reminder just filed; the failure is only logged.
MarkFired ==
    /\ fire.at # NoRef
    /\ \/ reminder' = [reminder EXCEPT ![fire.at].fired = TRUE] /\ NoFault
       \/ Fault /\ UNCHANGED reminder
    /\ fire' = [fire EXCEPT !.at = NoRef]
    /\ UNCHANGED <<conn, busy, sink, row, retired, flush, ack, inbox, accepted, count>>

\* submit_push and the maintenance pass: anything but the kind "reminder", with a
\* ref passed through as given, or none.
Post ==
    /\ \/ \E r \in Reminders \cup {NoRef} : File("notice", r)
       \/ \E n \in Notes : File("reflection", n)
    /\ UNCHANGED <<conn, busy, sink, reminder, retired, flush, fire, ack, inbox,
                   accepted, count, faults>>

-----------------------------------------------------------------------------
(* Acknowledgements                                                        *)

Seen(p) == \E c \in Conns : p \in inbox[c]

\* acknowledge: whatever the action, the row is settled.
Acknowledge(c, p) ==
    /\ Reading(c) /\ Seen(p)
    /\ \/ row' = Marked(p) /\ NoFault
       \/ Fault /\ UNCHANGED row
    /\ accepted' = accepted \cup {p}
    /\ ack' = [ack EXCEPT ![c] = p]
    /\ UNCHANGED <<conn, busy, sink, reminder, retired, flush, fire, inbox, count>>

\* Mutant of Act: the ref is trusted, whatever the kind.
Act_TrustRef(c) ==
    /\ ack[c] # None
    /\ LET ref == row[ack[c]].ref
       IN  /\ retired' = retired \cup ({ref} \cap Notes)
           /\ reminder' = IF ref \in Reminders
                          THEN [reminder EXCEPT ![ref].done =
                                  IF @ = None THEN ack[c] ELSE @]
                          ELSE reminder
    /\ ack' = [ack EXCEPT ![c] = None]
    /\ UNCHANGED <<conn, busy, sink, row, flush, fire, inbox, accepted, count, faults>>

\* ... and then what the action asks for: dismissing or completing a reflection
\* retires its note, completing a reminder finishes it, and nothing else acts.
Act(c) ==
    /\ ack[c] # None
    /\ LET p == ack[c]  ref == row[p].ref
       IN  \/ UNCHANGED <<reminder, retired>>
           \/ /\ row[p].kind = "reflection" /\ ref \in Notes
              /\ retired' = retired \cup {ref}
              /\ UNCHANGED reminder
           \/ /\ row[p].kind = "reminder" /\ ref \in Reminders
              /\ reminder' = [reminder EXCEPT ![ref].done = IF @ = None THEN p ELSE @]
              /\ UNCHANGED retired
    /\ ack' = [ack EXCEPT ![c] = None]
    /\ UNCHANGED <<conn, busy, sink, row, flush, fire, inbox, accepted, count, faults>>

-----------------------------------------------------------------------------
\* The process dies and is restarted; the last connection can still be made.
Crash ==
    /\ Fault
    /\ conn[NumConns] = "off"
    /\ conn' = [c \in Conns |-> IF conn[c] = "off" THEN "off" ELSE "gone"]
    /\ busy' = [c \in Conns |-> FALSE]
    /\ sink' = [s \in Sessions |-> None]
    /\ flush' = [f \in Flushes |-> FlushOff]
    /\ fire' = FireOff
    /\ ack' = [c \in Conns |-> None]
    /\ UNCHANGED <<row, reminder, retired, inbox, accepted, count>>

Next ==
    \/ \E c \in Conns : \/ Connect(c) \/ Lose(c) \/ StartTurn(c) \/ EndTurn(c)
                        \/ Detach(c) \/ Act(c)
                        \/ \E p \in Pushes : Acknowledge(c, p)
    \/ Wake
    \/ \E f \in Flushes : Read(f) \/ Sent(f) \/ Mark(f)
    \/ \E p \in Pushes : Expire(p)
    \/ \E r \in Reminders : FallDue(r) \/ Finish(r) \/ Enqueue(r)
    \/ Scan \/ MarkFired \/ Post \/ Crash

Spec == Init /\ [][Next]_vars

\* Every client that is announced connects and ends its turns; awaits return; both
\* loops keep going.
Fairness ==
    /\ \A c \in Conns : WF_vars(Connect(c)) /\ WF_vars(EndTurn(c)) /\ WF_vars(Act(c))
    /\ WF_vars(Wake)
    /\ \A f \in Flushes : WF_vars(Read(f)) /\ WF_vars(Sent(f)) /\ WF_vars(Mark(f))
    /\ WF_vars(Scan) /\ WF_vars(MarkFired)
    /\ \A r \in Reminders : WF_vars(Enqueue(r))

FairSpec == Spec /\ Fairness

-----------------------------------------------------------------------------
(* What the outbox promises                                                *)

\* A reminder that counts as fired has been filed, whatever crashed when.
FiredMeansFiled ==
    \A r \in Reminders :
        reminder[r].fired =>
            \E p \in Pushes : /\ Status(p) # "absent"
                              /\ row[p].kind = "reminder" /\ row[p].ref = r

\* A row is settled as delivered only after some connection accepted it or some
\* client acknowledged it; a crash or a refused send leaves it pending.
DeliveredMeansAccepted == \A p \in Pushes : Status(p) = "delivered" => p \in accepted

\* Only the push of a reminder finishes a reminder, and only its own: a tap on a
\* notice whose ref names one does nothing to it.
OnlyItsOwnPushFinishesAReminder ==
    \A r \in Reminders :
        LET p == reminder[r].done
        IN  p \in Pushes => row[p].kind = "reminder" /\ row[p].ref = r

\* The latest connection of a session stays bound while it is up: neither the
\* finally of the handler it replaced nor a failed send on the old socket unbinds it.
NewestKeepsItsSink ==
    \A c \in Conns :
        /\ conn[c] = "up"
        /\ \A d \in Conns : d > c /\ SessionOf[d] = SessionOf[c] => conn[d] = "off"
        => sink[SessionOf[c]] = c

\* A client first hears of a push only when every older one has been heard, offered
\* or given up: a backlog arrives in the order it was filed.
OldestFirst ==
    [][\A c \in Conns : \A p \in inbox'[c] \ inbox[c] :
          \A q \in Pushes : q < p /\ Status(q) = "pending" => q \in accepted \/ Seen(q)]_vars

\* Where "a push never lands mid-turn" (push.py, the first rule) ends: the sinks of a
\* row are chosen while they are idle, so the one it is sent to first is never in a
\* turn.  A push lands in a turn only on a connection that was chosen with it and
\* waited while the delivery loop sent the row to another session.
MidTurnOnlyBehindAnother ==
    [][\A c \in Conns :
          inbox'[c] # inbox[c] /\ busy[c]
            => /\ flush[Loop].pc = "send" /\ c \in flush[Loop].left
               /\ SessionOf[flush[Loop].to] # SessionOf[c]]_vars

\* Nothing stays in the outbox for ever.
PushesSettle == \A p \in Pushes : Status(p) = "pending" ~> Status(p) # "pending"

\* A due reminder that nobody finishes is announced.
DueRemindersAreFiled ==
    \A r \in Reminders :
        reminder[r].due
          ~> \/ reminder[r].done # None
             \/ \E p \in Pushes : row[p].kind = "reminder" /\ row[p].ref = r
             \/ \A p \in Pushes : Status(p) # "absent"
=============================================================================
