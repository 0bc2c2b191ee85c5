--------------------------- MODULE PushOutbox_proofs ----------------------------
(* What holds of PushOutbox for any number of connections, sessions, pushes,   *)
(* reminders and crashes.                                                     *)
EXTENDS PushOutbox, FiniteSetTheorems, TLAPS

Filed(p) == Status(p) # "absent"

\* Rows are filed one after another, and an absent row is blank.
RowsInOrder ==
    \A p \in Pushes : /\ ~Filed(p) => row[p] = NoRow
                      /\ \A q \in Pushes : q < p /\ Filed(p) => Filed(q)

\* A flush holds back nothing that is older than what it is to send.
Backlog(rows) ==
    \A p \in rows : /\ Filed(p)
                    /\ \A q \in Pushes : q < p /\ Status(q) = "pending"
                                         => q \in rows \cup accepted

Sending(f) ==
    /\ flush[f].pc \in {"send", "mark"} => flush[f].rows # {} /\ Backlog(flush[f].rows)
    /\ flush[f].pc = "send" => flush[f].to \in Conns
    /\ flush[f].pc = "mark" \/ (flush[f].pc = "send" /\ flush[f].ok)
          => Oldest(flush[f].rows) \in accepted

\* The reminder that is about to be marked has been filed.
Announced(r) == \E p \in Pushes : Filed(p) /\ row[p].kind = "reminder" /\ row[p].ref = r
Firing == fire.at # NoRef => fire.at \in Reminders /\ Announced(fire.at)

ConnectionsInOrder ==
    \A c, d \in Conns :
        d < c /\ SessionOf[d] = SessionOf[c] /\ conn[c] # "off" => conn[d] # "off"

IInv ==
    /\ TypeOK
    /\ RowsInOrder
    /\ \A f \in Flushes : Sending(f)
    /\ Firing
    /\ ConnectionsInOrder
    /\ DeliveredMeansAccepted
    /\ FiredMeansFiled
    /\ OnlyItsOwnPushFinishesAReminder
    /\ NewestKeepsItsSink

-----------------------------------------------------------------------------
(* The oldest of some rows                                                 *)

LEMMA Numbers ==
  /\ Pushes \subseteq Nat /\ None \notin Pushes /\ Asked \notin Pushes /\ None # Asked
  /\ Conns \subseteq Nat \ {0} /\ NumConns \in Conns
  /\ Flushes = {Loop} \cup Conns
  /\ \A c \in Conns : SessionOf[c] \in Sessions
  /\ IsFiniteSet(Pushes)
<1>1. IsFiniteSet(Pushes)
  BY OutboxAssumption, FS_Interval DEF Pushes
<1> QED
  BY <1>1, OutboxAssumption DEF Pushes, Conns, None, Asked, Flushes, Loop, Sessions

LEMMA OldestIsLeast ==
  ASSUME NEW S, S \subseteq Pushes, S # {}
  PROVE  Oldest(S) \in S /\ \A q \in S : Oldest(S) <= q
<1> DEFINE R == {ss \in Nat \X Nat : ss[1] < ss[2]}
<1>1. IsWellFoundedOn(R, Nat)
  BY NatLessThanWellFounded DEF OpToRel
<1>2. S \subseteq Nat
  BY Numbers
<1>3. PICK p \in S : \A q \in S : <<q, p>> \notin R
  <2> HIDE DEF R
  <2> QED
    BY <1>1, <1>2, WFMin
<1>4. ASSUME NEW q \in S
      PROVE  p <= q
  <2>1. p \in Nat /\ q \in Nat
    BY <1>2
  <2>2. q < p => <<q, p>> \in R
    BY <2>1
  <2> QED
    BY <1>3, <2>1, <2>2
<1> QED
  BY <1>4 DEF Oldest

\* pending_pushes: what is older than a row of the batch is in the batch too.
LEMMA BatchIsBacklog ==
  ASSUME TypeOK
  PROVE  Backlog({p \in Pending : Cardinality({q \in Pending : q < p}) < Batch})
<1> DEFINE older(p) == {q \in Pending : q < p}
           batch == {p \in Pending : Cardinality(older(p)) < Batch}
<1>1. ASSUME NEW p \in batch, NEW q \in Pushes, q < p, Status(q) = "pending"
      PROVE  q \in batch
  <2>1. q \in Pending /\ p \in Pushes
    BY <1>1 DEF Pending
  <2>2. older(q) \subseteq older(p) /\ older(p) \subseteq Pushes
    <3>1. \A x \in Pending : x \in Nat /\ x \in Pushes
      BY Numbers DEF Pending
    <3> QED
      BY <1>1, <2>1, <3>1
  <2>3. IsFiniteSet(older(p)) /\ IsFiniteSet(older(q))
    BY <2>2, Numbers, FS_Subset
  <2>4. Cardinality(older(q)) <= Cardinality(older(p))
    BY <2>2, <2>3, FS_Subset
  <2>5. Cardinality(older(p)) \in Nat /\ Cardinality(older(q)) \in Nat
    BY <2>3, FS_CardinalityType
  <2>6. Cardinality(older(p)) < Batch
    BY <1>1
  <2>7. Cardinality(older(q)) < Batch
    BY <2>4, <2>5, <2>6, OutboxAssumption
  <2> QED
    BY <2>1, <2>7
<1>2. \A p \in batch : Filed(p)
  BY DEF Pending, Filed
<1> QED
  BY <1>1, <1>2 DEF Backlog

-----------------------------------------------------------------------------
(* What becomes of a row                                                   *)

Evolves ==
    \A p \in Pushes :
        \/ row'[p] = row[p]
        \/ /\ Status(p) = "pending"
           /\ \E s \in {"delivered", "expired"} : row'[p] = [row[p] EXCEPT !.status = s]
        \/ /\ Fresh(p)
           /\ row'[p].status = "pending"

LEMMA FileEvolves ==
  ASSUME TypeOK, NEW kind \in Kinds, NEW ref \in Reminders \cup Notes \cup {NoRef},
         File(kind, ref)
  PROVE  /\ Evolves
         /\ row' \in [Pushes -> Row]
         /\ \E p \in Pushes : row'[p] = [status |-> "pending", kind |-> kind, ref |-> ref]
         /\ \A p \in Pushes : row'[p].status = "delivered" => row'[p] = row[p]
  BY DEF File, Evolves, TypeOK, Row

LEMMA MarkedEvolves ==
  ASSUME TypeOK, NEW p \in Pushes, row' = Marked(p)
  PROVE  /\ Evolves
         /\ row' \in [Pushes -> Row]
         /\ \A q \in Pushes : q # p => row'[q] = row[q]
<1>1. CASE Status(p) = "pending"
  BY <1>1 DEF Marked, Evolves, TypeOK, Row, Status
<1>2. CASE Status(p) # "pending"
  BY <1>2 DEF Marked, Evolves, TypeOK
<1> QED
  BY <1>1, <1>2

LEMMA EvolvedRows ==
  ASSUME TypeOK, RowsInOrder, Evolves
  PROVE  /\ RowsInOrder'
         /\ \A p \in Pushes : Filed(p) => /\ Filed(p)'
                                          /\ row'[p].kind = row[p].kind
                                          /\ row'[p].ref = row[p].ref
         /\ \A r \in Reminders : Announced(r) => Announced(r)'
<1>1. \A p \in Pushes : Filed(p) => /\ Filed(p)'
                                    /\ row'[p].kind = row[p].kind
                                    /\ row'[p].ref = row[p].ref
  BY DEF Evolves, Filed, Fresh, Status, TypeOK, Row
<1>2. \A p \in Pushes : Filed(p)' /\ ~Filed(p) => Fresh(p)
  BY DEF Evolves, Filed, Status
<1>3. \A p \in Pushes : ~Filed(p)' => row'[p] = row[p] /\ ~Filed(p)
  BY <1>1 DEF Evolves, Filed, Status, TypeOK, Row
<1>4. RowsInOrder'
  BY <1>1, <1>2, <1>3 DEF RowsInOrder, Fresh, Filed
<1> QED
  BY <1>1, <1>4 DEF Announced

LEMMA BacklogStays ==
  ASSUME TypeOK, RowsInOrder, Evolves, accepted \subseteq accepted',
         NEW rows, rows \subseteq Pushes, Backlog(rows)
  PROVE  Backlog(rows)'
<1>1. ASSUME NEW p \in rows, NEW q \in Pushes, q < p, Status(q)' = "pending"
      PROVE  q \in rows \cup accepted'
  <2>1. Filed(p) /\ p \in Pushes
    BY <1>1 DEF Backlog
  <2>2. Filed(q)
    BY <1>1, <2>1 DEF RowsInOrder
  <2>3. Status(q) = "pending"
    BY <1>1, <2>2 DEF Evolves, Filed, Fresh, Status
  <2> QED
    BY <1>1, <2>3 DEF Backlog
<1>2. \A p \in rows : Filed(p)'
  BY EvolvedRows DEF Backlog
<1> QED
  BY <1>1, <1>2 DEF Backlog

\* A flush that is not touched goes on as it was.
LEMMA SendingStays ==
  ASSUME TypeOK, RowsInOrder, Evolves, accepted \subseteq accepted',
         NEW f \in Flushes, Sending(f), flush'[f] = flush[f]
  PROVE  Sending(f)'
<1>1. flush[f].rows \subseteq Pushes
  BY DEF TypeOK, FlushState
<1>2. \A rows \in SUBSET Pushes : Backlog(rows) => Backlog(rows)'
  BY BacklogStays
<1>3. Backlog(flush[f].rows) => Backlog(flush[f].rows)'
  BY <1>1, <1>2 DEF Backlog
<1> QED
  BY <1>3 DEF Sending, Oldest

-----------------------------------------------------------------------------
(* A flush and its targets                                                 *)

\* Up to its first send: whatever it takes, it takes the oldest of a backlog.
TakesOldest(f, rows, c) ==
    /\ rows # {}
    /\ flush'[f] = [pc |-> "send", rows |-> rows, left |-> Targets(f, sink) \ {c},
                    to |-> c, ok |-> FALSE]
    /\ inbox' = IF conn[c] = "up" THEN [inbox EXCEPT ![c] = @ \cup {Oldest(rows)}]
                ELSE inbox

LEMMA TakeSends ==
  ASSUME TypeOK, NEW f \in Flushes, NEW rows, rows \subseteq Pushes, Take(f, rows)
  PROVE  /\ flush' \in [Flushes -> FlushState]
         /\ inbox' \in [Conns -> SUBSET Pushes]
         /\ \A g \in Flushes : g # f => flush'[g] = flush[g]
         /\ \/ flush'[f] = FlushOff /\ UNCHANGED inbox
            \/ \E c \in Targets(f, sink) : TakesOldest(f, rows, c)
<1>0. FlushOff \in FlushState
  BY DEF FlushOff, FlushState
<1>1. CASE rows = {} \/ Targets(f, sink) = {}
  BY <1>0, <1>1 DEF Take, TypeOK
<1>2. CASE ~(rows = {} \/ Targets(f, sink) = {})
  <2>1. PICK c \in Targets(f, sink) :
          /\ flush' = [flush EXCEPT ![f] =
                         [pc |-> "send", rows |-> rows, left |-> Targets(f, sink) \ {c},
                          to |-> c, ok |-> FALSE]]
          /\ Arrives(c, Oldest(rows))
    BY <1>2 DEF Take
  <2>2. Oldest(rows) \in Pushes
    BY <1>2, OldestIsLeast
  <2>3. Targets(f, sink) \subseteq Conns
    BY DEF Targets
  <2>4. inbox' \in [Conns -> SUBSET Pushes]
    BY <2>1, <2>2, <2>3 DEF Arrives, TypeOK
  <2>5. TakesOldest(f, rows, c)
    BY <1>2, <2>1 DEF Arrives, TypeOK, TakesOldest
  <2> QED
    BY <2>1, <2>3, <2>4, <2>5 DEF TypeOK, FlushState
<1> QED
  BY <1>1, <1>2

LEMMA TakeKeeps ==
  ASSUME TypeOK, RowsInOrder, Evolves, accepted \subseteq accepted',
         NEW f \in Flushes, NEW rows, rows \subseteq Pushes, Backlog(rows), Take(f, rows)
  PROVE  Sending(f)'
<1>1. Backlog(rows)'
  BY BacklogStays
<1>2. CASE flush'[f] = FlushOff
  BY <1>2 DEF Sending, FlushOff
<1>3. ASSUME NEW c \in Targets(f, sink), TakesOldest(f, rows, c)
      PROVE  Sending(f)'
  <2>1. flush'[f].pc = "send" /\ flush'[f].rows = rows /\ ~flush'[f].ok
        /\ rows # {} /\ flush'[f].to \in Conns
    BY <1>3 DEF Targets, TakesOldest
  <2>2. Backlog(flush[f].rows)'
    BY <1>1, <2>1 DEF Backlog
  <2> QED
    BY <2>1, <2>2 DEF Sending
<1> QED
  BY <1>2, <1>3, TakeSends

-----------------------------------------------------------------------------
(* The steps                                                               *)

LEMMA InitGood == Init => IInv
<1> SUFFICES ASSUME Init PROVE IInv
  OBVIOUS
<1>1. TypeOK
  BY OutboxAssumption, Numbers
  DEF Init, TypeOK, NoRow, Row, Kinds, FlushOff, FlushState, FireOff, None
<1>2. /\ RowsInOrder
      /\ \A f \in Flushes : Sending(f)
      /\ Firing
      /\ ConnectionsInOrder
  BY DEF Init, RowsInOrder, Filed, Status, NoRow, Sending, FlushOff, Firing, FireOff,
         ConnectionsInOrder
<1>3. /\ DeliveredMeansAccepted
      /\ FiredMeansFiled
      /\ OnlyItsOwnPushFinishesAReminder
      /\ NewestKeepsItsSink
  BY Numbers DEF Init, DeliveredMeansAccepted, FiredMeansFiled,
         OnlyItsOwnPushFinishesAReminder, NewestKeepsItsSink, Status, NoRow
<1> QED
  BY <1>1, <1>2, <1>3 DEF IInv

\* Faults and turns are counted up to their bound.
LEMMA Counted ==
  ASSUME TypeOK
  PROVE  /\ Fault \/ NoFault => faults' \in 0 .. MaxFaults
         /\ count < MaxTurns /\ count' = count + 1 => count' \in 0 .. MaxTurns
  BY OutboxAssumption DEF TypeOK, Fault, NoFault

\* Everything about rows and reminders survives a step in which the rows only evolve, no
\* flush but the ones shown to be in order moves, and no reminder is marked or finished.
RowPart == /\ RowsInOrder
           /\ \A f \in Flushes : Sending(f)
           /\ Firing
           /\ DeliveredMeansAccepted
           /\ FiredMeansFiled
           /\ OnlyItsOwnPushFinishesAReminder

ConnPart == ConnectionsInOrder /\ NewestKeepsItsSink

LEMMA ConnStays ==
  ASSUME IInv, UNCHANGED <<conn, sink>>
  PROVE  ConnPart'
  BY DEF IInv, ConnPart, ConnectionsInOrder, NewestKeepsItsSink

LEMMA RowStays ==
  ASSUME IInv, Evolves, accepted \subseteq accepted', UNCHANGED <<reminder, fire>>,
         \A f \in Flushes : Sending(f)' \/ flush'[f] = flush[f],
         \A p \in Pushes : row'[p].status = "delivered" /\ row'[p] # row[p] => p \in accepted'
  PROVE  RowPart'
<1>1. \A f \in Flushes : Sending(f)'
  BY SendingStays DEF IInv
<1>2. RowsInOrder'
  BY EvolvedRows DEF IInv
<1>3. /\ \A r \in Reminders : Announced(r) => Announced(r)'
      /\ \A p \in Pushes : Filed(p) => /\ Filed(p)'
                                       /\ row'[p].kind = row[p].kind
                                       /\ row'[p].ref = row[p].ref
  BY EvolvedRows DEF IInv
<1>4. Firing'
  BY <1>3 DEF IInv, Firing
<1>5. FiredMeansFiled'
  BY <1>3 DEF IInv, FiredMeansFiled, Announced, Filed
<1>6. DeliveredMeansAccepted'
  BY DEF IInv, DeliveredMeansAccepted, Status
<1>7. OnlyItsOwnPushFinishesAReminder'
  <2>1. \A p \in Pushes : row[p].kind = "reminder" => Filed(p)
    BY DEF IInv, RowsInOrder, NoRow
  <2> QED
    BY <1>3, <2>1 DEF IInv, OnlyItsOwnPushFinishesAReminder
<1> QED
  BY <1>1, <1>2, <1>4, <1>5, <1>6, <1>7 DEF RowPart

LEMMA Unmoved ==
  ASSUME TypeOK, UNCHANGED row
  PROVE  Evolves /\ \A p \in Pushes : row'[p] = row[p]
  BY DEF Evolves

\* Handshake, loss and end of a connection: the newest one keeps its sink.
LEMMA ConnectKeeps ==
  ASSUME IInv, NEW c \in Conns, Connect(c)
  PROVE  IInv'
<1>1. TypeOK'
  <2>1. c \in Flushes /\ SessionOf[c] \in Sessions
    BY Numbers
  <2>2. flush' \in [Flushes -> FlushState]
    <3>1. flush' = [flush EXCEPT ![c] = [flush[c] EXCEPT !.pc = "read"]]
      BY DEF Connect
    <3>2. flush[c] \in FlushState
      BY <2>1 DEF IInv, TypeOK
    <3>3. [flush[c] EXCEPT !.pc = "read"] \in FlushState
      BY <3>2 DEF FlushState
    <3> QED
      BY <3>1, <3>3 DEF IInv, TypeOK
  <2>3. /\ conn' \in [Conns -> {"off", "up", "lost", "gone"}]
        /\ sink' \in [Sessions -> Conns \cup {None}]
    BY <2>1 DEF IInv, TypeOK, Connect, Bind
  <2> QED
    BY <2>2, <2>3 DEF IInv, TypeOK, Connect
<1>2. RowPart'
  <2>1. \A f \in Flushes : f # c => flush'[f] = flush[f]
    BY DEF Connect, IInv, TypeOK
  <2>2. flush'[c].pc = "read"
    BY Numbers DEF Connect, IInv, TypeOK, FlushState
  <2>3. Sending(c)'
    BY <2>2 DEF Sending
  <2> QED
    BY <2>1, <2>3, Unmoved, RowStays DEF Connect, IInv
<1>3. ConnectionsInOrder'
  BY Numbers DEF Connect, ConnectionsInOrder, IInv, TypeOK
<1>4. NewestKeepsItsSink'
  <2>1. /\ conn'[c] = "up" /\ sink'[SessionOf[c]] = c
        /\ \A d \in Conns \ {c} : conn'[d] = conn[d]
        /\ \A s \in Sessions \ {SessionOf[c]} : sink'[s] = sink[s]
    BY Numbers DEF Connect, Bind, IInv, TypeOK
  <2>2. \A d \in Conns : SessionOf[d] = SessionOf[c] /\ conn[d] # "off" => d < c
    BY Numbers DEF Connect, ConnectionsInOrder, IInv
  <2> QED
    BY <2>1, <2>2, Numbers DEF NewestKeepsItsSink, IInv
<1> QED
  BY <1>1, <1>2, <1>3, <1>4 DEF IInv, RowPart

LEMMA LoseKeeps ==
  ASSUME IInv, NEW c \in Conns, Lose(c)
  PROVE  IInv'
<1>1. TypeOK'
  BY DEF IInv, TypeOK, Lose
<1>2. RowPart'
  BY Unmoved, RowStays DEF Lose, IInv
<1>3. ConnPart'
  BY DEF Lose, ConnPart, ConnectionsInOrder, NewestKeepsItsSink, IInv, TypeOK
<1> QED
  BY <1>1, <1>2, <1>3 DEF IInv, RowPart, ConnPart

LEMMA DetachKeeps ==
  ASSUME IInv, NEW c \in Conns, Detach(c)
  PROVE  IInv'
<1>1. TypeOK'
  BY Numbers DEF IInv, TypeOK, Detach, Unbind
<1>2. RowPart'
  BY Unmoved, RowStays DEF Detach, IInv
<1>3. ConnectionsInOrder'
  BY DEF Detach, ConnectionsInOrder, IInv, TypeOK
<1>4. NewestKeepsItsSink'
  <2>1. /\ conn[c] = "lost" /\ conn'[c] = "gone"
        /\ \A d \in Conns \ {c} : conn'[d] = conn[d]
        /\ \A s \in Sessions : sink'[s] = sink[s] \/ sink[s] = c
    BY Numbers DEF Detach, Unbind, IInv, TypeOK
  <2> QED
    BY <2>1, Numbers DEF NewestKeepsItsSink, IInv
<1> QED
  BY <1>1, <1>2, <1>3, <1>4 DEF IInv, RowPart

LEMMA TurnKeeps ==
  ASSUME IInv, NEW c \in Conns, StartTurn(c) \/ EndTurn(c)
  PROVE  IInv'
<1>1. TypeOK'
  BY Counted DEF IInv, TypeOK, StartTurn, EndTurn
<1>2. RowPart' /\ ConnPart'
  BY Unmoved, RowStays, ConnStays DEF StartTurn, EndTurn, IInv
<1> QED
  BY <1>1, <1>2 DEF IInv, RowPart, ConnPart

\* The steps of a flush
LEMMA WakeKeeps == ASSUME IInv, Wake PROVE IInv'
<1>1. TypeOK'
  BY Numbers DEF IInv, TypeOK, Wake, FlushState
<1>2. flush'[Loop].pc = "read" /\ \A f \in Flushes : f # Loop => flush'[f] = flush[f]
  BY Numbers DEF IInv, TypeOK, Wake, FlushState
<1>3. Sending(Loop)'
  BY <1>2 DEF Sending
<1>4. RowPart' /\ ConnPart'
  BY <1>2, <1>3, Unmoved, RowStays, ConnStays DEF Wake, IInv
<1> QED
  BY <1>1, <1>4 DEF IInv, RowPart, ConnPart

LEMMA ReadKeeps ==
  ASSUME IInv, NEW f \in Flushes, Read(f)
  PROVE  IInv'
<1> DEFINE batch == {p \in Pending : Cardinality({q \in Pending : q < p}) < Batch}
<1>1. batch \subseteq Pushes /\ Backlog(batch)
  BY BatchIsBacklog DEF Pending, IInv
<1>2. UNCHANGED row /\ Evolves
  BY Unmoved DEF Read, IInv
<1>3. CASE Take(f, batch) /\ NoFault
  <2>1. TypeOK'
    BY <1>1, <1>3, TakeSends, Counted DEF Read, IInv, TypeOK
  <2>2. Sending(f)' /\ \A g \in Flushes : g # f => flush'[g] = flush[g]
    BY <1>1, <1>2, <1>3, TakeSends, TakeKeeps DEF Read, IInv
  <2>3. RowPart' /\ ConnPart'
    BY <1>2, <2>2, Unmoved, RowStays, ConnStays DEF Read, IInv
  <2> QED
    BY <2>1, <2>3 DEF IInv, RowPart, ConnPart
<1>4. CASE Fault /\ flush' = [flush EXCEPT ![f] = FlushOff] /\ UNCHANGED inbox
  <2>1. TypeOK'
    BY <1>4, Counted DEF Read, IInv, TypeOK, FlushOff, FlushState
  <2>2. Sending(f)' /\ \A g \in Flushes : g # f => flush'[g] = flush[g]
    BY <1>4 DEF Sending, FlushOff, IInv, TypeOK
  <2>3. RowPart' /\ ConnPart'
    BY <1>2, <2>2, Unmoved, RowStays, ConnStays DEF Read, IInv
  <2> QED
    BY <2>1, <2>3 DEF IInv, RowPart, ConnPart
<1> QED
  BY <1>3, <1>4 DEF Read

LEMMA SentKeeps ==
  ASSUME IInv, NEW f \in Flushes, Sent(f)
  PROVE  IInv'
<1> DEFINE c == flush[f].to
           p == Oldest(flush[f].rows)
<1>1. PICK took \in BOOLEAN :
        /\ took \/ conn[c] # "up"
        /\ accepted' = IF took THEN accepted \cup {p} ELSE accepted
        /\ sink' = IF took THEN sink ELSE Unbind(c)
        /\ \/ /\ flush[f].left # {}
              /\ \E d \in flush[f].left :
                   /\ flush' = [flush EXCEPT ![f].left = @ \ {d}, ![f].to = d,
                                             ![f].ok = @ \/ took]
                   /\ Arrives(d, p)
           \/ /\ flush[f].left = {}
              /\ flush' = [flush EXCEPT ![f] = IF Delivered(f, took)
                             THEN [@ EXCEPT !.pc = "mark"] ELSE FlushOff]
              /\ UNCHANGED inbox
  BY DEF Sent
<1>2. /\ flush[f].pc = "send" /\ c \in Conns /\ flush[f].rows \subseteq Pushes
      /\ flush[f].rows # {} /\ Backlog(flush[f].rows)
      /\ flush[f].ok => p \in accepted
      /\ flush[f] \in FlushState /\ flush \in [Flushes -> FlushState]
  BY DEF Sent, IInv, TypeOK, FlushState, Sending
<1>3. p \in Pushes
  BY <1>2, OldestIsLeast
<1>4. UNCHANGED <<conn, busy, row, reminder, retired, fire, ack, count, faults>>
  BY DEF Sent
<1>5. sink' \in [Sessions -> Conns \cup {None}]
  BY <1>1, <1>2 DEF Unbind, IInv, TypeOK
<1>6. accepted' \in SUBSET Pushes /\ accepted \subseteq accepted' /\ (took => p \in accepted')
  BY <1>1, <1>3 DEF IInv, TypeOK
<1>7. /\ flush' \in [Flushes -> FlushState]
      /\ inbox' \in [Conns -> SUBSET Pushes]
      /\ \A g \in Flushes : g # f => flush'[g] = flush[g]
      /\ \/ flush'[f] = FlushOff
         \/ /\ flush'[f].pc = "send" /\ flush'[f].rows = flush[f].rows
            /\ flush'[f].to \in Conns /\ flush'[f].ok = (flush[f].ok \/ took)
         \/ /\ flush'[f].pc = "mark" /\ flush'[f].rows = flush[f].rows
            /\ flush[f].ok \/ took
  <2>1. ASSUME NEW d \in flush[f].left,
               flush' = [flush EXCEPT ![f].left = @ \ {d}, ![f].to = d, ![f].ok = @ \/ took],
               Arrives(d, p)
        PROVE  <1>7!:
    <3>1. d \in Conns
      BY <1>2 DEF FlushState
    <3>2. inbox' \in [Conns -> SUBSET Pushes]
      BY <1>3, <2>1, <3>1 DEF Arrives, IInv, TypeOK
    <3>3. [flush[f] EXCEPT !.left = @ \ {d}, !.to = d, !.ok = @ \/ took] \in FlushState
      BY <1>2, <3>1 DEF FlushState
    <3>4. flush' = [flush EXCEPT ![f] =
                      [flush[f] EXCEPT !.left = @ \ {d}, !.to = d, !.ok = @ \/ took]]
      BY <1>2, <2>1
    <3>5. /\ flush' \in [Flushes -> FlushState]
          /\ \A g \in Flushes : g # f => flush'[g] = flush[g]
      BY <1>2, <3>3, <3>4
    <3>6. /\ flush'[f].pc = "send" /\ flush'[f].rows = flush[f].rows
          /\ flush'[f].to = d /\ flush'[f].ok = (flush[f].ok \/ took)
      BY <1>2, <3>4 DEF FlushState
    <3> QED
      BY <3>1, <3>2, <3>5, <3>6
  <2>2. CASE /\ flush' = [flush EXCEPT ![f] = IF Delivered(f, took)
                            THEN [@ EXCEPT !.pc = "mark"] ELSE FlushOff]
             /\ UNCHANGED inbox
    <3>1. [flush[f] EXCEPT !.pc = "mark"] \in FlushState /\ FlushOff \in FlushState
      BY <1>2 DEF FlushState, FlushOff
    <3> QED
      BY <1>2, <2>2, <3>1 DEF IInv, TypeOK, Delivered, FlushState
  <2> QED
    BY <1>1, <2>1, <2>2
<1>8. TypeOK'
  BY <1>4, <1>5, <1>6, <1>7 DEF IInv, TypeOK
<1>9. Evolves
  BY <1>4, Unmoved DEF IInv
<1>10. Sending(f)'
  <2>1. CASE flush'[f] = FlushOff
    BY <2>1 DEF Sending, FlushOff
  <2>2. CASE flush'[f] # FlushOff
    <3>1. flush'[f].rows = flush[f].rows
      BY <1>7, <2>2
    <3>2. \A rows \in SUBSET Pushes : Backlog(rows) => Backlog(rows)'
      BY <1>6, <1>9, BacklogStays DEF IInv
    <3>3. Backlog(flush[f].rows)'
      BY <1>2, <3>1, <3>2 DEF Backlog
    <3>4. flush[f].ok \/ took => p \in accepted'
      BY <1>2, <1>6
    <3> QED
      BY <1>2, <1>7, <2>2, <3>1, <3>3, <3>4 DEF Sending, Oldest
  <2> QED
    BY <2>1, <2>2
<1>11. RowPart'
  BY <1>4, <1>6, <1>7, <1>9, <1>10, RowStays, Unmoved DEF IInv
<1>12. ConnectionsInOrder'
  BY <1>4 DEF IInv, ConnectionsInOrder
<1>13. NewestKeepsItsSink'
  <2>1. \A s \in Sessions : sink'[s] = sink[s] \/ (sink[s] = c /\ conn[c] # "up")
    BY <1>1, <1>2 DEF Unbind, IInv, TypeOK
  <2> QED
    BY <1>4, <2>1, Numbers DEF NewestKeepsItsSink, IInv
<1> QED
  BY <1>8, <1>11, <1>12, <1>13 DEF IInv, RowPart

LEMMA MarkKeeps ==
  ASSUME IInv, NEW f \in Flushes, Mark(f)
  PROVE  IInv'
<1> DEFINE p == Oldest(flush[f].rows)
           rest == flush[f].rows \ {p}
<1>1. /\ flush[f].pc = "mark" /\ flush[f].rows \subseteq Pushes /\ flush[f].rows # {}
      /\ Backlog(flush[f].rows) /\ p \in accepted
  BY DEF Mark, IInv, TypeOK, FlushState, Sending
<1>2. p \in Pushes /\ rest \subseteq Pushes
  BY <1>1, OldestIsLeast
<1>3. Backlog(rest)
  BY <1>1 DEF Backlog
<1>4. /\ Take(f, rest)
      /\ (row' = Marked(p) /\ NoFault) \/ (Fault /\ UNCHANGED row)
      /\ UNCHANGED <<conn, busy, sink, reminder, retired, fire, ack, accepted, count>>
  BY DEF Mark
<1>5. /\ Evolves /\ row' \in [Pushes -> Row]
      /\ \A q \in Pushes : q # p => row'[q] = row[q]
  <2>1. CASE row' = Marked(p)
    BY <1>2, <2>1, MarkedEvolves DEF IInv
  <2>2. CASE UNCHANGED row
    BY <2>2, Unmoved DEF IInv, TypeOK
  <2> QED
    BY <1>4, <2>1, <2>2
<1>6. TypeOK'
  BY <1>2, <1>4, <1>5, TakeSends, Counted DEF IInv, TypeOK
<1>7. Sending(f)' /\ \A g \in Flushes : g # f => flush'[g] = flush[g]
  BY <1>2, <1>3, <1>4, <1>5, TakeSends, TakeKeeps DEF IInv
<1>8. RowPart' /\ ConnPart'
  BY <1>1, <1>4, <1>5, <1>7, RowStays, ConnStays DEF IInv
<1> QED
  BY <1>6, <1>8 DEF IInv, RowPart, ConnPart

LEMMA ExpireKeeps ==
  ASSUME IInv, NEW p \in Pushes, Expire(p)
  PROVE  IInv'
<1>1. /\ Evolves /\ row' \in [Pushes -> Row]
      /\ \A q \in Pushes : row'[q] = row[q] \/ row'[q].status = "expired"
  BY DEF Expire, Evolves, IInv, TypeOK, Row, Status
<1>2. TypeOK'
  BY <1>1 DEF Expire, IInv, TypeOK
<1>3. RowPart' /\ ConnPart'
  BY <1>1, RowStays, ConnStays DEF Expire, IInv
<1> QED
  BY <1>2, <1>3 DEF IInv, RowPart, ConnPart

-----------------------------------------------------------------------------
(* Reminders and acknowledgements                                          *)

\* What a step may do to reminders and to the scheduler's pass, the rows only evolving and
\* the flushes resting.
LEMMA ReminderStays ==
  ASSUME IInv, Evolves, accepted \subseteq accepted', UNCHANGED flush,
         \A p \in Pushes : row'[p].status = "delivered" /\ row'[p] # row[p] => p \in accepted',
         Firing',
         \A r \in Reminders : reminder'[r].fired => Announced(r)',
         \A r \in Reminders : \/ reminder'[r].done = reminder[r].done
                              \/ reminder'[r].done \notin Pushes
                              \/ /\ row[reminder'[r].done].kind = "reminder"
                                 /\ row[reminder'[r].done].ref = r
  PROVE  RowPart'
<1>1. \A f \in Flushes : Sending(f)'
  BY SendingStays DEF IInv
<1>2. RowsInOrder'
  BY EvolvedRows DEF IInv
<1>3. FiredMeansFiled'
  BY DEF FiredMeansFiled, Announced, Filed
<1>4. DeliveredMeansAccepted'
  BY DEF IInv, DeliveredMeansAccepted, Status
<1>5. OnlyItsOwnPushFinishesAReminder'
  <2>1. \A p \in Pushes : row[p].kind = "reminder" =>
           row'[p].kind = row[p].kind /\ row'[p].ref = row[p].ref
    BY EvolvedRows DEF IInv, RowsInOrder, NoRow
  <2> QED
    BY <2>1 DEF IInv, OnlyItsOwnPushFinishesAReminder
<1> QED
  BY <1>1, <1>2, <1>3, <1>4, <1>5 DEF RowPart

LEMMA AnnouncedStays ==
  ASSUME IInv, Evolves
  PROVE  /\ \A r \in Reminders : Announced(r) => Announced(r)'
         /\ \A r \in Reminders : reminder[r].fired => Announced(r)
  BY EvolvedRows DEF IInv, FiredMeansFiled, Announced, Filed

ReminderState == [due : BOOLEAN, fired : BOOLEAN, done : Pushes \cup {None, Asked}]

LEMMA RemindersTyped ==
  ASSUME TypeOK, NEW r \in Reminders, NEW b \in BOOLEAN, NEW d \in Pushes \cup {None, Asked}
  PROVE  /\ reminder \in [Reminders -> ReminderState]
         /\ [reminder EXCEPT ![r].due = b] \in [Reminders -> ReminderState]
         /\ [reminder EXCEPT ![r].fired = b] \in [Reminders -> ReminderState]
         /\ [reminder EXCEPT ![r].done = d] \in [Reminders -> ReminderState]
<1>1. reminder \in [Reminders -> ReminderState]
  BY DEF TypeOK, ReminderState
<1>2. reminder[r] \in ReminderState
  BY <1>1
<1>3. /\ [reminder[r] EXCEPT !.due = b] \in ReminderState
      /\ [reminder[r] EXCEPT !.fired = b] \in ReminderState
      /\ [reminder[r] EXCEPT !.done = d] \in ReminderState
  BY <1>2 DEF ReminderState
<1> QED
  BY <1>1, <1>3

LEMMA TimeKeeps ==
  ASSUME IInv, NEW r \in Reminders, FallDue(r) \/ Finish(r)
  PROVE  IInv'
<1>0. /\ reminder \in [Reminders -> ReminderState]
      /\ reminder' \in [Reminders -> ReminderState]
  <2>1. \/ reminder' = [reminder EXCEPT ![r].due = TRUE]
        \/ reminder' = [reminder EXCEPT ![r].done = Asked]
    BY DEF FallDue, Finish
  <2>2. /\ [reminder EXCEPT ![r].due = TRUE] \in [Reminders -> ReminderState]
        /\ [reminder EXCEPT ![r].done = Asked] \in [Reminders -> ReminderState]
        /\ reminder \in [Reminders -> ReminderState]
    BY RemindersTyped DEF IInv
  <2> QED
    BY <2>1, <2>2
<1>1. TypeOK'
  BY <1>0 DEF FallDue, Finish, IInv, TypeOK, ReminderState
<1>2. Evolves /\ UNCHANGED row
  BY Unmoved DEF FallDue, Finish, IInv
<1>3. /\ \A q \in Reminders : reminder'[q].fired = reminder[q].fired
      /\ \A q \in Reminders : \/ reminder'[q].done = reminder[q].done
                              \/ reminder'[q].done = Asked
  BY <1>0 DEF FallDue, Finish, ReminderState
<1>4. Firing'
  BY <1>2, AnnouncedStays DEF FallDue, Finish, IInv, Firing
<1>5. RowPart' /\ ConnPart'
  BY <1>2, <1>3, <1>4, AnnouncedStays, ReminderStays, ConnStays, Numbers
  DEF FallDue, Finish, IInv
<1> QED
  BY <1>1, <1>5 DEF IInv, RowPart, ConnPart

LEMMA ScanKeeps == ASSUME IInv, Scan PROVE IInv'
<1>1. TypeOK'
  BY DEF Scan, IInv, TypeOK
<1>2. Evolves /\ UNCHANGED row
  BY Unmoved DEF Scan, IInv
<1>3. Firing'
  BY DEF Scan, IInv, TypeOK, Firing, FireOff
<1>4. RowPart' /\ ConnPart'
  BY <1>2, <1>3, AnnouncedStays, ReminderStays, ConnStays DEF Scan, IInv
<1> QED
  BY <1>1, <1>4 DEF IInv, RowPart, ConnPart

LEMMA EnqueueKeeps ==
  ASSUME IInv, NEW r \in Reminders, Enqueue(r)
  PROVE  IInv'
<1>1. CASE File("reminder", r) /\ NoFault /\ fire' = [at |-> r, todo |-> fire.todo \ {r}]
  <2>1. /\ Evolves /\ row' \in [Pushes -> Row]
        /\ \E p \in Pushes : row'[p] = [status |-> "pending", kind |-> "reminder", ref |-> r]
        /\ \A p \in Pushes : row'[p].status = "delivered" => row'[p] = row[p]
    BY <1>1, FileEvolves DEF IInv, Kinds
  <2>2. Announced(r)'
    BY <2>1 DEF Announced, Filed, Status
  <2>3. TypeOK'
    BY <1>1, <2>1, Counted DEF Enqueue, IInv, TypeOK
  <2>4. Firing'
    BY <1>1, <2>2 DEF Firing
  <2>5. RowPart' /\ ConnPart'
    BY <2>1, <2>4, AnnouncedStays, ReminderStays, ConnStays DEF Enqueue, IInv
  <2> QED
    BY <2>3, <2>5 DEF IInv, RowPart, ConnPart
<1>2. CASE Fault /\ UNCHANGED row /\ fire' = [fire EXCEPT !.todo = @ \ {r}]
  <2>1. Evolves
    BY <1>2, Unmoved DEF IInv
  <2>2. TypeOK'
    BY <1>2, Counted DEF Enqueue, IInv, TypeOK
  <2>3. Firing'
    BY <1>2 DEF Enqueue, Firing, IInv, TypeOK
  <2>4. RowPart' /\ ConnPart'
    BY <1>2, <2>1, <2>3, AnnouncedStays, ReminderStays, ConnStays DEF Enqueue, IInv
  <2> QED
    BY <2>2, <2>4 DEF IInv, RowPart, ConnPart
<1> QED
  BY <1>1, <1>2 DEF Enqueue

LEMMA MarkFiredKeeps == ASSUME IInv, MarkFired PROVE IInv'
<1>1. fire.at \in Reminders /\ Announced(fire.at)
  BY DEF MarkFired, IInv, Firing
<1>2. TypeOK'
  <2>1. reminder' \in [Reminders -> ReminderState]
    BY <1>1, RemindersTyped DEF MarkFired, IInv
  <2> QED
    BY <2>1, Counted DEF MarkFired, IInv, TypeOK, ReminderState
<1>3. Evolves /\ UNCHANGED row
  BY Unmoved DEF MarkFired, IInv
<1>4. /\ \A q \in Reminders : reminder'[q].fired => reminder[q].fired \/ q = fire.at
      /\ \A q \in Reminders : reminder'[q].done = reminder[q].done
      /\ fire'.at = NoRef
  BY DEF MarkFired, IInv, TypeOK
<1>5. Firing'
  BY <1>4 DEF Firing
<1>6. RowPart' /\ ConnPart'
  BY <1>1, <1>3, <1>4, <1>5, AnnouncedStays, ReminderStays, ConnStays DEF MarkFired, IInv
<1> QED
  BY <1>2, <1>6 DEF IInv, RowPart, ConnPart

LEMMA PostKeeps == ASSUME IInv, Post PROVE IInv'
<1>1. PICK kind \in Kinds, ref \in Reminders \cup Notes \cup {NoRef} : File(kind, ref)
  BY DEF Post, Kinds
<1>2. /\ Evolves /\ row' \in [Pushes -> Row]
      /\ \A p \in Pushes : row'[p].status = "delivered" => row'[p] = row[p]
  BY <1>1, FileEvolves DEF IInv
<1>3. TypeOK'
  BY <1>2 DEF Post, IInv, TypeOK
<1>4. RowPart' /\ ConnPart'
  BY <1>2, RowStays, ConnStays DEF Post, IInv
<1> QED
  BY <1>3, <1>4 DEF IInv, RowPart, ConnPart

LEMMA AcknowledgeKeeps ==
  ASSUME IInv, NEW c \in Conns, NEW p \in Pushes, Acknowledge(c, p)
  PROVE  IInv'
<1>1. /\ Evolves /\ row' \in [Pushes -> Row]
      /\ \A q \in Pushes : q # p => row'[q] = row[q]
  <2>1. CASE row' = Marked(p)
    BY <2>1, MarkedEvolves DEF IInv
  <2>2. CASE UNCHANGED row
    BY <2>2, Unmoved DEF IInv, TypeOK
  <2> QED
    BY <2>1, <2>2 DEF Acknowledge
<1>2. TypeOK'
  BY <1>1, Counted DEF Acknowledge, IInv, TypeOK
<1>3. RowPart' /\ ConnPart'
  BY <1>1, RowStays, ConnStays DEF Acknowledge, IInv
<1> QED
  BY <1>2, <1>3 DEF IInv, RowPart, ConnPart

LEMMA ActKeeps ==
  ASSUME IInv, NEW c \in Conns, Act(c)
  PROVE  IInv'
<1> DEFINE p == ack[c]
<1>1. p \in Pushes
  BY DEF Act, IInv, TypeOK
<1>0. reminder \in [Reminders -> ReminderState]
  BY DEF IInv, TypeOK, ReminderState
<1>a. \/ UNCHANGED reminder
      \/ \E r \in Reminders :
           /\ row[p].kind = "reminder" /\ row[p].ref = r
           /\ \/ reminder' = [reminder EXCEPT ![r].done = p]
              \/ reminder' = [reminder EXCEPT ![r].done = reminder[r].done]
  BY DEF Act
<1>2. TypeOK'
  <2>0. ASSUME NEW r \in Reminders, NEW d \in {p, reminder[r].done}
        PROVE  [reminder EXCEPT ![r].done = d] \in [Reminders -> ReminderState]
    <3>1. d \in Pushes \cup {None, Asked}
      BY <1>0, <1>1 DEF ReminderState
    <3> QED
      BY <3>1, RemindersTyped DEF IInv
  <2>1. reminder' \in [Reminders -> ReminderState]
    <3>1. CASE UNCHANGED reminder
      BY <1>0, <3>1
    <3>2. ASSUME NEW r \in Reminders,
                 \/ reminder' = [reminder EXCEPT ![r].done = p]
                 \/ reminder' = [reminder EXCEPT ![r].done = reminder[r].done]
          PROVE  reminder' \in [Reminders -> ReminderState]
      BY <2>0, <3>2
    <3> QED
      BY <1>a, <3>1, <3>2
  <2> QED
    BY <1>1, <2>1 DEF Act, IInv, TypeOK, ReminderState
<1>3. Evolves /\ UNCHANGED row
  BY Unmoved DEF Act, IInv
<1>4. /\ \A q \in Reminders : reminder'[q].fired = reminder[q].fired
      /\ \A q \in Reminders : \/ reminder'[q].done = reminder[q].done
                              \/ /\ reminder'[q].done = p
                                 /\ row[p].kind = "reminder" /\ row[p].ref = q
  BY <1>0, <1>1, <1>a DEF ReminderState
<1>5. Firing'
  BY <1>3, AnnouncedStays DEF Act, IInv, Firing
<1>6. RowPart' /\ ConnPart'
  BY <1>3, <1>4, <1>5, AnnouncedStays, ReminderStays, ConnStays DEF Act, IInv
<1> QED
  BY <1>2, <1>6 DEF IInv, RowPart, ConnPart

LEMMA CrashKeeps == ASSUME IInv, Crash PROVE IInv'
<1>1. TypeOK'
  BY Counted DEF Crash, IInv, TypeOK, FlushOff, FlushState, FireOff
<1>2. RowsInOrder' /\ DeliveredMeansAccepted'
  BY DEF Crash, IInv, RowsInOrder, Filed, Status, DeliveredMeansAccepted
<1>3. (\A f \in Flushes : Sending(f))' /\ Firing'
  BY DEF Crash, Sending, FlushOff, Firing, FireOff
<1>4. FiredMeansFiled' /\ OnlyItsOwnPushFinishesAReminder'
  BY DEF Crash, IInv, FiredMeansFiled, Status, OnlyItsOwnPushFinishesAReminder
<1>5. ConnectionsInOrder' /\ NewestKeepsItsSink'
  BY DEF Crash, IInv, ConnectionsInOrder, NewestKeepsItsSink
<1> QED
  BY <1>1, <1>2, <1>3, <1>4, <1>5 DEF IInv

LEMMA StepKeeps == IInv /\ [Next]_vars => IInv'
<1> SUFFICES ASSUME IInv, [Next]_vars
             PROVE  IInv'
  OBVIOUS
<1>1. CASE UNCHANGED vars
  <2>1. TypeOK' /\ Evolves
    BY <1>1, Unmoved DEF vars, IInv, TypeOK
  <2>2. RowPart' /\ ConnPart'
    BY <1>1, <2>1, Unmoved, RowStays, ConnStays DEF vars, IInv
  <2> QED
    BY <2>1, <2>2 DEF IInv, RowPart, ConnPart
<1>2. ASSUME NEW c \in Conns,
             \/ Connect(c) \/ Lose(c) \/ StartTurn(c) \/ EndTurn(c) \/ Detach(c) \/ Act(c)
             \/ \E p \in Pushes : Acknowledge(c, p)
      PROVE  IInv'
  BY <1>2, ConnectKeeps, LoseKeeps, TurnKeeps, DetachKeeps, ActKeeps, AcknowledgeKeeps
<1>3. ASSUME NEW f \in Flushes, Read(f) \/ Sent(f) \/ Mark(f)
      PROVE  IInv'
  BY <1>3, ReadKeeps, SentKeeps, MarkKeeps
<1>4. ASSUME NEW r \in Reminders, FallDue(r) \/ Finish(r) \/ Enqueue(r)
      PROVE  IInv'
  BY <1>4, TimeKeeps, EnqueueKeeps
<1> QED
  BY <1>1, <1>2, <1>3, <1>4, WakeKeeps, ExpireKeeps, ScanKeeps, MarkFiredKeeps, PostKeeps,
     CrashKeeps DEF Next

-----------------------------------------------------------------------------
(* The theorems                                                            *)

THEOREM OutboxInvariant == Spec => []IInv
  BY InitGood, StepKeeps, PTL DEF Spec

\* Rows, sinks, flushes and what the clients have are well typed: in particular a flush
\* never comes to send a row that is not there.
THEOREM TypeCorrect == Spec => []TypeOK
<1>1. IInv => TypeOK
  BY DEF IInv
<1> QED
  BY <1>1, OutboxInvariant, PTL

\* mark_push_delivered: a row is settled as delivered only after a send returned or a
\* client acknowledged it, with any number of flushes at once and a crash at any await.
THEOREM SettledMeansAccepted == Spec => []DeliveredMeansAccepted
<1>1. IInv => DeliveredMeansAccepted
  BY DEF IInv
<1> QED
  BY <1>1, OutboxInvariant, PTL

\* fire_due: a reminder that counts as fired is in the outbox.
THEOREM FiredRemindersAreFiled == Spec => []FiredMeansFiled
<1>1. IInv => FiredMeansFiled
  BY DEF IInv
<1> QED
  BY <1>1, OutboxInvariant, PTL

\* acknowledge: a reminder is finished by its own push only.
THEOREM RemindersAreFinishedByTheirOwn == Spec => []OnlyItsOwnPushFinishesAReminder
<1>1. IInv => OnlyItsOwnPushFinishesAReminder
  BY DEF IInv
<1> QED
  BY <1>1, OutboxInvariant, PTL

\* Deliverer.unbind goes by token: the newest connection of a session keeps its sink.
THEOREM NewestIsBound == Spec => []NewestKeepsItsSink
<1>1. IInv => NewestKeepsItsSink
  BY DEF IInv
<1> QED
  BY <1>1, OutboxInvariant, PTL

\* What a client has it keeps.
LEMMA InboxGrows ==
  ASSUME IInv, Next, NEW c \in Conns
  PROVE  inbox[c] \subseteq inbox'[c]
<1>1. \A d \in Conns : \A p : Arrives(d, p) => inbox[c] \subseteq inbox'[c]
  BY DEF Arrives, IInv, TypeOK
<1>2. ASSUME NEW f \in Flushes, Read(f) \/ Mark(f)
      PROVE  inbox[c] \subseteq inbox'[c]
  <2>1. UNCHANGED inbox \/ \E rows : Take(f, rows)
    BY <1>2 DEF Read, Mark
  <2>2. UNCHANGED inbox \/ \E d \in Conns : \E p : Arrives(d, p)
    BY <2>1 DEF Take, Targets
  <2> QED
    BY <1>1, <2>2
<1>3. ASSUME NEW f \in Flushes, Sent(f)
      PROVE  inbox[c] \subseteq inbox'[c]
  <2>1. flush[f].left \subseteq Conns
    BY DEF IInv, TypeOK, FlushState
  <2>2. UNCHANGED inbox \/ \E d \in Conns : \E p : Arrives(d, p)
    BY <1>3, <2>1 DEF Sent
  <2> QED
    BY <1>1, <2>2
<1>4. CASE UNCHANGED inbox
  BY <1>4
<1> QED
  BY <1>2, <1>3, <1>4
  DEF Next, Connect, Lose, StartTurn, EndTurn, Detach, Act, Acknowledge, Wake, Expire,
     FallDue, Finish, Enqueue, Scan, MarkFired, Post, Crash

\* What is written to a client is the oldest of the rows of some flush.
LEMMA SendsTheOldest ==
  ASSUME IInv, Next, NEW c \in Conns, NEW p \in inbox'[c] \ inbox[c]
  PROVE  \E f \in Flushes, rows \in SUBSET Pushes :
            /\ p = Oldest(rows) /\ rows # {} /\ Backlog(rows)
            /\ flush[f].pc # "send" => c \in Targets(f, sink)
            /\ flush[f].pc = "send" => rows = flush[f].rows /\ c \in flush[f].left
<1>1. inbox \in [Conns -> SUBSET Pushes]
  BY DEF IInv, TypeOK
<1>2. ASSUME NEW f \in Flushes, NEW rows \in SUBSET Pushes, NEW d \in Targets(f, sink),
             TakesOldest(f, rows, d)
      PROVE  p = Oldest(rows) /\ rows # {} /\ c \in Targets(f, sink)
  <2>1. d \in Conns
    BY DEF Targets
  <2> QED
    BY <1>1, <1>2, <2>1 DEF TakesOldest
<1>3. ASSUME NEW f \in Flushes, Read(f)
      PROVE  \E rows \in SUBSET Pushes : /\ p = Oldest(rows) /\ rows # {} /\ Backlog(rows)
                                         /\ flush[f].pc = "read" /\ c \in Targets(f, sink)
  <2> DEFINE batch == {q \in Pending : Cardinality({x \in Pending : x < q}) < Batch}
  <2>1. batch \in SUBSET Pushes /\ Backlog(batch)
    BY BatchIsBacklog DEF Pending, IInv
  <2>2. Take(f, batch) /\ flush[f].pc = "read"
    BY <1>1, <1>3 DEF Read
  <2>3. \E d \in Targets(f, sink) : TakesOldest(f, batch, d)
    BY <1>1, <2>1, <2>2, TakeSends DEF IInv
  <2> QED
    BY <1>2, <2>1, <2>2, <2>3
<1>4. ASSUME NEW f \in Flushes, Mark(f)
      PROVE  \E rows \in SUBSET Pushes : /\ p = Oldest(rows) /\ rows # {} /\ Backlog(rows)
                                         /\ flush[f].pc = "mark" /\ c \in Targets(f, sink)
  <2> DEFINE rest == flush[f].rows \ {Oldest(flush[f].rows)}
  <2>1. /\ flush[f].pc = "mark" /\ flush[f].rows \in SUBSET Pushes
        /\ Backlog(flush[f].rows) /\ Oldest(flush[f].rows) \in accepted
    BY <1>4 DEF Mark, IInv, TypeOK, FlushState, Sending
  <2>2. rest \in SUBSET Pushes /\ Backlog(rest)
    BY <2>1 DEF Backlog
  <2>3. Take(f, rest)
    BY <1>4 DEF Mark
  <2>4. \E d \in Targets(f, sink) : TakesOldest(f, rest, d)
    BY <1>1, <2>2, <2>3, TakeSends DEF IInv
  <2> QED
    BY <1>2, <2>1, <2>2, <2>4
<1>5. ASSUME NEW f \in Flushes, Sent(f)
      PROVE  /\ p = Oldest(flush[f].rows) /\ flush[f].rows # {} /\ Backlog(flush[f].rows)
             /\ flush[f].pc = "send" /\ c \in flush[f].left
             /\ flush[f].rows \in SUBSET Pushes
  <2>1. PICK d \in flush[f].left : Arrives(d, Oldest(flush[f].rows)) /\ flush[f].pc = "send"
    BY <1>1, <1>5 DEF Sent
  <2>2. flush[f].rows \in SUBSET Pushes /\ d \in Conns
    BY <2>1 DEF IInv, TypeOK, FlushState
  <2>3. p = Oldest(flush[f].rows) /\ c = d
    BY <1>1, <2>1, <2>2 DEF Arrives
  <2> QED
    BY <2>1, <2>2, <2>3 DEF IInv, Sending
<1>6. ~UNCHANGED inbox
  BY <1>1
<1>7. \E f \in Flushes : Read(f) \/ Mark(f) \/ Sent(f)
  BY <1>6 DEF Next, Connect, Lose, StartTurn, EndTurn, Detach, Act, Acknowledge, Wake, Expire,
     FallDue, Finish, Enqueue, Scan, MarkFired, Post, Crash
<1> QED
  BY <1>3, <1>4, <1>5, <1>7

\* pending_pushes and flush: a backlog reaches a client in the order it was filed.
THEOREM BacklogArrivesInOrder == Spec => OldestFirst
<1> DEFINE InOrder ==
      \A c \in Conns : \A p \in inbox'[c] \ inbox[c] :
         \A q \in Pushes : q < p /\ Status(q) = "pending" => q \in accepted \/ Seen(q)
<1>1. IInv /\ [Next]_vars => [InOrder]_vars
  <2> SUFFICES ASSUME IInv, Next, NEW c \in Conns, NEW p \in inbox'[c] \ inbox[c],
                      NEW q \in Pushes, q < p, Status(q) = "pending"
               PROVE  q \in accepted
    OBVIOUS
  <2>1. PICK rows \in SUBSET Pushes : p = Oldest(rows) /\ rows # {} /\ Backlog(rows)
    BY SendsTheOldest
  <2>2. p \in rows /\ \A x \in rows : p <= x
    BY <2>1, OldestIsLeast
  <2>3. q \in rows \cup accepted
    BY <2>1, <2>2 DEF Backlog
  <2>4. q \notin rows
    BY <2>1, <2>2, Numbers
  <2> QED
    BY <2>3, <2>4
<1> QED
  BY <1>1, OutboxInvariant, PTL DEF Spec, OldestFirst

\* _targets: whom a flush sends one row to are the sinks of different sessions, and the
\* flush of a connection has no one but its own.
FansOut(f) ==
    /\ \A c, d \in flush[f].left : SessionOf[c] = SessionOf[d] => c = d
    /\ flush[f].pc = "send" => \A c \in flush[f].left : SessionOf[c] # SessionOf[flush[f].to]
    /\ f # Loop => flush[f].left = {}

FanOuts == \A f \in Flushes : FansOut(f)

LEMMA TakeFansOut ==
  ASSUME IInv, FanOuts, NEW f \in Flushes, NEW rows \in SUBSET Pushes, Take(f, rows)
  PROVE  FanOuts'
<1>1. \A c, d \in Targets(f, sink) :
         /\ SessionOf[c] = SessionOf[d] => c = d
         /\ f # Loop => c = d
  BY DEF Targets
<1>2. /\ \A g \in Flushes : g # f => flush'[g] = flush[g]
      /\ \/ flush'[f] = FlushOff
         \/ \E c \in Targets(f, sink) : TakesOldest(f, rows, c)
  BY TakeSends DEF IInv
<1>3. CASE flush'[f] = FlushOff
  BY <1>2, <1>3 DEF FanOuts, FansOut, FlushOff
<1>4. ASSUME NEW c \in Targets(f, sink), TakesOldest(f, rows, c)
      PROVE  FanOuts'
  <2>1. flush'[f].left = Targets(f, sink) \ {c} /\ flush'[f].to = c
    BY <1>4 DEF TakesOldest
  <2>2. FansOut(f)'
    BY <1>1, <2>1 DEF FansOut
  <2> QED
    BY <1>2, <2>2 DEF FanOuts, FansOut
<1> QED
  BY <1>2, <1>3, <1>4

LEMMA FanOutsStay == IInv /\ FanOuts /\ [Next]_vars => FanOuts'
<1> SUFFICES ASSUME IInv, FanOuts, [Next]_vars
             PROVE  FanOuts'
  OBVIOUS
<1>2. flush \in [Flushes -> FlushState] /\ FlushOff.left = {} /\ FlushOff.pc = "off"
  BY DEF IInv, TypeOK, FlushOff
<1>3. ASSUME NEW f \in Flushes, NEW r, flush' = [flush EXCEPT ![f] = r],
             r.left = {} \/ (r.left = flush[f].left /\ r.pc # "send")
      PROVE  FanOuts'
  <2>1. flush'[f] = r /\ \A g \in Flushes : g # f => flush'[g] = flush[g]
    BY <1>2, <1>3
  <2>2. FansOut(f)'
    BY <1>3, <2>1 DEF FanOuts, FansOut
  <2> QED
    BY <2>1, <2>2 DEF FanOuts, FansOut
<1>4. ASSUME NEW f \in Flushes, Read(f)
      PROVE  FanOuts'
  <2>1. {p \in Pending : Cardinality({q \in Pending : q < p}) < Batch} \in SUBSET Pushes
    BY DEF Pending
  <2> QED
    BY <1>2, <1>3, <1>4, <2>1, TakeFansOut DEF Read
<1>5. ASSUME NEW f \in Flushes, Mark(f)
      PROVE  FanOuts'
  <2>1. flush[f].rows \ {Oldest(flush[f].rows)} \in SUBSET Pushes
    BY <1>2 DEF FlushState
  <2> QED
    BY <1>5, <2>1, TakeFansOut DEF Mark
<1>6. ASSUME NEW f \in Flushes, Sent(f)
      PROVE  FanOuts'
  <2>1. CASE \E d \in flush[f].left : \E took \in BOOLEAN :
               flush' = [flush EXCEPT ![f].left = @ \ {d}, ![f].to = d, ![f].ok = @ \/ took]
    <3>1. PICK d \in flush[f].left, took \in BOOLEAN :
            flush' = [flush EXCEPT ![f].left = @ \ {d}, ![f].to = d, ![f].ok = @ \/ took]
      BY <2>1
    <3> DEFINE r == [flush[f] EXCEPT !.left = @ \ {d}, !.to = d, !.ok = @ \/ took]
    <3>2. r.left = flush[f].left \ {d} /\ r.to = d
      BY <1>2 DEF FlushState
    <3>3. flush'[f] = r /\ \A g \in Flushes : g # f => flush'[g] = flush[g]
      BY <1>2, <3>1
    <3> HIDE DEF r
    <3>4. FansOut(f)'
      BY <3>2, <3>3 DEF FanOuts, FansOut
    <3> QED
      BY <3>3, <3>4 DEF FanOuts, FansOut
  <2>2. CASE \E took \in BOOLEAN :
               flush' = [flush EXCEPT ![f] = IF Delivered(f, took)
                           THEN [@ EXCEPT !.pc = "mark"] ELSE FlushOff]
    <3>1. [flush[f] EXCEPT !.pc = "mark"].left = flush[f].left
          /\ [flush[f] EXCEPT !.pc = "mark"].pc = "mark"
      BY <1>2 DEF FlushState
    <3> QED
      BY <1>2, <1>3, <2>2, <3>1
  <2> QED
    BY <1>6, <2>1, <2>2 DEF Sent
<1>7. ASSUME NEW c \in Conns, Connect(c)
      PROVE  FanOuts'
  <2>1. c \in Flushes /\ flush' = [flush EXCEPT ![c] = [flush[c] EXCEPT !.pc = "read"]]
    BY <1>7, Numbers DEF Connect
  <2>2. [flush[c] EXCEPT !.pc = "read"].left = flush[c].left
        /\ [flush[c] EXCEPT !.pc = "read"].pc = "read"
    BY <1>2, <2>1 DEF FlushState
  <2> QED
    BY <1>3, <2>1, <2>2
<1>8. CASE Wake
  <2>1. Loop \in Flushes /\ flush' = [flush EXCEPT ![Loop] = [flush[Loop] EXCEPT !.pc = "read"]]
    BY <1>8, Numbers DEF Wake
  <2>2. [flush[Loop] EXCEPT !.pc = "read"].left = flush[Loop].left
        /\ [flush[Loop] EXCEPT !.pc = "read"].pc = "read"
    BY <1>2, <2>1 DEF FlushState
  <2> QED
    BY <1>3, <2>1, <2>2
<1>9. CASE Crash
  BY <1>2, <1>9 DEF Crash, FanOuts, FansOut
<1>10. CASE UNCHANGED flush
  BY <1>10 DEF FanOuts, FansOut
<1> QED
  BY <1>4, <1>5, <1>6, <1>7, <1>8, <1>9, <1>10
  DEF Next, Lose, StartTurn, EndTurn, Detach, Act, Acknowledge, Expire,
     FallDue, Finish, Enqueue, Scan, MarkFired, Post, vars

\* push.py's first rule, as far as it goes, for any number of clients and sessions: no
\* push lands mid-turn but behind a send of the delivery loop to another session.
THEOREM PushesWaitForTheTurn == Spec => MidTurnOnlyBehindAnother
<1> DEFINE Between == \A c \in Conns :
                        inbox'[c] # inbox[c] /\ busy[c]
                          => /\ flush[Loop].pc = "send" /\ c \in flush[Loop].left
                             /\ SessionOf[flush[Loop].to] # SessionOf[c]
<1>1. Init => FanOuts
  BY DEF Init, FanOuts, FansOut, FlushOff
<1>2. IInv /\ FanOuts /\ [Next]_vars => FanOuts'
  BY FanOutsStay
<1>3. IInv /\ FanOuts /\ [Next]_vars => [Between]_vars
  <2> SUFFICES ASSUME IInv, FanOuts, Next, NEW c \in Conns, inbox'[c] # inbox[c], busy[c]
               PROVE  /\ flush[Loop].pc = "send" /\ c \in flush[Loop].left
                      /\ SessionOf[flush[Loop].to] # SessionOf[c]
    OBVIOUS
  <2>1. inbox[c] \subseteq inbox'[c]
    BY InboxGrows
  <2>2. PICK p : p \in inbox'[c] \ inbox[c]
    BY <2>1
  <2>3. PICK f \in Flushes : /\ flush[f].pc # "send" => c \in Targets(f, sink)
                             /\ flush[f].pc = "send" => c \in flush[f].left
    BY <2>2, SendsTheOldest
  <2>4. flush[f].pc = "send" /\ c \in flush[f].left
    BY <2>3 DEF Targets, Idle
  <2>5. f = Loop /\ SessionOf[flush[f].to] # SessionOf[c]
    BY <2>4 DEF FanOuts, FansOut
  <2> QED
    BY <2>4, <2>5
<1> QED
  BY <1>1, <1>2, <1>3, OutboxInvariant, PTL DEF Spec, MidTurnOnlyBehindAnother
=============================================================================
