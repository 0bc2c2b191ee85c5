---------------------------- MODULE Sessions_proofs -----------------------------
(***************************************************************************)
(* What holds of sessions whatever the limits, the number of connections and  *)
(* the settings there are.                                                   *)
(***************************************************************************)
EXTENDS Sessions, NaturalsInduction, WellFoundedInduction, FiniteSetTheorems, TLAPS

\* A connection that is on has a session, and only one that is up has a turn.
Attached ==
    \A c \in Conns :
        /\ conn[c].pc # "off" => conn[c].session # NoSession
        /\ conn[c].turn.step # "none" => conn[c].pc = "up"

\* What a reply was spoken with is what was read when it began.
SaidAsPinned ==
    \A c \in Conns :
        /\ conn[c].turn.said \subseteq {conn[c].turn.pinned}
        /\ conn[c].turn.step # "speaking" => conn[c].turn.said = {}

\* The limiter remembers the last turns it let in, and those it forgot have left the window.
Remembers(a, e) ==
    /\ Len(e) <= Len(a)
    /\ \A i \in 1 .. Len(e) : e[i] = a[Len(a) - Len(e) + i]
    /\ \A i \in 1 .. Len(a) - Len(e) : a[i] + RateWindow <= now

LimitersRemember == \A s \in Ids : Remembers(admitted[s], session[s].events)

-----------------------------------------------------------------------------
(* Purging                                                                 *)

\* A set of numbers that is not empty has a smallest one.
LEMMA Smallest ==
  ASSUME NEW T \in SUBSET Nat, T # {}
  PROVE  \E x \in T : \A y \in T : x <= y
<1>1. PICK x \in T : \A y \in T : ~(<<y, x>> \in OpToRel(<, Nat))
  BY WFMin, NatLessThanWellFounded, Zenon
<1>2. \A y \in T : ~(y < x)
  BY <1>1 DEF OpToRel
<1>3. x \in Nat /\ \A y \in T : y \in Nat
  OBVIOUS
<1> QED BY <1>2, <1>3

\* _purge drops a front of the events, all of which have left the window.
LEMMA PurgedIsTheRest ==
  ASSUME NEW T \in SUBSET Nat, NEW e \in Seq(T)
  PROVE  \E k \in 1 .. Len(e) + 1 :
            /\ Purged(e) \in Seq(T)
            /\ Len(Purged(e)) = Len(e) - k + 1
            /\ \A i \in 1 .. Len(e) - k + 1 : Purged(e)[i] = e[k + i - 1]
            /\ \A i \in 1 .. k - 1 : ~InWindow(e[i])
<1> DEFINE young == {i \in DOMAIN e : InWindow(e[i])}
<1>0. DOMAIN e = 1 .. Len(e) /\ Len(e) \in Nat
  OBVIOUS
<1>1. CASE young = {}
  <2>1. Purged(e) = <<>>
    BY <1>1 DEF Purged
  <2>2. \A i \in 1 .. Len(e) : ~InWindow(e[i])
    BY <1>0, <1>1
  <2>3. WITNESS Len(e) + 1 \in 1 .. Len(e) + 1
  <2> QED BY <1>0, <2>1, <2>2
<1>2. CASE young # {}
  <2> DEFINE k == CHOOSE i \in young : \A j \in young : i <= j
  <2>1. young \in SUBSET Nat
    BY <1>0
  <2>2. \E i \in young : \A j \in young : i <= j
    BY <1>2, <2>1, Smallest
  <2>3. k \in young /\ \A j \in young : k <= j
    BY <2>2
  <2>4. Purged(e) = SubSeq(e, k, Len(e))
    BY <1>2 DEF Purged
  <2>5. k \in 1 .. Len(e) /\ \A i \in 1 .. k - 1 : i \notin young
    BY <2>3, <1>0
  <2> HIDE DEF k
  <2>6. \A i \in 1 .. k - 1 : ~InWindow(e[i])
    BY <2>5, <1>0
  <2>7. /\ SubSeq(e, k, Len(e)) \in Seq(T)
        /\ Len(SubSeq(e, k, Len(e))) = Len(e) - k + 1
        /\ \A i \in 1 .. Len(e) - k + 1 : SubSeq(e, k, Len(e))[i] = e[k + i - 1]
    BY <2>5, <1>0
  <2>8. k \in 1 .. Len(e) + 1
    BY <2>5, <1>0
  <2> QED BY <2>4, <2>6, <2>7, <2>8
<1> QED BY <1>1, <1>2

-----------------------------------------------------------------------------
(* Types                                                                   *)

LEMMA InitTyped == Init => TypeOK /\ Attached /\ SaidAsPinned
<1> USE SessionsAssumption
<1> SUFFICES ASSUME Init PROVE TypeOK /\ Attached /\ SaidAsPinned
  OBVIOUS
<1>1. New \in Object /\ Len(New.events) <= RateTurns
  BY DEF New, Object
<1>2. Silent \in Turn
  BY DEF Silent, Turn
<1>3. Away \in Connection
  BY <1>2 DEF Away, Connection
<1>4. TypeOK
  BY <1>1, <1>3 DEF Init, TypeOK
<1>5. Attached /\ SaidAsPinned
  BY DEF Init, Attached, SaidAsPinned, Away, Silent
<1> QED BY <1>4, <1>5

\* What the limiter, and a turn that is let in, make of the object of their session
LEMMA ObjectsTyped ==
  ASSUME NEW o \in Object, NEW e \in Seq(0 .. MaxTime), NEW t \in 0 .. MaxTime
  PROVE  /\ [o EXCEPT !.events = e] \in Object
         /\ [o EXCEPT !.events = e].events = e
         /\ [o EXCEPT !.events = e, !.turns = @ + 1, !.active = t] \in Object
         /\ [o EXCEPT !.events = e, !.turns = @ + 1, !.active = t].events = e
<1> DEFINE Events == Seq(0 .. MaxTime)
<1> DEFINE Times == 0 .. MaxTime
<1>1. o \in [active : Times, events : Events, turns : Nat, setting : Values]
  BY DEF Object
<1>2. e \in Events /\ t \in Times
  OBVIOUS
<1> HIDE DEF Events, Times
<1>3. /\ [o EXCEPT !.events = e]
           \in [active : Times, events : Events, turns : Nat, setting : Values]
      /\ [o EXCEPT !.events = e].events = e
  BY <1>1, <1>2
<1>4. /\ [o EXCEPT !.events = e, !.turns = @ + 1, !.active = t]
           \in [active : Times, events : Events, turns : Nat, setting : Values]
      /\ [o EXCEPT !.events = e, !.turns = @ + 1, !.active = t].events = e
  <2> DEFINE n == o.turns + 1
  <2>1. n \in Nat
    BY <1>1
  <2> HIDE DEF n
  <2>2. /\ [o EXCEPT !.events = e, !.turns = n, !.active = t]
             \in [active : Times, events : Events, turns : Nat, setting : Values]
        /\ [o EXCEPT !.events = e, !.turns = n, !.active = t].events = e
    BY <1>1, <1>2, <2>1
  <2> QED BY <2>2 DEF n
<1> QED BY <1>3, <1>4 DEF Events, Times, Object

\* What the beginning of a turn makes of it, when the limiter has counted it before
LEMMA CountedTyped ==
  ASSUME NEW o \in Object, NEW t \in 0 .. MaxTime
  PROVE  /\ [o EXCEPT !.turns = @ + 1, !.active = t] \in Object
         /\ [o EXCEPT !.turns = @ + 1, !.active = t].events = o.events
<1> DEFINE Events == Seq(0 .. MaxTime)
           n == o.turns + 1
<1>1. /\ o \in [active : 0 .. MaxTime, events : Events, turns : Nat, setting : Values]
      /\ n \in Nat
  BY DEF Object
<1> HIDE DEF Events, n
<1>2. /\ [o EXCEPT !.turns = n, !.active = t]
           \in [active : 0 .. MaxTime, events : Events, turns : Nat, setting : Values]
      /\ [o EXCEPT !.turns = n, !.active = t].events = o.events
  BY <1>1
<1> QED BY <1>2 DEF Object, Events, n

\* A step that changes the objects of one session, or of none, and one connection
LEMMA OneOfEach ==
  ASSUME TypeOK, Attached, SaidAsPinned,
         NEW s \in Ids, NEW c \in Conns,
         NEW object \in Object, Len(object.events) <= RateTurns,
         NEW connection \in Connection,
         session' = session \/ session' = [session EXCEPT ![s] = object],
         conn' = [conn EXCEPT ![c] = connection],
         connection.pc # "off" => connection.session # NoSession,
         connection.turn.step # "none" => connection.pc = "up",
         connection.turn.said \subseteq {connection.turn.pinned},
         connection.turn.step # "speaking" => connection.turn.said = {}
  PROVE  /\ session' \in [Ids -> Object]
         /\ \A r \in Ids : Len(session'[r].events) <= RateTurns
         /\ conn' \in [Conns -> Connection]
         /\ Attached' /\ SaidAsPinned'
<1>1. session' \in [Ids -> Object] /\ \A r \in Ids : Len(session'[r].events) <= RateTurns
  BY DEF TypeOK
<1>2. conn' \in [Conns -> Connection]
  BY DEF TypeOK
<1>3. conn'[c] = connection /\ \A d \in Conns : d # c => conn'[d] = conn[d]
  BY DEF TypeOK
<1>4. Attached'
  BY <1>3 DEF Attached
<1>5. SaidAsPinned'
  BY <1>3 DEF SaidAsPinned
<1> QED BY <1>1, <1>2, <1>4, <1>5

\* Each step keeps the types, and what is known of connections and their turns.
LEMMA StepTyped ==
  ASSUME TypeOK, Attached, SaidAsPinned, [Next]_vars
  PROVE  TypeOK' /\ Attached' /\ SaidAsPinned'
<1> USE SessionsAssumption
<1>t. /\ now \in 0 .. MaxTime /\ now \in Nat /\ made \in 0 .. MaxSessions
      /\ registry \subseteq 1 .. made
      /\ \A s \in Ids : session[s] \in Object /\ Len(session[s].events) <= RateTurns
      /\ \A c \in Conns : conn[c] \in Connection
      /\ \A c \in Conns : conn[c].pc # "off" => conn[c].session \in Ids
      /\ admitted \in [Ids -> Seq(0 .. MaxTime)]
      /\ session \in [Ids -> Object] /\ conn \in [Conns -> Connection]
  BY DEF TypeOK, Attached, Connection
<1>n. Silent \in Turn /\ Silent.said = {} /\ Silent.step = "none"
  BY DEF Silent, Turn
<1>a. Away \in Connection /\ Away.pc = "off" /\ Away.turn = Silent
  BY <1>n DEF Away, Connection
<1>s. \A s \in Ids : [session[s] EXCEPT !.active = now] \in Object
                     /\ [session[s] EXCEPT !.active = now].events = session[s].events
  BY <1>t DEF Object
<1>c. ASSUME NEW c \in Conns
      PROVE  /\ conn[c] \in Connection /\ conn[c].turn \in Turn
             /\ conn[c].turn.said \subseteq {conn[c].turn.pinned}
             /\ conn[c].turn.step # "speaking" => conn[c].turn.said = {}
             /\ conn[c].pc # "up" => conn[c].turn.step = "none"
             /\ conn[c].pc # "off" => conn[c].session # NoSession
  BY <1>t DEF Connection, SaidAsPinned, Attached
<1>1. CASE Tick
  BY <1>1 DEF Tick, TypeOK, Attached, SaidAsPinned
<1>2. ASSUME NEW c \in Conns, Connect(c)
      PROVE  TypeOK' /\ Attached' /\ SaidAsPinned'
  <2>1. PICK s \in Ids : /\ session' = [session EXCEPT ![s].active = now]
                         /\ conn' = [conn EXCEPT ![c].pc = "greeting", ![c].session = s]
                         /\ made' \in 0 .. MaxSessions
                         /\ registry' \subseteq 1 .. made'
    <3>1. ASSUME Create(c)
          PROVE  /\ made + 1 \in Ids
                 /\ session' = [session EXCEPT ![made + 1].active = now]
                 /\ conn' = [conn EXCEPT ![c].pc = "greeting", ![c].session = made + 1]
                 /\ made' \in 0 .. MaxSessions
                 /\ registry' \subseteq 1 .. made'
      BY <3>1, <1>t DEF Create, Ids, Expired
    <3>2. ASSUME NEW s \in Ids, Resume(c, s)
          PROVE  /\ session' = [session EXCEPT ![s].active = now]
                 /\ conn' = [conn EXCEPT ![c].pc = "greeting", ![c].session = s]
                 /\ made' \in 0 .. MaxSessions
                 /\ registry' \subseteq 1 .. made'
      BY <3>2, <1>t DEF Resume
    <3> QED BY <1>2, <3>1, <3>2 DEF Connect
  <2> DEFINE object == [session[s] EXCEPT !.active = now]
             connection == [conn[c] EXCEPT !.pc = "greeting", !.session = s]
  <2>2. session' = [session EXCEPT ![s] = object] /\ conn' = [conn EXCEPT ![c] = connection]
    BY <2>1, <1>t
  <2>3. object \in Object /\ Len(object.events) <= RateTurns
    BY <1>s, <1>t
  <2>4. /\ connection \in Connection /\ connection.session # NoSession
        /\ connection.turn = conn[c].turn
    <3>1. s # NoSession
      BY DEF NoSession, Ids
    <3>2. conn[c] \in Connection
      BY <1>c
    <3> QED BY <3>1, <3>2 DEF Connection
  <2>5. connection.turn.step = "none"
    BY <2>4, <1>c, <1>2 DEF Connect
  <2> HIDE DEF object, connection
  <2>6. /\ session' \in [Ids -> Object]
        /\ \A r \in Ids : Len(session'[r].events) <= RateTurns
        /\ conn' \in [Conns -> Connection]
        /\ Attached' /\ SaidAsPinned'
    BY <2>2, <2>3, <2>4, <2>5, <1>c, OneOfEach
  <2>7. UNCHANGED <<now, admitted>>
    BY <1>2 DEF Connect
  <2> QED BY <2>1, <2>6, <2>7, <1>t DEF TypeOK
<1>3. ASSUME NEW c \in Conns, Greet(c)
      PROVE  TypeOK' /\ Attached' /\ SaidAsPinned'
  <2> DEFINE setting == session[conn[c].session].setting
             connection == [conn[c] EXCEPT !.pc = "up", !.shown = setting, !.behind = FALSE]
  <2>1. setting \in Values /\ conn[c].session \in Ids
    BY <1>3, <1>t DEF Greet, Object
  <2>2. conn' = [conn EXCEPT ![c] = connection]
    BY <1>3, <1>t DEF Greet
  <2>3. /\ connection \in Connection /\ connection.session = conn[c].session
        /\ connection.turn = conn[c].turn /\ connection.pc = "up"
    BY <2>1, <1>t DEF Connection
  <2>4. UNCHANGED <<now, made, registry, session, admitted>> /\ conn[c].pc = "greeting"
    BY <1>3 DEF Greet
  <2> DEFINE s == conn[c].session
             object == session[s]
  <2>o. s \in Ids /\ object \in Object /\ Len(object.events) <= RateTurns
    BY <2>1, <1>t
  <2>p. connection.turn.step = "none" /\ connection.turn.said = {} /\ connection.session # NoSession
    BY <2>3, <2>4, <1>c
  <2> HIDE DEF connection, object, s
  <2>5. /\ session' \in [Ids -> Object]
        /\ \A r \in Ids : Len(session'[r].events) <= RateTurns
        /\ conn' \in [Conns -> Connection]
        /\ Attached' /\ SaidAsPinned'
    BY <2>o, <2>p, <2>2, <2>3, <2>4, OneOfEach
  <2> QED BY <2>4, <2>5, <1>t DEF TypeOK
<1>4. ASSUME NEW c \in Conns, Vanish(c) \/ Disconnect(c)
      PROVE  TypeOK' /\ Attached' /\ SaidAsPinned'
  <2> DEFINE s == conn[c].session
             object == [session[s] EXCEPT !.active = now]
  <2>1. s \in Ids
    BY <1>4, <1>t DEF Vanish, Disconnect, Listening
  <2>2. /\ conn' = [conn EXCEPT ![c] = Away]
        /\ session' = session \/ session' = [session EXCEPT ![s] = object]
        /\ UNCHANGED <<now, made, registry, admitted>>
    BY <1>4, <2>1, <1>t DEF Vanish, Disconnect, Listening
  <2>3. object \in Object /\ Len(object.events) <= RateTurns
    BY <2>1, <1>s, <1>t
  <2> HIDE DEF object, s
  <2>4. /\ session' \in [Ids -> Object]
        /\ \A r \in Ids : Len(session'[r].events) <= RateTurns
        /\ conn' \in [Conns -> Connection]
        /\ Attached' /\ SaidAsPinned'
    BY <2>1, <2>2, <2>3, <1>a, <1>n, OneOfEach
  <2> QED BY <2>2, <2>4, <1>t DEF TypeOK
<1>5. ASSUME NEW c \in Conns, Refuse(c) \/ Admit(c)
      PROVE  TypeOK' /\ Attached' /\ SaidAsPinned'
  <2> DEFINE s == conn[c].session
             rest == Purged(session[s].events)
  <2>1. s \in Ids /\ conn[c].pc = "up"
    BY <1>5, <1>t DEF Refuse, Admit, Listening
  <2>2. rest \in Seq(0 .. MaxTime) /\ Len(rest) <= Len(session[s].events) /\ Len(rest) \in Nat
    <3>1. 0 .. MaxTime \in SUBSET Nat
      OBVIOUS
    <3>2. session[s].events \in Seq(0 .. MaxTime)
      BY <2>1, <1>t DEF Object
    <3>3. PICK k \in 1 .. Len(session[s].events) + 1 :
                 rest \in Seq(0 .. MaxTime) /\ Len(rest) = Len(session[s].events) - k + 1
      BY <3>1, <3>2, PurgedIsTheRest
    <3> QED BY <3>2, <3>3
  <2>3. Len(session[s].events) <= RateTurns /\ Len(session[s].events) \in Nat
    BY <2>1, <1>t DEF Object
  <2>4. ASSUME Refuse(c) PROVE TypeOK' /\ Attached' /\ SaidAsPinned'
    <3> DEFINE object == [session[s] EXCEPT !.events = rest]
    <3>1. session' = [session EXCEPT ![s] = object]
      BY <2>4, <2>1, <1>t DEF Refuse
    <3>2. object \in Object /\ Len(object.events) <= RateTurns
      <4>1. session[s] \in Object
        BY <2>1, <1>t
      <4> HIDE DEF rest, s
      <4>2. object \in Object /\ object.events = rest
        BY <2>2, <4>1, <1>t, ObjectsTyped
      <4> QED BY <2>2, <2>3, <4>2
    <3> HIDE DEF object
    <3>3. session' \in [Ids -> Object] /\ \A r \in Ids : Len(session'[r].events) <= RateTurns
      BY <2>1, <3>1, <3>2, <1>t
    <3>4. UNCHANGED <<now, made, registry, conn, admitted>>
      BY <2>4 DEF Refuse
    <3>5. TypeOK'
      BY <3>3, <3>4, <1>t DEF TypeOK
    <3>6. Attached' /\ SaidAsPinned'
      BY <3>4 DEF Attached, SaidAsPinned
    <3> QED BY <3>5, <3>6
  <2>5. ASSUME Admit(c) PROVE TypeOK' /\ Attached' /\ SaidAsPinned'
    <3> DEFINE connection == IF conn[c].turn.step = "none" THEN [conn[c] EXCEPT !.turn = Created]
                             ELSE [conn[c] EXCEPT !.starting = TRUE]
               object == IF conn[c].turn.step = "none"
                         THEN [session[s] EXCEPT !.events = Append(rest, now), !.turns = @ + 1,
                                                 !.active = now]
                         ELSE [session[s] EXCEPT !.events = Append(rest, now)]
    <3>1. /\ admitted' = [admitted EXCEPT ![s] = Append(@, now)]
          /\ UNCHANGED <<now, made, registry>>
      BY <2>5 DEF Admit
    <3>2. Len(rest) < RateTurns
      BY <2>5 DEF Admit, Allows
    <3>3. session' = [session EXCEPT ![s] = object] /\ conn' = [conn EXCEPT ![c] = connection]
      BY <2>5, <2>1, <1>t DEF Admit
    <3>4. object \in Object /\ Len(object.events) <= RateTurns
      <4>2. session[s] \in Object
        BY <2>1, <1>t
      <4> HIDE DEF rest, s
      <4>1. Append(rest, now) \in Seq(0 .. MaxTime) /\ Len(Append(rest, now)) <= RateTurns
        BY <2>2, <3>2, <1>t
      <4>3. /\ [session[s] EXCEPT !.events = Append(rest, now), !.turns = @ + 1, !.active = now]
                 \in Object
            /\ [session[s] EXCEPT !.events = Append(rest, now), !.turns = @ + 1,
                                  !.active = now].events = Append(rest, now)
        BY <4>1, <4>2, <1>t, ObjectsTyped
      <4>4. /\ [session[s] EXCEPT !.events = Append(rest, now)] \in Object
            /\ [session[s] EXCEPT !.events = Append(rest, now)].events = Append(rest, now)
        BY <4>1, <4>2, <1>t, ObjectsTyped
      <4>5. object \in Object /\ object.events = Append(rest, now)
        <5>1. CASE conn[c].turn.step = "none"
          BY <4>3, <5>1
        <5>2. CASE conn[c].turn.step # "none"
          BY <4>4, <5>2
        <5> QED BY <5>1, <5>2
      <4> QED BY <4>1, <4>5
    <3>5. Created \in Turn /\ Created.said = {} /\ Created.step = "created"
      BY DEF Turn, Silent, Created
    <3>6. /\ connection \in Connection /\ connection.turn \in {conn[c].turn, Created}
          /\ connection.pc = "up" /\ connection.session # NoSession
      BY <2>1, <3>5, <1>t, <1>c DEF Connection
    <3>9. /\ connection.turn.said \subseteq {connection.turn.pinned}
          /\ connection.turn.step # "speaking" => connection.turn.said = {}
      <4> HIDE DEF connection
      <4> QED BY <3>5, <3>6, <1>c
    <3> HIDE DEF object, connection
    <3>7. admitted' \in [Ids -> Seq(0 .. MaxTime)]
      BY <2>1, <3>1, <1>t
    <3>8. /\ session' \in [Ids -> Object]
          /\ \A r \in Ids : Len(session'[r].events) <= RateTurns
          /\ conn' \in [Conns -> Connection]
          /\ Attached' /\ SaidAsPinned'
      BY <2>1, <3>3, <3>4, <3>6, <3>9, OneOfEach
    <3> QED BY <3>1, <3>7, <3>8, <1>t DEF TypeOK
  <2> QED BY <1>5, <2>4, <2>5
<1>6. ASSUME NEW c \in Conns, Begin(c) \/ Say(c) \/ EndTurn(c)
      PROVE  TypeOK' /\ Attached' /\ SaidAsPinned'
  <2> DEFINE setting == session[conn[c].session].setting
  <2>1. conn[c].pc = "up" /\ conn[c].session \in Ids /\ setting \in Values
    BY <1>6, <1>t, <1>c DEF Begin, Say, EndTurn, Object
  <2>2. PICK turn \in Turn : /\ conn' = [conn EXCEPT ![c].turn = turn]
                             /\ turn.said \subseteq {turn.pinned}
                             /\ turn.step # "speaking" => turn.said = {}
    <3>1. ASSUME Begin(c)
          PROVE  LET turn == [conn[c].turn EXCEPT !.step = "speaking", !.pinned = setting]
                 IN  /\ turn \in Turn /\ conn' = [conn EXCEPT ![c].turn = turn]
                     /\ turn.said = {} /\ turn.step = "speaking"
      <4> DEFINE turn == [conn[c].turn EXCEPT !.step = "speaking", !.pinned = setting]
      <4>1. conn' = [conn EXCEPT ![c].turn = turn]
        BY <3>1, <1>t DEF Begin, Connection, Turn
      <4>2. conn[c].turn \in Turn /\ conn[c].turn.said = {}
        BY <3>1, <1>c DEF Begin
      <4>3. turn \in Turn /\ turn.said = {} /\ turn.step = "speaking"
        <5> HIDE DEF setting
        <5> QED BY <4>2, <2>1 DEF Turn
      <4> QED BY <4>1, <4>3
    <3>2. ASSUME Say(c)
          PROVE  LET turn == [conn[c].turn EXCEPT !.said = @ \cup {conn[c].turn.pinned}]
                 IN  /\ turn \in Turn /\ conn' = [conn EXCEPT ![c].turn = turn]
                     /\ turn.said \subseteq {turn.pinned} /\ turn.step = "speaking"
      BY <3>2, <1>c, <1>t DEF Say, Voiced, Turn
    <3>3. ASSUME EndTurn(c) PROVE conn' = [conn EXCEPT ![c].turn = Silent]
      BY <3>3 DEF EndTurn
    <3> QED BY <1>6, <1>n, <3>1, <3>2, <3>3
  <2> DEFINE connection == [conn[c] EXCEPT !.turn = turn]
  <2>3. conn' = [conn EXCEPT ![c] = connection]
    BY <2>2, <1>t
  <2>4. /\ connection \in Connection /\ connection.turn = turn
        /\ connection.pc = "up" /\ connection.session # NoSession
    BY <2>1, <2>2, <1>t, <1>c DEF Connection
  <2>5. UNCHANGED <<now, made, registry, session, admitted>>
    BY <1>6 DEF Begin, Say, EndTurn
  <2> DEFINE s == conn[c].session
             object == session[s]
  <2>o. s \in Ids /\ object \in Object /\ Len(object.events) <= RateTurns
    BY <2>1, <1>t
  <2> HIDE DEF connection, object, s
  <2>6. /\ session' \in [Ids -> Object]
        /\ \A r \in Ids : Len(session'[r].events) <= RateTurns
        /\ conn' \in [Conns -> Connection]
        /\ Attached' /\ SaidAsPinned'
    BY <2>o, <2>2, <2>3, <2>4, <2>5, OneOfEach
  <2> QED BY <2>5, <2>6, <1>t DEF TypeOK
<1>7. ASSUME NEW c \in Conns, StartTurn(c)
      PROVE  TypeOK' /\ Attached' /\ SaidAsPinned'
  <2> DEFINE s == conn[c].session
             object == [session[s] EXCEPT !.turns = @ + 1, !.active = now]
             connection == [conn[c] EXCEPT !.starting = FALSE, !.turn = Created]
  <2>1. s \in Ids /\ conn[c].pc = "up"
    BY <1>7, <1>t DEF StartTurn
  <2>2. /\ session' = [session EXCEPT ![s] = object] /\ conn' = [conn EXCEPT ![c] = connection]
        /\ UNCHANGED <<now, made, registry, admitted>>
    BY <1>7, <2>1, <1>t DEF StartTurn
  <2>3. object \in Object /\ object.events = session[s].events
    <3>1. session[s] \in Object
      BY <2>1, <1>t
    <3> HIDE DEF s
    <3> QED BY <3>1, <1>t, CountedTyped
  <2>4. Created \in Turn /\ Created.said = {} /\ Created.step = "created"
    BY DEF Turn, Silent, Created
  <2>5. /\ connection \in Connection /\ connection.turn = Created
        /\ connection.pc = "up" /\ connection.session # NoSession
    BY <2>1, <2>4, <1>t, <1>c DEF Connection
  <2>6. Len(object.events) <= RateTurns
    BY <2>1, <2>3, <1>t
  <2> HIDE DEF object, connection, s
  <2>7. /\ session' \in [Ids -> Object]
        /\ \A r \in Ids : Len(session'[r].events) <= RateTurns
        /\ conn' \in [Conns -> Connection]
        /\ Attached' /\ SaidAsPinned'
    BY <2>1, <2>2, <2>3, <2>4, <2>5, <2>6, OneOfEach
  <2> QED BY <2>2, <2>7, <1>t DEF TypeOK
<1>9. ASSUME NEW c \in Conns, NEW v \in Values, conn[c].pc = "up", Change(c, v)
      PROVE  TypeOK' /\ Attached' /\ SaidAsPinned'
  <2>1. /\ session' = [session EXCEPT ![conn[c].session].setting = v]
        /\ UNCHANGED <<now, made, registry, admitted>>
    BY <1>9 DEF Change
  <2>2. conn' = [d \in Conns |->
                   IF d = c THEN [conn[c] EXCEPT !.shown = v, !.behind = FALSE]
                   ELSE [conn[d] EXCEPT !.behind = @ \/ conn[d].session = conn[c].session]]
    BY <1>9, Zenon DEF Change, Told
  <2>3. ASSUME NEW d \in Conns, NEW b \in BOOLEAN
        PROVE  /\ [conn[d] EXCEPT !.shown = v, !.behind = FALSE] \in Connection
               /\ [conn[d] EXCEPT !.behind = b] \in Connection
    BY <1>t DEF Connection
  <2>4. conn' \in [Conns -> Connection]
    <3>1. \A d \in Conns : (conn[d].behind \/ conn[d].session = conn[c].session) \in BOOLEAN
      BY <1>t DEF Connection
    <3> QED BY <2>2, <2>3, <3>1, Zenon
  <2>5. \A d \in Conns : /\ conn'[d].pc = conn[d].pc /\ conn'[d].turn = conn[d].turn
                         /\ conn'[d].session = conn[d].session
    BY <2>2, <1>t DEF Connection
  <2>6. session' \in [Ids -> Object] /\ \A r \in Ids : Len(session'[r].events) <= RateTurns
    <3>1. conn[c].session \in Ids
      BY <1>9, <1>t
    <3>2. LET object == [session[conn[c].session] EXCEPT !.setting = v]
          IN  object \in Object /\ object.events = session[conn[c].session].events
      BY <3>1, <1>t DEF Object
    <3> QED BY <2>1, <3>1, <3>2, <1>t
  <2>7. TypeOK'
    BY <2>1, <2>4, <2>6, <1>t DEF TypeOK
  <2>8. Attached' /\ SaidAsPinned'
    BY <2>5 DEF Attached, SaidAsPinned
  <2> QED BY <2>7, <2>8
<1>10. CASE UNCHANGED vars
  BY <1>10 DEF vars, TypeOK, Attached, SaidAsPinned
<1>11. ASSUME NEW c \in Conns, Set(c) \/ Knob(c)
       PROVE  conn[c].pc = "up" /\ \E v \in Values : Change(c, v)
  BY <1>11, <1>c DEF Set, Knob, Listening
<1> QED
  BY <1>1, <1>2, <1>3, <1>4, <1>5, <1>6, <1>7, <1>9, <1>10, <1>11 DEF Next

-----------------------------------------------------------------------------
(* The rate                                                                *)

\* A turn that is let in is remembered, and the one RateTurns before it was forgotten.
LEMMA AdmittedInTime ==
  ASSUME NEW a \in Seq(0 .. MaxTime), NEW e \in Seq(0 .. MaxTime), now \in 0 .. MaxTime,
         Remembers(a, e), Len(Purged(e)) < RateTurns,
         \A i, j \in DOMAIN a : j = i + RateTurns => a[j] >= a[i] + RateWindow
  PROVE  LET b == Append(a, now)
         IN  /\ Remembers(b, Append(Purged(e), now))
             /\ \A i, j \in DOMAIN b : j = i + RateTurns => b[j] >= b[i] + RateWindow
<1> USE SessionsAssumption
<1> DEFINE b == Append(a, now)
           rest == Purged(e)
<1>0. RateWindow \in Nat /\ RateTurns \in Nat \ {0} /\ now \in Nat
  OBVIOUS
<1>1. 0 .. MaxTime \in SUBSET Nat
  OBVIOUS
<1>2. PICK k \in 1 .. Len(e) + 1 :
         /\ rest \in Seq(0 .. MaxTime) /\ Len(rest) = Len(e) - k + 1
         /\ \A i \in 1 .. Len(e) - k + 1 : rest[i] = e[k + i - 1]
         /\ \A i \in 1 .. k - 1 : ~InWindow(e[i])
  BY <1>1, PurgedIsTheRest
<1>3. /\ Len(a) \in Nat /\ Len(e) \in Nat /\ Len(e) <= Len(a)
      /\ \A i \in 1 .. Len(e) : e[i] = a[Len(a) - Len(e) + i]
      /\ \A i \in 1 .. Len(a) - Len(e) : a[i] + RateWindow <= now
      /\ \A i \in 1 .. Len(a) : a[i] \in Nat
  BY DEF Remembers
<1> HIDE DEF rest
<1>4. \A i \in 1 .. Len(a) - Len(rest) : a[i] + RateWindow <= now
  <2> SUFFICES ASSUME NEW i \in 1 .. Len(a) - Len(rest) PROVE a[i] + RateWindow <= now
    OBVIOUS
  <2>1. CASE i <= Len(a) - Len(e)
    <3>1. i \in 1 .. Len(a) - Len(e)
      BY <1>3, <2>1
    <3> QED BY <1>3, <3>1
  <2>2. CASE i > Len(a) - Len(e)
    <3> DEFINE m == i - (Len(a) - Len(e))
    <3>1. m \in 1 .. k - 1 /\ m \in 1 .. Len(e) /\ i \in 1 .. Len(a)
      <4> DEFINE la == Len(a)
                 le == Len(e)
                 lr == Len(rest)
      <4>1. la \in Nat /\ le \in Nat /\ le <= la /\ k \in 1 .. le + 1 /\ lr = le - k + 1
        BY <1>2, <1>3
      <4>2. i \in 1 .. la - lr /\ i > la - le /\ m = i - (la - le)
        BY <2>2
      <4> HIDE DEF la, le, lr, m
      <4>3. m \in 1 .. k - 1 /\ m \in 1 .. le /\ i \in 1 .. la
        BY <4>1, <4>2
      <4> QED BY <4>3 DEF la, le, m
    <3>2. e[m] = a[i]
      BY <1>3, <3>1
    <3>3. ~(a[i] + RateWindow > now)
      BY <1>2, <3>1, <3>2 DEF InWindow
    <3>4. a[i] \in Nat
      BY <1>3, <3>1
    <3> QED BY <1>0, <3>3, <3>4
  <2> QED BY <2>1, <2>2, <1>2, <1>3
<1>5. /\ Len(b) = Len(a) + 1 /\ DOMAIN b = 1 .. Len(a) + 1
      /\ b[Len(a) + 1] = now /\ \A i \in 1 .. Len(a) : b[i] = a[i]
  BY <1>3
<1>6. /\ Len(Append(rest, now)) = Len(rest) + 1 /\ Append(rest, now)[Len(rest) + 1] = now
      /\ \A i \in 1 .. Len(rest) : Append(rest, now)[i] = rest[i]
      /\ Len(rest) \in Nat /\ Len(rest) <= Len(e)
  <2>1. Len(rest) \in Nat /\ Len(rest) <= Len(e)
    BY <1>2, <1>3
  <2>2. rest \in Seq(0 .. MaxTime) /\ now \in 0 .. MaxTime
    BY <1>2
  <2> QED BY <2>1, <2>2
<1> HIDE DEF b
<1>7. Remembers(b, Append(rest, now))
  <2>1. Len(Append(rest, now)) <= Len(b)
    BY <1>3, <1>5, <1>6
  <2>2. ASSUME NEW i \in 1 .. Len(Append(rest, now))
        PROVE  Append(rest, now)[i] = b[Len(b) - Len(Append(rest, now)) + i]
    <3>1. CASE i = Len(rest) + 1
      <4>1. Len(b) - Len(Append(rest, now)) + i = Len(a) + 1
        BY <3>1, <1>3, <1>5, <1>6
      <4> QED BY <3>1, <4>1, <1>5, <1>6
    <3>2. CASE i \in 1 .. Len(rest)
      <4>1. rest[i] = e[k + i - 1] /\ k + i - 1 \in 1 .. Len(e)
        BY <3>2, <1>2, <1>3
      <4>2. \A n \in 1 .. Len(e) : e[n] = a[Len(a) - Len(e) + n]
        BY <1>3
      <4>3. Len(a) - Len(e) + (k + i - 1) = Len(b) - Len(Append(rest, now)) + i
        BY <1>2, <1>3, <1>5, <1>6, <3>2
      <4>4. \A n \in 1 .. Len(e) : Len(a) - Len(e) + n \in 1 .. Len(a)
        BY <1>3
      <4>5. rest[i] = b[Len(b) - Len(Append(rest, now)) + i]
        BY <4>1, <4>2, <4>3, <4>4, <1>5
      <4> QED BY <3>2, <4>5, <1>6
    <3> QED BY <3>1, <3>2, <1>6
  <2>3. ASSUME NEW i \in 1 .. Len(b) - Len(Append(rest, now)) PROVE b[i] + RateWindow <= now
    <3>1. i \in 1 .. Len(a) - Len(rest) /\ i \in 1 .. Len(a)
      <4>1. Len(b) - Len(Append(rest, now)) = Len(a) - Len(rest)
        BY <1>3, <1>5, <1>6
      <4> QED BY <4>1, <1>3, <1>6
    <3> QED BY <3>1, <1>4, <1>5
  <2> QED BY <2>1, <2>2, <2>3 DEF Remembers
<1>8. ASSUME NEW i \in DOMAIN b, NEW j \in DOMAIN b, j = i + RateTurns
      PROVE  b[j] >= b[i] + RateWindow
  <2>1. i \in 1 .. Len(a)
    BY <1>3, <1>5, <1>8
  <2>2. CASE j \in 1 .. Len(a)
    <3>1. a[j] >= a[i] + RateWindow
      <4>1. DOMAIN a = 1 .. Len(a)
        OBVIOUS
      <4> QED BY <2>1, <2>2, <4>1, <1>8
    <3> QED BY <2>1, <2>2, <3>1, <1>5
  <2>3. CASE j = Len(a) + 1
    <3>1. i \in 1 .. Len(a) - Len(rest)
      BY <2>1, <2>3, <1>0, <1>3, <1>6, <1>8 DEF rest
    <3>2. b[i] + RateWindow <= now
      BY <2>1, <3>1, <1>4, <1>5
    <3>3. b[i] \in Nat /\ b[j] = now
      BY <2>1, <2>3, <1>3, <1>5
    <3> QED BY <3>2, <3>3, <1>0
  <2>4. j \in 1 .. Len(a) \/ j = Len(a) + 1
    BY <1>3, <1>5
  <2> QED BY <2>2, <2>3, <2>4
<1> QED BY <1>7, <1>8 DEF b, rest

\* Purging alone forgets only what has left the window.
LEMMA PurgedRemembers ==
  ASSUME NEW a \in Seq(0 .. MaxTime), NEW e \in Seq(0 .. MaxTime), now \in 0 .. MaxTime,
         Remembers(a, e)
  PROVE  Remembers(a, Purged(e))
<1> USE SessionsAssumption
<1> DEFINE rest == Purged(e)
<1>0. RateWindow \in Nat /\ RateTurns \in Nat \ {0} /\ now \in Nat
  OBVIOUS
<1>1. 0 .. MaxTime \in SUBSET Nat
  OBVIOUS
<1>2. PICK k \in 1 .. Len(e) + 1 :
         /\ rest \in Seq(0 .. MaxTime) /\ Len(rest) = Len(e) - k + 1
         /\ \A i \in 1 .. Len(e) - k + 1 : rest[i] = e[k + i - 1]
         /\ \A i \in 1 .. k - 1 : ~InWindow(e[i])
  BY <1>1, PurgedIsTheRest
<1>3. /\ Len(a) \in Nat /\ Len(e) \in Nat /\ Len(e) <= Len(a)
      /\ \A i \in 1 .. Len(e) : e[i] = a[Len(a) - Len(e) + i]
      /\ \A i \in 1 .. Len(a) - Len(e) : a[i] + RateWindow <= now
      /\ \A i \in 1 .. Len(a) : a[i] \in Nat
  BY DEF Remembers
<1> HIDE DEF rest
<1>4. ASSUME NEW i \in 1 .. Len(rest) PROVE rest[i] = a[Len(a) - Len(rest) + i]
  <2>1. rest[i] = e[k + i - 1] /\ k + i - 1 \in 1 .. Len(e)
    BY <1>2, <1>3
  <2>2. Len(a) - Len(e) + (k + i - 1) = Len(a) - Len(rest) + i
    BY <1>2, <1>3
  <2> QED BY <2>1, <2>2, <1>3
<1>5. ASSUME NEW i \in 1 .. Len(a) - Len(rest) PROVE a[i] + RateWindow <= now
  <2>1. CASE i <= Len(a) - Len(e)
    <3>1. i \in 1 .. Len(a) - Len(e)
      BY <1>3, <2>1
    <3> QED BY <1>3, <3>1
  <2>2. CASE i > Len(a) - Len(e)
    <3> DEFINE m == i - (Len(a) - Len(e))
    <3>1. m \in 1 .. k - 1 /\ m \in 1 .. Len(e) /\ i \in 1 .. Len(a)
      <4> DEFINE la == Len(a)
                 le == Len(e)
                 lr == Len(rest)
      <4>1. la \in Nat /\ le \in Nat /\ le <= la /\ k \in 1 .. le + 1 /\ lr = le - k + 1
        BY <1>2, <1>3
      <4>2. i \in 1 .. la - lr /\ i > la - le /\ m = i - (la - le)
        BY <2>2
      <4> HIDE DEF la, le, lr, m
      <4>3. m \in 1 .. k - 1 /\ m \in 1 .. le /\ i \in 1 .. la
        BY <4>1, <4>2
      <4> QED BY <4>3 DEF la, le, m
    <3>2. e[m] = a[i]
      BY <1>3, <3>1
    <3>3. ~(a[i] + RateWindow > now)
      BY <1>2, <3>1, <3>2 DEF InWindow
    <3>4. a[i] \in Nat
      BY <1>3, <3>1
    <3> QED BY <1>0, <3>3, <3>4
  <2> QED BY <2>1, <2>2, <1>2, <1>3
<1> QED BY <1>2, <1>3, <1>4, <1>5 DEF Remembers, rest

\* A step that lets no turn in and leaves the limiters alone, perhaps later
LEMMA RateKept ==
  ASSUME TypeOK, LimitersRemember, RateHolds, now' \in Nat, now' >= now,
         admitted' = admitted, \A s \in Ids : session'[s].events = session[s].events
  PROVE  LimitersRemember' /\ RateHolds'
<1> USE SessionsAssumption
<1>1. RateHolds'
  BY DEF RateHolds
<1>2. ASSUME NEW s \in Ids PROVE Remembers(admitted[s], session[s].events)'
  <2> DEFINE a == admitted[s]
             e == session[s].events
  <2>1. a \in Seq(0 .. MaxTime) /\ \A i \in 1 .. Len(a) : a[i] \in Nat
    BY DEF TypeOK
  <2>2. e \in Seq(0 .. MaxTime)
    BY DEF TypeOK, Object
  <2>3. /\ Len(e) <= Len(a)
        /\ \A i \in 1 .. Len(e) : e[i] = a[Len(a) - Len(e) + i]
        /\ \A i \in 1 .. Len(a) - Len(e) : a[i] + RateWindow <= now
    BY DEF LimitersRemember, Remembers
  <2> HIDE DEF a, e
  <2>4. \A i \in 1 .. Len(a) - Len(e) : a[i] + RateWindow <= now'
    <3>1. \A i \in 1 .. Len(a) - Len(e) : i \in 1 .. Len(a)
      BY <2>1, <2>2
    <3>2. now \in Nat /\ RateWindow \in Nat
      BY DEF TypeOK
    <3>3. ASSUME NEW i \in 1 .. Len(a) - Len(e) PROVE a[i] + RateWindow <= now'
      <4>1. a[i] \in Nat /\ a[i] + RateWindow <= now
        BY <2>1, <2>3, <3>1
      <4> QED BY <4>1, <3>2
    <3> QED BY <3>3
  <2>5. admitted'[s] = a /\ session'[s].events = e
    BY DEF a, e
  <2> QED BY <2>3, <2>4, <2>5 DEF Remembers
<1> QED BY <1>1, <1>2 DEF LimitersRemember

LEMMA RateStep ==
  ASSUME TypeOK, Attached, LimitersRemember, RateHolds, [Next]_vars
  PROVE  LimitersRemember' /\ RateHolds'
<1> USE SessionsAssumption
<1>t. /\ now \in 0 .. MaxTime /\ now \in Nat
      /\ \A s \in Ids : session[s].events \in Seq(0 .. MaxTime) /\ admitted[s] \in Seq(0 .. MaxTime)
      /\ \A c \in Conns : conn[c].pc # "off" => conn[c].session \in Ids
  BY DEF TypeOK, Attached, Connection, Object
<1>o. \A s \in Ids : session[s] \in Object
  BY DEF TypeOK
<1>1. CASE Tick
  BY <1>1, <1>t, RateKept DEF Tick
<1>2. ASSUME NEW c \in Conns,
             Connect(c) \/ Greet(c) \/ Vanish(c) \/ Disconnect(c)
               \/ StartTurn(c) \/ Begin(c) \/ Say(c) \/ EndTurn(c) \/ Set(c) \/ Knob(c)
      PROVE  LimitersRemember' /\ RateHolds'
  <2>1. now' = now /\ admitted' = admitted
    BY <1>2 DEF Connect, Greet, Vanish, Disconnect, StartTurn, Begin, Say, EndTurn, Set, Knob, Change
  <2>2. \/ session' = session
        \/ \E s \in Nat : session' = [session EXCEPT ![s].active = now]
        \/ \E s \in Nat : \E v \in Values : session' = [session EXCEPT ![s].setting = v]
        \/ \E s \in Nat : session' = [session EXCEPT ![s].turns = @ + 1, ![s].active = now]
    <3>1. ASSUME Connect(c) PROVE \E s \in Nat : session' = [session EXCEPT ![s].active = now]
      <4>1. made \in Nat
        BY DEF TypeOK
      <4>2. \A s \in Ids : s \in Nat
        BY DEF Ids
      <4>3. made + 1 \in Nat
        BY <4>1
      <4> QED BY <3>1, <4>2, <4>3 DEF Connect, Create, Resume
    <3>2. conn[c].session \in Nat
      BY DEF TypeOK, Connection, Ids, NoSession
    <3>3. ASSUME Disconnect(c) PROVE \E s \in Nat : session' = [session EXCEPT ![s].active = now]
      BY <3>2, <3>3 DEF Disconnect
    <3>4. ASSUME Set(c) \/ Knob(c)
          PROVE  \E s \in Nat : \E v \in Values : session' = [session EXCEPT ![s].setting = v]
      BY <3>2, <3>4 DEF Set, Knob, Change
    <3>5. ASSUME Greet(c) \/ Vanish(c) \/ Begin(c) \/ Say(c) \/ EndTurn(c)
          PROVE  session' = session
      BY <3>5 DEF Greet, Vanish, Begin, Say, EndTurn
    <3>6. ASSUME StartTurn(c)
          PROVE  \E s \in Nat : session' = [session EXCEPT ![s].turns = @ + 1, ![s].active = now]
      BY <3>2, <3>6 DEF StartTurn
    <3> QED BY <1>2, <3>1, <3>3, <3>4, <3>5, <3>6
  <2>3. \A s \in Ids : session'[s].events = session[s].events
    <3> SUFFICES ASSUME NEW s \in Ids PROVE session'[s].events = session[s].events
      OBVIOUS
    <3>1. session[s] \in Object /\ session \in [Ids -> Object]
      BY DEF TypeOK
    <3>2. /\ [session[s] EXCEPT !.active = now].events = session[s].events
          /\ \A v \in Values : [session[s] EXCEPT !.setting = v].events = session[s].events
          /\ [session[s] EXCEPT !.turns = @ + 1, !.active = now].events = session[s].events
      BY <3>1 DEF Object
    <3> QED BY <2>2, <3>1, <3>2
  <2> QED BY <2>1, <2>3, <1>t, RateKept
<1>3. ASSUME NEW c \in Conns, Refuse(c) PROVE LimitersRemember' /\ RateHolds'
  <2> DEFINE s == conn[c].session
             rest == Purged(session[s].events)
  <2>1. s \in Ids
    BY <1>3, <1>t DEF Refuse, Listening
  <2>2. session' = [session EXCEPT ![s].events = rest] /\ now' = now /\ admitted' = admitted
    BY <1>3 DEF Refuse
  <2>3. Remembers(admitted[s], rest)
    BY <2>1, <1>t, PurgedRemembers DEF LimitersRemember
  <2> HIDE DEF s, rest
  <2>4. session'[s].events = rest /\ \A r \in Ids : r # s => session'[r] = session[r]
    BY <2>1, <2>2 DEF TypeOK, Object
  <2>5. \A r \in Ids : Remembers(admitted'[r], session'[r].events)
    BY <2>2, <2>3, <2>4 DEF LimitersRemember
  <2>6. LimitersRemember'
    BY <2>2, <2>5 DEF LimitersRemember, Remembers
  <2> QED BY <2>2, <2>6 DEF RateHolds
<1>4. ASSUME NEW c \in Conns, Admit(c) PROVE LimitersRemember' /\ RateHolds'
  <2> DEFINE s == conn[c].session
             rest == Purged(session[s].events)
             e == Append(rest, now)
             a == Append(admitted[s], now)
  <2>1. s \in Ids
    BY <1>4, <1>t DEF Admit, Listening
  <2>2. /\ \/ session' = [session EXCEPT ![s].events = e, ![s].turns = @ + 1, ![s].active = now]
           \/ session' = [session EXCEPT ![s].events = e]
        /\ admitted' = [admitted EXCEPT ![s] = a]
        /\ now' = now /\ Len(rest) < RateTurns
    BY <1>4, <2>1 DEF Admit, Allows, TypeOK
  <2>3. /\ Remembers(a, e)
        /\ \A i, j \in DOMAIN a : j = i + RateTurns => a[j] >= a[i] + RateWindow
    <3>1. \A i, j \in DOMAIN admitted[s] :
             j = i + RateTurns => admitted[s][j] >= admitted[s][i] + RateWindow
      BY <2>1 DEF RateHolds
    <3>2. Remembers(admitted[s], session[s].events)
      BY <2>1 DEF LimitersRemember
    <3> QED BY <2>1, <2>2, <3>1, <3>2, <1>t, AdmittedInTime
  <2> HIDE DEF s, e, a
  <2>4. session'[s].events = e /\ \A r \in Ids : r # s => session'[r] = session[r]
    BY <2>1, <2>2 DEF TypeOK, Object
  <2>5. admitted'[s] = a /\ \A r \in Ids : r # s => admitted'[r] = admitted[r]
    BY <2>1, <2>2 DEF TypeOK
  <2>6. \A r \in Ids : Remembers(admitted'[r], session'[r].events)
    BY <2>3, <2>4, <2>5 DEF LimitersRemember
  <2>7. LimitersRemember'
    BY <2>2, <2>6 DEF LimitersRemember, Remembers
  <2>8. RateHolds'
    <3> SUFFICES ASSUME NEW r \in Ids, NEW i \in DOMAIN admitted'[r], NEW j \in DOMAIN admitted'[r],
                        j = i + RateTurns
                 PROVE  admitted'[r][j] >= admitted'[r][i] + RateWindow
      BY DEF RateHolds
    <3>1. CASE r = s
      BY <2>3, <2>5, <3>1
    <3>2. CASE r # s
      BY <2>5, <3>2 DEF RateHolds
    <3> QED BY <3>1, <3>2
  <2> QED BY <2>7, <2>8
<1>5. CASE UNCHANGED vars
  BY <1>5, <1>t, RateKept DEF vars
<1> QED BY <1>1, <1>2, <1>3, <1>4, <1>5 DEF Next

-----------------------------------------------------------------------------
(* What clients are told                                                   *)

LEMMA ClientsStep ==
  ASSUME TypeOK, Attached, ClientsKnowTheirSetting, [Next]_vars
  PROVE  ClientsKnowTheirSetting'
<1> USE SessionsAssumption
<1>t. /\ \A c \in Conns : conn[c].pc # "off" => conn[c].session \in Ids
      /\ \A s \in Ids : session[s] \in Object
      /\ \A c \in Conns : conn[c] \in Connection
      /\ session \in [Ids -> Object] /\ conn \in [Conns -> Connection]
      /\ made \in Nat
  BY DEF TypeOK, Attached, Connection
<1>k. ASSUME NEW c \in Conns, conn[c].pc = "up", ~conn[c].behind
      PROVE  conn[c].shown = session[conn[c].session].setting
  BY <1>k DEF ClientsKnowTheirSetting
\* The settings stay, and so does what every client that is up then was told.
<1>1. ASSUME \A s \in Ids : session'[s].setting = session[s].setting,
             \A c \in Conns :
               \/ conn'[c].pc # "up"
               \/ /\ conn[c].pc = "up" /\ conn'[c].session = conn[c].session
                  /\ conn'[c].shown = conn[c].shown /\ conn'[c].behind = conn[c].behind
      PROVE  ClientsKnowTheirSetting'
  BY <1>1, <1>k, <1>t DEF ClientsKnowTheirSetting
<1>2. CASE Tick \/ UNCHANGED vars
  BY <1>2, <1>1 DEF Tick, vars, ClientsKnowTheirSetting
<1>3. ASSUME NEW c \in Conns, Connect(c) PROVE ClientsKnowTheirSetting'
  <2>1. PICK s \in Nat : /\ session' = [session EXCEPT ![s].active = now]
                         /\ conn' = [conn EXCEPT ![c].pc = "greeting", ![c].session = s]
    <3>1. \A s \in Ids : s \in Nat
      BY DEF Ids
    <3>2. made + 1 \in Nat
      BY <1>t
    <3> QED BY <1>3, <3>1, <3>2 DEF Connect, Create, Resume
  <2>2. \A r \in Ids : session'[r].setting = session[r].setting
    BY <2>1, <1>t DEF Object
  <2>3. conn'[c].pc = "greeting" /\ \A d \in Conns : d # c => conn'[d] = conn[d]
    BY <2>1, <1>t DEF Connection
  <2> QED BY <2>2, <2>3, <1>1
<1>4. ASSUME NEW c \in Conns, Greet(c) PROVE ClientsKnowTheirSetting'
  <2>1. /\ conn'[c].shown = session[conn[c].session].setting
        /\ conn'[c].session = conn[c].session
        /\ \A d \in Conns : d # c => conn'[d] = conn[d]
    BY <1>4, <1>t DEF Greet, Connection
  <2>2. session' = session
    BY <1>4 DEF Greet
  <2> QED BY <2>1, <2>2, <1>k DEF ClientsKnowTheirSetting
<1>5. ASSUME NEW c \in Conns, Vanish(c) \/ Disconnect(c) PROVE ClientsKnowTheirSetting'
  <2>1. conn'[c].pc = "off" /\ \A d \in Conns : d # c => conn'[d] = conn[d]
    BY <1>5, <1>t DEF Vanish, Disconnect, Away
  <2>2. \A r \in Ids : session'[r].setting = session[r].setting
    <3>1. session' = session \/ session' = [session EXCEPT ![conn[c].session].active = now]
      BY <1>5 DEF Vanish, Disconnect
    <3>2. \A r \in Ids : [session[r] EXCEPT !.active = now].setting = session[r].setting
      BY <1>t DEF Object
    <3> QED BY <3>1, <3>2, <1>t
  <2> QED BY <2>1, <2>2, <1>1
<1>6. ASSUME NEW c \in Conns,
             Refuse(c) \/ Admit(c) \/ StartTurn(c) \/ Begin(c) \/ Say(c) \/ EndTurn(c)
      PROVE  ClientsKnowTheirSetting'
  <2>1. \A d \in Conns : /\ conn'[d].pc = conn[d].pc /\ conn'[d].session = conn[d].session
                         /\ conn'[d].shown = conn[d].shown /\ conn'[d].behind = conn[d].behind
    <3>1. \/ conn' = conn \/ \E turn : conn' = [conn EXCEPT ![c].turn = turn]
          \/ conn' = [conn EXCEPT ![c].starting = TRUE]
          \/ conn' = [conn EXCEPT ![c].starting = FALSE, ![c].turn = Created]
      <4>1. ASSUME Begin(c)
            PROVE  conn' = [conn EXCEPT ![c].turn = [@ EXCEPT !.step = "speaking",
                                           !.pinned = session[conn[c].session].setting]]
        BY <4>1, <1>t DEF Begin, Connection
      <4>2. ASSUME Say(c)
            PROVE  conn' = [conn EXCEPT ![c].turn =
                               [conn[c].turn EXCEPT !.said = @ \cup {conn[c].turn.pinned}]]
        BY <4>2, <1>t DEF Say, Voiced, Connection
      <4> QED BY <1>6, <4>1, <4>2 DEF Refuse, Admit, StartTurn, EndTurn
    <3> QED BY <3>1, <1>t DEF Connection
  <2>2. \A r \in Ids : session'[r].setting = session[r].setting
    <3>1. \/ session' = session
          \/ \E e : session' = [session EXCEPT ![conn[c].session].events = e]
          \/ \E e : session' = [session EXCEPT ![conn[c].session].events = e,
                               ![conn[c].session].turns = @ + 1, ![conn[c].session].active = now]
          \/ session' = [session EXCEPT ![conn[c].session].turns = @ + 1,
                                        ![conn[c].session].active = now]
      BY <1>6 DEF Refuse, Admit, StartTurn, Begin, Say, EndTurn
    <3>2. ASSUME NEW r \in Ids, NEW e
          PROVE  /\ [session[r] EXCEPT !.events = e].setting = session[r].setting
                 /\ [session[r] EXCEPT !.events = e, !.turns = @ + 1, !.active = now].setting
                      = session[r].setting
                 /\ [session[r] EXCEPT !.turns = @ + 1, !.active = now].setting
                      = session[r].setting
      BY <1>t DEF Object
    <3>3. CASE session' = session
      BY <3>3
    <3>4. ASSUME NEW e, session' = [session EXCEPT ![conn[c].session].events = e]
          PROVE  \A r \in Ids : session'[r].setting = session[r].setting
      BY <3>2, <3>4, <1>t
    <3>5. ASSUME NEW e, session' = [session EXCEPT ![conn[c].session].events = e,
                               ![conn[c].session].turns = @ + 1, ![conn[c].session].active = now]
          PROVE  \A r \in Ids : session'[r].setting = session[r].setting
      BY <3>2, <3>5, <1>t
    <3>6. ASSUME session' = [session EXCEPT ![conn[c].session].turns = @ + 1,
                                            ![conn[c].session].active = now]
          PROVE  \A r \in Ids : session'[r].setting = session[r].setting
      BY <3>2, <3>6, <1>t
    <3> QED BY <3>1, <3>3, <3>4, <3>5, <3>6
  <2>3. \A d \in Conns : conn'[d].pc = "up" => conn[d].pc = "up"
    BY <2>1
  <2> QED BY <2>1, <2>2, <2>3, <1>1
<1>7. ASSUME NEW c \in Conns, NEW v \in Values, conn[c].pc = "up", Change(c, v)
      PROVE  ClientsKnowTheirSetting'
  <2>1. /\ session'[conn[c].session].setting = v
        /\ \A s \in Ids : s # conn[c].session => session'[s].setting = session[s].setting
    <3>1. conn[c].session \in Ids
      BY <1>7, <1>t
    <3> QED BY <1>7, <3>1, <1>t DEF Change, Object
  <2>2. conn' = [d \in Conns |->
                   IF d = c THEN [conn[c] EXCEPT !.shown = v, !.behind = FALSE]
                   ELSE [conn[d] EXCEPT !.behind = @ \/ conn[d].session = conn[c].session]]
    BY <1>7, Zenon DEF Change, Told
  <2>3. conn'[c].shown = v /\ conn'[c].session = conn[c].session
    BY <2>2, <1>t DEF Connection
  <2>4. ASSUME NEW d \in Conns, d # c
        PROVE  /\ conn'[d].pc = conn[d].pc /\ conn'[d].session = conn[d].session
               /\ conn'[d].shown = conn[d].shown
               /\ ~conn'[d].behind => ~conn[d].behind /\ conn[d].session # conn[c].session
    <3>1. conn'[d] = [conn[d] EXCEPT !.behind = @ \/ conn[d].session = conn[c].session]
      BY <2>2, <2>4
    <3>2. /\ conn'[d].pc = conn[d].pc /\ conn'[d].session = conn[d].session
          /\ conn'[d].shown = conn[d].shown
      BY <3>1, <1>t DEF Connection
    <3>3. conn'[d].behind = (conn[d].behind \/ conn[d].session = conn[c].session)
      BY <3>1, <1>t DEF Connection
    <3> QED BY <3>2, <3>3
  <2>5. ASSUME NEW d \in Conns, conn'[d].pc = "up", ~conn'[d].behind
        PROVE  conn'[d].shown = session'[conn'[d].session].setting
    <3>1. CASE d = c
      BY <2>1, <2>3, <3>1
    <3>2. CASE d # c
      <4>1. conn[d].pc = "up" /\ ~conn[d].behind /\ conn[d].session # conn[c].session
        BY <2>4, <2>5, <3>2
      <4>2. conn[d].session \in Ids
        BY <4>1, <1>t
      <4> QED BY <2>1, <2>4, <3>2, <4>1, <4>2, <1>k
    <3> QED BY <3>1, <3>2
  <2> QED BY <2>5 DEF ClientsKnowTheirSetting
<1>8. ASSUME NEW c \in Conns, Set(c) \/ Knob(c)
      PROVE  conn[c].pc = "up" /\ \E v \in Values : Change(c, v)
  BY <1>8 DEF Set, Knob, Attached, Listening
<1> QED BY <1>2, <1>3, <1>4, <1>5, <1>6, <1>7, <1>8 DEF Next

-----------------------------------------------------------------------------
(* Who goes                                                                *)

\* There is room for every session that is registered, and nobody was active in the future.
HasRoom ==
    /\ IsFiniteSet(registry) /\ Cardinality(registry) <= Capacity
    /\ \A s \in Ids : session[s].active <= now

\* _enforce_capacity's min: there is one that was idle longest, the older of two alike.
LEMMA OldestIsIdleLongest ==
  ASSUME NEW S \in SUBSET Nat, S # {}, NEW active \in [S -> Nat]
  PROVE  /\ Oldest(S, active) \in S
         /\ \A r \in S : \/ active[Oldest(S, active)] < active[r]
                         \/ active[Oldest(S, active)] = active[r] /\ Oldest(S, active) <= r
<1> DEFINE Times == {active[s] : s \in S}
<1>1. Times \in SUBSET Nat /\ Times # {}
  OBVIOUS
<1>2. PICK first \in Times : \A t \in Times : first <= t
  BY <1>1, Smallest
<1> DEFINE T == {s \in S : active[s] = first}
<1>3. T \in SUBSET Nat /\ T # {}
  BY <1>2
<1>4. PICK s \in T : \A r \in T : s <= r
  BY <1>3, Smallest
<1>5. /\ s \in S
      /\ \A r \in S : active[s] < active[r] \/ (active[s] = active[r] /\ s <= r)
  <2> SUFFICES ASSUME NEW r \in S
               PROVE  active[s] < active[r] \/ (active[s] = active[r] /\ s <= r)
    BY <1>4
  <2>1. active[s] = first /\ active[r] \in Times /\ first <= active[r]
    BY <1>2, <1>4
  <2>2. active[r] \in Nat /\ first \in Nat
    BY <1>1, <2>1
  <2> QED BY <1>4, <2>1, <2>2
<1> QED BY <1>5, Zenon DEF Oldest

\* resume_or_create makes room for the session it makes, at the cost of nobody who was
\* active later than somebody who stays.
LEMMA CreatePrunes ==
  ASSUME TypeOK, HasRoom, NEW c \in Conns, Create(c)
  PROVE  /\ made + 1 \in registry' /\ made + 1 \in Ids
         /\ IsFiniteSet(registry') /\ Cardinality(registry') <= Capacity
         /\ \A s \in registry \ registry' :
               \/ s \in Expired
               \/ /\ Cardinality(registry') = Capacity
                  /\ \A r \in registry' : session[s].active <= session'[r].active
<1> USE SessionsAssumption
<1> DEFINE new == made + 1
           live == (registry \ Expired) \cup {new}
           active == [r \in live |-> IF r = new THEN now ELSE session[r].active]
<1>t. /\ now \in Nat /\ made \in Nat /\ new \in Ids
      /\ registry \subseteq 1 .. made /\ registry \subseteq Ids
      /\ \A s \in Ids : session[s].active \in Nat /\ session[s].active <= now
      /\ session \in [Ids -> Object]
  BY DEF TypeOK, Object, HasRoom, Create, Ids
<1>1. /\ registry' = IF Cardinality(live) <= Capacity THEN live ELSE live \ {Oldest(live, active)}
      /\ session' = [session EXCEPT ![new].active = now]
  BY Zenon DEF Create
<1>2. /\ IsFiniteSet(live) /\ Cardinality(live) \in Nat /\ Cardinality(live) <= Capacity + 1
  <2>1. IsFiniteSet(registry \ Expired) /\ Cardinality(registry \ Expired) <= Cardinality(registry)
    BY FS_Subset, registry \ Expired \in SUBSET registry DEF HasRoom
  <2>2. Cardinality(registry) \in Nat /\ Cardinality(registry \ Expired) \in Nat
    BY <2>1, FS_CardinalityType DEF HasRoom
  <2>3. /\ IsFiniteSet(live)
        /\ \/ Cardinality(live) = Cardinality(registry \ Expired)
           \/ Cardinality(live) = Cardinality(registry \ Expired) + 1
    BY <2>1, FS_AddElement
  <2> QED BY <2>1, <2>2, <2>3 DEF HasRoom
<1>3. live \in SUBSET Nat /\ live # {} /\ active \in [live -> Nat]
  <2>1. \A r \in live : r \in Ids
    BY <1>t
  <2>2. Ids \subseteq Nat
    BY DEF Ids
  <2>3. \A r \in live : (IF r = new THEN now ELSE session[r].active) \in Nat
    BY <2>1, <1>t
  <2> QED BY <2>1, <2>2, <2>3
<1>4. new \in live /\ new \notin registry
  BY <1>t
<1>5. \A r \in live : active[r] <= session'[r].active
  BY <1>1, <1>t DEF Object
<1> HIDE DEF live, active
<1>6. CASE Cardinality(live) <= Capacity
  BY <1>1, <1>2, <1>4, <1>6, <1>t DEF live
<1>7. CASE ~(Cardinality(live) <= Capacity)
  <2> DEFINE out == Oldest(live, active)
  <2>1. /\ out \in live
        /\ \A r \in live : active[out] < active[r] \/ (active[out] = active[r] /\ out <= r)
    BY <1>3, OldestIsIdleLongest
  <2>2. registry' = live \ {out}
    BY <1>1, <1>7
  <2> HIDE DEF out
  <2>3. IsFiniteSet(registry') /\ Cardinality(registry') = Capacity
    <3>1. IsFiniteSet(live \ {out}) /\ Cardinality(live \ {out}) = Cardinality(live) - 1
      BY <1>2, <2>1, FS_RemoveElement
    <3> QED BY <1>2, <1>7, <2>2, <3>1
  \* The new one is active now and the youngest: it is not the one that goes.
  <2>4. out # new
    <3> SUFFICES ASSUME out = new PROVE FALSE
      OBVIOUS
    <3>1. live # {new}
      BY <1>7, FS_Singleton
    <3>2. PICK r \in registry \ Expired : r \in live /\ r # new
      BY <1>4, <3>1 DEF live
    <3>3. active[r] = session[r].active /\ active[new] = now
      BY <1>4, <3>2 DEF active
    <3>4. r <= made /\ r \in Nat /\ session[r].active <= now /\ session[r].active \in Nat
      BY <1>t, <3>2
    <3>5. active[new] < active[r] \/ (active[new] = active[r] /\ new <= r)
      BY <2>1, <3>2
    <3> QED BY <1>t, <3>3, <3>4, <3>5
  <2>5. ASSUME NEW s \in registry \ registry'
        PROVE  \/ s \in Expired
               \/ \A r \in registry' : session[s].active <= session'[r].active
    <3> SUFFICES ASSUME s \notin Expired, NEW r \in registry'
                 PROVE  session[s].active <= session'[r].active
      OBVIOUS
    <3>1. s = out /\ s # new
      BY <2>2, <2>4 DEF live
    <3>2. active[s] = session[s].active
      BY <2>1, <3>1 DEF active
    <3>3. active[s] <= active[r] /\ active[s] \in Nat /\ active[r] \in Nat
      BY <1>3, <2>1, <2>2, <3>1
    <3>4. active[r] <= session'[r].active /\ r \in Ids
      BY <1>5, <1>t, <2>2 DEF live
    <3>5. session'[r].active \in Nat
      BY <1>1, <1>t, <3>4 DEF Object
    <3> QED BY <3>2, <3>3, <3>4, <3>5
  <2>6. new \in registry'
    BY <1>4, <2>2, <2>4
  <2>7. Cardinality(registry') <= Capacity
    BY <2>3
  <2> QED BY <1>t, <2>3, <2>5, <2>6, <2>7
<1> QED BY <1>6, <1>7

\* Whoever is resumed is registered, and only the expired go.
LEMMA ResumePrunes ==
  ASSUME TypeOK, HasRoom, NEW c \in Conns, NEW s \in Ids, Resume(c, s)
  PROVE  /\ s \in registry' /\ registry' = registry \ Expired
         /\ IsFiniteSet(registry') /\ Cardinality(registry') <= Capacity
<1>1. s \in registry' /\ registry' = registry \ Expired
  BY DEF Resume
<1>2. IsFiniteSet(registry') /\ Cardinality(registry') <= Cardinality(registry)
  BY <1>1, FS_Subset, registry \ Expired \in SUBSET registry DEF HasRoom
<1>3. Cardinality(registry) \in Nat /\ Cardinality(registry') \in Nat
  BY <1>2, FS_CardinalityType DEF HasRoom
<1> QED BY <1>1, <1>2, <1>3, SessionsAssumption DEF HasRoom

\* A step goes as OnlyTheIdleGo says, and leaves room.
OnlyTheIdleGoNow ==
    /\ \A s \in registry \ registry' :
          \/ now > session[s].active + Ttl
          \/ /\ Cardinality(registry') = Capacity
             /\ \A r \in registry' : session[s].active <= session'[r].active
    /\ \A c \in Conns : conn[c].pc = "off" /\ conn'[c].pc = "greeting"
                         => conn'[c].session \in registry'

LEMMA RegistryStep ==
  ASSUME TypeOK, Attached, HasRoom, [Next]_vars
  PROVE  HasRoom' /\ OnlyTheIdleGoNow
<1> USE SessionsAssumption
<1>t. /\ now \in Nat /\ made \in Nat
      /\ \A s \in Ids : session[s] \in Object /\ session[s].active \in Nat
                        /\ session[s].active <= now
      /\ \A c \in Conns : conn[c] \in Connection
      /\ \A c \in Conns : conn[c].pc # "off" => conn[c].session \in Ids
      /\ session \in [Ids -> Object] /\ conn \in [Conns -> Connection]
      /\ registry \subseteq Ids
  <2>1. /\ now \in Nat /\ made \in Nat
        /\ session \in [Ids -> Object] /\ conn \in [Conns -> Connection]
    BY DEF TypeOK
  <2>2. \A s \in Ids : session[s].active \in Nat /\ session[s].active <= now
    BY <2>1 DEF Object, HasRoom
  <2>3. \A c \in Conns : conn[c].pc # "off" => conn[c].session \in Ids
    BY <2>1 DEF Attached, Connection
  <2>4. registry \subseteq Ids
    BY DEF TypeOK, Ids
  <2> QED BY <2>1, <2>2, <2>3, <2>4
\* Only a connection that comes changes the registry.
<1>1. ASSUME registry' = registry, now' \in Nat, now <= now',
             \A s \in Ids : session'[s].active \in {session[s].active, now},
             \A c \in Conns : conn[c].pc = "off" => conn'[c].pc # "greeting"
      PROVE  HasRoom' /\ OnlyTheIdleGoNow
  <2>1. \A s \in Ids : session'[s].active <= now'
    BY <1>1, <1>t
  <2>2. IsFiniteSet(registry') /\ Cardinality(registry') <= Capacity
    BY <1>1 DEF HasRoom
  <2> QED BY <1>1, <2>1, <2>2 DEF HasRoom, OnlyTheIdleGoNow
<1>2. CASE Tick \/ UNCHANGED vars
  BY <1>2, <1>1, <1>t DEF Tick, vars
<1>3. ASSUME NEW c \in Conns, Connect(c) PROVE HasRoom' /\ OnlyTheIdleGoNow
  <2>1. PICK s \in Ids :
           /\ session' = [session EXCEPT ![s].active = now]
           /\ conn' = [conn EXCEPT ![c].pc = "greeting", ![c].session = s]
           /\ s \in registry'
           /\ IsFiniteSet(registry') /\ Cardinality(registry') <= Capacity
           /\ \A r \in registry \ registry' :
                 \/ r \in Expired
                 \/ /\ Cardinality(registry') = Capacity
                    /\ \A q \in registry' : session[r].active <= session'[q].active
    <3>1. CASE Create(c)
      BY <3>1, CreatePrunes DEF Create
    <3>2. ASSUME NEW s \in Ids, Resume(c, s)
          PROVE  /\ session' = [session EXCEPT ![s].active = now]
                 /\ conn' = [conn EXCEPT ![c].pc = "greeting", ![c].session = s]
                 /\ s \in registry'
                 /\ IsFiniteSet(registry') /\ Cardinality(registry') <= Capacity
                 /\ \A r \in registry \ registry' : r \in Expired
      BY <3>2, ResumePrunes DEF Resume
    <3> QED BY <1>3, <3>1, <3>2 DEF Connect
  <2>2. now' = now
    BY <1>3 DEF Connect
  <2>3. \A r \in Ids : session'[r].active <= now'
    BY <2>1, <2>2, <1>t DEF Object
  <2>4. \A r \in Expired : now > session[r].active + Ttl
    BY <1>t DEF Expired
  <2>5. \A d \in Conns : conn[d].pc = "off" /\ conn'[d].pc = "greeting" => d = c
    BY <2>1, <1>t
  <2>6. conn'[c].session = s
    BY <2>1, <1>t DEF Connection
  <2> QED BY <2>1, <2>3, <2>4, <2>5, <2>6 DEF HasRoom, OnlyTheIdleGoNow
<1>4. ASSUME NEW c \in Conns,
             Greet(c) \/ Vanish(c) \/ Disconnect(c) \/ Refuse(c) \/ Admit(c)
               \/ StartTurn(c) \/ Begin(c) \/ Say(c) \/ EndTurn(c) \/ Set(c) \/ Knob(c)
      PROVE  HasRoom' /\ OnlyTheIdleGoNow
  <2>1. registry' = registry /\ now' = now
    BY <1>4 DEF Greet, Vanish, Disconnect, Refuse, Admit, StartTurn, Begin, Say, EndTurn, Set, Knob, Change
  <2>2. \A s \in Ids : session'[s].active \in {session[s].active, now}
    <3>1. \/ session' = session
          \/ \E s : session' = [session EXCEPT ![s].active = now]
          \/ \E s, e : session' = [session EXCEPT ![s].events = e]
          \/ \E s, e : session' = [session EXCEPT ![s].events = e, ![s].turns = @ + 1,
                                                  ![s].active = now]
          \/ \E s, v : session' = [session EXCEPT ![s].setting = v]
          \/ \E s : session' = [session EXCEPT ![s].turns = @ + 1, ![s].active = now]
      BY <1>4, Zenon
         DEF Greet, Vanish, Disconnect, Refuse, Admit, StartTurn, Begin, Say, EndTurn, Set, Knob, Change
    <3>2. ASSUME NEW s, session' = [session EXCEPT ![s].active = now]
          PROVE  \A r \in Ids : session'[r].active \in {session[r].active, now}
      BY <3>2, <1>t DEF Object
    <3>3. ASSUME NEW s, NEW e, session' = [session EXCEPT ![s].events = e]
          PROVE  \A r \in Ids : session'[r].active \in {session[r].active, now}
      BY <3>3, <1>t DEF Object
    <3>4. ASSUME NEW s, NEW e,
                 session' = [session EXCEPT ![s].events = e, ![s].turns = @ + 1, ![s].active = now]
          PROVE  \A r \in Ids : session'[r].active \in {session[r].active, now}
      BY <3>4, <1>t DEF Object
    <3>5. ASSUME NEW s, NEW v, session' = [session EXCEPT ![s].setting = v]
          PROVE  \A r \in Ids : session'[r].active \in {session[r].active, now}
      BY <3>5, <1>t DEF Object
    <3>6. ASSUME NEW s, session' = [session EXCEPT ![s].turns = @ + 1, ![s].active = now]
          PROVE  \A r \in Ids : session'[r].active \in {session[r].active, now}
      BY <3>6, <1>t DEF Object
    <3> QED BY <3>1, <3>2, <3>3, <3>4, <3>5, <3>6
  <2>3. \A d \in Conns : conn[d].pc = "off" => conn'[d].pc # "greeting"
    <3>1. \A d \in Conns : d # c => conn'[d].pc = conn[d].pc
      <4>1. ASSUME Set(c) \/ Knob(c) PROVE \A d \in Conns : d # c => conn'[d].pc = conn[d].pc
        <5>1. PICK v \in Values : Change(c, v)
          BY <4>1 DEF Set, Knob
        <5>2. ASSUME NEW d \in Conns, d # c
              PROVE  conn'[d] = [conn[d] EXCEPT !.behind = @ \/ conn[d].session = conn[c].session]
          BY <5>1, <5>2 DEF Change
        <5>3. ASSUME NEW d \in Conns, NEW b, conn'[d] = [conn[d] EXCEPT !.behind = b]
              PROVE  conn'[d].pc = conn[d].pc
          BY <5>3, <1>t DEF Connection
        <5> QED BY <5>2, <5>3
      <4>2. ASSUME Greet(c) \/ Vanish(c) \/ Disconnect(c) \/ Refuse(c) \/ Admit(c)
                     \/ StartTurn(c) \/ Begin(c) \/ Say(c) \/ EndTurn(c)
            PROVE  \A d \in Conns : d # c => conn'[d].pc = conn[d].pc
        <5>1. conn' = conn \/ \E x : conn' = [conn EXCEPT ![c] = x]
          BY <4>2, <1>t
             DEF Greet, Vanish, Disconnect, Refuse, Admit, StartTurn, Begin, Say, EndTurn, Connection
        <5> QED BY <5>1, <1>t
      <4> QED BY <1>4, <4>1, <4>2
    <3>2. conn[c].pc = "off" => conn'[c].pc = "off"
      <4>1. conn[c].pc # "off"
        BY <1>4, <1>t
           DEF Greet, Vanish, Disconnect, Refuse, Admit, StartTurn, Begin, Say, EndTurn, Set, Knob, Listening, Attached
      <4> QED BY <4>1
    <3> QED BY <3>1, <3>2
  <2> QED BY <1>1, <1>t, <2>1, <2>2, <2>3
<1> QED BY <1>2, <1>3, <1>4 DEF Next

-----------------------------------------------------------------------------
(* The theorems                                                            *)

Inv ==
    /\ TypeOK /\ Attached /\ HasRoom
    /\ SaidAsPinned /\ LimitersRemember /\ RateHolds /\ ClientsKnowTheirSetting

LEMMA SessionsInvariant == Spec => []Inv
<1>1. Init => Inv
  <2> SUFFICES ASSUME Init PROVE Inv
    OBVIOUS
  <2>1. LimitersRemember /\ RateHolds
    BY DEF Init, LimitersRemember, Remembers, RateHolds, New
  <2>2. ClientsKnowTheirSetting
    BY DEF Init, ClientsKnowTheirSetting, Away
  <2>3. HasRoom
    BY SessionsAssumption, FS_EmptySet DEF Init, HasRoom, New
  <2> QED BY <2>1, <2>2, <2>3, InitTyped DEF Inv
<1>2. Inv /\ [Next]_vars => Inv'
  BY StepTyped, RateStep, ClientsStep, RegistryStep DEF Inv
<1> QED BY <1>1, <1>2, PTL DEF Spec

\* The registry, the limiters and the connections are well typed, and no limiter ever
\* remembers more turns than it may let in.
THEOREM SessionsTyped == Spec => []TypeOK
BY SessionsInvariant, PTL DEF Inv

\* RateLimiter.allow, _purge: the sliding window holds whatever the window and the number
\* of turns, across reconnects and for connections that share a session.
THEOREM SessionsAreRateLimited == Spec => []RateHolds
BY SessionsInvariant, PTL DEF Inv

\* Knobs._echo_voice, _echo_model: whoever set the setting last was told.
THEOREM ClientsAreInformed == Spec => []ClientsKnowTheirSetting
BY SessionsInvariant, PTL DEF Inv

\* _evict_expired, _enforce_capacity: whoever goes has expired, or was idle for longer than
\* all that stay, in a registry that is full; never the session a client is just given.
THEOREM TheBusyStay == Spec => OnlyTheIdleGo
<1>1. Inv /\ [Next]_vars => [OnlyTheIdleGoNow]_vars
  BY RegistryStep DEF Inv
<1> QED BY <1>1, SessionsInvariant, PTL DEF Spec, OnlyTheIdleGo, OnlyTheIdleGoNow

\* _guarded_turn: the settings that a turn speaks with are those it began with.
THEOREM RepliesKeepTheirVoice == Spec => []OneVoicePerReply
<1>1. Inv => OneVoicePerReply
  <2> SUFFICES ASSUME Inv, NEW c \in Conns PROVE Cardinality(conn[c].turn.said) <= 1
    BY DEF OneVoicePerReply
  <2>1. conn[c].turn.said = {} \/ conn[c].turn.said = {conn[c].turn.pinned}
    BY DEF Inv, SaidAsPinned
  <2>2. Cardinality({}) = 0 /\ Cardinality({conn[c].turn.pinned}) = 1
    BY FS_EmptySet, FS_Singleton
  <2>3. Cardinality(conn[c].turn.said) = 0 \/ Cardinality(conn[c].turn.said) = 1
    BY <2>1, <2>2, Zenon
  <2> QED BY <2>3
<1> QED BY <1>1, SessionsInvariant, PTL
=============================================================================
