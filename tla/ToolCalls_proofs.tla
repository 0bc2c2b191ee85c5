---------------------------- MODULE ToolCalls_proofs ----------------------------
(***************************************************************************)
(* What the chain of brokers keeps up for any number of turns, any peers and  *)
(* any limits.                                                               *)
(***************************************************************************)
EXTENDS ToolCalls, FiniteSetTheorems, SequenceTheorems, TLAPS

\* Where a call is, and what is bound, shown and known of it there
Placed(t) ==
    LET r == turn[t]
    IN  /\ r.pc \in Running => bound[t].run
        /\ bound[t].confirmed => r.pc = "serving"
        /\ r.pc = "serving" => /\ bound[t].confirmed = r.approved
                               /\ Gated(r.name, r.peers) = r.approved
        /\ r.pc \in {"asking", "serving", "returning"} =>
              /\ r.calls # 0
              /\ r.origin = Origin(r.name, r.peers)
              /\ wire[t] => cards[t] \subseteq {r.calls}
        /\ r.pc = "thinking" /\ wire[t] => cards[t] = {}
        /\ r.pc = "returning" =>
              /\ r.result = "raised" => Server(r.name, r.peers) = "client"
              /\ r.result = "refused" => Gated(r.name, r.peers)
        /\ r.pc = "off" => cards[t] = {} /\ r.calls = 0

\* How often the call in hand has been counted
Counted(t) ==
    IF turn[t].pc = "returning" /\ turn[t].result # "refused"
       /\ Server(turn[t].name, turn[t].peers) = "own"
    THEN 1 ELSE 0

\* A call that is back is counted as it should be.
Fair(t, n) ==
    log[t][n].server # "nobody" =>
        (recorded[<<t, n>>] = 1 <=>
            \/ log[t][n].server = "own" /\ log[t][n].result # "refused"
            \/ log[t][n].server = "client" /\ log[t][n].result # "raised"
            \/ log[t][n].server = "peer")

Tallied(t) ==
    /\ Len(log[t]) <= turn[t].calls
    /\ turn[t].pc \in {"asking", "serving", "returning"} =>
          /\ Len(log[t]) = turn[t].calls - 1
          /\ recorded[<<t, turn[t].calls>>] = Counted(t)
    /\ turn[t].pc \in {"off", "thinking"} => Len(log[t]) = turn[t].calls
    /\ \A n \in 1 .. MaxCalls :
          /\ recorded[<<t, n>>] <= 1
          /\ n > turn[t].calls => recorded[<<t, n>>] = 0
          /\ n <= Len(log[t]) => Fair(t, n)

-----------------------------------------------------------------------------
(* Names                                                                   *)

\* Own tools, signals and knobs have names without a head.
LEMMA HeadsAreApart ==
  ASSUME NEW name \in Names, NEW peers \in SUBSET Peers
  PROVE  \/ /\ name.head \notin peers /\ name.head # "client"
            /\ name.tail \in {"add_task", "update_server", "client_show", "expect_reply",
                              "set_voice", "remap_keyword", "made_up"}
         \/ name.head \in Peers \cup {"client"} /\ name.tail \in {"run", "build"}
<1>1. CASE name.head = None /\ name.tail \in {"add_task", "update_server", "client_show",
               "expect_reply", "set_voice", "remap_keyword", "made_up"}
  <2>1. None \notin peers /\ None # "client"
    BY CallsAssumption DEF Peers, None
  <2> QED BY <1>1, <2>1
<1>2. CASE name.head \in Peers \cup {"client"} /\ name.tail \in {"run", "build"}
  BY <1>2
<1> QED BY <1>1, <1>2 DEF Names

\* classify_tool_name tells whose tool a name is from the name alone, a knob being Amber's
\* own, unless the name is a tool's of the device and one's of a peer.
LEMMA NamesTellTheServer ==
  ASSUME NEW name \in Names, NEW peers \in SUBSET Peers,
         Server(name, peers) # "nobody", ~Ambiguous(name, peers)
  PROVE  Origin(name, peers) = IF Server(name, peers) = "knob" THEN "own" ELSE Server(name, peers)
<1>1. CASE /\ name.head \notin peers /\ name.head # "client"
           /\ name.tail \in {"add_task", "update_server", "client_show", "expect_reply",
                             "set_voice", "remap_keyword", "made_up"}
  BY <1>1 DEF Server, Origin, Devices, Declared, Ambiguous
<1>2. CASE name.tail \in {"run", "build"} /\ Declared(name)
  <2>1. name.head = "client" /\ name.head \notin peers
    BY <1>2 DEF Declared, Ambiguous
  <2> QED BY <1>2, <2>1 DEF Server, Origin, Devices
<1>3. CASE name.tail \in {"run", "build"} /\ ~Declared(name)
  <2>1. name.head \in peers
    BY <1>3 DEF Server
  <2> QED BY <1>3, <2>1 DEF Server, Origin
<1> QED BY <1>1, <1>2, <1>3, HeadsAreApart

\* Even then it tells who counts the call.
LEMMA NamesTellWhoCounts ==
  ASSUME NEW name \in Names, NEW peers \in SUBSET Peers, Server(name, peers) # "nobody"
  PROVE  Origin(name, peers) \in Telemetered <=> Server(name, peers) \in {"client", "peer"}
<1>1. CASE Ambiguous(name, peers)
  <2>1. name.head \in peers /\ Declared(name)
    BY <1>1 DEF Ambiguous
  <2>2. name.tail \notin {"add_task", "update_server"}
    BY <2>1, CallsAssumption DEF Declared
  <2>3. Server(name, peers) = "client" /\ Origin(name, peers) = "peer"
    BY <2>1, <2>2, HeadsAreApart DEF Server, Origin, Declared
  <2> QED BY <2>3 DEF Telemetered
<1>2. CASE ~Ambiguous(name, peers)
  <2>1. Origin(name, peers) = IF Server(name, peers) = "knob" THEN "own" ELSE Server(name, peers)
    BY <1>2, NamesTellTheServer
  <2> QED BY <2>1 DEF Telemetered, Server
<1> QED BY <1>1, <1>2

\* Only a tool of Amber's own, a knob, or a peer's is gated.
LEMMA WhatIsGated ==
  ASSUME NEW name \in Names, NEW peers \in SUBSET Peers, Gated(name, peers)
  PROVE  Server(name, peers) \in {"own", "knob", "peer"}
BY CallsAssumption, HeadsAreApart DEF Gated, Server, Declared

LEMMA NamesTyped ==
  ASSUME NEW name \in Names, NEW peers \in SUBSET Peers
  PROVE  /\ Origin(name, peers) \in {"own", "client", "signal", "peer"}
         /\ Server(name, peers) \in Servers
         /\ Gated(name, peers) \in BOOLEAN
BY DEF Origin, Server, Servers, Gated

-----------------------------------------------------------------------------
(* Types                                                                   *)

LEMMA TelemetryStep ==
  ASSUME TelemetryTypeOK
  PROVE  /\ \A r \in Rows : Record(r) => TelemetryTypeOK' /\ recorded' = [recorded EXCEPT ![r] = @ + 1]
         /\ Quiet => TelemetryTypeOK' /\ recorded' = recorded
         /\ Stop => TelemetryTypeOK' /\ recorded' = recorded
         /\ Write => TelemetryTypeOK' /\ recorded' = recorded
<1> USE TelemetryAssumption
<1>1. ASSUME NEW r \in Rows, Record(r)
      PROVE  TelemetryTypeOK' /\ recorded' = [recorded EXCEPT ![r] = @ + 1]
  <2>1. queue' \in Seq(Rows) /\ Len(queue') <= QueueSize
    BY <1>1 DEF Record, TelemetryTypeOK
  <2>2. recorded' \in [Rows -> Nat]
    BY <1>1 DEF Record, TelemetryTypeOK
  <2> QED BY <1>1, <2>1, <2>2 DEF Record, TelemetryTypeOK
<1>2. ASSUME Quiet PROVE TelemetryTypeOK' /\ recorded' = recorded
  BY <1>2 DEF Quiet, telemetry, TelemetryTypeOK
<1>t. queue \in Seq(Rows) /\ Len(queue) \in Nat /\ Batched \in 0 .. Len(queue)
  BY DEF TelemetryTypeOK, Batched
<1>b. /\ SubSeq(queue, 1, Batched) \in Seq(Rows)
      /\ SubSeq(queue, Batched + 1, Len(queue)) \in Seq(Rows)
      /\ Len(SubSeq(queue, Batched + 1, Len(queue))) <= Len(queue)
  BY <1>t
<1>3. ASSUME Stop PROVE TelemetryTypeOK' /\ recorded' = recorded
  <2>1. /\ batch' = SubSeq(queue, 1, Batched)
        /\ queue' = SubSeq(queue, Batched + 1, Len(queue))
        /\ orphan' \in {batch, <<>>} /\ writer' \in {"gone", "flushing"}
        /\ UNCHANGED <<table, failures, recorded>>
    BY <1>3 DEF Stop, Orphaned, Take
  <2>2. orphan' \in Seq(Rows)
    <3>1. batch \in Seq(Rows) /\ <<>> \in Seq(Rows)
      BY DEF TelemetryTypeOK
    <3> QED BY <2>1, <3>1
  <2>3. Len(queue') <= QueueSize
    BY <2>1, <1>b, <1>t DEF TelemetryTypeOK
  <2> QED BY <2>1, <2>2, <2>3, <1>b DEF TelemetryTypeOK
<1>4. ASSUME Drain PROVE TelemetryTypeOK' /\ recorded' = recorded
  <2>1. /\ batch' = SubSeq(queue, 1, Batched)
        /\ queue' = SubSeq(queue, Batched + 1, Len(queue))
        /\ writer' = "writing" /\ UNCHANGED <<orphan, table, failures, recorded>>
    BY <1>4 DEF Drain, Take
  <2> QED BY <2>1, <1>b, <1>t DEF TelemetryTypeOK
<1>w. ASSUME NEW rows \in Seq(Rows), Written(rows) \/ Unwritten
      PROVE  table' \in Seq(Rows) /\ failures' \in 0 .. MaxFailures
  <2>1. table \in Seq(Rows) /\ failures \in 0 .. MaxFailures
    BY DEF TelemetryTypeOK
  <2>2. CASE Written(rows)
    BY <2>1, <2>2 DEF Written
  <2>3. CASE Unwritten
    BY <2>1, <2>3 DEF Unwritten
  <2> QED BY <1>w, <2>2, <2>3
<1>5. ASSUME Wrote PROVE TelemetryTypeOK' /\ recorded' = recorded
  <2>1. batch \in Seq(Rows)
    BY DEF TelemetryTypeOK
  <2>2. table' \in Seq(Rows) /\ failures' \in 0 .. MaxFailures
    BY <1>5, <2>1, <1>w DEF Wrote
  <2> QED BY <1>5, <2>2 DEF Wrote, TelemetryTypeOK
<1>6. ASSUME OrphanWrote PROVE TelemetryTypeOK' /\ recorded' = recorded
  <2>1. orphan \in Seq(Rows)
    BY DEF TelemetryTypeOK
  <2>2. table' \in Seq(Rows) /\ failures' \in 0 .. MaxFailures
    BY <1>6, <2>1, <1>w DEF OrphanWrote
  <2> QED BY <1>6, <2>2 DEF OrphanWrote, TelemetryTypeOK
<1> QED BY <1>1, <1>2, <1>3, <1>4, <1>5, <1>6 DEF Write

\* What changes when a turn takes a step: its run, what is bound, its cards and its log
LEMMA TurnTyped ==
  ASSUME TypeOK, NEW t \in Turns, NEW run \in Run,
         NEW binding \in [run : BOOLEAN, confirmed : BOOLEAN],
         NEW shown \in SUBSET (1 .. MaxCalls),
         NEW back \in Seq([server : Servers, result : Results]),
         turn' = [turn EXCEPT ![t] = run],
         bound' = [bound EXCEPT ![t] = binding],
         cards' = [cards EXCEPT ![t] = shown],
         log' = [log EXCEPT ![t] = back],
         UNCHANGED <<discovered, pulls, wire>>,
         TelemetryTypeOK'
  PROVE  TypeOK'
BY DEF TypeOK

\* The other turns notice nothing.
LEMMA OthersStay ==
  ASSUME TypeOK, NEW t \in Turns, NEW r \in Turns, r # t,
         NEW run, NEW binding, NEW shown, NEW back, NEW w,
         turn' = [turn EXCEPT ![t] = run],
         bound' = [bound EXCEPT ![t] = binding],
         cards' = [cards EXCEPT ![t] = shown],
         log' = [log EXCEPT ![t] = back],
         wire' = [wire EXCEPT ![t] = w],
         \A n \in 0 .. MaxCalls : recorded'[<<r, n>>] = recorded[<<r, n>>],
         Placed(r), Tallied(r)
  PROVE  Placed(r)' /\ Tallied(r)'
<1> USE CallsAssumption
<1>1. /\ turn'[r] = turn[r] /\ bound'[r] = bound[r] /\ cards'[r] = cards[r]
      /\ log'[r] = log[r] /\ wire'[r] = wire[r]
  BY DEF TypeOK
<1>2. Placed(r)'
  BY <1>1 DEF Placed
<1>3. turn[r].calls \in 0 .. MaxCalls
  BY DEF TypeOK, Run
<1>4. \A n \in 1 .. MaxCalls : recorded'[<<r, n>>] = recorded[<<r, n>>]
  <2>1. \A n \in 1 .. MaxCalls : n \in 0 .. MaxCalls
    BY CallsAssumption
  <2> QED BY <2>1
<1>5. \A n \in 1 .. MaxCalls : Fair(r, n) => Fair(r, n)'
  BY <1>1, <1>4 DEF Fair
<1>6. Counted(r)' = Counted(r)
  BY <1>1 DEF Counted
<1>7. recorded'[<<r, turn[r].calls>>] = recorded[<<r, turn[r].calls>>]
  BY <1>3
<1>8. Tallied(r)'
  BY <1>1, <1>4, <1>5, <1>6, <1>7 DEF Tallied
<1> QED BY <1>2, <1>8

Inv == TypeOK /\ \A t \in Turns : Placed(t) /\ Tallied(t)

\* A step of one turn, from what it makes of that turn
LEMMA OneTurn ==
  ASSUME Inv, NEW t \in Turns, NEW run \in Run,
         NEW binding \in [run : BOOLEAN, confirmed : BOOLEAN],
         NEW shown \in SUBSET (1 .. MaxCalls),
         NEW back \in Seq([server : Servers, result : Results]),
         turn' = [turn EXCEPT ![t] = run],
         bound' = [bound EXCEPT ![t] = binding],
         cards' = [cards EXCEPT ![t] = shown],
         log' = [log EXCEPT ![t] = back],
         UNCHANGED <<discovered, pulls, wire>>,
         TelemetryTypeOK',
         \/ recorded' = recorded
         \/ \E n \in 0 .. MaxCalls : recorded' = [recorded EXCEPT ![<<t, n>>] = @ + 1],
         Placed(t)', Tallied(t)'
  PROVE  Inv'
<1> USE CallsAssumption
<1>1. TypeOK'
  BY TurnTyped DEF Inv
<1>2. ASSUME NEW r \in Turns PROVE Placed(r)' /\ Tallied(r)'
  <2>1. CASE r = t
    BY <2>1
  <2>2. CASE r # t
    <3>1. wire' = [wire EXCEPT ![t] = wire[t]]
      BY DEF Inv, TypeOK
    <3>2. \A n \in 0 .. MaxCalls : recorded'[<<r, n>>] = recorded[<<r, n>>]
      BY <2>2 DEF Inv, TypeOK, TelemetryTypeOK
    <3> QED BY <2>2, <3>1, <3>2, OthersStay DEF Inv
  <2> QED BY <2>1, <2>2
<1> QED BY <1>1, <1>2 DEF Inv

LEMMA InvInit == Init => Inv
<1> SUFFICES ASSUME Init PROVE Inv
  OBVIOUS
<1>1. TelemetryTypeOK
  <2>1. <<>> \in Seq(Rows) /\ Len(<<>>) = 0
    OBVIOUS
  <2>2. recorded \in [Rows -> Nat]
    BY DEF Init, TelemetryInit
  <2> QED BY <2>1, <2>2, TelemetryAssumption DEF Init, TelemetryInit, TelemetryTypeOK
<1>2. Resting \in Run
  <2>1. Local("made_up") \in Names
    BY DEF Local, Names
  <2>2. 0 \in 0 .. MaxCalls
    BY CallsAssumption
  <2> QED BY <2>1, <2>2 DEF Resting, Run, Running, Results
<1>3. TypeOK
  <2>1. <<>> \in Seq([server : Servers, result : Results])
    OBVIOUS
  <2>2. pulls \in 0 .. MaxPulls /\ discovered \subseteq Listed
    BY CallsAssumption DEF Init
  <2> QED BY <1>1, <1>2, <2>1, <2>2 DEF Init, TypeOK
<1>4. ASSUME NEW t \in Turns PROVE Placed(t) /\ Tallied(t)
  <2>1. /\ turn[t].pc = "off" /\ turn[t].calls = 0 /\ turn[t] = Resting
        /\ bound[t].confirmed = FALSE /\ cards[t] = {} /\ log[t] = <<>>
    BY DEF Init, Resting
  <2>2. Placed(t)
    BY <2>1 DEF Placed, Running
  <2>3. \A n \in 1 .. MaxCalls : <<t, n>> \in Rows
    BY CallsAssumption
  <2>4. \A n \in 1 .. MaxCalls : recorded[<<t, n>>] = 0
    BY <2>3 DEF Init, TelemetryInit
  <2>5. Len(log[t]) = 0
    BY <2>1
  <2>6. Tallied(t)
    BY <2>1, <2>4, <2>5 DEF Tallied
  <2> QED BY <2>2, <2>6
<1> QED BY <1>3, <1>4 DEF Inv

-----------------------------------------------------------------------------
(* The steps                                                               *)

LEMMA StepKeeps ==
  ASSUME Inv, NEW t \in Turns, Step(t) \/ Cancel(t)
  PROVE  Inv'
<1> DEFINE r == turn[t]
<1>t. /\ TypeOK /\ TelemetryTypeOK /\ Placed(t) /\ Tallied(t)
      /\ r \in Run /\ bound[t] \in [run : BOOLEAN, confirmed : BOOLEAN]
      /\ cards[t] \in SUBSET (1 .. MaxCalls)
      /\ log[t] \in Seq([server : Servers, result : Results])
      /\ bound' = bound => bound' = [bound EXCEPT ![t] = bound[t]]
      /\ cards' = cards => cards' = [cards EXCEPT ![t] = cards[t]]
      /\ log' = log => log' = [log EXCEPT ![t] = log[t]]
  BY DEF Inv, TypeOK
<1>n. /\ MaxCalls \in Nat /\ r.calls \in 0 .. MaxCalls /\ r.name \in Names
      /\ r.peers \in SUBSET Peers /\ r.calls \in Nat
      /\ \A n \in 0 .. MaxCalls : <<t, n>> \in Rows /\ recorded[<<t, n>>] \in Nat
      /\ Len(log[t]) \in Nat
  <2>1. MaxCalls \in Nat /\ \A n \in 0 .. MaxCalls : <<t, n>> \in Rows
    BY CallsAssumption
  <2>2. r.calls \in 0 .. MaxCalls /\ r.name \in Names /\ r.peers \in SUBSET Peers
    BY <1>t DEF Run
  <2>3. \A n \in 0 .. MaxCalls : recorded[<<t, n>>] \in Nat
    BY <1>t, <2>1 DEF TelemetryTypeOK
  <2>4. Len(log[t]) \in Nat
    BY <1>t
  <2> QED BY <2>1, <2>2, <2>3, <2>4
<1>q. Quiet => TelemetryTypeOK' /\ recorded' = recorded
  BY <1>t, TelemetryStep
<1>c. ASSUME NEW n \in 0 .. MaxCalls, Record(<<t, n>>)
      PROVE  /\ TelemetryTypeOK' /\ recorded' = [recorded EXCEPT ![<<t, n>>] = @ + 1]
             /\ recorded'[<<t, n>>] = recorded[<<t, n>>] + 1
             /\ \A m \in 0 .. MaxCalls : m # n => recorded'[<<t, m>>] = recorded[<<t, m>>]
  <2>1. TelemetryTypeOK' /\ recorded' = [recorded EXCEPT ![<<t, n>>] = @ + 1]
    BY <1>c, <1>t, <1>n, TelemetryStep
  <2>2. recorded \in [Rows -> Nat]
    BY <1>t DEF TelemetryTypeOK
  <2> QED BY <2>1, <2>2, <1>n
<1>w. wire' = wire => wire'[t] = wire[t]
  OBVIOUS
<1> HIDE DEF r
<1>k. turn[t] = r
  BY DEF r
\* A step within a run that counts nothing and brings no call back
<1>s. ASSUME NEW run \in Run, turn' = [turn EXCEPT ![t] = run], run.calls = r.calls,
             Quiet, UNCHANGED <<discovered, pulls, wire, log>>,
             NEW binding \in [run : BOOLEAN, confirmed : BOOLEAN],
             bound' = [bound EXCEPT ![t] = binding], cards' = cards,
             Placed(t)',
             \/ r.pc \in {"off", "thinking"} /\ run.pc \in {"off", "thinking"}
             \/ /\ r.pc \in {"asking", "serving"} /\ run.pc \in {"serving", "returning"}
                /\ Counted(t) = 0 /\ Counted(t)' = 0
      PROVE  Inv'
  <2>1. turn'[t] = run /\ log'[t] = log[t] /\ recorded' = recorded /\ turn'[t].calls = r.calls
    BY <1>s, <1>t, <1>q DEF TypeOK
  <2>2. \A n \in 1 .. MaxCalls : Fair(t, n) => Fair(t, n)'
    BY <2>1 DEF Fair
  <2>3. Tallied(t)'
    BY <2>1, <2>2, <1>s, <1>t, <1>k DEF Tallied
  <2>4. /\ cards' = [cards EXCEPT ![t] = cards[t]] /\ log' = [log EXCEPT ![t] = log[t]]
        /\ TelemetryTypeOK' /\ UNCHANGED <<discovered, pulls, wire>> /\ Placed(t)'
    BY <1>s, <1>t, <1>q
  <2>5. /\ cards[t] \in SUBSET (1 .. MaxCalls) /\ recorded' = recorded
        /\ log[t] \in Seq([server : Servers, result : Results])
    BY <1>t, <2>1
  <2>6. turn' = [turn EXCEPT ![t] = run] /\ bound' = [bound EXCEPT ![t] = binding]
    BY <1>s
  <2> QED BY <2>3, <2>4, <2>5, <2>6, OneTurn
<1>1. ASSUME Think(t) PROVE Inv'
  <2> DEFINE run == [r EXCEPT !.pc = "thinking", !.peers = Known]
             binding == [bound[t] EXCEPT !.run = TRUE]
  <2>1. turn' = [turn EXCEPT ![t] = run] /\ bound' = [bound EXCEPT ![t] = binding]
    BY <1>1, <1>k, <1>t DEF Think, TypeOK
  <2>2. Known \in SUBSET Peers
    BY <1>t DEF Known, Peers, TypeOK
  <2>3. run \in Run /\ run.calls = r.calls /\ run.pc = "thinking"
    BY <2>2, <1>t, <1>k DEF Run, Running
  <2>4. /\ binding \in [run : BOOLEAN, confirmed : BOOLEAN]
        /\ binding.run /\ binding.confirmed = bound[t].confirmed
    BY <1>t
  <2>5. r.pc = "off" /\ UNCHANGED <<discovered, pulls, wire, cards, log>> /\ Quiet
    BY <1>1, <1>k DEF Think, At, Quiet
  <2> HIDE DEF run, binding
  <2>6. turn'[t] = run /\ bound'[t] = binding
    BY <2>1, <1>t DEF TypeOK
  <2>7. Placed(t)'
    BY <2>3, <2>4, <2>5, <2>6, <1>t, <1>k DEF Placed
  <2> QED BY <2>1, <2>3, <2>4, <2>5, <2>7, <1>s
<1>2. ASSUME Call(t) PROVE Inv'
  <2>1. PICK name \in Names :
           turn' = [turn EXCEPT ![t].pc = "asking", ![t].calls = @ + 1, ![t].name = name,
                                ![t].origin = Origin(name, turn[t].peers)]
    BY <1>2 DEF Call
  <2> DEFINE run == [r EXCEPT !.pc = "asking", !.calls = r.calls + 1, !.name = name,
                              !.origin = Origin(name, r.peers)]
             shown == IF wire[t] THEN cards[t] \cup {r.calls + 1} ELSE cards[t]
  <2>2. turn' = [turn EXCEPT ![t] = run] /\ cards' = [cards EXCEPT ![t] = shown]
    BY <1>2, <2>1, <1>k, <1>t DEF Call, TypeOK
  <2>3. /\ r.pc = "thinking" /\ r.calls < MaxCalls
        /\ UNCHANGED <<discovered, pulls, bound, wire, log>> /\ Quiet
    BY <1>2, <1>k DEF Call, At, Quiet
  <2>4. r.calls + 1 \in 1 .. MaxCalls /\ r.calls + 1 \in 0 .. MaxCalls
    BY <2>3, <1>n
  <2>5. Origin(name, r.peers) \in {"own", "client", "signal", "peer"}
    BY <1>n, NamesTyped
  <2>6. /\ run \in Run /\ run.pc = "asking" /\ run.calls = r.calls + 1 /\ run.name = name
        /\ run.peers = r.peers /\ run.origin = Origin(name, r.peers)
    BY <2>4, <2>5, <1>t, <1>k DEF Run, Running
  <2>7. shown \in SUBSET (1 .. MaxCalls)
    BY <2>4, <1>t
  <2>8. wire[t] => shown = {r.calls + 1}
    BY <2>3, <1>t, <1>k DEF Placed
  <2> HIDE DEF run, shown
  <2>9. turn'[t] = run /\ cards'[t] = shown /\ bound'[t] = bound[t] /\ log'[t] = log[t]
        /\ recorded' = recorded /\ wire' = wire
    BY <2>2, <2>3, <1>t, <1>q DEF TypeOK
  <2>10. Placed(t)'
    BY <2>3, <2>4, <2>6, <2>8, <2>9, <1>t, <1>k DEF Placed, Running
  <2>11. Tallied(t)'
    <3>1. \A n \in 1 .. MaxCalls : Fair(t, n) => Fair(t, n)'
      BY <2>9 DEF Fair
    <3>2. Counted(t)' = 0
      BY <2>6, <2>9 DEF Counted
    <3>3. recorded[<<t, r.calls + 1>>] = 0 /\ Len(log[t]) = r.calls
      BY <2>3, <2>4, <1>t, <1>k, <1>n DEF Tallied
    <3>4. \A n \in 1 .. MaxCalls : recorded[<<t, n>>] <= 1
                                  /\ (n > r.calls + 1 => recorded[<<t, n>>] = 0)
                                  /\ (n <= Len(log[t]) => Fair(t, n))
      BY <1>t, <1>k, <1>n DEF Tallied
    <3>5. r.calls <= r.calls + 1 /\ r.calls = (r.calls + 1) - 1
      BY <1>n
    <3> QED BY <2>6, <2>9, <3>1, <3>2, <3>3, <3>4, <3>5 DEF Tallied
  <2>12. /\ bound' = [bound EXCEPT ![t] = bound[t]] /\ log' = [log EXCEPT ![t] = log[t]]
         /\ TelemetryTypeOK' /\ recorded' = recorded /\ UNCHANGED <<discovered, pulls, wire>>
    BY <2>3, <1>t, <1>q
  <2>13. /\ bound[t] \in [run : BOOLEAN, confirmed : BOOLEAN]
         /\ log[t] \in Seq([server : Servers, result : Results]) /\ run \in Run
    BY <2>6, <1>t
  <2> QED BY <2>2, <2>7, <2>10, <2>11, <2>12, <2>13, OneTurn
<1>3. ASSUME Pass(t) PROVE Inv'
  <2> DEFINE run == [r EXCEPT !.pc = "serving", !.approved = FALSE]
  <2>1. turn' = [turn EXCEPT ![t] = run]
    BY <1>3, <1>k, <1>t DEF Pass, TypeOK
  <2>2. /\ r.pc = "asking" /\ ~Gated(r.name, r.peers) /\ Quiet
        /\ UNCHANGED <<discovered, pulls, bound, wire, cards, log>>
    BY <1>3, <1>k DEF Pass, At, Quiet
  <2>3. /\ run \in Run /\ run.pc = "serving" /\ run.approved = FALSE /\ run.calls = r.calls
        /\ run.name = r.name /\ run.peers = r.peers /\ run.origin = r.origin
    BY <1>t DEF Run, Running
  <2> HIDE DEF run
  <2>4. turn'[t] = run /\ bound' = [bound EXCEPT ![t] = bound[t]]
    BY <2>1, <2>2, <1>t DEF TypeOK
  <2>5. bound[t].run /\ bound[t].confirmed = FALSE
    BY <2>2, <1>t, <1>k DEF Placed, Running
  <2>6. Gated(r.name, r.peers) = FALSE
    BY <2>2, <1>n, NamesTyped
  <2>7. Placed(t)'
    BY <2>2, <2>3, <2>4, <2>5, <2>6, <1>t, <1>k DEF Placed, Running
  <2>8. Counted(t) = 0 /\ Counted(t)' = 0
    BY <2>2, <2>3, <2>4, <1>k DEF Counted
  <2>9. bound[t] \in [run : BOOLEAN, confirmed : BOOLEAN]
    BY <1>t
  <2> QED BY <2>1, <2>2, <2>3, <2>4, <2>7, <2>8, <2>9, <1>s
<1>4. ASSUME Refuse(t) PROVE Inv'
  <2> DEFINE run == [r EXCEPT !.pc = "returning", !.approved = FALSE, !.result = "refused"]
  <2>1. turn' = [turn EXCEPT ![t] = run]
    BY <1>4, <1>k, <1>t DEF Refuse, TypeOK
  <2>2. /\ r.pc = "asking" /\ Gated(r.name, r.peers) /\ Quiet
        /\ UNCHANGED <<discovered, pulls, bound, wire, cards, log>>
    BY <1>4, <1>k DEF Refuse, At, Quiet
  <2>3. /\ run \in Run /\ run.pc = "returning" /\ run.result = "refused" /\ run.calls = r.calls
        /\ run.name = r.name /\ run.peers = r.peers /\ run.origin = r.origin
    BY <1>t DEF Run, Running, Results
  <2> HIDE DEF run
  <2>4. turn'[t] = run /\ bound' = [bound EXCEPT ![t] = bound[t]]
    BY <2>1, <2>2, <1>t DEF TypeOK
  <2>5. bound[t].run /\ ~bound[t].confirmed
    BY <2>2, <1>t, <1>k DEF Placed, Running
  <2>7. Placed(t)'
    BY <2>2, <2>3, <2>4, <2>5, <1>t, <1>k DEF Placed, Running
  <2>8. Counted(t) = 0 /\ Counted(t)' = 0
    BY <2>2, <2>3, <2>4, <1>k DEF Counted
  <2>9. bound[t] \in [run : BOOLEAN, confirmed : BOOLEAN]
    BY <1>t
  <2> QED BY <2>1, <2>2, <2>3, <2>4, <2>7, <2>8, <2>9, <1>s
<1>5. ASSUME Approve(t) PROVE Inv'
  <2> DEFINE run == [r EXCEPT !.pc = "serving", !.approved = TRUE]
             binding == Confirmed(bound[t])
  <2>1. turn' = [turn EXCEPT ![t] = run] /\ bound' = [bound EXCEPT ![t] = binding]
    BY <1>5, <1>k, <1>t DEF Approve, TypeOK
  <2>2. /\ r.pc = "asking" /\ Gated(r.name, r.peers) /\ Quiet
        /\ UNCHANGED <<discovered, pulls, wire, cards, log>>
    BY <1>5, <1>k DEF Approve, At, Quiet
  <2>3. /\ run \in Run /\ run.pc = "serving" /\ run.approved = TRUE /\ run.calls = r.calls
        /\ run.name = r.name /\ run.peers = r.peers /\ run.origin = r.origin
    BY <1>t DEF Run, Running
  <2>4. /\ binding \in [run : BOOLEAN, confirmed : BOOLEAN]
        /\ binding.run = bound[t].run /\ binding.confirmed = TRUE
    BY <1>t DEF Confirmed
  <2> HIDE DEF run, binding
  <2>5. turn'[t] = run /\ bound'[t] = binding
    BY <2>1, <1>t DEF TypeOK
  <2>6. bound[t].run
    BY <2>2, <1>t, <1>k DEF Placed, Running
  <2>7. Gated(r.name, r.peers) = TRUE
    BY <2>2, <1>n, NamesTyped
  <2>8. Placed(t)'
    BY <2>2, <2>3, <2>4, <2>5, <2>6, <2>7, <1>t, <1>k DEF Placed, Running
  <2>9. Counted(t) = 0 /\ Counted(t)' = 0
    BY <2>2, <2>3, <2>5, <1>k DEF Counted
  <2> QED BY <2>1, <2>2, <2>3, <2>4, <2>8, <2>9, <1>s
\* The inner broker is through.
<1>v. ASSUME NEW result \in {"ok", "error", "raised"}, Served(t, result), r.pc = "serving",
             result = "raised" => Server(r.name, r.peers) = "client"
      PROVE  \E run \in Run, binding \in [run : BOOLEAN, confirmed : BOOLEAN] :
                /\ turn' = [turn EXCEPT ![t] = run] /\ bound' = [bound EXCEPT ![t] = binding]
                /\ run.pc = "returning" /\ run.calls = r.calls /\ run.result = result
                /\ run.name = r.name /\ run.peers = r.peers
                /\ UNCHANGED <<discovered, pulls, wire, cards, log>>
                /\ turn'[t] = run /\ Placed(t)'
  <2> DEFINE run == [r EXCEPT !.pc = "returning", !.result = result]
             binding == [bound[t] EXCEPT !.confirmed = FALSE]
  <2>1. turn' = [turn EXCEPT ![t] = run] /\ bound' = [bound EXCEPT ![t] = binding]
    BY <1>v, <1>k, <1>t DEF Served, TypeOK
  <2>2. UNCHANGED <<discovered, pulls, wire, cards, log>>
    BY <1>v DEF Served
  <2>3. /\ run \in Run /\ run.pc = "returning" /\ run.result = result /\ run.calls = r.calls
        /\ run.name = r.name /\ run.peers = r.peers /\ run.origin = r.origin
    BY <1>t DEF Run, Running, Results
  <2>4. /\ binding \in [run : BOOLEAN, confirmed : BOOLEAN]
        /\ binding.run = bound[t].run /\ binding.confirmed = FALSE
    BY <1>t
  <2> HIDE DEF run, binding
  <2>5. turn'[t] = run /\ bound'[t] = binding
    BY <2>1, <1>t DEF TypeOK
  <2>6. bound[t].run
    BY <1>v, <1>t, <1>k DEF Placed, Running
  <2>7. Placed(t)'
    BY <2>2, <2>3, <2>4, <2>5, <2>6, <1>v, <1>t, <1>k DEF Placed, Running
  <2> QED BY <2>1, <2>2, <2>3, <2>4, <2>5, <2>7
<1>6. ASSUME Serve(t) PROVE Inv'
  <2>1. /\ r.pc = "serving" /\ Server(r.name, r.peers) # "own" /\ Quiet
    BY <1>6, <1>k DEF Serve, At
  <2>2. PICK result \in {"ok", "error", "raised"} :
           /\ result = "raised" => Server(r.name, r.peers) = "client"
           /\ Served(t, result)
    BY <1>6, <1>k DEF Serve
  <2>3. PICK run \in Run, binding \in [run : BOOLEAN, confirmed : BOOLEAN] :
           /\ turn' = [turn EXCEPT ![t] = run] /\ bound' = [bound EXCEPT ![t] = binding]
           /\ run.pc = "returning" /\ run.calls = r.calls /\ run.result = result
           /\ run.name = r.name /\ run.peers = r.peers
           /\ UNCHANGED <<discovered, pulls, wire, cards, log>>
           /\ turn'[t] = run /\ Placed(t)'
    BY <2>1, <2>2, <1>v
  <2>4. Counted(t) = 0 /\ Counted(t)' = 0
    BY <2>1, <2>3, <1>k DEF Counted
  <2>5. Placed(t)'
    BY <2>3
  <2> QED BY <2>1, <2>3, <2>4, <2>5, <1>s
<1>7. ASSUME Dispatch(t) PROVE Inv'
  <2>1. /\ r.pc = "serving" /\ Server(r.name, r.peers) = "own" /\ Record(<<t, r.calls>>)
    BY <1>7, <1>k DEF Dispatch, At, Id
  <2>2. PICK result \in {"ok", "error"} : Served(t, result)
    BY <1>7 DEF Dispatch
  <2>3. PICK run \in Run, binding \in [run : BOOLEAN, confirmed : BOOLEAN] :
           /\ turn' = [turn EXCEPT ![t] = run] /\ bound' = [bound EXCEPT ![t] = binding]
           /\ run.pc = "returning" /\ run.calls = r.calls /\ run.result = result
           /\ run.name = r.name /\ run.peers = r.peers
           /\ UNCHANGED <<discovered, pulls, wire, cards, log>>
           /\ turn'[t] = run /\ Placed(t)'
    BY <2>1, <2>2, <1>v
  <2>4. /\ TelemetryTypeOK'
        /\ recorded' = [recorded EXCEPT ![<<t, r.calls>>] = @ + 1]
        /\ recorded'[<<t, r.calls>>] = recorded[<<t, r.calls>>] + 1
        /\ \A m \in 0 .. MaxCalls : m # r.calls => recorded'[<<t, m>>] = recorded[<<t, m>>]
    BY <2>1, <1>n, <1>c
  <2>5. recorded[<<t, r.calls>>] = 0 /\ Len(log[t]) = r.calls - 1 /\ r.calls # 0
    <3>1. Counted(t) = 0
      BY <2>1, <1>k DEF Counted
    <3> QED BY <3>1, <2>1, <1>t, <1>k DEF Tallied, Placed
  <2>6. Counted(t)' = 1
    BY <2>1, <2>3 DEF Counted
  <2>7. ASSUME NEW n \in 1 .. MaxCalls
        PROVE  /\ recorded'[<<t, n>>] <= 1
               /\ n > r.calls => recorded'[<<t, n>>] = 0
               /\ n <= Len(log'[t]) => Fair(t, n)'
    <3>1. n \in 0 .. MaxCalls
      OBVIOUS
    <3>2. CASE n = r.calls
      BY <3>2, <2>3, <2>4, <2>5, <1>n
    <3>3. CASE n # r.calls
      <4>1. recorded'[<<t, n>>] = recorded[<<t, n>>] /\ log' = log
        BY <3>1, <3>3, <2>3, <2>4
      <4>2. /\ recorded[<<t, n>>] <= 1
            /\ n > r.calls => recorded[<<t, n>>] = 0
            /\ n <= Len(log[t]) => Fair(t, n)
        BY <1>t, <1>k DEF Tallied
      <4>3. Fair(t, n) => Fair(t, n)'
        BY <4>1 DEF Fair
      <4> QED BY <4>1, <4>2, <4>3
    <3> QED BY <3>2, <3>3
  <2>8. Tallied(t)'
    <3>1. /\ turn'[t].calls = r.calls /\ turn'[t].pc = "returning" /\ log'[t] = log[t]
          /\ recorded'[<<t, r.calls>>] = 1
      BY <2>3, <2>4, <2>5
    <3>2. Len(log'[t]) <= r.calls
      BY <3>1, <2>5, <1>n
    <3> QED BY <3>1, <3>2, <2>5, <2>6, <2>7 DEF Tallied
  <2>9. cards' = [cards EXCEPT ![t] = cards[t]] /\ log' = [log EXCEPT ![t] = log[t]]
    BY <2>3, <1>t
  <2>10. /\ cards[t] \in SUBSET (1 .. MaxCalls)
         /\ log[t] \in Seq([server : Servers, result : Results])
         /\ UNCHANGED <<discovered, pulls, wire>> /\ Placed(t)'
    BY <2>3, <1>t
  <2>11. \E n \in 0 .. MaxCalls : recorded' = [recorded EXCEPT ![<<t, n>>] = @ + 1]
    BY <2>4, <1>n
  <2>12. turn' = [turn EXCEPT ![t] = run] /\ bound' = [bound EXCEPT ![t] = binding]
    BY <2>3
  <2>13. TelemetryTypeOK'
    BY <2>4
  <2> QED BY <2>8, <2>9, <2>10, <2>11, <2>12, <2>13, OneTurn
<1>8. ASSUME Return(t) PROVE Inv'
  <2> DEFINE run == [r EXCEPT !.pc = "thinking"]
             shown == IF wire[t] THEN cards[t] \ {r.calls} ELSE cards[t]
             entry == [server |-> Server(r.name, r.peers), result |-> r.result]
             back == Append(log[t], entry)
  <2>1. /\ turn' = [turn EXCEPT ![t] = run] /\ cards' = [cards EXCEPT ![t] = shown]
        /\ log' = [log EXCEPT ![t] = back]
    BY <1>8, <1>k, <1>t DEF Return, TypeOK
  <2>2. /\ r.pc = "returning" /\ UNCHANGED <<discovered, pulls, bound, wire>>
        /\ IF Counts(t) THEN Record(<<t, r.calls>>) ELSE Quiet
    BY <1>8, <1>k DEF Return, At, Id
  <2>3. run \in Run /\ run.pc = "thinking" /\ run.calls = r.calls
    BY <1>t DEF Run, Running
  <2>4. shown \in SUBSET (1 .. MaxCalls) /\ (wire[t] => shown = {})
    BY <2>2, <1>t, <1>k DEF Placed
  <2>5. entry \in [server : Servers, result : Results]
    BY <1>n, <1>t, NamesTyped DEF Run
  <2>6. /\ Len(log[t]) = r.calls - 1 /\ r.calls # 0 /\ recorded[<<t, r.calls>>] = Counted(t)
    BY <2>2, <1>t, <1>k DEF Tallied, Placed
  <2>7. /\ back \in Seq([server : Servers, result : Results]) /\ Len(back) = r.calls
        /\ back[r.calls] = entry
        /\ \A n \in 1 .. MaxCalls : n <= Len(log[t]) => back[n] = log[t][n]
    BY <2>5, <2>6, <1>t, <1>n
  <2> HIDE DEF run, shown, back
  <2>8. turn'[t] = run /\ cards'[t] = shown /\ log'[t] = back /\ bound'[t] = bound[t]
        /\ wire'[t] = wire[t]
    BY <2>1, <2>2, <1>t DEF TypeOK
  <2>9. Placed(t)'
    BY <2>2, <2>3, <2>4, <2>8, <1>t, <1>k DEF Placed, Running
  \* Nobody has counted what is counted now.
  <2>10. Counts(t) => Counted(t) = 0
    <3>1. ASSUME Counts(t) PROVE Server(r.name, r.peers) # "own"
      <4>1. r.origin \in {"client", "peer"}
        BY <3>1, <1>k DEF Counts, Telemetered
      <4>2. r.origin = Origin(r.name, r.peers)
        BY <2>2, <1>t, <1>k DEF Placed
      <4>3. Server(r.name, r.peers) # "nobody" => Server(r.name, r.peers) \in {"client", "peer"}
        BY <1>n, <4>1, <4>2, NamesTellWhoCounts DEF Telemetered
      <4> QED BY <4>3
    <3> QED BY <3>1, <1>k DEF Counted
  <2>11. /\ TelemetryTypeOK'
         /\ \A m \in 0 .. MaxCalls : m # r.calls => recorded'[<<t, m>>] = recorded[<<t, m>>]
         /\ recorded'[<<t, r.calls>>] = Counted(t) + (IF Counts(t) THEN 1 ELSE 0)
         /\ \/ recorded' = recorded
            \/ \E n \in 0 .. MaxCalls : recorded' = [recorded EXCEPT ![<<t, n>>] = @ + 1]
    <3>1. CASE Counts(t)
      <4>1. Record(<<t, r.calls>>)
        BY <2>2, <3>1
      <4>2. /\ TelemetryTypeOK' /\ recorded' = [recorded EXCEPT ![<<t, r.calls>>] = @ + 1]
            /\ recorded'[<<t, r.calls>>] = recorded[<<t, r.calls>>] + 1
            /\ \A m \in 0 .. MaxCalls : m # r.calls => recorded'[<<t, m>>] = recorded[<<t, m>>]
        BY <4>1, <1>c, <1>n
      <4>3. \E n \in 0 .. MaxCalls : recorded' = [recorded EXCEPT ![<<t, n>>] = @ + 1]
        BY <4>2, <1>n
      <4>4. recorded'[<<t, r.calls>>] = Counted(t) + (IF Counts(t) THEN 1 ELSE 0)
        BY <4>2, <3>1, <2>6
      <4> QED BY <4>2, <4>3, <4>4
    <3>2. CASE ~Counts(t)
      <4>1. TelemetryTypeOK' /\ recorded' = recorded
        BY <2>2, <3>2, <1>q
      <4>2. recorded'[<<t, r.calls>>] = Counted(t) + (IF Counts(t) THEN 1 ELSE 0)
        BY <4>1, <3>2, <2>6 DEF Counted
      <4> QED BY <4>1, <4>2
    <3> QED BY <3>1, <3>2
  <2>12. recorded'[<<t, r.calls>>] <= 1
    BY <2>10, <2>11 DEF Counted
  \* The call that is back has been counted by the one who counts its kind.
  <2>13. ASSUME NEW n \in 1 .. MaxCalls, n = r.calls
         PROVE  Fair(t, n)'
    <3> DEFINE server == Server(r.name, r.peers)
    <3>1. log'[t][n].server = server /\ log'[t][n].result = r.result
      BY <2>7, <2>8, <2>13
    <3>2. recorded'[<<t, n>>] = Counted(t) + (IF Counts(t) THEN 1 ELSE 0)
      BY <2>11, <2>13
    <3>3. server # "nobody" => (r.origin \in Telemetered <=> server \in {"client", "peer"})
      BY <2>2, <1>n, <1>t, <1>k, NamesTellWhoCounts DEF Placed
    <3>4. r.result = "raised" => server = "client"
      BY <2>2, <1>t, <1>k DEF Placed
    <3>5. Counted(t) = IF server = "own" /\ r.result # "refused" THEN 1 ELSE 0
      BY <2>2, <1>k DEF Counted
    <3>6. server # "nobody" =>
             (Counts(t) <=> server \in {"client", "peer"} /\ r.result # "raised")
      BY <3>3, <1>k DEF Counts
    <3> HIDE DEF server
    <3>7. server # "nobody" =>
             (recorded'[<<t, n>>] = 1 <=> \/ server = "own" /\ r.result # "refused"
                                          \/ server = "client" /\ r.result # "raised"
                                          \/ server = "peer")
      BY <3>2, <3>4, <3>5, <3>6
    <3> QED BY <3>1, <3>7 DEF Fair
  <2>14. ASSUME NEW n \in 1 .. MaxCalls
         PROVE  /\ recorded'[<<t, n>>] <= 1
                /\ n > r.calls => recorded'[<<t, n>>] = 0
                /\ n <= Len(log'[t]) => Fair(t, n)'
    <3>1. n \in 0 .. MaxCalls
      OBVIOUS
    <3>2. CASE n = r.calls
      <4>1. Fair(t, n)' /\ recorded'[<<t, n>>] <= 1
        BY <3>2, <2>12, <2>13
      <4> QED BY <4>1, <3>2, <1>n
    <3>3. CASE n # r.calls
      <4>1. recorded'[<<t, n>>] = recorded[<<t, n>>]
        BY <3>1, <3>3, <2>11
      <4>2. /\ recorded[<<t, n>>] <= 1
            /\ n > r.calls => recorded[<<t, n>>] = 0
            /\ n <= Len(log[t]) => Fair(t, n)
        BY <1>t, <1>k DEF Tallied
      <4>3. n <= Len(log'[t]) => n <= Len(log[t]) /\ log'[t][n] = log[t][n]
        BY <3>3, <2>6, <2>7, <2>8, <1>n
      <4>4. n <= Len(log'[t]) => Fair(t, n)'
        BY <4>1, <4>2, <4>3 DEF Fair
      <4> QED BY <4>1, <4>2, <4>4
    <3> QED BY <3>2, <3>3
  <2>15. Tallied(t)'
    <3>1. turn'[t].calls = r.calls /\ turn'[t].pc = "thinking" /\ Len(log'[t]) = r.calls
      BY <2>3, <2>7, <2>8
    <3>2. Len(log'[t]) <= turn'[t].calls
      BY <3>1, <1>n
    <3> QED BY <3>1, <3>2, <2>14 DEF Tallied
  <2>16. bound' = [bound EXCEPT ![t] = bound[t]] /\ UNCHANGED <<discovered, pulls, wire>>
    BY <2>2, <1>t
  <2>17. TelemetryTypeOK' /\ run \in Run /\ shown \in SUBSET (1 .. MaxCalls)
         /\ back \in Seq([server : Servers, result : Results])
    BY <2>3, <2>4, <2>7, <2>11
  <2>18. \/ recorded' = recorded
         \/ \E n \in 0 .. MaxCalls : recorded' = [recorded EXCEPT ![<<t, n>>] = @ + 1]
    BY <2>11
  <2>19. bound[t] \in [run : BOOLEAN, confirmed : BOOLEAN]
    BY <1>t
  <2> QED BY <2>1, <2>9, <2>15, <2>16, <2>17, <2>18, <2>19, OneTurn
\* The run is over.
<1>d. ASSUME NEW run \in Run, turn' = [turn EXCEPT ![t] = run], run.calls = r.calls,
             run.pc = "done", UNCHANGED <<discovered, pulls, wire, cards, log>>,
             NEW binding \in [run : BOOLEAN, confirmed : BOOLEAN], ~binding.confirmed,
             bound' = [bound EXCEPT ![t] = binding], Record(<<t, 0>>) \/ Quiet
      PROVE  Inv'
  <2>1. turn'[t] = run /\ bound'[t] = binding /\ log'[t] = log[t]
    BY <1>d, <1>t DEF TypeOK
  <2>2. 0 \in 0 .. MaxCalls
    BY <1>n
  <2>3. /\ TelemetryTypeOK'
        /\ recorded' = recorded \/ recorded' = [recorded EXCEPT ![<<t, 0>>] = @ + 1]
        /\ \A m \in 0 .. MaxCalls : m # 0 => recorded'[<<t, m>>] = recorded[<<t, m>>]
    BY <1>d, <1>c, <1>q, <2>2
  <2>4. \/ recorded' = recorded
        \/ \E n \in 0 .. MaxCalls : recorded' = [recorded EXCEPT ![<<t, n>>] = @ + 1]
    BY <2>2, <2>3
  <2>5. \A n \in 1 .. MaxCalls : recorded'[<<t, n>>] = recorded[<<t, n>>]
    BY <2>3, <1>n
  <2>6. \A n \in 1 .. MaxCalls : Fair(t, n) => Fair(t, n)'
    BY <2>1, <2>5 DEF Fair
  <2>7. Placed(t)'
    BY <2>1, <1>d DEF Placed, Running
  <2>8. Tallied(t)'
    BY <2>1, <2>5, <2>6, <1>d, <1>t, <1>k DEF Tallied
  <2>9. cards' = [cards EXCEPT ![t] = cards[t]] /\ log' = [log EXCEPT ![t] = log[t]]
    BY <1>d, <1>t
  <2>10. /\ cards[t] \in SUBSET (1 .. MaxCalls) /\ TelemetryTypeOK'
         /\ log[t] \in Seq([server : Servers, result : Results])
    BY <1>t, <2>3
  <2>11. /\ turn' = [turn EXCEPT ![t] = run] /\ bound' = [bound EXCEPT ![t] = binding]
         /\ UNCHANGED <<discovered, pulls, wire>>
    BY <1>d
  <2> QED BY <2>4, <2>7, <2>8, <2>9, <2>10, <2>11, OneTurn
<1>9. ASSUME Finish(t) PROVE Inv'
  <2> DEFINE run == [r EXCEPT !.pc = "done"]
  <2>1. turn' = [turn EXCEPT ![t] = run] /\ bound' = [bound EXCEPT ![t] = bound[t]]
    BY <1>9, <1>k, <1>t DEF Finish, TypeOK
  <2>2. /\ r.pc = "thinking" /\ Record(<<t, 0>>)
        /\ UNCHANGED <<discovered, pulls, wire, cards, log>>
    BY <1>9, <1>k DEF Finish, At
  <2>3. run \in Run /\ run.pc = "done" /\ run.calls = r.calls
    BY <1>t DEF Run
  <2>4. bound[t] \in [run : BOOLEAN, confirmed : BOOLEAN] /\ ~bound[t].confirmed
    BY <2>2, <1>t, <1>k DEF Placed
  <2> HIDE DEF run
  <2> QED BY <2>1, <2>2, <2>3, <2>4, <1>d
<1>10. ASSUME Cancel(t) PROVE Inv'
  <2> DEFINE run == [r EXCEPT !.pc = "done"]
             binding == [bound[t] EXCEPT !.confirmed = FALSE]
  <2>1. turn' = [turn EXCEPT ![t] = run] /\ bound' = [bound EXCEPT ![t] = binding]
    BY <1>10, <1>k, <1>t DEF Cancel, TypeOK
  <2>2. (Record(<<t, 0>>) \/ Quiet) /\ UNCHANGED <<discovered, pulls, wire, cards, log>>
    BY <1>10 DEF Cancel
  <2>3. run \in Run /\ run.pc = "done" /\ run.calls = r.calls
    BY <1>t DEF Run
  <2>4. binding \in [run : BOOLEAN, confirmed : BOOLEAN] /\ ~binding.confirmed
    BY <1>t
  <2> HIDE DEF run, binding
  <2> QED BY <2>1, <2>2, <2>3, <2>4, <1>d
<1> QED BY <1>1, <1>2, <1>3, <1>4, <1>5, <1>6, <1>7, <1>8, <1>9, <1>10 DEF Step

\* What changes none of the runs: the socket, the peers, the writer
LEMMA AroundKeeps ==
  ASSUME Inv, UNCHANGED <<turn, bound, cards, log, recorded>>, TypeOK',
         \A t \in Turns : wire'[t] => wire[t]
  PROVE  Inv'
<1>1. ASSUME NEW t \in Turns PROVE Placed(t)' /\ Tallied(t)'
  <2>1. Placed(t) /\ Tallied(t)
    BY DEF Inv
  <2>2. Placed(t)'
    BY <2>1 DEF Placed
  <2>3. \A n \in 1 .. MaxCalls : Fair(t, n) => Fair(t, n)'
    BY DEF Fair
  <2>4. Counted(t)' = Counted(t)
    BY DEF Counted
  <2>5. Tallied(t)'
    BY <2>1, <2>3, <2>4 DEF Tallied
  <2> QED BY <2>2, <2>5
<1> QED BY <1>1 DEF Inv

LEMMA InvStep ==
  ASSUME Inv, [Next]_vars
  PROVE  Inv'
<1>t. TypeOK /\ TelemetryTypeOK
  BY DEF Inv, TypeOK
<1>1. CASE Pull
  <2>1. TypeOK'
    <3>1. pulls' \in 0 .. MaxPulls /\ discovered' \subseteq Listed
      BY <1>1, <1>t, CallsAssumption DEF Pull, TypeOK
    <3> QED BY <1>1, <1>t, <3>1 DEF Pull, callVars, telemetry, TypeOK, TelemetryTypeOK
  <2> QED BY <1>1, <2>1, AroundKeeps DEF Pull, callVars, telemetry
<1>2. CASE Shutdown
  <2>1. TelemetryTypeOK' /\ recorded' = recorded
    BY <1>2, <1>t, TelemetryStep DEF Shutdown
  <2>2. UNCHANGED <<discovered, pulls, turn, bound, wire, cards, log>>
    BY <1>2 DEF Shutdown, callVars
  <2>3. TypeOK'
    BY <2>1, <2>2, <1>t DEF TypeOK
  <2> QED BY <2>1, <2>2, <2>3, AroundKeeps
<1>3. CASE Writing
  <2>1. TelemetryTypeOK' /\ recorded' = recorded
    BY <1>3, <1>t, TelemetryStep DEF Writing
  <2>2. UNCHANGED <<discovered, pulls, turn, bound, wire, cards, log>>
    BY <1>3 DEF Writing, callVars
  <2>3. TypeOK'
    BY <2>1, <2>2, <1>t DEF TypeOK
  <2> QED BY <2>1, <2>2, <2>3, AroundKeeps
<1>4. ASSUME NEW t \in Turns, Step(t) \/ Cancel(t) PROVE Inv'
  BY <1>4, StepKeeps
<1>5. ASSUME NEW t \in Turns, HangUp(t) PROVE Inv'
  <2>1. /\ wire' = [wire EXCEPT ![t] = FALSE]
        /\ UNCHANGED <<discovered, pulls, turn, bound, cards, log, telemetry>>
    BY <1>5 DEF HangUp
  <2>2. TypeOK'
    BY <2>1, <1>t DEF TypeOK, TelemetryTypeOK, telemetry
  <2>3. \A r \in Turns : wire'[r] => wire[r]
    BY <2>1, <1>t DEF TypeOK
  <2>4. UNCHANGED <<turn, bound, cards, log, recorded>>
    BY <2>1 DEF telemetry
  <2> QED BY <2>2, <2>3, <2>4, AroundKeeps
<1>6. CASE UNCHANGED vars
  <2>1. UNCHANGED <<discovered, pulls, turn, bound, wire, cards, log, queue, batch, orphan,
                    table, writer, failures, recorded>>
    BY <1>6 DEF vars, callVars, telemetry
  <2>2. TypeOK'
    BY <2>1, <1>t DEF TypeOK, TelemetryTypeOK
  <2> QED BY <2>1, <2>2, AroundKeeps
<1> QED BY <1>1, <1>2, <1>3, <1>4, <1>5, <1>6 DEF Next

LEMMA Invariance == Spec => []Inv
<1>1. Inv /\ [Next]_vars => Inv'
  BY InvStep
<1> QED BY InvInit, <1>1, PTL DEF Spec

-----------------------------------------------------------------------------
(* Rows in the queue, under way and in the table                           *)

\* How often a row is in a sequence
Times(r, s) == Cardinality({i \in DOMAIN s : s[i] = r})

LEMMA TimesTyped ==
  ASSUME NEW s \in Seq(Rows), NEW r
  PROVE  /\ IsFiniteSet({i \in DOMAIN s : s[i] = r})
         /\ Times(r, s) \in Nat
<1>1. IsFiniteSet(1 .. Len(s)) /\ DOMAIN s = 1 .. Len(s)
  BY FS_Interval
<1>2. IsFiniteSet({i \in DOMAIN s : s[i] = r})
  BY <1>1, FS_Subset, {i \in DOMAIN s : s[i] = r} \in SUBSET (1 .. Len(s))
<1> QED BY <1>2, FS_CardinalityType DEF Times

LEMMA TimesNone ==
  ASSUME NEW r
  PROVE  Times(r, << >>) = 0
<1>1. {i \in DOMAIN << >> : << >>[i] = r} = {}
  OBVIOUS
<1> QED BY <1>1, FS_EmptySet DEF Times

LEMMA TimesConcat ==
  ASSUME NEW s \in Seq(Rows), NEW t \in Seq(Rows), NEW r
  PROVE  Times(r, s \o t) = Times(r, s) + Times(r, t)
<1> DEFINE A == {i \in DOMAIN s : s[i] = r}
           C == {j \in DOMAIN t : t[j] = r}
           B == {Len(s) + j : j \in C}
           f == [j \in C |-> Len(s) + j]
<1>1. /\ Len(s) \in Nat /\ Len(t) \in Nat /\ DOMAIN s = 1 .. Len(s) /\ DOMAIN t = 1 .. Len(t)
      /\ s \o t \in Seq(Rows) /\ DOMAIN (s \o t) = 1 .. Len(s) + Len(t)
      /\ \A i \in 1 .. Len(s) : (s \o t)[i] = s[i]
      /\ \A j \in 1 .. Len(t) : (s \o t)[Len(s) + j] = t[j]
  OBVIOUS
<1>2. {i \in DOMAIN (s \o t) : (s \o t)[i] = r} = A \cup B
  <2>1. ASSUME NEW i \in DOMAIN (s \o t), (s \o t)[i] = r PROVE i \in A \cup B
    <3>1. CASE i \in 1 .. Len(s)
      BY <1>1, <2>1, <3>1
    <3>2. CASE i \notin 1 .. Len(s)
      <4> DEFINE j == i - Len(s)
      <4>1. j \in 1 .. Len(t) /\ i = Len(s) + j
        BY <1>1, <3>2
      <4>2. j \in C
        BY <1>1, <2>1, <4>1
      <4> QED BY <4>1, <4>2
    <3> QED BY <3>1, <3>2
  <2>2. ASSUME NEW i \in A PROVE i \in DOMAIN (s \o t) /\ (s \o t)[i] = r
    BY <1>1
  <2>3. ASSUME NEW j \in C PROVE Len(s) + j \in DOMAIN (s \o t) /\ (s \o t)[Len(s) + j] = r
    BY <1>1
  <2> QED BY <2>1, <2>2, <2>3
<1>3. A \cap B = {}
  BY <1>1
<1>4. IsFiniteSet(A) /\ IsFiniteSet(C)
  BY TimesTyped
<1>5. IsFiniteSet(B) /\ Cardinality(B) = Cardinality(C)
  <2>1. f \in Bijection(C, B)
    <3>1. \A j \in C : j \in Nat
      BY <1>1
    <3>2. f \in [C -> B] /\ (\A i, j \in C : f[i] = f[j] => i = j) /\ \A b \in B : \E j \in C : f[j] = b
      BY <1>1, <3>1
    <3> HIDE DEF f, B, C
    <3> QED BY <3>2 DEF Bijection, Injection, Surjection, IsInjective
  <2>2. ExistsBijection(C, B)
    BY <2>1 DEF ExistsBijection
  <2> QED BY <1>4, <2>2, FS_Bijection
<1>6. Cardinality(A \cup B) = Cardinality(A) + Cardinality(B) - Cardinality(A \cap B)
  BY <1>4, <1>5, FS_Union
<1>7. Cardinality(A \cap B) = 0
  BY <1>3, FS_EmptySet
<1>8. Cardinality(A) \in Nat /\ Cardinality(C) \in Nat
  BY <1>4, FS_CardinalityType
<1>9. Times(r, s \o t) = Cardinality(A \cup B) /\ Times(r, s) = Cardinality(A) /\ Times(r, t) = Cardinality(C)
  BY <1>2 DEF Times
<1> HIDE DEF A, B, C
<1> QED BY <1>5, <1>6, <1>7, <1>8, <1>9

LEMMA TimesAppended ==
  ASSUME NEW s \in Seq(Rows), NEW q \in Rows, NEW r
  PROVE  Times(r, Append(s, q)) = IF q = r THEN Times(r, s) + 1 ELSE Times(r, s)
<1>1. <<q>> \in Seq(Rows) /\ Append(s, q) = s \o <<q>>
  OBVIOUS
<1>2. Times(r, Append(s, q)) = Times(r, s) + Times(r, <<q>>)
  BY <1>1, TimesConcat
<1>3. {i \in DOMAIN <<q>> : <<q>>[i] = r} = IF q = r THEN {1} ELSE {}
  OBVIOUS
<1>4. Times(r, <<q>>) = IF q = r THEN 1 ELSE 0
  BY <1>3, FS_Singleton, FS_EmptySet DEF Times
<1>5. Times(r, s) \in Nat
  BY TimesTyped
<1> QED BY <1>2, <1>4, <1>5

\* drain_once takes a batch off the queue, and nothing is lost or doubled by that.
LEMMA TimesSplit ==
  ASSUME NEW s \in Seq(Rows), NEW n \in 0 .. Len(s), NEW r
  PROVE  Times(r, SubSeq(s, 1, n)) + Times(r, SubSeq(s, n + 1, Len(s))) = Times(r, s)
<1> DEFINE head == SubSeq(s, 1, n)
           tail == SubSeq(s, n + 1, Len(s))
<1>1. /\ Len(s) \in Nat /\ n \in Nat /\ n <= Len(s)
      /\ head \in Seq(Rows) /\ Len(head) = n /\ \A i \in 1 .. n : head[i] = s[i]
      /\ tail \in Seq(Rows) /\ Len(tail) = Len(s) - n
      /\ \A i \in 1 .. Len(s) - n : tail[i] = s[n + i]
  OBVIOUS
<1> HIDE DEF head, tail
<1>2. head \o tail = s
  <2>1. head \o tail \in Seq(Rows) /\ Len(head \o tail) = Len(s)
    BY <1>1
  <2>2. ASSUME NEW i \in 1 .. Len(s) PROVE (head \o tail)[i] = s[i]
    <3>1. CASE i <= n
      BY <1>1, <3>1
    <3>2. CASE i > n
      <4>1. i - n \in 1 .. Len(s) - n /\ n + (i - n) = i
        BY <1>1, <3>2
      <4>2. (head \o tail)[i] = tail[i - n]
        BY <1>1, <3>2, <4>1
      <4> QED BY <1>1, <4>1, <4>2
    <3> QED BY <1>1, <3>1, <3>2
  <2> QED BY <2>1, <2>2, SeqEqual, Zenon
<1>3. Times(r, head \o tail) = Times(r, head) + Times(r, tail)
  BY <1>1, TimesConcat
<1> QED BY <1>2, <1>3 DEF head, tail

\* What is queued, under way and written, as a sum
OnTheWay(r) == Times(r, queue) + Times(r, batch) + Times(r, orphan) + Times(r, table)

LEMMA TimesTogether ==
  ASSUME NEW a \in Seq(Rows), NEW b \in Seq(Rows), NEW c \in Seq(Rows), NEW d \in Seq(Rows), NEW r
  PROVE  Times(r, a \o b \o c \o d) = Times(r, a) + Times(r, b) + Times(r, c) + Times(r, d)
<1>1. a \o b \in Seq(Rows) /\ Times(r, a \o b) = Times(r, a) + Times(r, b)
  BY TimesConcat
<1>2. a \o b \o c \in Seq(Rows) /\ Times(r, a \o b \o c) = Times(r, a \o b) + Times(r, c)
  <2> DEFINE ab == a \o b
  <2>1. ab \in Seq(Rows)
    BY <1>1
  <2> HIDE DEF ab
  <2>2. ab \o c \in Seq(Rows) /\ Times(r, ab \o c) = Times(r, ab) + Times(r, c)
    BY <2>1, TimesConcat
  <2> QED BY <2>2 DEF ab
<1>3. Times(r, a \o b \o c \o d) = Times(r, a \o b \o c) + Times(r, d)
  BY <1>2, TimesConcat
<1> QED BY <1>1, <1>2, <1>3

\* Whatever the queue and its writer do: rows come only from being reported, and those
\* under way move on, stay, or are lost.
LEMMA RowsMoveOn ==
  ASSUME TelemetryTypeOK, NothingIsWrittenTwice,
         (\E q \in Rows : Record(q)) \/ Quiet \/ Stop \/ Write
  PROVE  NothingIsWrittenTwice'
<1> USE TelemetryAssumption
<1> SUFFICES ASSUME NEW r \in Rows PROVE Copies(r)' <= recorded'[r]
  BY DEF NothingIsWrittenTwice
<1>t. /\ queue \in Seq(Rows) /\ batch \in Seq(Rows) /\ orphan \in Seq(Rows) /\ table \in Seq(Rows)
      /\ recorded \in [Rows -> Nat] /\ <<>> \in Seq(Rows)
  BY DEF TelemetryTypeOK
<1>n. /\ Times(r, queue) \in Nat /\ Times(r, batch) \in Nat /\ Times(r, orphan) \in Nat
      /\ Times(r, table) \in Nat /\ recorded[r] \in Nat /\ Times(r, <<>>) = 0
  BY <1>t, TimesTyped, TimesNone
<1>o. OnTheWay(r) <= recorded[r]
  <2>1. Copies(r) <= recorded[r]
    BY DEF NothingIsWrittenTwice
  <2>2. Copies(r) = Times(r, queue \o batch \o orphan \o table)
    BY DEF Copies, Everywhere, Times
  <2>3. Times(r, queue \o batch \o orphan \o table) = OnTheWay(r)
    BY <1>t, TimesTogether DEF OnTheWay
  <2> QED BY <2>1, <2>2, <2>3
<1>q. OnTheWay(r)' = Times(r, queue') + Times(r, batch') + Times(r, orphan') + Times(r, table')
  BY DEF OnTheWay, Times
<1>p. Copies(r)' = OnTheWay(r)'
  <2>1. /\ queue' \in Seq(Rows) /\ batch' \in Seq(Rows)
        /\ orphan' \in Seq(Rows) /\ table' \in Seq(Rows)
    BY TelemetryStep DEF TelemetryTypeOK
  <2>2. Copies(r)' = Times(r, queue' \o batch' \o orphan' \o table')
    BY DEF Copies, Everywhere, Times
  <2>3. Times(r, queue' \o batch' \o orphan' \o table')
          = Times(r, queue') + Times(r, batch') + Times(r, orphan') + Times(r, table')
    BY <2>1, TimesTogether
  <2> QED BY <2>2, <2>3, <1>q
<1>s. Batched \in 0 .. Len(queue)
  BY <1>t DEF Batched
<1>b. Times(r, SubSeq(queue, 1, Batched)) + Times(r, SubSeq(queue, Batched + 1, Len(queue)))
        = Times(r, queue)
  BY <1>s, <1>t, TimesSplit
<1>c. /\ Times(r, SubSeq(queue, 1, Batched)) \in Nat
      /\ Times(r, SubSeq(queue, Batched + 1, Len(queue))) \in Nat
  <2>1. SubSeq(queue, 1, Batched) \in Seq(Rows) /\ SubSeq(queue, Batched + 1, Len(queue)) \in Seq(Rows)
    BY <1>s, <1>t
  <2> QED BY <2>1, TimesTyped
<1>1. ASSUME NEW q \in Rows, Record(q) PROVE OnTheWay(r)' <= recorded'[r]
  <2>1. UNCHANGED <<batch, orphan, table>> /\ recorded' = [recorded EXCEPT ![q] = @ + 1]
    BY <1>1 DEF Record
  <2>2. \/ queue' = queue
        \/ queue' = Append(queue, q)
    BY <1>1 DEF Record
  <2>3. Times(r, queue') = Times(r, queue) \/ (q = r /\ Times(r, queue') = Times(r, queue) + 1)
    <3>1. Times(r, Append(queue, q)) = IF q = r THEN Times(r, queue) + 1 ELSE Times(r, queue)
      BY <1>t, TimesAppended
    <3> QED BY <2>2, <3>1
  <2>4. /\ Times(r, batch') = Times(r, batch) /\ Times(r, orphan') = Times(r, orphan)
        /\ Times(r, table') = Times(r, table)
    BY <2>1
  <2>5. recorded'[r] = IF q = r THEN recorded[r] + 1 ELSE recorded[r]
    BY <2>1, <1>t
  <2> QED BY <1>n, <1>o, <2>3, <2>4, <2>5, <1>q DEF OnTheWay
<1>2. ASSUME Quiet PROVE OnTheWay(r)' <= recorded'[r]
  BY <1>2, <1>o DEF Quiet, telemetry, OnTheWay, Times
<1>3. ASSUME Drain \/ Stop PROVE OnTheWay(r)' <= recorded'[r]
  <2>1. /\ batch' = SubSeq(queue, 1, Batched)
        /\ queue' = SubSeq(queue, Batched + 1, Len(queue))
        /\ UNCHANGED <<table, recorded>>
        /\ orphan' \in {orphan, batch, <<>>}
    BY <1>3 DEF Drain, Stop, Orphaned, Take
  <2>2. Times(r, queue') + Times(r, batch') = Times(r, queue)
        /\ Times(r, queue') \in Nat /\ Times(r, batch') \in Nat
    BY <1>b, <1>c, <2>1
  <2>3. Times(r, orphan') \in {Times(r, orphan), Times(r, batch), 0}
    BY <1>n, <2>1
  <2>4. Times(r, table') = Times(r, table) /\ recorded'[r] = recorded[r]
    BY <2>1
  <2>5. Times(r, queue') + Times(r, batch') + Times(r, orphan') + Times(r, table') <= recorded'[r]
    <3>1. Times(r, queue) + Times(r, batch) + Times(r, orphan) + Times(r, table) <= recorded[r]
      BY <1>o DEF OnTheWay
    <3>2. CASE Times(r, orphan') = Times(r, orphan)
      BY <1>n, <2>2, <2>4, <3>1, <3>2
    <3>3. CASE Times(r, orphan') = Times(r, batch)
      BY <1>n, <2>2, <2>4, <3>1, <3>3
    <3>4. CASE Times(r, orphan') = 0
      BY <1>n, <2>2, <2>4, <3>1, <3>4
    <3> QED BY <2>3, <3>2, <3>3, <3>4
  <2> QED BY <2>5, <1>q
<1>w. ASSUME NEW rows \in Seq(Rows), Written(rows) \/ Unwritten
      PROVE  Times(r, table') \in {Times(r, table), Times(r, table) + Times(r, rows)}
  <2>1. table' = table \/ table' = table \o rows
    BY <1>w DEF Written, Unwritten
  <2>2. Times(r, table \o rows) = Times(r, table) + Times(r, rows)
    BY <1>t, TimesConcat
  <2> QED BY <2>1, <2>2
<1>4. ASSUME Wrote PROVE OnTheWay(r)' <= recorded'[r]
  <2>1. /\ Written(batch) \/ Unwritten
        /\ batch' = <<>> /\ UNCHANGED <<queue, orphan, recorded>>
    BY <1>4 DEF Wrote
  <2>2. Times(r, table') \in {Times(r, table), Times(r, table) + Times(r, batch)}
    BY <1>t, <1>w, <2>1
  <2>3. /\ Times(r, batch') = 0 /\ Times(r, queue') = Times(r, queue)
        /\ Times(r, orphan') = Times(r, orphan) /\ recorded'[r] = recorded[r]
    BY <1>n, <2>1
  <2> QED BY <1>n, <1>o, <2>2, <2>3, <1>q DEF OnTheWay
<1>5. ASSUME OrphanWrote PROVE OnTheWay(r)' <= recorded'[r]
  <2>1. /\ Written(orphan) \/ Unwritten
        /\ orphan' = <<>> /\ UNCHANGED <<queue, batch, recorded>>
    BY <1>5 DEF OrphanWrote
  <2>2. Times(r, table') \in {Times(r, table), Times(r, table) + Times(r, orphan)}
    BY <1>t, <1>w, <2>1
  <2>3. /\ Times(r, orphan') = 0 /\ Times(r, queue') = Times(r, queue)
        /\ Times(r, batch') = Times(r, batch) /\ recorded'[r] = recorded[r]
    BY <1>n, <2>1
  <2> QED BY <1>n, <1>o, <2>2, <2>3, <1>q DEF OnTheWay
<1> QED BY <1>p, <1>1, <1>2, <1>3, <1>4, <1>5 DEF Write

\* Every step of the chain does one of these to the telemetry.
LEMMA StepReports ==
  ASSUME TypeOK, [Next]_vars
  PROVE  (\E q \in Rows : Record(q)) \/ Quiet \/ Stop \/ Write
<1>1. ASSUME NEW t \in Turns, Step(t) \/ Cancel(t)
      PROVE  (\E q \in Rows : Record(q)) \/ Quiet
  <2>1. turn[t] \in Run
    BY DEF TypeOK
  <2>2. Id(t) \in Rows /\ <<t, 0>> \in Rows
    BY <2>1, CallsAssumption DEF Id, Run
  <2> QED BY <1>1, <2>2
        DEF Step, Cancel, Think, Call, Pass, Refuse, Approve, Dispatch, Serve, Return, Finish,
            Quiet, telemetry
<1>2. ASSUME Pull \/ Shutdown \/ Writing \/ UNCHANGED vars \/ \E t \in Turns : HangUp(t)
      PROVE  Quiet \/ Stop \/ Write
  BY <1>2 DEF Pull, Shutdown, Writing, vars, HangUp, Quiet, telemetry
<1> QED BY <1>1, <1>2 DEF Next

-----------------------------------------------------------------------------
\* The chain, the peers and the telemetry queue stay within their types, and the queue
\* within its size.
THEOREM CallsTyped == Spec => []TypeOK
<1>1. Inv => TypeOK
  BY DEF Inv
<1> QED BY <1>1, Invariance, PTL

\* A call that came back is counted by the registry or by the ActivityBroker, never by
\* both, whatever peers are known and whatever tool the model makes up.
THEOREM CallsAreCountedOnce == Spec => []CountedOnce
<1>1. Inv => CountedOnce
  <2> SUFFICES ASSUME Inv, NEW t \in Turns, NEW n \in 1 .. MaxCalls
               PROVE  /\ recorded[<<t, n>>] <= 1
                      /\ n \in DOMAIN log[t] => Fair(t, n)
    BY DEF CountedOnce, Fair
  <2>1. Tallied(t) /\ log[t] \in Seq([server : Servers, result : Results])
    BY DEF Inv, TypeOK
  <2>2. n \in DOMAIN log[t] => n <= Len(log[t])
    BY <2>1
  <2> QED BY <2>1, <2>2 DEF Tallied
<1> QED BY <1>1, Invariance, PTL

\* No card stays behind a run that thinks on, and each names who serves its call, whatever
\* the device has declared and whoever the peers are, except for a name they share.
THEOREM CardsTellTheTruth == Spec => []CardsAreTrue
<1>1. Inv => CardsAreTrue
  <2> SUFFICES ASSUME Inv, NEW t \in Turns
               PROVE  /\ At(t, "thinking") /\ wire[t] => cards[t] = {}
                      /\ turn[t].pc \in {"asking", "serving", "returning"} =>
                            \/ Server(turn[t].name, turn[t].peers) = "nobody"
                            \/ Ambiguous(turn[t].name, turn[t].peers)
                            \/ turn[t].origin = IF Server(turn[t].name, turn[t].peers) = "knob"
                                                THEN "own"
                                                ELSE Server(turn[t].name, turn[t].peers)
    BY DEF CardsAreTrue
  <2>1. Placed(t) /\ turn[t] \in Run
    BY DEF Inv, TypeOK
  <2>2. turn[t].name \in Names /\ turn[t].peers \in SUBSET Peers
    BY <2>1 DEF Run
  <2> QED BY <2>1, <2>2, NamesTellTheServer DEF Placed, At
<1> QED BY <1>1, Invariance, PTL

\* A gated call reaches its broker with the confirmed flag and only after a yes, any other
\* call without it, and each bound to its run.
THEOREM CallsAreMadeInTheirRun == Spec => []CallsCarryTheirRun
<1>1. Inv => CallsCarryTheirRun
  BY DEF Inv, Placed, CallsCarryTheirRun, At, Running
<1> QED BY <1>1, Invariance, PTL

\* drain_once, drain_loop: a row is in the queue, in a batch or in the table at most as
\* often as it was reported, although the write that a shutdown cuts off goes on.
THEOREM RowsAreWrittenOnce == Spec => []NothingIsWrittenTwice
<1>1. Init => NothingIsWrittenTwice
  <2> SUFFICES ASSUME Init, NEW r \in Rows PROVE Copies(r) <= recorded[r]
    BY DEF NothingIsWrittenTwice
  <2>1. TelemetryTypeOK /\ recorded[r] = 0
    BY InvInit DEF Init, TelemetryInit, Inv, TypeOK
  <2>2. queue = <<>> /\ batch = <<>> /\ orphan = <<>> /\ table = <<>> /\ <<>> \in Seq(Rows)
    BY DEF Init, TelemetryInit
  <2>3. Copies(r) = Times(r, <<>> \o <<>> \o <<>> \o <<>>)
    BY <2>2 DEF Copies, Everywhere, Times
  <2>4. Times(r, <<>> \o <<>> \o <<>> \o <<>>) = 0
    BY <2>2, TimesTogether, TimesNone
  <2> QED BY <2>1, <2>3, <2>4
<1>2. Inv /\ NothingIsWrittenTwice /\ [Next]_vars => NothingIsWrittenTwice'
  BY StepReports, RowsMoveOn DEF Inv, TypeOK
<1> QED BY <1>1, <1>2, Invariance, PTL DEF Spec
=============================================================================
