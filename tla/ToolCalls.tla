------------------------------- MODULE ToolCalls -------------------------------
(***************************************************************************)
(* A turn's tool calls on their way through the chain of brokers that         *)
(* app/brain.py assembles: ActivityBroker (app/activity.py), which shows      *)
(* every call to the client as a card and counts those nobody else counts,    *)
(* around ConfirmBroker (app/confirm.py), which lets some of them run only    *)
(* when a person says so, around the brokers of the five kinds of tools:      *)
(* Amber's own (app/tools/registry.py), the device's, the signal, the knobs,  *)
(* and the peers' (app/peers.py).                                            *)
(*                                                                         *)
(* Approvals and the device's answers race in ToolChannels; here they have    *)
(* an outcome.  All features are on.                                         *)
(***************************************************************************)
EXTENDS Telemetry

CONSTANTS
    Turns,        \* the turns of all connections
    Static,       \* AMBER_MCP_PEERS
    Listed,       \* what the sync store may list, Amber herself included
    Underscored,  \* the tools that the device declares as _x, so that they are client__x
    MaxCalls,     \* max_tool_iterations, one call each
    MaxPulls      \* bound: refreshes that bring another list

\* The head of a name that has none
None == "none"

\* What is reported is call n of turn t, and with n = 0 the turn itself.
ASSUME CallsAssumption ==
    /\ MaxCalls \in Nat
    /\ MaxPulls \in Nat
    /\ None \notin Static \cup Listed
    /\ Underscored \subseteq {"run", "build"}
    /\ Rows = Turns \X (0 .. MaxCalls)

VARIABLES
    discovered,  \* PeerRegistry: the pulled layer
    pulls,
    turn,        \* per turn: think's run
    bound,       \* per turn: what the brokers below ConfirmBroker are bound to
    wire,        \* per turn: its socket takes frames
    cards,       \* per turn: the calls its client sees as running
    log          \* history, per turn: the calls that came back, and how

callVars == <<turn, bound, wire, cards, log>>
vars == <<discovered, pulls, callVars, telemetry>>

-----------------------------------------------------------------------------
(* Names                                                                   *)

Self == "amber"
Peers == (Static \cup Listed) \ {Self}

\* known_peers: both layers, without Amber
Known == (Static \cup discovered) \ {Self}

\* A tool's name, as NAMESPACE_SEP splits it
Local(tail) == [head |-> None, tail |-> tail]
Names == [head : {None}, tail : {"add_task", "update_server", "client_show",
                                 "expect_reply", "set_voice", "remap_keyword", "made_up"}]
         \cup [head : Peers \cup {"client"}, tail : {"run", "build"}]

\* _sanitize_name puts CLIENT_PREFIX before whatever the device declares: client_show for
\* show, and for _run a name that a peer called "client" may have given its own run.
Declared(name) ==
    name.tail = "client_show" \/ (name.head = "client" /\ name.tail \in Underscored)

\* Who has a tool of that name, the model being free to make one up: of several brokers the
\* first one, and the device's comes before the peers'.
Server(name, peers) ==
    CASE name.tail \in {"add_task", "update_server"} -> "own"
      [] Declared(name)                              -> "client"
      [] name.tail = "expect_reply"                  -> "signal"
      [] name.tail \in {"set_voice", "remap_keyword"} -> "knob"
      [] name.head \in peers /\ ~Declared(name)      -> "peer"
      [] OTHER                                       -> "nobody"

\* requires_confirmation, as list_tools has it; a tool that is not listed has no flag, and
\* of two of one name the first is listed.
Gated(name, peers) ==
    \/ name.tail \in {"update_server", "remap_keyword"}
    \/ name.tail = "build" /\ name.head \in peers /\ ~Declared(name)

Devices(name) == name.head = "client" \/ name.tail = "client_show"

\* Mutant of Origin: the device's prefix is looked at first.
Origin_DeviceFirst(name, peers) ==
    IF Devices(name) THEN "client"
    ELSE IF name.head \in peers THEN "peer"
    ELSE IF name.tail = "expect_reply" THEN "signal" ELSE "own"

\* classify_tool_name: "the peer split has to come first".
Origin(name, peers) ==
    IF name.head \in peers THEN "peer"
    ELSE IF name.tail = "expect_reply" THEN "signal"
    ELSE IF Devices(name) THEN "client" ELSE "own"

\* Mutant of Telemetered: dispatch's calls once more
Telemetered_Own == {"client", "peer", "own"}

\* _TELEMETERED and the peers
Telemetered == {"client", "peer"}

-----------------------------------------------------------------------------
Resting == [pc |-> "off", peers |-> {}, calls |-> 0, name |-> Local("made_up"),
            origin |-> "own", approved |-> FALSE, result |-> "ok"]

Running == {"thinking", "asking", "serving", "returning"}
Results == {"ok", "refused", "error", "raised"}

Run == [pc : Running \cup {"off", "done"},
        peers : SUBSET Peers,
        calls : 0 .. MaxCalls,
        name : Names,
        origin : {"own", "client", "signal", "peer"},
        approved : BOOLEAN,
        result : Results]
Servers == {"own", "client", "signal", "knob", "peer", "nobody"}

TypeOK ==
    /\ TelemetryTypeOK
    /\ discovered \subseteq Listed
    /\ pulls \in 0 .. MaxPulls
    /\ turn \in [Turns -> Run]
    /\ bound \in [Turns -> [run : BOOLEAN, confirmed : BOOLEAN]]
    /\ wire \in [Turns -> BOOLEAN]
    /\ cards \in [Turns -> SUBSET (1 .. MaxCalls)]
    /\ log \in [Turns -> Seq([server : Servers, result : Results])]

Init ==
    /\ TelemetryInit
    /\ discovered = {}
    /\ pulls = 0
    /\ turn = [t \in Turns |-> Resting]
    /\ bound = [t \in Turns |-> [run |-> FALSE, confirmed |-> FALSE]]
    /\ wire = [t \in Turns |-> TRUE]
    /\ cards = [t \in Turns |-> {}]
    /\ log = [t \in Turns |-> <<>>]

At(t, pc) == turn[t].pc = pc
Id(t) == <<t, turn[t].calls>>

-----------------------------------------------------------------------------
(* Peers come and go                                                       *)

\* refresh_once: another list; a pull that fails leaves the one there is.
Pull ==
    /\ pulls < MaxPulls /\ pulls' = pulls + 1
    /\ discovered' \in SUBSET Listed
    /\ UNCHANGED <<callVars, telemetry>>

-----------------------------------------------------------------------------
(* A run                                                                   *)

\* think: the chain is built for the peers of this moment, listed and bound.
Think(t) ==
    /\ At(t, "off")
    /\ turn' = [turn EXCEPT ![t].pc = "thinking", ![t].peers = Known]
    /\ bound' = [bound EXCEPT ![t].run = TRUE]
    /\ UNCHANGED <<discovered, pulls, wire, cards, log, telemetry>>

\* ActivityBroker.call_tool: the card is shown if the socket is there.
Call(t) ==
    /\ At(t, "thinking") /\ turn[t].calls < MaxCalls
    /\ \E name \in Names :
          turn' = [turn EXCEPT ![t].pc = "asking", ![t].calls = @ + 1, ![t].name = name,
                               ![t].origin = Origin(name, turn[t].peers)]
    /\ cards' = [cards EXCEPT ![t] = IF wire[t] THEN @ \cup {turn[t].calls + 1} ELSE @]
    /\ UNCHANGED <<discovered, pulls, bound, wire, log, telemetry>>

\* ConfirmBroker.call_tool, when nobody is to be asked
Pass(t) ==
    /\ At(t, "asking") /\ ~Gated(turn[t].name, turn[t].peers)
    /\ turn' = [turn EXCEPT ![t].pc = "serving", ![t].approved = FALSE]
    /\ UNCHANGED <<discovered, pulls, bound, wire, cards, log, telemetry>>

Refuse(t) ==
    /\ At(t, "asking") /\ Gated(turn[t].name, turn[t].peers)
    /\ turn' = [turn EXCEPT ![t].pc = "returning", ![t].approved = FALSE,
                            ![t].result = "refused"]
    /\ UNCHANGED <<discovered, pulls, bound, wire, cards, log, telemetry>>

\* Mutant of Confirmed: the flag alone is bound.
Confirmed_Alone(b) == [run |-> FALSE, confirmed |-> TRUE]

\* _call_confirmed: all that was bound, and the flag
Confirmed(b) == [b EXCEPT !.confirmed = TRUE]

Approve(t) ==
    /\ At(t, "asking") /\ Gated(turn[t].name, turn[t].peers)
    /\ turn' = [turn EXCEPT ![t].pc = "serving", ![t].approved = TRUE]
    /\ bound' = [bound EXCEPT ![t] = Confirmed(@)]
    /\ UNCHANGED <<discovered, pulls, wire, cards, log, telemetry>>

\* The inner broker is through: the flag is taken back, on every way out.
Served(t, result) ==
    /\ turn' = [turn EXCEPT ![t].pc = "returning", ![t].result = result]
    /\ bound' = [bound EXCEPT ![t].confirmed = FALSE]
    /\ UNCHANGED <<discovered, pulls, wire, cards, log>>

\* ToolRegistry.dispatch, which turns every failure into a result and counts the call
Dispatch(t) ==
    /\ At(t, "serving") /\ Server(turn[t].name, turn[t].peers) = "own"
    /\ \E result \in {"ok", "error"} : Served(t, result)
    /\ Record(Id(t))

\* Somebody else's tool: a call of the device's may raise, as its send may; a peer that is
\* not in the registry any more is an error like any other.
Serve(t) ==
    LET server == Server(turn[t].name, turn[t].peers)
    IN  /\ At(t, "serving") /\ server # "own"
        /\ \E result \in {"ok", "error", "raised"} :
              /\ result = "raised" => server = "client"
              /\ result = "ok" => /\ server # "nobody"
                                  /\ server = "peer" => turn[t].name.head \in Known
              /\ Served(t, result)
        /\ Quiet

\* A call of somebody else's that has come back
Counts(t) == turn[t].origin \in Telemetered /\ turn[t].result # "raised"

\* Back in ActivityBroker: the card is closed, and the call counted if it has not been.
\* What was raised is raised further, and the runner makes a result of it.
Return(t) ==
    /\ At(t, "returning")
    /\ turn' = [turn EXCEPT ![t].pc = "thinking"]
    /\ cards' = [cards EXCEPT ![t] = IF wire[t] THEN @ \ {turn[t].calls} ELSE @]
    /\ log' = [log EXCEPT ![t] = Append(@, [server |-> Server(turn[t].name, turn[t].peers),
                                            result |-> turn[t].result])]
    /\ IF Counts(t) THEN Record(Id(t)) ELSE Quiet
    /\ UNCHANGED <<discovered, pulls, bound, wire>>

\* The reply is out; run_turn reports the turn.
Finish(t) ==
    /\ At(t, "thinking")
    /\ turn' = [turn EXCEPT ![t].pc = "done"]
    /\ Record(<<t, 0>>)
    /\ UNCHANGED <<discovered, pulls, bound, wire, cards, log>>

\* An interrupt unwinds the run wherever it waits, and no card is closed.  A barge-in is
\* reported, a socket that closes is not.
Cancel(t) ==
    /\ turn[t].pc \in Running
    /\ turn' = [turn EXCEPT ![t].pc = "done"]
    /\ bound' = [bound EXCEPT ![t].confirmed = FALSE]
    /\ Record(<<t, 0>>) \/ Quiet
    /\ UNCHANGED <<discovered, pulls, wire, cards, log>>

\* From here on frames are not sent, which no call notices.
HangUp(t) ==
    /\ wire[t] /\ turn[t].pc \in Running
    /\ wire' = [wire EXCEPT ![t] = FALSE]
    /\ UNCHANGED <<discovered, pulls, turn, bound, cards, log, telemetry>>

-----------------------------------------------------------------------------
\* The server closes its sockets, and the turns on them, before lifespan ends.
Shutdown ==
    /\ \A t \in Turns : turn[t].pc \in {"off", "done"}
    /\ Stop
    /\ UNCHANGED <<discovered, pulls, callVars>>

Writing == Write /\ UNCHANGED <<discovered, pulls, callVars>>

Step(t) ==
    /\ writer \notin {"flushing", "gone"}
    /\ \/ Think(t) \/ Call(t) \/ Pass(t) \/ Refuse(t) \/ Approve(t)
       \/ Dispatch(t) \/ Serve(t) \/ Return(t) \/ Finish(t)

Next ==
    \/ Pull \/ Shutdown \/ Writing
    \/ \E t \in Turns : Step(t) \/ Cancel(t) \/ HangUp(t)

\* A turn goes on: every tool has a timeout.  The writer may be stuck for ever.
Spec == Init /\ [][Next]_vars
FairSpec == Spec /\ \A t \in Turns : WF_vars(Step(t))

-----------------------------------------------------------------------------
(* What the chain promises                                                 *)

\* One name for a tool of the device and for one of a peer's
Ambiguous(name, peers) == Declared(name) /\ name.head \in peers

\* activity.py, "every local tool would be counted twice": a call that came back is counted
\* by the registry or by the ActivityBroker and never by both; one that was refused, failed
\* or was somebody else's is counted too, a signal is not.
CountedOnce ==
    \A t \in Turns : \A n \in 1 .. MaxCalls :
        /\ recorded[<<t, n>>] <= 1
        /\ n \in DOMAIN log[t] /\ log[t][n].server # "nobody" =>
              LET call == log[t][n]
              IN  recorded[<<t, n>>] = 1 <=>
                     \/ call.server = "own" /\ call.result # "refused"
                     \/ call.server = "client" /\ call.result # "raised"
                     \/ call.server = "peer"

\* ActivityBroker: a run that thinks has no call the client still sees as running, whatever
\* failed or was refused, unless the socket is gone; and a card names who serves the call,
\* for every name that is one server's alone.  (classify_tool_name calls the names
\* "unambiguous in both directions".  They are not when the device declares _x beside a peer
\* called "client" that has an x: the device serves client__x, and the card says the peer.)
CardsAreTrue ==
    \A t \in Turns :
        /\ At(t, "thinking") /\ wire[t] => cards[t] = {}
        /\ turn[t].pc \in {"asking", "serving", "returning"} =>
              LET server == Server(turn[t].name, turn[t].peers)
              IN  server = "nobody" \/ Ambiguous(turn[t].name, turn[t].peers)
                  \/ turn[t].origin = IF server = "knob" THEN "own" ELSE server

\* _call_confirmed: every call is made in its run's name, and with the confirmed flag if
\* and only if a person has said yes to this very call.
CallsCarryTheirRun ==
    \A t \in Turns :
        At(t, "serving") => /\ bound[t].run
                            /\ bound[t].confirmed = turn[t].approved
                            /\ Gated(turn[t].name, turn[t].peers) = turn[t].approved

\* "A signal must never cost a turn anything": a turn ends although nothing is ever
\* written.
TurnsFinish == \A t \in Turns : turn[t].pc \in Running ~> At(t, "done")
=============================================================================
