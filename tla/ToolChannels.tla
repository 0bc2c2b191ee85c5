----------------------------- MODULE ToolChannels ------------------------------
(***************************************************************************)
(* The two request/answer channels a session keeps over its socket: asking  *)
(* the human for approval (app/confirm.py: Confirmations, ConfirmBroker)    *)
(* and running a tool on the client's device (app/client_tools.py).  Both   *)
(* objects live on the Session, which outlives its sockets: a client that   *)
(* resumes binds a new connection while the handler of the old one may      *)
(* still be serving its turn (app/main.py, voice_socket).                   *)
(*                                                                         *)
(* A question is one confirm_request, a call one tool_call.  Questions and  *)
(* calls are numbered as they are made; `label` is the correlation id that  *)
(* goes over the wire, and all that a client's answer carries back.         *)
(***************************************************************************)
EXTENDS Naturals, FiniteSets

CONSTANTS
    NumConns,       \* connections that ever serve the session
    MaxAsks,        \* bound: questions asked over the whole behaviour
    MaxCalls,       \* bound: client tool calls
    SwallowsCancel  \* asyncio.wait_for returns a result that is already there
                    \* when its task is cancelled: so up to Python 3.11

ASSUME ChannelAssumption ==
    /\ NumConns \in Nat \ {0}
    /\ MaxAsks \in Nat
    /\ MaxCalls \in Nat
    /\ SwallowsCancel \in BOOLEAN

Conns == 1 .. NumConns
Asks == 1 .. MaxAsks
Calls == 1 .. MaxCalls
Nobody == 0

VARIABLES
    handler,     \* per connection: where its voice_socket coroutine is
    lost,        \* per connection: the client is gone
    pc,          \* per connection: what the turn it runs is doing
    req,         \* per connection: the question or call its turn waits for
    doomed,      \* per connection: its turn was cancelled and not yet resumed
    askVia,      \* Confirmations._send and _token: the connection bound to it
    askCount,    \* Confirmations._counter
    ask,         \* per question: who asked, its label, its future
    approved,    \* the questions some client has said yes to
    ran,         \* the questions whose gated tool has run
    toolVia,     \* ClientTools._send: the connection bound to it
    callCount,   \* ClientTools._counter
    call         \* per call: who made it, its label, its future and result

turnVars == <<pc, req, doomed>>
connVars == <<handler, lost>>
askVars  == <<askVia, askCount, ask, approved, ran>>
callVars == <<toolVia, callCount, call>>
vars == <<connVars, turnVars, askVars, callVars>>

Question == [by : Conns \cup {Nobody}, label : Nat, listed : BOOLEAN,
             fut : {"unborn", "pending", "yes", "no"}]
Request  == [by : Conns \cup {Nobody}, label : Nat, listed : BOOLEAN,
             fut : {"unborn", "pending", "done", "cancelled", "raised"},
             got : Calls \cup {0}]

TypeOK ==
    /\ handler \in [Conns -> {"off", "up", "stopping", "closing", "gone"}]
    /\ lost \in [Conns -> BOOLEAN]
    /\ pc \in [Conns -> {"none", "think", "asking", "calling"}]
    /\ req \in [Conns -> Nat]
    /\ \A c \in Conns : /\ pc[c] = "asking" => req[c] \in Asks
                        /\ pc[c] = "calling" => req[c] \in Calls
    /\ doomed \in [Conns -> BOOLEAN]
    /\ askVia \in Conns \cup {Nobody}
    /\ askCount \in Nat
    /\ ask \in [Asks -> Question]
    /\ approved \in SUBSET Asks
    /\ ran \in SUBSET Asks
    /\ toolVia \in Conns \cup {Nobody}
    /\ callCount \in Nat
    /\ call \in [Calls -> Request]

Init ==
    /\ handler = [c \in Conns |-> "off"]
    /\ lost = [c \in Conns |-> FALSE]
    /\ pc = [c \in Conns |-> "none"]
    /\ req = [c \in Conns |-> 0]
    /\ doomed = [c \in Conns |-> FALSE]
    /\ askVia = Nobody
    /\ askCount = 0
    /\ ask = [q \in Asks |-> [by |-> Nobody, label |-> 0, listed |-> FALSE,
                              fut |-> "unborn"]]
    /\ approved = {}
    /\ ran = {}
    /\ toolVia = Nobody
    /\ callCount = 0
    /\ call = [n \in Calls |-> [by |-> Nobody, label |-> 0, listed |-> FALSE,
                                fut |-> "unborn", got |-> 0]]

-----------------------------------------------------------------------------
(* Connections (voice_socket)                                              *)

\* Mutant of BindAsks: the ids start over with every connection.
BindAsks_Afresh(c) ==
    askVia' = c /\ askCount' = 0 /\ UNCHANGED <<ask, approved, ran>>

\* Confirmations.bind
BindAsks(c) == askVia' = c /\ UNCHANGED <<askCount, ask, approved, ran>>

\* ClientTools.bind
BindTools(c) == toolVia' = c /\ UNCHANGED <<callCount, call>>

\* The handshake is done: the client's tools and its approvals go this way now.
Connect(c) ==
    /\ handler[c] = "off"
    /\ \A d \in Conns : d < c => handler[d] # "off"
    /\ handler' = [handler EXCEPT ![c] = "up"]
    /\ BindTools(c)
    /\ BindAsks(c)
    /\ UNCHANGED <<lost, turnVars>>

Lose(c) ==
    /\ handler[c] \in {"up", "stopping"} /\ ~lost[c]
    /\ lost' = [lost EXCEPT ![c] = TRUE]
    /\ UNCHANGED <<handler, turnVars, askVars, callVars>>

\* An utterance starts a turn; the one before it, if any, is over.
StartTurn(c) ==
    /\ handler[c] = "up" /\ pc[c] = "none"
    /\ pc' = [pc EXCEPT ![c] = "think"]
    /\ UNCHANGED <<connVars, req, doomed, askVars, callVars>>

\* cancel_current: by an interrupt or the next utterance, or by a lost socket.
Interrupt(c) ==
    /\ handler[c] = "up" /\ pc[c] # "none"
    /\ handler' = [handler EXCEPT ![c] = "stopping"]
    /\ doomed' = [doomed EXCEPT ![c] = TRUE]
    /\ UNCHANGED <<lost, pc, req, askVars, callVars>>

Interrupted(c) ==
    /\ handler[c] = "stopping" /\ pc[c] = "none"
    /\ handler' = [handler EXCEPT ![c] = "up"]
    /\ UNCHANGED <<lost, turnVars, askVars, callVars>>

Close(c) ==
    /\ handler[c] = "up" /\ lost[c]
    /\ handler' = [handler EXCEPT ![c] = "closing"]
    /\ doomed' = [doomed EXCEPT ![c] = pc[c] # "none"]
    /\ UNCHANGED <<lost, pc, req, askVars, callVars>>

\* Mutant of UnbindAsks: the token is not looked at.
UnbindAsks_AnyToken(c) ==
    /\ askVia' = Nobody
    /\ ask' = [q \in Asks |-> IF ask[q].listed
                 THEN [ask[q] EXCEPT !.listed = FALSE,
                         !.fut = IF @ = "pending" THEN "no" ELSE @]
                 ELSE ask[q]]
    /\ UNCHANGED <<askCount, approved, ran>>
\* Confirmations.unbind(token): refuse everything still waiting, unless a newer
\* connection has bound meanwhile.
UnbindAsks(c) ==
    IF askVia \notin {c, Nobody} THEN UNCHANGED askVars
    ELSE /\ askVia' = Nobody
         /\ ask' = [q \in Asks |-> IF ask[q].listed
                      THEN [ask[q] EXCEPT !.listed = FALSE,
                              !.fut = IF @ = "pending" THEN "no" ELSE @]
                      ELSE ask[q]]
         /\ UNCHANGED <<askCount, approved, ran>>

\* ClientTools.unbind: no token; whatever is still waiting is cancelled.
UnbindTools ==
    /\ toolVia' = Nobody
    /\ call' = [n \in Calls |-> IF call[n].listed
                  THEN [call[n] EXCEPT !.listed = FALSE,
                          !.fut = IF @ = "pending" THEN "cancelled" ELSE @]
                  ELSE call[n]]
    /\ UNCHANGED callCount

\* The finally of voice_socket, once cancel_current has returned.
Detach(c) ==
    /\ handler[c] = "closing" /\ pc[c] = "none"
    /\ handler' = [handler EXCEPT ![c] = "gone"]
    /\ UnbindTools
    /\ UnbindAsks(c)
    /\ UNCHANGED <<lost, turnVars>>

-----------------------------------------------------------------------------
(* Asking for approval                                                     *)

Thinks(c) == pc[c] = "think" /\ ~doomed[c]

\* Confirmations.request puts its question; on a socket that is gone the send may
\* raise, which is a refusal (NO_ONE).  With nobody bound it refuses at once, and
\* nothing changes.
Ask(c) ==
    /\ Thinks(c) /\ askVia # Nobody
    /\ \E q \in Asks :
         /\ ask[q].fut = "unborn"
         /\ \A p \in Asks : p < q => ask[p].fut # "unborn"
         /\ askCount' = askCount + 1
         /\ \/ /\ ask' = [ask EXCEPT ![q] = [by |-> c, label |-> askCount + 1,
                                             listed |-> TRUE, fut |-> "pending"]]
               /\ pc' = [pc EXCEPT ![c] = "asking"]
               /\ req' = [req EXCEPT ![c] = q]
            \/ /\ lost[askVia]
               /\ ask' = [ask EXCEPT ![q] = [by |-> c, label |-> askCount + 1,
                                             listed |-> FALSE, fut |-> "no"]]
               /\ UNCHANGED <<pc, req>>
    /\ UNCHANGED <<connVars, doomed, askVia, approved, ran, callVars>>

\* Confirmations.resolve: an unknown or settled id is dropped.
Resolve(label, verdict) ==
    ask' = [q \in Asks |->
              IF ask[q].listed /\ ask[q].label = label /\ ask[q].fut = "pending"
              THEN [ask[q] EXCEPT !.fut = verdict] ELSE ask[q]]

\* The human answers a question, at any time after it was put, once or again, over
\* any connection whose loop is reading.
Answer(c, q) ==
    /\ handler[c] = "up"
    /\ ask[q].fut # "unborn"
    /\ \E verdict \in {"yes", "no"} :
         /\ Resolve(ask[q].label, verdict)
         /\ approved' = IF verdict = "yes" THEN approved \cup {q} ELSE approved
    /\ UNCHANGED <<connVars, turnVars, askVia, askCount, ran, callVars>>

\* The finally of request.
Popped(c) ==
    ask' = [ask EXCEPT ![req[c]].listed = FALSE]

Asking(c) == pc[c] = "asking"

\* wait_for returns a settled future; a cancellation that comes after the answer
\* but before the turn is resumed is lost in it, up to Python 3.11.
MayReturn(c) == doomed[c] => SwallowsCancel

\* outcome = APPROVED
Verdict(q) == ask[q].fut = "yes"

\* request returns what the human said, and ConfirmBroker.call_tool acts on it at
\* once.
Collect(c) ==
    /\ Asking(c) /\ ask[req[c]].fut \in {"yes", "no"}
    /\ MayReturn(c)
    /\ Popped(c)
    /\ ran' = IF Verdict(req[c]) THEN ran \cup {req[c]} ELSE ran
    /\ pc' = [pc EXCEPT ![c] = "think"]
    /\ doomed' = [doomed EXCEPT ![c] = FALSE]
    /\ UNCHANGED <<connVars, req, askVia, askCount, approved, callVars>>

\* Mutant of AskTimeout: the wait has no timeout.
AskTimeout_None(c) == FALSE /\ UNCHANGED vars

\* confirm_timeout_s passes without an answer: TIMED_OUT.
AskTimeout(c) ==
    /\ Asking(c) /\ ask[req[c]].fut = "pending" /\ ~doomed[c]
    /\ Popped(c)
    /\ pc' = [pc EXCEPT ![c] = "think"]
    /\ UNCHANGED <<connVars, req, doomed, askVia, askCount, approved, ran, callVars>>

-----------------------------------------------------------------------------
(* Running a tool on the client                                            *)

\* ClientTools.call.  Unlike a question, a send that raises is not caught.
Call(c) ==
    /\ Thinks(c) /\ toolVia # Nobody
    /\ \E n \in Calls :
         /\ call[n].fut = "unborn"
         /\ \A m \in Calls : m < n => call[m].fut # "unborn"
         /\ callCount' = callCount + 1
         /\ \/ /\ call' = [call EXCEPT ![n] = [by |-> c, label |-> callCount + 1,
                                  listed |-> TRUE, fut |-> "pending", got |-> 0]]
               /\ pc' = [pc EXCEPT ![c] = "calling"]
               /\ req' = [req EXCEPT ![c] = n]
            \/ /\ lost[toolVia]
               /\ call' = [call EXCEPT ![n] = [by |-> c, label |-> callCount + 1,
                                  listed |-> FALSE, fut |-> "raised", got |-> 0]]
               /\ UNCHANGED <<pc, req>>
    /\ UNCHANGED <<connVars, doomed, toolVia, askVars>>

\* ClientTools.resolve, with what the client's tool made of call n.
Result(c, n) ==
    /\ handler[c] = "up"
    /\ call[n].fut # "unborn"
    /\ call' = [m \in Calls |->
                  IF call[m].listed /\ call[m].label = call[n].label
                                    /\ call[m].fut = "pending"
                  THEN [call[m] EXCEPT !.fut = "done", !.got = n] ELSE call[m]]
    /\ UNCHANGED <<connVars, turnVars, askVars, toolVia, callCount>>

Calling(c) == pc[c] = "calling"

\* call returns the result, or the sentence about the timeout.
Return(c) ==
    /\ Calling(c)
    /\ \/ call[req[c]].fut = "done" /\ MayReturn(c)
       \/ call[req[c]].fut = "pending" /\ ~doomed[c]
    /\ call' = [call EXCEPT ![req[c]].listed = FALSE,
                            ![req[c]].fut = "done"]
    /\ pc' = [pc EXCEPT ![c] = "think"]
    /\ doomed' = [doomed EXCEPT ![c] = FALSE]
    /\ UNCHANGED <<connVars, req, askVars, toolVia, callCount>>

\* The future itself was cancelled (by unbind): CancelledError goes through the
\* turn although nobody cancelled the turn.
Killed(c) ==
    /\ Calling(c) /\ call[req[c]].fut = "cancelled"
    /\ pc' = [pc EXCEPT ![c] = "none"]
    /\ doomed' = [doomed EXCEPT ![c] = FALSE]
    /\ UNCHANGED <<connVars, req, askVars, callVars>>

-----------------------------------------------------------------------------
(* The turn around them                                                    *)

EndTurn(c) ==
    /\ Thinks(c)
    /\ pc' = [pc EXCEPT ![c] = "none"]
    /\ UNCHANGED <<connVars, req, doomed, askVars, callVars>>

\* The finally of request or call, on the way out of a cancelled turn.
Withdraw(c) ==
    /\ IF Asking(c) THEN Popped(c) ELSE UNCHANGED ask
    /\ IF Calling(c) THEN call' = [call EXCEPT ![req[c]].listed = FALSE]
                     ELSE UNCHANGED call

\* Mutant of Unwind: the wait for the human is shielded from cancellation.
Unwind_Shielded(c) ==
    /\ doomed[c] /\ ~Asking(c)
    /\ Withdraw(c)
    /\ pc' = [pc EXCEPT ![c] = "none"]
    /\ doomed' = [doomed EXCEPT ![c] = FALSE]
    /\ UNCHANGED <<connVars, req, askVia, askCount, approved, ran, toolVia, callCount>>

\* The cancelled turn is resumed with CancelledError.
Unwind(c) ==
    /\ doomed[c]
    /\ Withdraw(c)
    /\ pc' = [pc EXCEPT ![c] = "none"]
    /\ doomed' = [doomed EXCEPT ![c] = FALSE]
    /\ UNCHANGED <<connVars, req, askVia, askCount, approved, ran, toolVia, callCount>>

Step(c) ==
    \/ Ask(c) \/ Collect(c) \/ AskTimeout(c)
    \/ Call(c) \/ Return(c) \/ Killed(c)
    \/ EndTurn(c) \/ Unwind(c)

Loop(c) ==
    \/ Connect(c) \/ Lose(c) \/ StartTurn(c) \/ Interrupt(c) \/ Interrupted(c)
    \/ Close(c) \/ Detach(c)
    \/ \E q \in Asks : Answer(c, q)
    \/ \E n \in Calls : Result(c, n)

Next == \E c \in Conns : Loop(c) \/ Step(c)

Spec == Init /\ [][Next]_vars

\* Timers fire and the event loop resumes what is ready; nobody has to answer.
Fairness ==
    \A c \in Conns : /\ WF_vars(Step(c))
                     /\ WF_vars(Interrupted(c))
                     /\ WF_vars(Close(c))
                     /\ WF_vars(Detach(c))

FairSpec == Spec /\ Fairness

-----------------------------------------------------------------------------
(* What the channels promise                                               *)

\* A gated tool runs only if a human said yes to the very question about it:
\* silence, a timeout, a late or repeated answer to another question, and any
\* reconnect in between never approve it.
RunsOnlyWhatWasApproved == ran \subseteq approved

\* What a client's tool returned reaches the call it was made for, never a later
\* call of this or another connection.
ResultsReachTheirCall == \A n \in Calls : call[n].got \in {0, n}

\* The connection that bound last keeps the approvals until it leaves: the handler
\* it replaced cannot disarm it from its finally.
Newest(c) == handler[c] # "off" /\ \A d \in Conns : d > c => handler[d] = "off"
ApprovalsFollowTheNewest ==
    \A c \in Conns : Newest(c) /\ handler[c] # "gone" => askVia = c

\* Every question is settled for its turn, answered or not.
QuestionsSettle == \A q \in Asks : ask[q].fut = "pending" ~> ~ask[q].listed

\* The receive loop returns from cancel_current, whatever its turn waited for.
CancelReturns == \A c \in Conns : handler[c] = "stopping" ~> handler[c] # "stopping"

\* main.py: a resumed connection is not detached by the one it replaced.  (The
\* client's tools are: ClientTools.unbind has no token.)
ToolsFollowTheNewest ==
    \A c \in Conns : Newest(c) /\ handler[c] # "gone" => toolVia = c
=============================================================================
