------------------------------ MODULE VoiceSocket ------------------------------
(***************************************************************************)
(* One session of the voice socket: the connections that serve it one      *)
(* after the other (or, after a resume, at once), the receive loop of each  *)
(* (app/main.py, voice_socket), the turn task a loop starts and interrupts  *)
(* (app/main.py, _guarded_turn; app/pipeline.py, run_turn) and the          *)
(* conversation the turns share (app/session.py, Conversation).             *)
(*                                                                         *)
(* A turn is a coroutine: its pc names the await it is suspended at, and    *)
(* a step runs the code from that await to the next one.  Everything        *)
(* between two awaits is atomic, as it is on the one event loop.  A frame   *)
(* is written at the start of the send it is awaited in.  A reply is a      *)
(* number of pieces of text; the splitter turns any run of pieces it holds  *)
(* into one sentence.                                                       *)
(***************************************************************************)
EXTENDS Naturals, Sequences

CONSTANTS
    NumConns,      \* connections that ever serve the session
    MaxTurns,      \* bound: utterances admitted over the whole behaviour
    TurnCap,       \* max_turns_per_session; 0 disables the cap
    HistoryTurns,  \* max_history_turns; 0 keeps the whole conversation
    MaxPieces,     \* bound: pieces of text in one reply
    Overlap,       \* may a client resume the session while an older handler lives
    SwallowsCancel \* may wait_for return and lose the cancellation (Python < 3.12)

ASSUME BoundsAssumption ==
    /\ NumConns \in Nat \ {0}
    /\ MaxTurns \in Nat \ {0}
    /\ TurnCap \in Nat
    /\ HistoryTurns \in Nat
    /\ MaxPieces \in Nat \ {0}
    /\ Overlap \in BOOLEAN
    /\ SwallowsCancel \in BOOLEAN

Conns == 1 .. NumConns
Turns == 1 .. MaxTurns
NoTurn == 0

VARIABLES
    sock,     \* per connection: what has become of the client's socket
    rx,       \* per connection: where its receive loop is suspended
    current,  \* per connection: the loop's current_turn
    last,     \* per connection: the last frame a turn put on the wire
    turns,    \* session.turns
    turn,     \* per turn: the state of its task
    history   \* session.conversation.messages

vars == <<sock, rx, current, last, turns, turn, history>>

PCs == {"unborn", "new", "stt", "echo", "think", "recall", "stream", "synth",
        "chunk", "save", "unthink", "complete", "remember", "sorry", "done"}

TurnState ==
    [pc     : PCs,
     owner  : Conns \cup {0},
     doomed : BOOLEAN,                      \* cancelled, not yet resumed
     spared : BOOLEAN,                      \* a wait_for lost its cancellation
     fault  : {"none", "cancel", "error"},  \* the exception it is unwinding
     silent : BOOLEAN,                      \* an empty transcript
     asked  : BOOLEAN,                      \* its words are in the history
     said   : 0 .. MaxPieces,               \* pieces captured from the model
     held   : 0 .. MaxPieces,               \* pieces waiting in the splitter
     voiced : 0 .. MaxPieces,               \* pieces whose audio was sent out
     ended  : BOOLEAN]                      \* the token stream is exhausted

Unborn == [pc |-> "unborn", owner |-> 0, doomed |-> FALSE, spared |-> FALSE,
           fault |-> "none", silent |-> FALSE, asked |-> FALSE, said |-> 0, held |-> 0,
           voiced |-> 0, ended |-> FALSE]

FrameKinds == {"none", "transcript", "thinking", "memory", "delta", "chunk",
               "bytes", "unthink", "complete", "error"}
Frame == [kind : FrameKinds, turn : Turns \cup {NoTurn}, piece : 0 .. MaxPieces]
NoFrame == [kind |-> "none", turn |-> NoTurn, piece |-> 0]

Entry == [role : {"user", "assistant"}, turn : Turns, pieces : 0 .. MaxPieces]

TypeOK ==
    /\ sock \in [Conns -> {"absent", "open", "lost"}]
    /\ rx \in [Conns -> {"off", "receive", "barge", "stop", "closing", "done"}]
    /\ current \in [Conns -> Turns \cup {NoTurn}]
    /\ last \in [Conns -> Frame]
    /\ turns \in 0 .. MaxTurns
    /\ turn \in [Turns -> TurnState]
    /\ history \in Seq(Entry)

Init ==
    /\ sock = [c \in Conns |-> "absent"]
    /\ rx = [c \in Conns |-> "off"]
    /\ current = [c \in Conns |-> NoTurn]
    /\ last = [c \in Conns |-> NoFrame]
    /\ turns = 0
    /\ turn = [t \in Turns |-> Unborn]
    /\ history = <<>>

-----------------------------------------------------------------------------
(* The conversation                                                        *)

\* The history without the length of the replies, as Conversation has it.
Talk == INSTANCE Conversation
          WITH InFlight <- IF Overlap THEN NumConns ELSE 1,
               history <- [i \in 1 .. Len(history) |->
                             [role |-> history[i].role, turn |-> history[i].turn]],
               asked <- {t \in Turns : turn[t].asked},
               pending <- {t \in Turns : /\ turn[t].asked
                                         /\ turn[t].pc \in {"recall", "stream",
                                                            "synth", "chunk"}}

AddUser(t) ==
    history' = Talk!Trim(Append(history, [role |-> "user", turn |-> t, pieces |-> 0]))

\* Mutant of AddReply: the reply is recorded after the stream, not in a finally.
AddReply_IfEnded(t) ==
    history' = IF turn[t].said = 0 \/ ~turn[t].ended THEN history
               ELSE Talk!Trim(Append(history, [role |-> "assistant", turn |-> t,
                                          pieces |-> turn[t].said]))

\* The finally of _think_and_speak: whatever was captured is the reply.
AddReply(t) ==
    history' = IF turn[t].said = 0 THEN history
               ELSE Talk!Trim(Append(history, [role |-> "assistant", turn |-> t,
                                          pieces |-> turn[t].said]))

-----------------------------------------------------------------------------
(* The wire                                                                *)

\* What a turn writes reaches the client only while the socket stands.
Write(t, kind, piece) ==
    LET c == turn[t].owner
    IN  last' = IF sock[c] = "open"
                THEN [last EXCEPT ![c] = [kind |-> kind, turn |-> t, piece |-> piece]]
                ELSE last

-----------------------------------------------------------------------------
(* The receive loop of a connection (voice_socket)                         *)

Live(t) == turn[t].pc \notin {"unborn", "done"}

\* Mutant of Idle: a cancelled turn counts as over.
Idle_Cancelled(c) ==
    current[c] # NoTurn => ~Live(current[c]) \/ turn[current[c]].doomed
\* current_turn is None or current_turn.done(): the is_idle handed to push.
Idle(c) == current[c] # NoTurn => ~Live(current[c])

\* cancel_current up to its await: the task is cancelled, not yet unwound.
Cancel(c) ==
    turn' = IF Idle(c) THEN turn ELSE [turn EXCEPT ![current[c]].doomed = TRUE]

\* The rest of start_turn: count the utterance and spawn its task.
Begin(c) ==
    /\ turns' = turns + 1
    /\ turn' = [turn EXCEPT ![turns + 1] =
                  [Unborn EXCEPT !.pc = "new", !.owner = c]]
    /\ current' = [current EXCEPT ![c] = turns + 1]

\* Bound.  It can hold back StartTurn only when two loops barge in at once.
RoomForTurn == turns < MaxTurns

\* The handshake is over: the loop serves the socket.
Open(c) ==
    /\ sock[c] = "absent"
    /\ \A d \in Conns : d < c => sock[d] # "absent" /\ (Overlap \/ rx[d] = "done")
    /\ sock' = [sock EXCEPT ![c] = "open"]
    /\ rx' = [rx EXCEPT ![c] = "receive"]
    /\ UNCHANGED <<current, last, turns, turn, history>>

\* The client goes away; the loop has yet to notice.
Lose(c) ==
    /\ sock[c] = "open"
    /\ sock' = [sock EXCEPT ![c] = "lost"]
    /\ UNCHANGED <<rx, current, last, turns, turn, history>>

Receiving(c) == rx[c] = "receive"

\* _admit_turn; the rate limiter's answer is the environment's.
UnderCap == TurnCap = 0 \/ turns < TurnCap

\* An admitted utterance, spoken or typed, with no turn in the way.
Utter(c) ==
    /\ Receiving(c) /\ UnderCap /\ RoomForTurn
    /\ Idle(c)
    /\ Begin(c)
    /\ UNCHANGED <<sock, rx, last, history>>

\* An admitted utterance that barges in: start_turn waits in cancel_current.
BargeIn(c) ==
    /\ Receiving(c) /\ UnderCap /\ RoomForTurn
    /\ ~Idle(c)
    /\ Cancel(c)
    /\ rx' = [rx EXCEPT ![c] = "barge"]
    /\ UNCHANGED <<sock, current, last, turns, history>>

\* start_turn goes on once the cancelled turn is over.
StartTurn(c) ==
    /\ rx[c] = "barge" /\ RoomForTurn
    /\ Idle(c)
    /\ Begin(c)
    /\ rx' = [rx EXCEPT ![c] = "receive"]
    /\ UNCHANGED <<sock, last, history>>

\* The interrupt frame, when there is something to interrupt.
Interrupt(c) ==
    /\ Receiving(c)
    /\ ~Idle(c)
    /\ Cancel(c)
    /\ rx' = [rx EXCEPT ![c] = "stop"]
    /\ UNCHANGED <<sock, current, last, turns, history>>

Interrupted(c) ==
    /\ rx[c] = "stop"
    /\ Idle(c)
    /\ current' = [current EXCEPT ![c] = NoTurn]
    /\ rx' = [rx EXCEPT ![c] = "receive"]
    /\ UNCHANGED <<sock, last, turns, turn, history>>

\* The loop notices (a disconnect message, or a send of its own that raises)
\* and enters the finally, which cancels the current turn first.
Disconnect(c) ==
    /\ Receiving(c)
    /\ sock[c] = "lost"
    /\ Cancel(c)
    /\ rx' = [rx EXCEPT ![c] = "closing"]
    /\ UNCHANGED <<sock, current, last, turns, history>>

\* The rest of the finally: the session is retained, the handler is over.
Detach(c) ==
    /\ rx[c] = "closing"
    /\ Idle(c)
    /\ current' = [current EXCEPT ![c] = NoTurn]
    /\ rx' = [rx EXCEPT ![c] = "done"]
    /\ UNCHANGED <<sock, last, turns, turn, history>>

-----------------------------------------------------------------------------
(* A turn (run_turn under _guarded_turn)                                   *)

Runs(t, at) == turn[t].pc = at /\ ~turn[t].doomed

Go(t, at) == turn' = [turn EXCEPT ![t].pc = at]

\* The task is over and its locals are gone; what it said and what was heard of it
\* stay, for the properties.
End(t) == turn' = [turn EXCEPT ![t].pc = "done", ![t].doomed = FALSE,
                               ![t].fault = "none", ![t].held = 0,
                               ![t].ended = FALSE]

OfTurn == <<sock, rx, current, turns>>   \* what no step of a turn touches

\* The task runs for the first time: a typed turn echoes its words at once.
Start(t) ==
    /\ Runs(t, "new")
    /\ \/ /\ Go(t, "stt")
          /\ UNCHANGED last
       \/ /\ Go(t, "echo")
          /\ Write(t, "transcript", 0)
    /\ UNCHANGED <<OfTurn, history>>

\* transcribe returns, with words or with nothing.
Transcribe(t) ==
    /\ Runs(t, "stt")
    /\ \E nothing \in BOOLEAN :
         turn' = [turn EXCEPT ![t].pc = "echo", ![t].silent = nothing]
    /\ Write(t, "transcript", 0)
    /\ UNCHANGED <<OfTurn, history>>

Think(t) ==
    /\ Runs(t, "echo")
    /\ Go(t, "think")
    /\ Write(t, "thinking", 0)
    /\ UNCHANGED <<OfTurn, history>>

\* The brain path records the user's words; the canned reprompt leaves no trace.
Respond(t) ==
    /\ Runs(t, "think")
    /\ IF turn[t].silent
       THEN Go(t, "stream") /\ UNCHANGED history
       ELSE /\ turn' = [turn EXCEPT ![t].pc = "recall", ![t].asked = TRUE]
            /\ AddUser(t)
    /\ UNCHANGED <<OfTurn, last>>

\* build_memory_view returns; the memory frame goes out when it found anything.
Recall(t) ==
    /\ Runs(t, "recall")
    /\ Go(t, "stream")
    /\ \/ Write(t, "memory", 0)
       \/ UNCHANGED last
    /\ UNCHANGED <<OfTurn, history>>

\* _capture keeps the piece and shows it; the splitter may complete a sentence.
Token(t) ==
    /\ Runs(t, "stream")
    /\ ~turn[t].ended /\ turn[t].said < MaxPieces
    /\ \E at \in {"stream", "synth"} :
         turn' = [turn EXCEPT ![t].pc = at, ![t].said = @ + 1, ![t].held = @ + 1]
    /\ Write(t, "delta", turn[t].said + 1)
    /\ UNCHANGED <<OfTurn, history>>

\* Mutant of EndOfStream: no flush.
EndOfStream_NoFlush(t) ==
    /\ Runs(t, "stream")
    /\ ~turn[t].ended
    /\ turn' = [turn EXCEPT ![t].ended = TRUE]
    /\ UNCHANGED <<OfTurn, last, history>>

\* The stream is exhausted; flush speaks what the splitter still holds.
EndOfStream(t) ==
    /\ Runs(t, "stream")
    /\ ~turn[t].ended
    /\ turn' = [turn EXCEPT ![t].ended = TRUE,
                            ![t].pc = IF turn[t].held > 0 THEN "synth" ELSE "stream"]
    /\ UNCHANGED <<OfTurn, last, history>>

\* Mutant of AudioChunk: the announcement names the sentence before.
AudioChunk_Stale(t) ==
    /\ Runs(t, "synth")
    /\ Go(t, "chunk")
    /\ Write(t, "chunk", turn[t].voiced)
    /\ UNCHANGED <<OfTurn, history>>

\* emit, after synthesize: announce the sentence.
AudioChunk(t) ==
    /\ Runs(t, "synth")
    /\ Go(t, "chunk")
    /\ Write(t, "chunk", turn[t].said)
    /\ UNCHANGED <<OfTurn, history>>

\* emit, after the announcement: the sentence itself.
AudioBytes(t) ==
    /\ Runs(t, "chunk")
    /\ turn' = [turn EXCEPT
                  ![t].pc = "stream", ![t].held = 0,
                  ![t].voiced = IF sock[turn[t].owner] = "open" THEN turn[t].said ELSE @]
    /\ Write(t, "bytes", turn[t].said)
    /\ UNCHANGED <<OfTurn, history>>

\* The finally blocks of _think_and_speak and run_turn, in their order: the reply
\* is recorded (not on the canned path), then thinking is switched off.
LeaveSpeaking(t, fault) ==
    IF turn[t].silent
    THEN /\ turn' = [turn EXCEPT ![t].pc = "unthink", ![t].doomed = FALSE,
                                 ![t].fault = fault]
         /\ Write(t, "unthink", 0)
         /\ UNCHANGED history
    ELSE /\ turn' = [turn EXCEPT ![t].pc = "save", ![t].doomed = FALSE,
                                 ![t].fault = fault]
         /\ AddReply(t)
         /\ UNCHANGED last

Spoken(t) ==
    /\ Runs(t, "stream")
    /\ turn[t].ended
    /\ LeaveSpeaking(t, "none")
    /\ UNCHANGED OfTurn

\* An exception leaves run_turn: _guarded_turn lets a cancellation through and
\* turns anything else into an error frame.
LeaveTurn(t, fault) ==
    IF fault = "cancel"
    THEN End(t) /\ UNCHANGED last
    ELSE /\ turn' = [turn EXCEPT ![t].pc = "sorry", ![t].fault = fault]
         /\ Write(t, "error", 0)

\* Mutant of Unthink: thinking is switched off only by a turn that went well.
Unthink_OnSuccess(t) ==
    /\ Runs(t, "save")
    /\ IF turn[t].fault = "none" THEN Go(t, "unthink") /\ Write(t, "unthink", 0)
       ELSE LeaveTurn(t, turn[t].fault)
    /\ UNCHANGED <<OfTurn, history>>

\* record_spend returns.
Unthink(t) ==
    /\ Runs(t, "save")
    /\ Go(t, "unthink")
    /\ Write(t, "unthink", 0)
    /\ UNCHANGED <<OfTurn, history>>

\* Mutant of Complete: a return in the finally swallows the exception.
Complete_Always(t) ==
    /\ Runs(t, "unthink")
    /\ Go(t, "complete") /\ Write(t, "complete", 0)
    /\ UNCHANGED <<OfTurn, history>>

\* After thinking(False): complete, or go on raising what brought the turn here.
Complete(t) ==
    /\ Runs(t, "unthink")
    /\ IF turn[t].fault = "none"
       THEN Go(t, "complete") /\ Write(t, "complete", 0)
       ELSE LeaveTurn(t, turn[t].fault)
    /\ UNCHANGED <<OfTurn, history>>

\* Mutant of Remember: a turn without a reply is left waiting.
Remember_NeedsReply(t) ==
    /\ Runs(t, "complete")
    /\ ~turn[t].silent /\ turn[t].said > 0
    /\ Go(t, "remember")
    /\ UNCHANGED <<OfTurn, last, history>>

\* The write half of memory, for a turn that had words and a reply.
Remember(t) ==
    /\ Runs(t, "complete")
    /\ IF ~turn[t].silent /\ turn[t].said > 0 THEN Go(t, "remember") ELSE End(t)
    /\ UNCHANGED <<OfTurn, last, history>>

\* The memory write, or the error frame, was the turn's last await.
Finish(t) ==
    /\ Runs(t, "remember") \/ Runs(t, "sorry")
    /\ End(t)
    /\ UNCHANGED <<OfTurn, last, history>>

\* The exception `fault` is raised at the await the turn is suspended at.
Raise(t, fault) ==
    CASE turn[t].pc \in {"stream", "synth", "chunk"} -> LeaveSpeaking(t, fault)
      [] turn[t].pc \in {"recall", "save"} ->
           /\ turn' = [turn EXCEPT ![t].pc = "unthink", ![t].doomed = FALSE,
                                   ![t].fault = fault]
           /\ Write(t, "unthink", 0)
           /\ UNCHANGED history
      [] OTHER -> LeaveTurn(t, fault) /\ UNCHANGED history

\* The stream of a turn runs its tool calls, and a question or a call to the client
\* waits in wait_for: an answer that is there already is returned, and the
\* cancellation that came with it is lost.  The turn goes on as if nothing happened.
Spare(t) ==
    /\ SwallowsCancel
    /\ turn[t].pc = "stream" /\ turn[t].doomed
    /\ ~turn[t].silent /\ ~turn[t].ended
    /\ turn' = [turn EXCEPT ![t].doomed = FALSE, ![t].spared = TRUE]
    /\ UNCHANGED <<OfTurn, last, history>>

\* A cancelled task is resumed with CancelledError, whatever it waited for.  One
\* that never ran, or is sending its error frame, just ends.
Unwind(t) ==
    /\ Live(t) /\ turn[t].doomed
    /\ Raise(t, "cancel")
    /\ UNCHANGED OfTurn

CallPoints == {"stt", "recall", "stream", "synth"}
SendPoints == {"echo", "think", "recall", "stream", "chunk", "unthink", "complete"}

\* A call to another service fails, or a send finds that the socket is gone.  The
\* writer's own failures, record_spend's and the error frame's are swallowed.
Fail(t) ==
    /\ ~turn[t].doomed
    /\ \/ turn[t].pc \in CallPoints
       \/ turn[t].pc \in SendPoints /\ sock[turn[t].owner] = "lost"
    /\ Raise(t, "error")
    /\ UNCHANGED OfTurn

-----------------------------------------------------------------------------
Loop(c) ==
    \/ Open(c) \/ Lose(c) \/ Utter(c) \/ BargeIn(c) \/ StartTurn(c)
    \/ Interrupt(c) \/ Interrupted(c) \/ Disconnect(c) \/ Detach(c)

Step(t) ==
    \/ Start(t) \/ Transcribe(t) \/ Think(t) \/ Respond(t) \/ Recall(t)
    \/ Token(t) \/ EndOfStream(t) \/ AudioChunk(t) \/ AudioBytes(t)
    \/ Spoken(t) \/ Unthink(t) \/ Complete(t) \/ Remember(t) \/ Finish(t)
    \/ Spare(t) \/ Unwind(t) \/ Fail(t)

Next == (\E c \in Conns : Loop(c)) \/ (\E t \in Turns : Step(t))

Spec == Init /\ [][Next]_vars

\* The event loop resumes whatever is ready, every call a turn awaits returns
\* or raises, and a lost socket is reported to its loop.  No client owes anything.
Fairness ==
    /\ \A c \in Conns : /\ WF_vars(StartTurn(c))
                        /\ WF_vars(Interrupted(c))
                        /\ WF_vars(Disconnect(c))
                        /\ WF_vars(Detach(c))
    /\ \A t \in Turns : WF_vars(Step(t))

FairSpec == Spec /\ Fairness

-----------------------------------------------------------------------------
(* What the code promises                                                  *)

\* One socket never carries two turns: start_turn spawns the next task only when
\* cancel_current has seen the last one end.
OneTurnPerSocket ==
    \A t, u \in Turns :
        Live(t) /\ Live(u) /\ turn[t].owner = turn[u].owner => t = u

\* No turn goes on speaking for a handler that has returned: the finally of
\* voice_socket waits for the task it cancels.
NoTurnOutlivesItsHandler ==
    \A t \in Turns : Live(t) => rx[turn[t].owner] # "done"

\* A binary frame comes right after the audio_chunk of its own sentence, as far as
\* the frames of turns go: emit announces and sends with no other turn between.
AudioFollowsItsSentence ==
    [][\A c \in Conns :
          last'[c] # last[c] /\ last'[c].kind = "bytes"
             => last[c] = [last'[c] EXCEPT !.kind = "chunk"]]_vars

\* An interrupted turn says nothing more: while its loop waits for it in
\* cancel_current the only frame it still sends is thinking(False).  A turn whose
\* cancellation a wait_for has lost is exempt: that one finishes its reply.
InterruptedTurnFallsSilent ==
    [][\A c \in Conns :
          LET t == last'[c].turn
          IN  last'[c] # last[c] /\ rx[c] \in {"barge", "stop", "closing"}
                                /\ ~turn[t].spared
                => last'[c].kind = "unthink"]_vars

\* turn_complete means that the client got the audio of the whole reply: what the
\* splitter held when the stream ended was flushed first.
CompleteMeansVoiced ==
    \A c \in Conns :
        last[c].kind = "complete" => turn[last[c].turn].voiced = turn[last[c].turn].said

\* A turn that got as far as speaking never ends with the client still showing
\* "thinking": the finally of run_turn runs on every way out.
ThinkingIsSwitchedOff ==
    \A c \in Conns :
        LET t == last[c].turn
        IN  sock[c] = "open" /\ t # NoTurn /\ turn[t].pc = "done"
              => last[c].kind \notin {"memory", "delta", "chunk", "bytes"}

\* The turns use the history one at a time, as Conversation has it (with Overlap,
\* one for each connection): no reply slips in between another turn's question and
\* its answer, and no turn records twice.
TalksInTurn == Talk!Spec

\* While the latest turn thinks, its question ends the prompt; when it is over, even
\* by an interrupt or an error, everything it streamed stands in the conversation.
LatestTurnIsRecorded ==
    \A t \in Turns :
        t = turns /\ ~turn[t].silent =>
          /\ turn[t].pc \in {"recall", "stream", "synth", "chunk"}
               => history # <<>> /\ history[Len(history)]
                                      = [role |-> "user", turn |-> t, pieces |-> 0]
          /\ turn[t].pc \notin {"stream", "synth", "chunk"} /\ turn[t].said > 0
               => history # <<>> /\ history[Len(history)]
                                      = [role |-> "assistant", turn |-> t,
                                         pieces |-> turn[t].said]

\* Every turn that is spawned ends.
TurnsEnd == \A t \in Turns : turn[t].pc = "new" ~> turn[t].pc = "done"

=============================================================================
