--------------------------- MODULE VoiceSocket_proofs ---------------------------
(* What holds of VoiceSocket for any number of connections, turns and pieces,  *)
(* whether or not connections overlap.                                        *)
EXTENDS VoiceSocket, FiniteSetTheorems, WellFoundedInduction, TLAPS

-----------------------------------------------------------------------------
(* The data of a turn                                                      *)

\* What the splitter holds was captured before.
Held == \A t \in Turns : turn[t].held <= turn[t].said

\* The task of t moves on: its record changes, its owner does not.
Moved(t) ==
    \E r \in TurnState : /\ r.owner = turn[t].owner
                         /\ r.held <= r.said
                         /\ turn' = [turn EXCEPT ![t] = r]

LEMMA TurnTyped ==
  ASSUME TypeOK, Held, NEW t \in Turns
  PROVE  turn[t] \in TurnState /\ turn[t].held <= turn[t].said
  BY DEF TypeOK, Held

\* Going on to another await is a move.
LEMMA GoMoves ==
  ASSUME TypeOK, Held, NEW t \in Turns, NEW at \in PCs, Go(t, at)
  PROVE  Moved(t)
<1> DEFINE r == [turn[t] EXCEPT !.pc = at]
<1>1. r \in TurnState /\ r.owner = turn[t].owner /\ r.held <= r.said
  BY TurnTyped DEF TurnState
<1>2. turn' = [turn EXCEPT ![t] = r]
  BY DEF Go
<1> QED
  BY <1>1, <1>2 DEF Moved

LEMMA EndMoves ==
  ASSUME TypeOK, Held, NEW t \in Turns, End(t)
  PROVE  Moved(t)
<1> DEFINE r == [turn[t] EXCEPT !.pc = "done", !.doomed = FALSE, !.fault = "none",
                                !.held = 0, !.ended = FALSE]
<1>1. r \in TurnState /\ r.owner = turn[t].owner /\ r.held <= r.said
  <2>1. \A s \in TurnState : s.said \in Nat
    BY BoundsAssumption DEF TurnState
  <2>2. 0 \in 0 .. MaxPieces /\ "done" \in PCs
    BY BoundsAssumption DEF PCs
  <2>3. r \in TurnState
    BY TurnTyped, <2>2 DEF TurnState
  <2>4. r.owner = turn[t].owner /\ r.held = 0 /\ r.said = turn[t].said
    BY TurnTyped DEF TurnState
  <2> QED
    BY TurnTyped, <2>1, <2>3, <2>4
<1>2. turn' = [turn EXCEPT ![t] = r]
  BY DEF End
<1> QED
  BY <1>1, <1>2 DEF Moved

\* Whatever is written, what a socket shows last is a frame.
LEMMA WriteTyped ==
  ASSUME TypeOK, NEW t \in Turns, NEW kind \in FrameKinds, NEW piece \in 0 .. MaxPieces,
         Write(t, kind, piece)
  PROVE  last' \in [Conns -> Frame]
<1>1. [kind |-> kind, turn |-> t, piece |-> piece] \in Frame
  BY DEF Frame
<1> QED
  BY <1>1 DEF Write, TypeOK

\* _trim returns a part of the history.
LEMMA TrimTyped ==
  ASSUME NEW h \in Seq(Entry)
  PROVE  Talk!Trim(h) \in Seq(Entry)
<1> DEFINE low == Len(h) - Talk!Cap + 1
           front == {i \in low .. Len(h) : /\ h[i].role = "user"
                                           /\ \A j \in low .. i - 1 : h[j].role # "user"}
<1>0. HistoryTurns \in Nat /\ Len(h) \in Nat /\ Talk!Cap \in Nat
  BY BoundsAssumption DEF Talk!Cap
<1>1. CASE HistoryTurns = 0 \/ Len(h) <= Talk!Cap
  BY <1>1 DEF Talk!Trim
<1>2. CASE ~(HistoryTurns = 0 \/ Len(h) <= Talk!Cap) /\ front = {}
  <2>1. Talk!Trim(h) = <<>>
    BY <1>2 DEF Talk!Trim
  <2> QED
    BY <2>1
<1>3. CASE ~(HistoryTurns = 0 \/ Len(h) <= Talk!Cap) /\ front # {}
  <2> DEFINE k == CHOOSE i \in front : TRUE
  <2>1. k \in front
    BY <1>3
  <2>2. Talk!Trim(h) = SubSeq(h, k, Len(h))
    BY <1>3 DEF Talk!Trim
  <2>3. k \in 1 .. Len(h)
    BY <1>0, <1>3, <2>1
  <2> HIDE DEF k
  <2> QED
    BY <2>2, <2>3
<1> QED
  BY <1>1, <1>2, <1>3

LEMMA AddUserTyped ==
  ASSUME TypeOK, NEW t \in Turns, AddUser(t)
  PROVE  history' \in Seq(Entry)
<1> DEFINE e == [role |-> "user", turn |-> t, pieces |-> 0]
<1>1. e \in Entry
  BY BoundsAssumption DEF Entry
<1>2. Append(history, e) \in Seq(Entry)
  BY <1>1 DEF TypeOK
<1> QED
  BY <1>2, TrimTyped DEF AddUser

LEMMA AddReplyTyped ==
  ASSUME TypeOK, Held, NEW t \in Turns, AddReply(t)
  PROVE  history' \in Seq(Entry)
<1> DEFINE e == [role |-> "assistant", turn |-> t, pieces |-> turn[t].said]
<1>1. e \in Entry
  BY TurnTyped DEF Entry, TurnState
<1>2. Append(history, e) \in Seq(Entry)
  BY <1>1 DEF TypeOK
<1> QED
  BY <1>2, TrimTyped DEF AddReply, TypeOK

-----------------------------------------------------------------------------
(* A step of a turn                                                        *)

\* What a step of t leaves behind it.
StepTyped(t) ==
    /\ Live(t) /\ Moved(t)
    /\ last' \in [Conns -> Frame]
    /\ history' \in Seq(Entry)
    /\ UNCHANGED OfTurn

LEMMA LeaveTurnTyped ==
  ASSUME TypeOK, Held, NEW t \in Turns, NEW fault \in {"cancel", "error"},
         LeaveTurn(t, fault)
  PROVE  /\ Moved(t)
         /\ last' \in [Conns -> Frame]
<1>1. CASE fault = "cancel"
  BY <1>1, EndMoves DEF LeaveTurn, TypeOK
<1>2. CASE fault # "cancel"
  <2> DEFINE r == [turn[t] EXCEPT !.pc = "sorry", !.fault = fault]
  <2>1. r \in TurnState /\ r.owner = turn[t].owner /\ r.held <= r.said
    BY TurnTyped DEF TurnState, PCs
  <2>2. turn' = [turn EXCEPT ![t] = r] /\ Write(t, "error", 0)
    BY <1>2 DEF LeaveTurn
  <2>3. 0 \in 0 .. MaxPieces /\ "error" \in FrameKinds
    BY BoundsAssumption DEF FrameKinds
  <2> QED
    BY <2>1, <2>2, <2>3, WriteTyped DEF Moved
<1> QED
  BY <1>1, <1>2

\* Both finally blocks: to the save, or to thinking(False).
LEMMA LeaveSpeakingTyped ==
  ASSUME TypeOK, Held, NEW t \in Turns, NEW fault \in {"none", "cancel", "error"},
         LeaveSpeaking(t, fault)
  PROVE  /\ Moved(t)
         /\ last' \in [Conns -> Frame]
         /\ history' \in Seq(Entry)
<1> DEFINE To(at) == [turn[t] EXCEPT !.pc = at, !.doomed = FALSE, !.fault = fault]
<1>1. \A at \in {"unthink", "save"} :
        To(at) \in TurnState /\ To(at).owner = turn[t].owner /\ To(at).held <= To(at).said
  BY TurnTyped DEF TurnState, PCs
<1>2. CASE turn[t].silent
  <2>1. turn' = [turn EXCEPT ![t] = To("unthink")] /\ Write(t, "unthink", 0)
        /\ UNCHANGED history
    BY <1>2 DEF LeaveSpeaking
  <2>2. 0 \in 0 .. MaxPieces /\ "unthink" \in FrameKinds
    BY BoundsAssumption DEF FrameKinds
  <2> QED
    BY <1>1, <2>1, <2>2, WriteTyped DEF Moved, TypeOK
<1>3. CASE ~turn[t].silent
  <2>1. turn' = [turn EXCEPT ![t] = To("save")] /\ AddReply(t) /\ UNCHANGED last
    BY <1>3 DEF LeaveSpeaking
  <2> QED
    BY <1>1, <2>1, AddReplyTyped DEF Moved, TypeOK
<1> QED
  BY <1>2, <1>3

LEMMA RaiseTyped ==
  ASSUME TypeOK, Held, NEW t \in Turns, NEW fault \in {"cancel", "error"},
         Raise(t, fault)
  PROVE  /\ Moved(t)
         /\ last' \in [Conns -> Frame]
         /\ history' \in Seq(Entry)
<1>1. CASE turn[t].pc \in {"stream", "synth", "chunk"}
  BY <1>1, LeaveSpeakingTyped DEF Raise
<1>2. CASE turn[t].pc \in {"recall", "save"}
  <2> DEFINE r == [turn[t] EXCEPT !.pc = "unthink", !.doomed = FALSE, !.fault = fault]
  <2>1. r \in TurnState /\ r.owner = turn[t].owner /\ r.held <= r.said
    BY TurnTyped DEF TurnState, PCs
  <2>2. turn' = [turn EXCEPT ![t] = r] /\ Write(t, "unthink", 0) /\ UNCHANGED history
    BY <1>2 DEF Raise
  <2>3. 0 \in 0 .. MaxPieces /\ "unthink" \in FrameKinds
    BY BoundsAssumption DEF FrameKinds
  <2> QED
    BY <2>1, <2>2, <2>3, WriteTyped DEF Moved, TypeOK
<1>3. CASE turn[t].pc \notin {"stream", "synth", "chunk", "recall", "save"}
  <2>1. LeaveTurn(t, fault) /\ UNCHANGED history
    BY <1>3 DEF Raise
  <2> QED
    BY <2>1, LeaveTurnTyped DEF TypeOK
<1> QED
  BY <1>1, <1>2, <1>3

\* A step that goes on and writes, or not, and leaves the history alone.
LEMMA PlainStep ==
  ASSUME TypeOK, Held, NEW t \in Turns, NEW at \in PCs, Live(t), Go(t, at),
         NEW kind \in FrameKinds, NEW piece \in 0 .. MaxPieces,
         Write(t, kind, piece) \/ UNCHANGED last,
         UNCHANGED <<OfTurn, history>>
  PROVE  StepTyped(t)
<1>1. Moved(t)
  BY GoMoves
<1>2. last' \in [Conns -> Frame]
  BY WriteTyped DEF TypeOK
<1>3. history' \in Seq(Entry)
  BY DEF TypeOK
<1> QED
  BY <1>1, <1>2, <1>3 DEF StepTyped

LEMMA StepIsTyped ==
  ASSUME TypeOK, Held, NEW t \in Turns, Step(t)
  PROVE  StepTyped(t)
<1>0. /\ 0 \in 0 .. MaxPieces
      /\ turn[t].said \in 0 .. MaxPieces /\ turn[t].held \in 0 .. MaxPieces
      /\ turn[t].voiced \in 0 .. MaxPieces
  BY TurnTyped, BoundsAssumption DEF TurnState
<1>1. CASE Start(t)
  <2>1. Live(t) /\ "stt" \in PCs /\ "echo" \in PCs /\ "transcript" \in FrameKinds
    BY <1>1 DEF Start, Runs, Live, PCs, FrameKinds
  <2> QED
    BY <1>0, <1>1, <2>1, PlainStep DEF Start
<1>2. CASE Transcribe(t)
  <2>1. PICK nothing \in BOOLEAN :
          turn' = [turn EXCEPT ![t].pc = "echo", ![t].silent = nothing]
    BY <1>2 DEF Transcribe
  <2> DEFINE r == [turn[t] EXCEPT !.pc = "echo", !.silent = nothing]
  <2>2. r \in TurnState /\ r.owner = turn[t].owner /\ r.held <= r.said
    BY TurnTyped DEF TurnState, PCs
  <2>3. Moved(t)
    BY <2>1, <2>2 DEF Moved
  <2>4. Live(t) /\ "transcript" \in FrameKinds
    BY <1>2 DEF Transcribe, Runs, Live, FrameKinds
  <2> QED
    BY <1>0, <1>2, <2>3, <2>4, WriteTyped DEF Transcribe, StepTyped, TypeOK
<1>3. CASE Think(t)
  <2>1. Live(t) /\ "think" \in PCs /\ "thinking" \in FrameKinds
    BY <1>3 DEF Think, Runs, Live, PCs, FrameKinds
  <2> QED
    BY <1>0, <1>3, <2>1, PlainStep DEF Think
<1>4. CASE Respond(t)
  <2>1. Live(t) /\ "stream" \in PCs /\ "none" \in FrameKinds
    BY <1>4 DEF Respond, Runs, Live, PCs, FrameKinds
  <2>2. CASE turn[t].silent
    BY <1>0, <1>4, <2>1, <2>2, PlainStep DEF Respond
  <2>3. CASE ~turn[t].silent
    <3> DEFINE r == [turn[t] EXCEPT !.pc = "recall", !.asked = TRUE]
    <3>1. r \in TurnState /\ r.owner = turn[t].owner /\ r.held <= r.said
      BY TurnTyped DEF TurnState, PCs
    <3>2. turn' = [turn EXCEPT ![t] = r] /\ AddUser(t) /\ UNCHANGED <<OfTurn, last>>
      BY <1>4, <2>3 DEF Respond
    <3> QED
      BY <2>1, <3>1, <3>2, AddUserTyped DEF Moved, StepTyped, TypeOK
  <2> QED
    BY <2>2, <2>3
<1>5. CASE Recall(t)
  <2>1. Live(t) /\ "stream" \in PCs /\ "memory" \in FrameKinds
    BY <1>5 DEF Recall, Runs, Live, PCs, FrameKinds
  <2> QED
    BY <1>0, <1>5, <2>1, PlainStep DEF Recall
<1>6. CASE Token(t)
  <2>1. PICK at \in {"stream", "synth"} :
          turn' = [turn EXCEPT ![t].pc = at, ![t].said = @ + 1, ![t].held = @ + 1]
    BY <1>6 DEF Token
  <2> DEFINE r == [turn[t] EXCEPT !.pc = at, !.said = @ + 1, !.held = @ + 1]
  <2>2. turn[t].said < MaxPieces /\ turn[t].held <= turn[t].said
    BY <1>6, TurnTyped DEF Token
  <2>3. turn[t].said + 1 \in 0 .. MaxPieces /\ turn[t].held + 1 \in 0 .. MaxPieces
        /\ turn[t].held + 1 <= turn[t].said + 1
    BY <1>0, <2>2, BoundsAssumption
  <2>4. r \in TurnState
    BY <2>3, TurnTyped DEF TurnState, PCs
  <2>5. r.owner = turn[t].owner /\ r.held <= r.said
    BY <2>3, TurnTyped DEF TurnState
  <2>6. Moved(t)
    BY <2>1, <2>4, <2>5 DEF Moved
  <2>7. Live(t) /\ "delta" \in FrameKinds
    BY <1>6 DEF Token, Runs, Live, FrameKinds
  <2> QED
    BY <1>6, <2>3, <2>6, <2>7, WriteTyped DEF Token, StepTyped, TypeOK
<1>7. CASE EndOfStream(t)
  <2> DEFINE r == [turn[t] EXCEPT !.ended = TRUE,
                     !.pc = IF turn[t].held > 0 THEN "synth" ELSE "stream"]
  <2>1. r \in TurnState /\ r.owner = turn[t].owner /\ r.held <= r.said
    BY TurnTyped DEF TurnState, PCs
  <2>2. turn' = [turn EXCEPT ![t] = r]
    BY <1>7 DEF EndOfStream
  <2>3. Live(t)
    BY <1>7 DEF EndOfStream, Runs, Live
  <2> QED
    BY <1>7, <2>1, <2>2, <2>3 DEF EndOfStream, Moved, StepTyped, TypeOK
<1>8. CASE AudioChunk(t)
  <2>1. Live(t) /\ "chunk" \in PCs /\ "chunk" \in FrameKinds
    BY <1>8 DEF AudioChunk, Runs, Live, PCs, FrameKinds
  <2> QED
    BY <1>0, <1>8, <2>1, PlainStep DEF AudioChunk
<1>9. CASE AudioBytes(t)
  <2> DEFINE v == IF sock[turn[t].owner] = "open" THEN turn[t].said ELSE turn[t].voiced
             r == [turn[t] EXCEPT !.pc = "stream", !.held = 0, !.voiced = v]
  <2>1. v \in 0 .. MaxPieces
    BY <1>0
  <2>2. turn' = [turn EXCEPT ![t] = r]
    BY <1>9 DEF AudioBytes
  <2> HIDE DEF v
  <2>3. r \in TurnState
    BY <1>0, <2>1, TurnTyped DEF TurnState, PCs
  <2>4. r.owner = turn[t].owner /\ r.held = 0 /\ r.said = turn[t].said
    BY TurnTyped DEF TurnState
  <2>5. r.held <= r.said
    BY <1>0, <2>4, BoundsAssumption
  <2>6. Moved(t)
    BY <2>2, <2>3, <2>4, <2>5 DEF Moved
  <2>7. Live(t) /\ "bytes" \in FrameKinds
    BY <1>9 DEF AudioBytes, Runs, Live, FrameKinds
  <2> QED
    BY <1>0, <1>9, <2>6, <2>7, WriteTyped DEF AudioBytes, StepTyped, TypeOK
<1>10. CASE Spoken(t)
  <2>1. Live(t)
    BY <1>10 DEF Spoken, Runs, Live
  <2> QED
    BY <1>10, <2>1, LeaveSpeakingTyped DEF Spoken, StepTyped
<1>11. CASE Unthink(t)
  <2>1. Live(t) /\ "unthink" \in PCs /\ "unthink" \in FrameKinds
    BY <1>11 DEF Unthink, Runs, Live, PCs, FrameKinds
  <2> QED
    BY <1>0, <1>11, <2>1, PlainStep DEF Unthink
<1>12. CASE Complete(t)
  <2>1. Live(t) /\ "complete" \in PCs /\ "complete" \in FrameKinds
    BY <1>12 DEF Complete, Runs, Live, PCs, FrameKinds
  <2>2. CASE turn[t].fault = "none"
    BY <1>0, <1>12, <2>1, <2>2, PlainStep DEF Complete
  <2>3. CASE turn[t].fault # "none"
    <3>1. turn[t].fault \in {"cancel", "error"}
      BY <2>3, TurnTyped DEF TurnState
    <3> QED
      BY <1>12, <2>1, <2>3, <3>1, LeaveTurnTyped DEF Complete, StepTyped, TypeOK
  <2> QED
    BY <2>2, <2>3
<1>13. CASE Remember(t)
  <2>1. Live(t) /\ "remember" \in PCs /\ "none" \in FrameKinds
    BY <1>13 DEF Remember, Runs, Live, PCs, FrameKinds
  <2>2. Moved(t)
    BY <1>13, <2>1, GoMoves, EndMoves DEF Remember
  <2> QED
    BY <1>13, <2>1, <2>2 DEF Remember, StepTyped, TypeOK
<1>14. CASE Finish(t)
  <2>1. Live(t)
    BY <1>14 DEF Finish, Runs, Live
  <2> QED
    BY <1>14, <2>1, EndMoves DEF Finish, StepTyped, TypeOK
<1>15. CASE Unwind(t)
  BY <1>15, RaiseTyped DEF Unwind, StepTyped
<1>16. CASE Fail(t)
  <2>1. Live(t)
    BY <1>16 DEF Fail, CallPoints, SendPoints, Live
  <2> QED
    BY <1>16, <2>1, RaiseTyped DEF Fail, StepTyped
<1>17. CASE Spare(t)
  <2> DEFINE r == [turn[t] EXCEPT !.doomed = FALSE, !.spared = TRUE]
  <2>1. r \in TurnState /\ r.owner = turn[t].owner /\ r.held <= r.said
    BY TurnTyped DEF TurnState
  <2>2. turn' = [turn EXCEPT ![t] = r] /\ Live(t) /\ UNCHANGED <<OfTurn, last, history>>
    BY <1>17 DEF Spare, Live
  <2> HIDE DEF r
  <2>3. Moved(t)
    BY <2>1, <2>2 DEF Moved
  <2> QED
    BY <2>2, <2>3 DEF StepTyped, TypeOK
<1> QED
  BY <1>1, <1>2, <1>3, <1>4, <1>5, <1>6, <1>7, <1>8, <1>9, <1>10, <1>11, <1>12,
     <1>13, <1>14, <1>15, <1>16, <1>17 DEF Step

-----------------------------------------------------------------------------
(* One turn per connection                                                 *)

\* A turn that lives is the current turn of a connection whose handler still runs:
\* the strengthening that makes both promises below inductive.
Owned ==
    \A t \in Turns :
        Live(t) => /\ turn[t].owner \in Conns
                   /\ current[turn[t].owner] = t
                   /\ rx[turn[t].owner] \notin {"off", "done"}

IInv == TypeOK /\ Held /\ Owned

LEMMA InitSound == Init => IInv
<1> SUFFICES ASSUME Init PROVE IInv
  OBVIOUS
<1>1. Unborn \in TurnState /\ NoFrame \in Frame
  BY BoundsAssumption DEF Unborn, NoFrame, TurnState, Frame, FrameKinds, PCs
<1>2. TypeOK
  BY <1>1, BoundsAssumption DEF Init, TypeOK
<1>3. Held /\ Owned
  BY DEF Init, Unborn, Held, Owned, Live
<1> QED
  BY <1>2, <1>3 DEF IInv

\* A step of a turn leaves every other turn, and its own owner, alone.
LEMMA StepSound ==
  ASSUME IInv, NEW t \in Turns, Step(t)
  PROVE  IInv'
<1>1. StepTyped(t)
  BY StepIsTyped DEF IInv
<1>2. PICK r \in TurnState : /\ r.owner = turn[t].owner /\ r.held <= r.said
                             /\ turn' = [turn EXCEPT ![t] = r]
  BY <1>1 DEF StepTyped, Moved
<1>3. \A u \in Turns : turn'[u] = IF u = t THEN r ELSE turn[u]
  BY <1>2 DEF IInv, TypeOK
<1>4. TypeOK'
  BY <1>1, <1>2 DEF IInv, StepTyped, OfTurn, TypeOK
<1>5. Held'
  BY <1>2, <1>3 DEF IInv, Held
<1>6. Owned'
  <2> SUFFICES ASSUME NEW u \in Turns, Live(u)'
               PROVE  /\ turn[u].owner \in Conns /\ turn'[u].owner = turn[u].owner
                      /\ current[turn[u].owner] = u
                      /\ rx[turn[u].owner] \notin {"off", "done"}
    BY <1>1 DEF Owned, StepTyped, OfTurn
  <2>1. Live(u) /\ turn'[u].owner = turn[u].owner
    BY <1>1, <1>2, <1>3 DEF StepTyped, Live
  <2> QED
    BY <2>1 DEF IInv, Owned
<1> QED
  BY <1>4, <1>5, <1>6 DEF IInv

\* Cancelling marks a turn and changes nothing else.
LEMMA CancelMarks ==
  ASSUME IInv, NEW c \in Conns, Cancel(c)
  PROVE  /\ turn' \in [Turns -> TurnState] /\ Held'
         /\ \A t \in Turns : turn'[t].pc = turn[t].pc /\ turn'[t].owner = turn[t].owner
<1>1. CASE turn' = turn
  BY <1>1 DEF IInv, TypeOK, Held
<1>2. CASE turn' # turn
  <2> DEFINE t == current[c]
             r == [turn[t] EXCEPT !.doomed = TRUE]
  <2>1. t \in Turns /\ turn' = [turn EXCEPT ![t] = r]
    BY <1>2 DEF Cancel, Idle, IInv, TypeOK
  <2>2. /\ r \in TurnState /\ r.pc = turn[t].pc /\ r.owner = turn[t].owner
        /\ r.held = turn[t].held /\ r.said = turn[t].said
    BY <2>1, TurnTyped DEF IInv, TurnState
  <2> HIDE DEF t, r
  <2>3. \A u \in Turns : turn'[u] = IF u = t THEN r ELSE turn[u]
    BY <2>1 DEF IInv, TypeOK
  <2>4. turn' \in [Turns -> TurnState]
    BY <2>1, <2>2 DEF IInv, TypeOK
  <2>5. Held'
    BY <2>1, <2>2, <2>3 DEF IInv, Held
  <2> QED
    BY <2>2, <2>3, <2>4, <2>5
<1> QED
  BY <1>1, <1>2

\* Nothing a connection owns is alive when its loop finds it idle.
LEMMA IdleOwnsNothing ==
  ASSUME IInv, NEW c \in Conns, Idle(c), NEW t \in Turns, Live(t)
  PROVE  turn[t].owner # c
<1> SUFFICES ASSUME turn[t].owner = c PROVE FALSE
  OBVIOUS
<1>1. current[c] = t
  BY DEF IInv, Owned
<1>2. t # NoTurn
  BY BoundsAssumption DEF Turns, NoTurn
<1> QED
  BY <1>1, <1>2 DEF Idle

\* The new task belongs to a connection that owned nothing alive.
LEMMA BeginSound ==
  ASSUME IInv, NEW c \in Conns, Idle(c), RoomForTurn, Begin(c),
         rx[c] \notin {"off", "done"}, rx' \in {rx, [rx EXCEPT ![c] = "receive"]},
         UNCHANGED <<sock, last, history>>
  PROVE  IInv'
<1> DEFINE n == turns + 1
           r == [Unborn EXCEPT !.pc = "new", !.owner = c]
<1>1. n \in Turns /\ turns' = n /\ n \in 0 .. MaxTurns
  BY BoundsAssumption DEF IInv, TypeOK, RoomForTurn, Begin, Turns
<1>2. r \in TurnState /\ r.owner = c /\ r.held = 0 /\ r.said = 0
  <2>1. Unborn \in TurnState /\ Unborn.held = 0 /\ Unborn.said = 0
    BY BoundsAssumption DEF Unborn, TurnState, PCs
  <2>2. ASSUME NEW s \in TurnState, NEW e \in TurnState,
               e = [s EXCEPT !.pc = "new", !.owner = c]
        PROVE  e.owner = c /\ e.held = s.held /\ e.said = s.said
    BY <2>2 DEF TurnState
  <2>3. \A s \in TurnState : [s EXCEPT !.pc = "new", !.owner = c] \in TurnState
    BY DEF TurnState, PCs
  <2> QED
    BY <2>1, <2>2, <2>3
<1>3. turn' = [turn EXCEPT ![n] = r] /\ current' = [current EXCEPT ![c] = n]
  BY DEF Begin
<1> HIDE DEF n, r
<1>4. /\ \A u \in Turns : turn'[u] = IF u = n THEN r ELSE turn[u]
      /\ \A d \in Conns : current'[d] = IF d = c THEN n ELSE current[d]
      /\ \A d \in Conns : rx'[d] = rx[d] \/ rx'[d] = "receive"
  BY <1>1, <1>3 DEF IInv, TypeOK
<1>5. TypeOK'
  BY <1>1, <1>2, <1>3 DEF IInv, TypeOK
<1>6. Held'
  BY <1>2, <1>4 DEF IInv, Held
<1>7. Owned'
  <2> SUFFICES ASSUME NEW u \in Turns, Live(u)'
               PROVE  /\ turn'[u].owner \in Conns
                      /\ current'[turn'[u].owner] = u
                      /\ rx'[turn'[u].owner] \notin {"off", "done"}
    BY DEF Owned
  <2>1. CASE u = n
    BY <1>1, <1>2, <1>4, <2>1
  <2>2. CASE u # n
    <3>1. turn'[u] = turn[u] /\ Live(u)
      BY <1>4, <2>2 DEF Live
    <3>2. turn[u].owner # c
      BY <3>1, IdleOwnsNothing
    <3> QED
      BY <1>4, <3>1, <3>2 DEF IInv, Owned
  <2> QED
    BY <2>1, <2>2
<1> QED
  BY <1>5, <1>6, <1>7 DEF IInv

LEMMA LoopSound ==
  ASSUME IInv, NEW c \in Conns, Loop(c)
  PROVE  IInv'
<1>1. CASE Open(c)
  BY <1>1 DEF Open, IInv, TypeOK, Held, Owned, Live
<1>2. CASE Lose(c)
  BY <1>2 DEF Lose, IInv, TypeOK, Held, Owned, Live
<1>3. CASE Utter(c)
  BY <1>3, BeginSound DEF Utter, Receiving
<1>4. CASE BargeIn(c)
  <2>1. rx' \in [Conns -> {"off", "receive", "barge", "stop", "closing", "done"}]
        /\ \A d \in Conns : rx'[d] = rx[d] \/ rx'[d] = "barge"
    BY <1>4 DEF BargeIn, IInv, TypeOK
  <2> QED
    BY <1>4, <2>1, CancelMarks DEF BargeIn, IInv, TypeOK, Owned, Live
<1>5. CASE StartTurn(c)
  BY <1>5, BeginSound DEF StartTurn
<1>6. CASE Interrupt(c)
  <2>1. rx' \in [Conns -> {"off", "receive", "barge", "stop", "closing", "done"}]
        /\ \A d \in Conns : rx'[d] = rx[d] \/ rx'[d] = "stop"
    BY <1>6 DEF Interrupt, IInv, TypeOK
  <2> QED
    BY <1>6, <2>1, CancelMarks DEF Interrupt, IInv, TypeOK, Owned, Live
<1>7. CASE Interrupted(c)
  <2>1. /\ Idle(c) /\ current' = [current EXCEPT ![c] = NoTurn]
        /\ rx' = [rx EXCEPT ![c] = "receive"]
        /\ UNCHANGED <<sock, last, turns, turn, history>>
    BY <1>7 DEF Interrupted
  <2>2. TypeOK' /\ Held'
    BY <2>1 DEF IInv, TypeOK, Held
  <2>3. Owned'
    BY <2>1, IdleOwnsNothing DEF IInv, TypeOK, Owned, Live
  <2> QED
    BY <2>2, <2>3 DEF IInv
<1>8. CASE Disconnect(c)
  <2>1. rx' \in [Conns -> {"off", "receive", "barge", "stop", "closing", "done"}]
        /\ \A d \in Conns : rx'[d] = rx[d] \/ rx'[d] = "closing"
    BY <1>8 DEF Disconnect, IInv, TypeOK
  <2> QED
    BY <1>8, <2>1, CancelMarks DEF Disconnect, IInv, TypeOK, Owned, Live
<1>9. CASE Detach(c)
  <2>1. /\ Idle(c) /\ current' = [current EXCEPT ![c] = NoTurn]
        /\ rx' = [rx EXCEPT ![c] = "done"]
        /\ UNCHANGED <<sock, last, turns, turn, history>>
    BY <1>9 DEF Detach
  <2>2. TypeOK' /\ Held'
    BY <2>1 DEF IInv, TypeOK, Held
  <2>3. Owned'
    BY <2>1, IdleOwnsNothing DEF IInv, TypeOK, Owned, Live
  <2> QED
    BY <2>2, <2>3 DEF IInv
<1> QED
  BY <1>1, <1>2, <1>3, <1>4, <1>5, <1>6, <1>7, <1>8, <1>9 DEF Loop

\* The invariant, of every behaviour.
THEOREM Soundness == Spec => []IInv
<1>1. IInv /\ [Next]_vars => IInv'
  <2> SUFFICES ASSUME IInv, [Next]_vars PROVE IInv'
    OBVIOUS
  <2>1. CASE UNCHANGED vars
    BY <2>1 DEF vars, IInv, TypeOK, Held, Owned, Live
  <2>2. ASSUME NEW c \in Conns, Loop(c) PROVE IInv'
    BY <2>2, LoopSound
  <2>3. ASSUME NEW t \in Turns, Step(t) PROVE IInv'
    BY <2>3, StepSound
  <2> QED
    BY <2>1, <2>2, <2>3 DEF Next
<1> QED
  BY InitSound, <1>1, PTL DEF Spec

\* The state of the sockets, loops and turns is well typed; in particular no turn
\* voices, holds or captures more than the model streamed.
THEOREM TypeCorrect == Spec => []TypeOK
<1>1. IInv => TypeOK
  BY DEF IInv
<1> QED
  BY <1>1, Soundness, PTL

\* start_turn never leaves two turns to write on one socket, however barge-ins,
\* interrupts, failures and lost sockets are interleaved.
THEOREM OneTurnAtATime == Spec => []OneTurnPerSocket
<1>1. IInv => OneTurnPerSocket
  BY DEF IInv, Owned, OneTurnPerSocket
<1> QED
  BY <1>1, Soundness, PTL

\* When a handler has returned, no turn of its connection is still running.
THEOREM TurnsDieWithTheirHandler == Spec => []NoTurnOutlivesItsHandler
<1>1. IInv => NoTurnOutlivesItsHandler
  BY DEF IInv, Owned, NoTurnOutlivesItsHandler
<1> QED
  BY <1>1, Soundness, PTL

-----------------------------------------------------------------------------
(* What a turn has said, voiced and recorded at each await                 *)

Early == {"unborn", "new", "stt", "echo", "think"}
Speaking == {"stream", "synth", "chunk"}
Over == {"complete", "remember", "sorry", "done"}

\* The bookkeeping of one task; `open` says whether its client can hear it.
Sound(s, open) ==
    /\ s.pc \in Early \cup {"recall"} => /\ s.said = 0 /\ s.held = 0 /\ s.voiced = 0
                                         /\ ~s.ended
    /\ s.pc \in Early => ~s.asked
    /\ s.pc \notin {"save", "unthink", "sorry"} => s.fault = "none"
    /\ s.pc = "sorry" => s.fault # "cancel"
    /\ s.asked => ~s.silent
    /\ s.pc = "recall" \/ (s.pc \in Speaking /\ ~s.silent) => s.asked
    /\ s.pc = "stream" /\ s.ended => s.held = 0
    /\ open => /\ s.pc \in Speaking => s.voiced + s.held = s.said
               /\ s.pc \in {"save", "unthink", "complete"} /\ s.fault = "none"
                     => s.voiced = s.said

Hears(t) == turn[t].owner \in Conns /\ sock[turn[t].owner] = "open"

\* A frame that fits the turn it comes from, which goes on as r.
Fits(t, r, kind, piece) ==
    /\ kind \in {"memory", "delta", "chunk", "bytes"} => r.pc \in Speaking
    /\ kind = "complete" => r.pc = "complete" /\ r.voiced = r.said
    /\ kind = "bytes" => turn[t].pc = "chunk" /\ piece = turn[t].said
    /\ r.pc = "chunk" => kind = "chunk" /\ piece = r.said
    /\ turn[t].doomed \/ turn[t].fault = "cancel" => kind = "unthink"

\* What the client of t gets to see of a step.
Shown(t, r) ==
    \/ /\ UNCHANGED last
       /\ Hears(t) => /\ r.pc # "chunk"
                      /\ turn[t].pc \in Speaking \cup {"save"} => r.pc \in Speaking \cup {"save"}
    \/ /\ Hears(t)
       /\ \E kind \in FrameKinds, piece \in 0 .. MaxPieces :
            /\ last' = [last EXCEPT ![turn[t].owner] =
                          [kind |-> kind, turn |-> t, piece |-> piece]]
            /\ Fits(t, r, kind, piece)

Owes(s) == s.asked /\ s.pc \in {"recall"} \cup Speaking

\* ... and what the conversation gets of it.
Recorded(t, r) ==
    \/ /\ turn[t].pc = "think" /\ r.pc = "recall" /\ r.asked /\ r.said = 0
       /\ AddUser(t)
    \/ /\ Owes(turn[t]) /\ ~Owes(r) /\ r.asked
       /\ r.pc \notin Speaking /\ r.said = turn[t].said
       /\ IF turn[t].pc = "recall" THEN UNCHANGED history ELSE AddReply(t)
    \/ /\ r.asked = turn[t].asked /\ (Owes(r) <=> Owes(turn[t]))
       /\ r.pc \notin Speaking /\ r.said > 0 /\ ~r.silent
             => turn[t].pc \notin Speaking /\ r.said = turn[t].said /\ ~turn[t].silent
       /\ UNCHANGED history

Goes(t, r) ==
    /\ r \in TurnState /\ turn' = [turn EXCEPT ![t] = r] /\ r.owner = turn[t].owner
    /\ Sound(r, Hears(t))
    /\ turn[t].pc \in Over => /\ r.pc \in Over
                              /\ r.voiced = turn[t].voiced /\ r.said = turn[t].said
    /\ Shown(t, r)
    /\ Recorded(t, r)

\* What a write comes to: the client sees the frame, or nothing if it cannot hear.
LEMMA WriteShows ==
  ASSUME TypeOK, NEW t \in Turns, turn[t].owner \in Conns,
         NEW kind \in FrameKinds, NEW piece \in 0 .. MaxPieces,
         NEW r, Write(t, kind, piece), Hears(t) => Fits(t, r, kind, piece)
  PROVE  Shown(t, r)
<1>1. CASE Hears(t)
  BY <1>1 DEF Write, Hears, Shown
<1>2. CASE ~Hears(t)
  BY <1>2 DEF Write, Hears, Shown
<1> QED
  BY <1>1, <1>2

LEMMA Ranges ==
  /\ 0 \in 0 .. MaxPieces
  /\ FrameKinds = {"none", "transcript", "thinking", "memory", "delta", "chunk",
                   "bytes", "unthink", "complete", "error"}
  /\ \A s \in TurnState : /\ s.said \in 0 .. MaxPieces /\ s.held \in 0 .. MaxPieces
                          /\ s.voiced \in 0 .. MaxPieces
                          /\ s.said \in Nat /\ s.held \in Nat /\ s.voiced \in Nat
  BY BoundsAssumption DEF FrameKinds, TurnState

\* The last step of a task.
LEMMA EndGoes ==
  ASSUME TypeOK, NEW t \in Turns, turn[t].owner \in Conns, Sound(turn[t], Hears(t)),
         End(t), UNCHANGED <<last, history>>,
         turn[t].pc \in (Early \ {"unborn"}) \cup {"unthink"} \cup Over
  PROVE  \E r : Goes(t, r)
<1>0. turn[t] \in TurnState
  BY DEF TypeOK
<1> DEFINE r == [turn[t] EXCEPT !.pc = "done", !.doomed = FALSE, !.fault = "none",
                                !.held = 0, !.ended = FALSE]
<1>1. turn' = [turn EXCEPT ![t] = r]
  BY DEF End
<1>2. /\ r \in TurnState /\ r.owner = turn[t].owner /\ r.pc = "done" /\ r.fault = "none"
      /\ r.said = turn[t].said /\ r.voiced = turn[t].voiced /\ r.asked = turn[t].asked
      /\ r.silent = turn[t].silent
  BY <1>0, Ranges DEF TurnState, PCs
<1> HIDE DEF r
<1>3. Sound(r, Hears(t))
  BY <1>2 DEF Sound, Early, Speaking
<1>4. Shown(t, r)
  BY <1>2 DEF Shown, Speaking, Early, Over
<1>5. Recorded(t, r)
  BY <1>2 DEF Recorded, Owes, Speaking, Early, Over, Sound
<1> QED
  BY <1>1, <1>2, <1>3, <1>4, <1>5 DEF Goes, Over

\* An exception that is not caught before _guarded_turn.
LEMMA LeaveTurnGoes ==
  ASSUME TypeOK, NEW t \in Turns, turn[t].owner \in Conns, Sound(turn[t], Hears(t)),
         NEW fault \in {"cancel", "error"}, LeaveTurn(t, fault), UNCHANGED history,
         turn[t].pc \in (Early \ {"unborn"}) \cup {"unthink"} \cup Over,
         turn[t].pc = "unthink" /\ turn[t].fault = "cancel" => fault = "cancel",
         turn[t].doomed => fault = "cancel"
  PROVE  \E r : Goes(t, r)
<1>0. turn[t] \in TurnState
  BY DEF TypeOK
<1>1. CASE fault = "cancel"
  BY <1>1, EndGoes DEF LeaveTurn
<1>2. CASE fault = "error"
  <2> DEFINE r == [turn[t] EXCEPT !.pc = "sorry", !.fault = fault]
  <2>1. turn' = [turn EXCEPT ![t] = r] /\ Write(t, "error", 0)
    BY <1>2 DEF LeaveTurn
  <2>2. /\ r \in TurnState /\ r.owner = turn[t].owner /\ r.pc = "sorry" /\ r.fault = "error"
        /\ r.said = turn[t].said /\ r.voiced = turn[t].voiced /\ r.asked = turn[t].asked
        /\ r.silent = turn[t].silent
    BY <1>0, <1>2 DEF TurnState, PCs
  <2> HIDE DEF r
  <2>3. Sound(r, Hears(t))
    BY <2>2 DEF Sound, Early, Speaking
  <2>4. Fits(t, r, "error", 0)
    BY <1>2, <2>2 DEF Fits, Sound, Early, Over
  <2>5. Shown(t, r)
    BY <2>1, <2>4, WriteShows, Ranges
  <2>6. Recorded(t, r)
    BY <2>2 DEF Recorded, Owes, Speaking, Early, Over, Sound
  <2> QED
    BY <2>1, <2>2, <2>3, <2>5, <2>6 DEF Goes, Over
<1> QED
  BY <1>1, <1>2

\* Out of _think_and_speak: a reply is recorded, or thinking(False) is sent at once.
LEMMA LeaveSpeakingGoes ==
  ASSUME TypeOK, NEW t \in Turns, turn[t].owner \in Conns, Sound(turn[t], Hears(t)),
         NEW fault \in {"none", "cancel", "error"}, LeaveSpeaking(t, fault),
         turn[t].pc \in Speaking,
         fault = "none" => turn[t].pc = "stream" /\ turn[t].ended
  PROVE  \E r : Goes(t, r)
<1>0. turn[t] \in TurnState
  BY DEF TypeOK
<1>1. CASE turn[t].silent
  <2> DEFINE r == [turn[t] EXCEPT !.pc = "unthink", !.doomed = FALSE, !.fault = fault]
  <2>1. turn' = [turn EXCEPT ![t] = r] /\ Write(t, "unthink", 0) /\ UNCHANGED history
    BY <1>1 DEF LeaveSpeaking
  <2>2. /\ r \in TurnState /\ r.owner = turn[t].owner /\ r.pc = "unthink" /\ r.fault = fault
        /\ r.said = turn[t].said /\ r.voiced = turn[t].voiced /\ r.asked = turn[t].asked
        /\ r.silent = turn[t].silent
    BY <1>0 DEF TurnState, PCs
  <2> HIDE DEF r
  <2>3. Sound(r, Hears(t))
    BY <1>0, <2>2, Ranges DEF Sound, Early, Speaking
  <2>4. Shown(t, r)
    BY <2>1, <2>2, WriteShows, Ranges DEF Fits
  <2>5. Recorded(t, r)
    BY <1>1, <2>1, <2>2 DEF Recorded, Owes, Sound, Speaking
  <2> QED
    BY <2>1, <2>2, <2>3, <2>4, <2>5 DEF Goes, Over, Speaking
<1>2. CASE ~turn[t].silent
  <2> DEFINE r == [turn[t] EXCEPT !.pc = "save", !.doomed = FALSE, !.fault = fault]
  <2>1. turn' = [turn EXCEPT ![t] = r] /\ AddReply(t) /\ UNCHANGED last
    BY <1>2 DEF LeaveSpeaking
  <2>2. /\ r \in TurnState /\ r.owner = turn[t].owner /\ r.pc = "save" /\ r.fault = fault
        /\ r.said = turn[t].said /\ r.voiced = turn[t].voiced /\ r.asked = turn[t].asked
        /\ r.silent = turn[t].silent
    BY <1>0 DEF TurnState, PCs
  <2> HIDE DEF r
  <2>3. Sound(r, Hears(t))
    BY <1>0, <2>2, Ranges DEF Sound, Early, Speaking
  <2>4. Shown(t, r)
    BY <2>1, <2>2 DEF Shown
  <2>5. Recorded(t, r)
    BY <1>2, <2>1, <2>2 DEF Recorded, Owes, Sound, Speaking
  <2> QED
    BY <2>1, <2>2, <2>3, <2>4, <2>5 DEF Goes, Over, Speaking
<1> QED
  BY <1>1, <1>2

LEMMA RaiseGoes ==
  ASSUME TypeOK, NEW t \in Turns, turn[t].owner \in Conns, Sound(turn[t], Hears(t)), Live(t),
         NEW fault \in {"cancel", "error"}, Raise(t, fault),
         turn[t].doomed => fault = "cancel",
         fault = "error" /\ turn[t].pc = "unthink" => ~Hears(t),
         fault = "error" => turn[t].pc # "save"
  PROVE  \E r : Goes(t, r)
<1>0. turn[t] \in TurnState
  BY DEF TypeOK
<1>1. CASE turn[t].pc \in Speaking
  BY <1>1, LeaveSpeakingGoes DEF Raise, Speaking
<1>2. CASE turn[t].pc \in {"recall", "save"}
  <2> DEFINE r == [turn[t] EXCEPT !.pc = "unthink", !.doomed = FALSE, !.fault = fault]
  <2>1. turn' = [turn EXCEPT ![t] = r] /\ Write(t, "unthink", 0) /\ UNCHANGED history
    BY <1>2 DEF Raise
  <2>2. /\ r \in TurnState /\ r.owner = turn[t].owner /\ r.pc = "unthink" /\ r.fault = fault
        /\ r.said = turn[t].said /\ r.voiced = turn[t].voiced /\ r.asked = turn[t].asked
        /\ r.silent = turn[t].silent
    BY <1>0 DEF TurnState, PCs
  <2> HIDE DEF r
  <2>3. Sound(r, Hears(t))
    BY <2>2 DEF Sound, Early, Speaking
  <2>4. Shown(t, r)
    BY <2>1, <2>2, WriteShows, Ranges DEF Fits
  <2>5. Recorded(t, r)
    BY <1>2, <2>1, <2>2 DEF Recorded, Owes, Sound, Speaking
  <2> QED
    BY <1>2, <2>1, <2>2, <2>3, <2>4, <2>5 DEF Goes, Over
<1>3. CASE turn[t].pc \notin Speaking \cup {"recall", "save"}
  <2>1. LeaveTurn(t, fault) /\ UNCHANGED history
    BY <1>3 DEF Raise, Speaking
  <2>2. turn[t].pc \in (Early \ {"unborn"}) \cup {"unthink"} \cup Over
    BY <1>0, <1>3 DEF Live, TurnState, PCs, Early, Over, Speaking
  <2>3. CASE ~(fault = "error" /\ turn[t].pc = "unthink" /\ turn[t].fault = "cancel")
    BY <2>1, <2>2, <2>3, LeaveTurnGoes
  <2>4. CASE fault = "error" /\ turn[t].pc = "unthink"
    <3> DEFINE r == [turn[t] EXCEPT !.pc = "sorry", !.fault = fault]
    <3>1. turn' = [turn EXCEPT ![t] = r] /\ Write(t, "error", 0)
      BY <2>1, <2>4 DEF LeaveTurn
    <3>2. /\ r \in TurnState /\ r.owner = turn[t].owner /\ r.pc = "sorry" /\ r.fault = "error"
          /\ r.said = turn[t].said /\ r.voiced = turn[t].voiced /\ r.asked = turn[t].asked
          /\ r.silent = turn[t].silent
      BY <1>0, <2>4 DEF TurnState, PCs
    <3> HIDE DEF r
    <3>3. Sound(r, Hears(t))
      BY <3>2 DEF Sound, Early, Speaking
    <3>4. Shown(t, r)
      BY <2>4, <3>1, WriteShows, Ranges
    <3>5. Recorded(t, r)
      BY <2>1, <2>4, <3>2 DEF Recorded, Owes, Speaking
    <3> QED
      BY <2>4, <3>1, <3>2, <3>3, <3>4, <3>5 DEF Goes, Over
  <2> QED
    BY <2>3, <2>4
<1> QED
  BY <1>1, <1>2, <1>3

\* Every step of a turn goes on as the bookkeeping has it.
LEMMA StepGoes ==
  ASSUME TypeOK, Held, NEW t \in Turns, turn[t].owner \in Conns,
         Sound(turn[t], Hears(t)), Step(t)
  PROVE  \E r : Goes(t, r)
<1>0. turn[t] \in TurnState
  BY DEF TypeOK
<1>1. CASE Start(t)
  <2> DEFINE To(at) == [turn[t] EXCEPT !.pc = at]
  <2>1. turn[t].pc = "new" /\ ~turn[t].doomed /\ UNCHANGED history
    BY <1>1 DEF Start, Runs
  <2>2. \/ turn' = [turn EXCEPT ![t] = To("stt")] /\ UNCHANGED last
        \/ turn' = [turn EXCEPT ![t] = To("echo")] /\ Write(t, "transcript", 0)
    BY <1>1 DEF Start, Go
  <2>3. ASSUME NEW at \in {"stt", "echo"} PROVE
        /\ To(at) \in TurnState /\ To(at).owner = turn[t].owner /\ To(at).pc = at
        /\ Sound(To(at), Hears(t)) /\ Recorded(t, To(at))
        /\ turn[t].pc \notin Over
        /\ Hears(t) => Fits(t, To(at), "transcript", 0)
    BY <1>0, <2>1 DEF TurnState, PCs, Sound, Recorded, Owes, Fits, Early, Speaking, Over
  <2>4. CASE turn' = [turn EXCEPT ![t] = To("stt")] /\ UNCHANGED last
    <3>1. Shown(t, To("stt"))
      BY <2>1, <2>4 DEF Shown, Speaking
    <3> QED
      BY <2>3, <2>4, <3>1 DEF Goes
  <2>5. CASE turn' = [turn EXCEPT ![t] = To("echo")] /\ Write(t, "transcript", 0)
    <3>1. Shown(t, To("echo"))
      BY <2>3, <2>5, WriteShows, Ranges
    <3> QED
      BY <2>3, <2>5, <3>1 DEF Goes
  <2> QED
    BY <2>2, <2>4, <2>5
<1>2. CASE Transcribe(t)
  <2>0. PICK nothing \in BOOLEAN :
          turn' = [turn EXCEPT ![t].pc = "echo", ![t].silent = nothing]
    BY <1>2 DEF Transcribe
  <2> DEFINE r == [turn[t] EXCEPT !.pc = "echo", !.silent = nothing]
  <2>1. /\ turn[t].pc = "stt" /\ ~turn[t].doomed /\ UNCHANGED history
        /\ Write(t, "transcript", 0) /\ turn' = [turn EXCEPT ![t] = r]
    BY <1>2, <2>0 DEF Transcribe, Runs
  <2>2. r \in TurnState /\ r.owner = turn[t].owner /\ r.pc = "echo"
    BY <1>0 DEF TurnState, PCs
  <2>3. Sound(r, Hears(t)) /\ Recorded(t, r) /\ Fits(t, r, "transcript", 0)
    BY <1>0, <2>1 DEF TurnState, Sound, Recorded, Owes, Fits, Early, Speaking
  <2>4. Shown(t, r)
    BY <2>1, <2>3, WriteShows, Ranges
  <2> QED
    BY <2>1, <2>2, <2>3, <2>4 DEF Goes, Over
<1>3. CASE Think(t)
  <2> DEFINE r == [turn[t] EXCEPT !.pc = "think"]
  <2>1. /\ turn[t].pc = "echo" /\ ~turn[t].doomed /\ UNCHANGED history
        /\ Write(t, "thinking", 0) /\ turn' = [turn EXCEPT ![t] = r]
    BY <1>3 DEF Think, Runs, Go
  <2>2. r \in TurnState /\ r.owner = turn[t].owner /\ r.pc = "think"
    BY <1>0 DEF TurnState, PCs
  <2>3. Sound(r, Hears(t)) /\ Recorded(t, r) /\ Fits(t, r, "thinking", 0)
    BY <1>0, <2>1 DEF TurnState, Sound, Recorded, Owes, Fits, Early, Speaking
  <2>4. Shown(t, r)
    BY <2>1, <2>3, WriteShows, Ranges
  <2> QED
    BY <2>1, <2>2, <2>3, <2>4 DEF Goes, Over
<1>4. CASE Respond(t)
  <2>1. turn[t].pc = "think" /\ ~turn[t].doomed /\ UNCHANGED last
    BY <1>4 DEF Respond, Runs
  <2>2. CASE turn[t].silent
    <3> DEFINE r == [turn[t] EXCEPT !.pc = "stream"]
    <3>1. turn' = [turn EXCEPT ![t] = r] /\ UNCHANGED history
      BY <1>4, <2>2 DEF Respond, Go
    <3>2. /\ r \in TurnState /\ r.owner = turn[t].owner /\ r.pc = "stream"
          /\ Sound(r, Hears(t)) /\ Recorded(t, r) /\ Shown(t, r)
      BY <1>0, <2>1, <2>2, <3>1 DEF TurnState, PCs, Sound, Recorded, Owes, Shown, Early, Speaking
    <3> QED
      BY <2>1, <3>1, <3>2 DEF Goes, Over
  <2>3. CASE ~turn[t].silent
    <3> DEFINE r == [turn[t] EXCEPT !.pc = "recall", !.asked = TRUE]
    <3>1. turn' = [turn EXCEPT ![t] = r] /\ AddUser(t)
      BY <1>4, <2>3 DEF Respond
    <3>2. r \in TurnState /\ r.owner = turn[t].owner /\ r.pc = "recall" /\ r.asked /\ r.said = 0
      BY <1>0, <2>1 DEF TurnState, PCs, Sound, Early
    <3>3. Sound(r, Hears(t))
      BY <1>0, <2>1, <2>3 DEF TurnState, Sound, Early, Speaking
    <3>4. Recorded(t, r) /\ Shown(t, r)
      BY <2>1, <3>1, <3>2 DEF Recorded, Shown, Speaking
    <3> QED
      BY <2>1, <3>1, <3>2, <3>3, <3>4 DEF Goes, Over
  <2> QED
    BY <2>2, <2>3
<1>5. CASE Recall(t)
  <2> DEFINE r == [turn[t] EXCEPT !.pc = "stream"]
  <2>1. /\ turn[t].pc = "recall" /\ ~turn[t].doomed /\ UNCHANGED history
        /\ Write(t, "memory", 0) \/ UNCHANGED last
        /\ turn' = [turn EXCEPT ![t] = r]
    BY <1>5 DEF Recall, Runs, Go
  <2>2. r \in TurnState /\ r.owner = turn[t].owner /\ r.pc = "stream"
    BY <1>0 DEF TurnState, PCs
  <2>3. Sound(r, Hears(t)) /\ Recorded(t, r) /\ Fits(t, r, "memory", 0)
    BY <1>0, <2>1 DEF TurnState, Sound, Recorded, Owes, Fits, Early, Speaking
  <2>4. CASE UNCHANGED last
    <3>1. Shown(t, r)
      BY <2>1, <2>2, <2>4 DEF Shown, Speaking
    <3> QED
      BY <2>1, <2>2, <2>3, <3>1 DEF Goes, Over
  <2>5. CASE Write(t, "memory", 0)
    <3>1. Shown(t, r)
      BY <2>3, <2>5, WriteShows, Ranges
    <3> QED
      BY <2>1, <2>2, <2>3, <3>1 DEF Goes, Over
  <2> QED
    BY <2>1, <2>4, <2>5
<1>6. CASE Token(t)
  <2>0. PICK at \in {"stream", "synth"} :
          turn' = [turn EXCEPT ![t].pc = at, ![t].said = @ + 1, ![t].held = @ + 1]
    BY <1>6 DEF Token
  <2> DEFINE r == [turn[t] EXCEPT !.pc = at, !.said = @ + 1, !.held = @ + 1]
  <2>1. /\ turn[t].pc = "stream" /\ ~turn[t].doomed /\ UNCHANGED history
        /\ Write(t, "delta", turn[t].said + 1) /\ turn' = [turn EXCEPT ![t] = r]
        /\ ~turn[t].ended /\ turn[t].said < MaxPieces
    BY <1>6, <2>0 DEF Token, Runs
  <2>2. turn[t].said + 1 \in 0 .. MaxPieces
    BY <1>0, <2>1, Ranges, BoundsAssumption
  <2>3. turn[t].held + 1 \in 0 .. MaxPieces
    BY <1>0, <2>1, TurnTyped, Ranges, BoundsAssumption
  <2>4. /\ r \in TurnState /\ r.owner = turn[t].owner /\ r.pc \in {"stream", "synth"}
        /\ r.said = turn[t].said + 1 /\ r.held = turn[t].held + 1
        /\ r.voiced = turn[t].voiced /\ r.asked = turn[t].asked /\ r.silent = turn[t].silent
        /\ r.fault = turn[t].fault /\ r.ended = turn[t].ended
    BY <1>0, <2>2, <2>3 DEF TurnState, PCs
  <2> HIDE DEF r
  <2>5. Sound(r, Hears(t))
    BY <1>0, <2>1, <2>4, Ranges DEF Sound, Early, Speaking
  <2>6. Fits(t, r, "delta", turn[t].said + 1)
    BY <2>1, <2>4 DEF Sound, Fits, Speaking
  <2>7. Shown(t, r)
    BY <2>1, <2>2, <2>6, WriteShows, Ranges
  <2>8. Recorded(t, r)
    BY <2>1, <2>4 DEF Recorded, Owes, Speaking
  <2> QED
    BY <2>1, <2>4, <2>5, <2>7, <2>8 DEF Goes, Over
<1>7. CASE EndOfStream(t)
  <2> DEFINE r == [turn[t] EXCEPT !.ended = TRUE,
                     !.pc = IF turn[t].held > 0 THEN "synth" ELSE "stream"]
  <2>1. /\ turn[t].pc = "stream" /\ UNCHANGED <<last, history>>
        /\ turn' = [turn EXCEPT ![t] = r]
    BY <1>7 DEF EndOfStream, Runs
  <2>2. /\ r \in TurnState /\ r.owner = turn[t].owner /\ r.pc \in {"stream", "synth"}
        /\ r.pc = "stream" => ~(turn[t].held > 0)
        /\ r.said = turn[t].said /\ r.held = turn[t].held
        /\ r.voiced = turn[t].voiced /\ r.asked = turn[t].asked /\ r.silent = turn[t].silent
        /\ r.fault = turn[t].fault
    BY <1>0 DEF TurnState, PCs
  <2> HIDE DEF r
  <2>3. Sound(r, Hears(t))
    BY <1>0, <2>1, <2>2, Ranges DEF Sound, Early, Speaking
  <2>4. Shown(t, r) /\ Recorded(t, r)
    BY <2>1, <2>2 DEF Shown, Recorded, Owes, Speaking
  <2> QED
    BY <2>1, <2>2, <2>3, <2>4 DEF Goes, Over
<1>8. CASE AudioChunk(t)
  <2> DEFINE r == [turn[t] EXCEPT !.pc = "chunk"]
  <2>1. /\ turn[t].pc = "synth" /\ ~turn[t].doomed /\ UNCHANGED history
        /\ Write(t, "chunk", turn[t].said) /\ turn' = [turn EXCEPT ![t] = r]
    BY <1>8 DEF AudioChunk, Runs, Go
  <2>2. /\ r \in TurnState /\ r.owner = turn[t].owner /\ r.pc = "chunk"
        /\ r.said = turn[t].said
    BY <1>0 DEF TurnState, PCs
  <2>3. Sound(r, Hears(t)) /\ Recorded(t, r) /\ Fits(t, r, "chunk", turn[t].said)
    BY <1>0, <2>1 DEF TurnState, Sound, Recorded, Owes, Fits, Early, Speaking
  <2>4. Shown(t, r)
    BY <1>0, <2>1, <2>3, WriteShows, Ranges
  <2> QED
    BY <2>1, <2>2, <2>3, <2>4 DEF Goes, Over
<1>9. CASE AudioBytes(t)
  <2> DEFINE v == IF sock[turn[t].owner] = "open" THEN turn[t].said ELSE turn[t].voiced
             r == [turn[t] EXCEPT !.pc = "stream", !.held = 0, !.voiced = v]
  <2>0. v \in 0 .. MaxPieces /\ (Hears(t) => v = turn[t].said)
    BY <1>0, Ranges DEF Hears
  <2>1. /\ turn[t].pc = "chunk" /\ ~turn[t].doomed /\ UNCHANGED history
        /\ Write(t, "bytes", turn[t].said) /\ turn' = [turn EXCEPT ![t] = r]
    BY <1>9 DEF AudioBytes, Runs
  <2> HIDE DEF v
  <2>2. /\ r \in TurnState /\ r.owner = turn[t].owner /\ r.pc = "stream"
        /\ r.said = turn[t].said /\ r.held = 0 /\ r.voiced = v
        /\ r.asked = turn[t].asked /\ r.silent = turn[t].silent
        /\ r.fault = turn[t].fault
    BY <1>0, <2>0, Ranges DEF TurnState, PCs
  <2> HIDE DEF r
  <2>3. Sound(r, Hears(t))
    BY <1>0, <2>0, <2>1, <2>2, Ranges DEF Sound, Early, Speaking
  <2>4. Fits(t, r, "bytes", turn[t].said)
    BY <2>1, <2>2 DEF Sound, Fits, Speaking
  <2>5. Shown(t, r)
    BY <1>0, <2>1, <2>4, WriteShows, Ranges
  <2>6. Recorded(t, r)
    BY <2>1, <2>2 DEF Recorded, Owes, Speaking
  <2> QED
    BY <2>1, <2>2, <2>3, <2>5, <2>6 DEF Goes, Over
<1>10. CASE Spoken(t)
  <2>1. turn[t].pc = "stream" /\ turn[t].ended /\ LeaveSpeaking(t, "none")
    BY <1>10 DEF Spoken, Runs
  <2> QED
    BY <2>1, LeaveSpeakingGoes DEF Speaking
<1>11. CASE Unthink(t)
  <2> DEFINE r == [turn[t] EXCEPT !.pc = "unthink"]
  <2>1. /\ turn[t].pc = "save" /\ UNCHANGED history
        /\ Write(t, "unthink", 0) /\ turn' = [turn EXCEPT ![t] = r]
    BY <1>11 DEF Unthink, Runs, Go
  <2>2. r \in TurnState /\ r.owner = turn[t].owner /\ r.pc = "unthink"
    BY <1>0 DEF TurnState, PCs
  <2>3. Sound(r, Hears(t)) /\ Recorded(t, r) /\ Fits(t, r, "unthink", 0)
    BY <1>0, <2>1 DEF TurnState, Sound, Recorded, Owes, Fits, Early, Speaking
  <2>4. Shown(t, r)
    BY <2>1, <2>3, WriteShows, Ranges
  <2> QED
    BY <2>1, <2>2, <2>3, <2>4 DEF Goes, Over
<1>12. CASE Complete(t)
  <2>1. turn[t].pc = "unthink" /\ ~turn[t].doomed /\ UNCHANGED history
    BY <1>12 DEF Complete, Runs
  <2>2. CASE turn[t].fault = "none"
    <3> DEFINE r == [turn[t] EXCEPT !.pc = "complete"]
    <3>1. Write(t, "complete", 0) /\ turn' = [turn EXCEPT ![t] = r]
      BY <1>12, <2>2 DEF Complete, Go
    <3>2. r \in TurnState /\ r.owner = turn[t].owner /\ r.pc = "complete"
      BY <1>0 DEF TurnState, PCs
    <3>3. /\ Sound(r, Hears(t)) /\ Recorded(t, r)
          /\ Hears(t) => Fits(t, r, "complete", 0)
      BY <1>0, <2>1, <2>2 DEF TurnState, Sound, Recorded, Owes, Fits, Early, Speaking
    <3>4. Shown(t, r)
      BY <3>1, <3>3, WriteShows, Ranges
    <3> QED
      BY <2>1, <3>1, <3>2, <3>3, <3>4 DEF Goes, Over
  <2>3. CASE turn[t].fault # "none"
    <3>1. turn[t].fault \in {"cancel", "error"}
      BY <1>0, <2>3 DEF TurnState
    <3>2. LeaveTurn(t, turn[t].fault)
      BY <1>12, <2>3 DEF Complete
    <3> QED
      BY <2>1, <3>1, <3>2, LeaveTurnGoes
  <2> QED
    BY <2>2, <2>3
<1>13. CASE Remember(t)
  <2>1. turn[t].pc = "complete" /\ UNCHANGED <<last, history>>
    BY <1>13 DEF Remember, Runs
  <2>2. CASE ~turn[t].silent /\ turn[t].said > 0
    <3> DEFINE r == [turn[t] EXCEPT !.pc = "remember"]
    <3>1. turn' = [turn EXCEPT ![t] = r]
      BY <1>13, <2>2 DEF Remember, Go
    <3>2. /\ r \in TurnState /\ r.owner = turn[t].owner /\ r.pc = "remember"
          /\ r.said = turn[t].said /\ r.voiced = turn[t].voiced
      BY <1>0 DEF TurnState, PCs
    <3>3. Sound(r, Hears(t)) /\ Recorded(t, r) /\ Shown(t, r)
      BY <1>0, <2>1 DEF TurnState, Sound, Recorded, Owes, Shown, Early, Speaking
    <3> QED
      BY <2>1, <3>1, <3>2, <3>3 DEF Goes, Over
  <2>3. CASE ~(~turn[t].silent /\ turn[t].said > 0)
    <3>1. End(t)
      BY <1>13, <2>3 DEF Remember
    <3> QED
      BY <2>1, <3>1, EndGoes DEF Over
  <2> QED
    BY <2>2, <2>3
<1>14. CASE Finish(t)
  <2>1. turn[t].pc \in {"remember", "sorry"} /\ End(t) /\ UNCHANGED <<last, history>>
    BY <1>14 DEF Finish, Runs
  <2> QED
    BY <2>1, EndGoes DEF Over
<1>15. CASE Unwind(t)
  BY <1>15, RaiseGoes DEF Unwind
<1>16. CASE Fail(t)
  <2>1. /\ ~turn[t].doomed /\ Raise(t, "error") /\ Live(t)
        /\ turn[t].pc # "save"
        /\ turn[t].pc = "unthink" => ~Hears(t)
    BY <1>16 DEF Fail, CallPoints, SendPoints, Live, Hears
  <2> QED
    BY <2>1, RaiseGoes
<1>17. CASE Spare(t)
  <2> DEFINE r == [turn[t] EXCEPT !.doomed = FALSE, !.spared = TRUE]
  <2>1. /\ turn[t].pc = "stream" /\ UNCHANGED <<last, history>>
        /\ turn' = [turn EXCEPT ![t] = r]
    BY <1>17 DEF Spare
  <2>2. /\ r \in TurnState /\ r.owner = turn[t].owner /\ r.pc = turn[t].pc
        /\ r.said = turn[t].said /\ r.held = turn[t].held /\ r.ended = turn[t].ended
        /\ r.voiced = turn[t].voiced /\ r.asked = turn[t].asked /\ r.silent = turn[t].silent
        /\ r.fault = turn[t].fault
    BY <1>0 DEF TurnState
  <2> HIDE DEF r
  <2>3. Sound(r, Hears(t))
    BY <2>2 DEF Sound
  <2>4. Shown(t, r) /\ Recorded(t, r)
    BY <2>1, <2>2 DEF Shown, Recorded, Owes, Speaking
  <2> QED
    BY <2>1, <2>2, <2>3, <2>4 DEF Goes, Over
<1> QED
  BY <1>1, <1>2, <1>3, <1>4, <1>5, <1>6, <1>7, <1>8, <1>9, <1>10, <1>11, <1>12,
     <1>13, <1>14, <1>15, <1>16, <1>17 DEF Step

-----------------------------------------------------------------------------
(* What the clients were told                                              *)

\* A loop runs from the moment its client is connected.
Doors == \A c \in Conns : sock[c] = "absent" <=> rx[c] = "off"

\* The turns to come have neither a task nor a client; the others have both.
Born ==
    \A t \in Turns :
        /\ t > turns => turn[t].pc = "unborn" /\ turn[t].owner = 0
        /\ t <= turns => turn[t].owner \in Conns /\ sock[turn[t].owner] # "absent"

AllSound == \A t \in Turns : Sound(turn[t], Hears(t))

\* The last frame of a socket, and how far the turn it came from has got.
Wire ==
    \A c \in Conns :
        LET t == last[c].turn
        IN  /\ t = NoTurn => last[c].kind = "none"
            /\ t # NoTurn =>
                 /\ turn[t].owner = c
                 /\ last[c].kind \in {"memory", "delta", "chunk", "bytes"} /\ sock[c] = "open"
                      => turn[t].pc \in Speaking \cup {"save"}
                 /\ last[c].kind = "complete"
                      => turn[t].pc \in Over /\ turn[t].voiced = turn[t].said

\* Between the announcement of a sentence and its audio, no other frame was written.
Announced ==
    \A t \in Turns :
        turn[t].pc = "chunk" /\ Hears(t)
          => last[turn[t].owner] = [kind |-> "chunk", turn |-> t, piece |-> turn[t].said]

Told == Doors /\ Born /\ AllSound /\ Wire /\ Announced

LEMMA InitTold == Init => Told
<1> SUFFICES ASSUME Init PROVE Told
  OBVIOUS
<1>1. Doors
  BY DEF Init, Doors
<1>2. Born
  BY BoundsAssumption DEF Init, Born, Unborn, Turns
<1>3. AllSound
  BY DEF Init, AllSound, Sound, Unborn, Early, Speaking
<1>4. Wire
  BY BoundsAssumption DEF Init, Wire, NoFrame
<1>5. Announced
  BY DEF Init, Announced, Unborn
<1> QED
  BY <1>1, <1>2, <1>3, <1>4, <1>5 DEF Told

\* A turn has a client from its first await on.
LEMMA LiveIsBorn ==
  ASSUME IInv, Told, NEW t \in Turns, turn[t].pc # "unborn"
  PROVE  /\ t <= turns /\ turn[t].owner \in Conns /\ sock[turn[t].owner] # "absent"
         /\ Sound(turn[t], Hears(t))
<1>1. t <= turns
  BY BoundsAssumption DEF Told, Born, Turns, IInv, TypeOK
<1> QED
  BY <1>1 DEF Told, Born, AllSound

\* What a step of a turn writes and leaves, as the invariant has it.
LEMMA StepTold ==
  ASSUME IInv, Told, NEW t \in Turns, Step(t)
  PROVE  Told'
<1>0. Live(t) /\ UNCHANGED OfTurn
  BY StepIsTyped DEF IInv, StepTyped
<1>1. /\ t <= turns /\ turn[t].owner \in Conns /\ sock[turn[t].owner] # "absent"
      /\ Sound(turn[t], Hears(t))
  BY <1>0, LiveIsBorn DEF Live
<1>2. PICK r : Goes(t, r)
  BY <1>1, StepGoes DEF IInv
<1>3. /\ r \in TurnState /\ r.owner = turn[t].owner /\ Sound(r, Hears(t)) /\ Shown(t, r)
      /\ turn[t].pc \in Over => /\ r.pc \in Over /\ r.voiced = turn[t].voiced
                                /\ r.said = turn[t].said
  BY <1>2 DEF Goes
<1>4. /\ \A u \in Turns : turn'[u] = IF u = t THEN r ELSE turn[u]
      /\ \A u \in Turns : turn'[u].owner = turn[u].owner
      /\ sock' = sock /\ rx' = rx /\ turns' = turns
  BY <1>0, <1>2, <1>3 DEF Goes, IInv, TypeOK, OfTurn
<1>5. \A u \in Turns : Hears(u)' = Hears(u)
  BY <1>4 DEF Hears
<1>6. Doors'
  BY <1>4 DEF Told, Doors
<1>7. Born'
  BY <1>0, <1>1, <1>4 DEF Told, Born, IInv, TypeOK, Turns
<1>8. AllSound'
  BY <1>3, <1>4, <1>5 DEF Told, AllSound
<1>9. last' \in [Conns -> Frame] /\ last \in [Conns -> Frame]
  BY StepIsTyped DEF IInv, StepTyped, TypeOK
<1>10. \A c \in Conns : last[c].turn \in Turns \cup {NoTurn}
  BY <1>9 DEF Frame
<1>11. t # NoTurn /\ turn[t].owner \in Conns
  BY <1>1, BoundsAssumption DEF Turns, NoTurn
<1>12. CASE /\ UNCHANGED last
            /\ Hears(t) => /\ r.pc # "chunk"
                           /\ turn[t].pc \in Speaking \cup {"save"}
                                => r.pc \in Speaking \cup {"save"}
  <2>1. Wire'
    <3> SUFFICES ASSUME NEW c \in Conns, last[c].turn # NoTurn
                 PROVE  LET u == last[c].turn
                        IN  /\ turn'[u].owner = c
                            /\ last[c].kind \in {"memory", "delta", "chunk", "bytes"}
                                 /\ sock[c] = "open" => turn'[u].pc \in Speaking \cup {"save"}
                            /\ last[c].kind = "complete"
                                 => turn'[u].pc \in Over /\ turn'[u].voiced = turn'[u].said
      BY <1>4, <1>12 DEF Told, Wire
    <3>1. last[c].turn \in Turns
      BY <1>10
    <3>2. CASE last[c].turn # t
      BY <1>4, <3>1, <3>2 DEF Told, Wire
    <3>3. CASE last[c].turn = t
      <4>1. turn[t].owner = c /\ (sock[c] = "open" => Hears(t))
        BY <1>11, <3>3 DEF Told, Wire, Hears
      <4> QED
        BY <1>3, <1>4, <1>12, <3>3, <4>1 DEF Told, Wire
    <3> QED
      BY <3>2, <3>3
  <2>2. Announced'
    BY <1>4, <1>5, <1>12 DEF Told, Announced
  <2> QED
    BY <1>6, <1>7, <1>8, <2>1, <2>2 DEF Told
<1>13. CASE /\ Hears(t)
            /\ \E kind \in FrameKinds, piece \in 0 .. MaxPieces :
                 /\ last' = [last EXCEPT ![turn[t].owner] =
                               [kind |-> kind, turn |-> t, piece |-> piece]]
                 /\ Fits(t, r, kind, piece)
  <2>1. PICK kind \in FrameKinds, piece \in 0 .. MaxPieces :
          /\ last' = [last EXCEPT ![turn[t].owner] =
                        [kind |-> kind, turn |-> t, piece |-> piece]]
          /\ Fits(t, r, kind, piece)
    BY <1>13
  <2>2. /\ \A c \in Conns : last'[c] = IF c = turn[t].owner
                                       THEN [kind |-> kind, turn |-> t, piece |-> piece]
                                       ELSE last[c]
        /\ last'[turn[t].owner].kind = kind /\ last'[turn[t].owner].turn = t
    BY <1>9, <1>11, <2>1
  <2>3. Wire'
    <3> SUFFICES ASSUME NEW c \in Conns
                 PROVE  LET u == last'[c].turn
                        IN  /\ u = NoTurn => last'[c].kind = "none"
                            /\ u # NoTurn =>
                               /\ turn'[u].owner = c
                               /\ last'[c].kind \in {"memory", "delta", "chunk", "bytes"}
                                    /\ sock[c] = "open" => turn'[u].pc \in Speaking \cup {"save"}
                               /\ last'[c].kind = "complete"
                                    => turn'[u].pc \in Over /\ turn'[u].voiced = turn'[u].said
      BY <1>4 DEF Wire
    <3>1. CASE c = turn[t].owner
      <4>1. last'[c].kind = kind /\ last'[c].turn = t /\ turn'[t] = r
        BY <1>4, <2>2, <3>1
      <4> QED
        BY <1>3, <1>11, <2>1, <3>1, <4>1 DEF Fits, Over
    <3>2. CASE c # turn[t].owner
      <4>1. last'[c] = last[c] /\ last[c].turn # t
        BY <1>11, <2>2, <3>2 DEF Told, Wire
      <4>2. last[c].turn # NoTurn => turn'[last[c].turn] = turn[last[c].turn]
        BY <1>4, <1>10, <4>1
      <4> QED
        BY <4>1, <4>2 DEF Told, Wire
    <3> QED
      BY <3>1, <3>2
  <2>4. Announced'
    <3> SUFFICES ASSUME NEW u \in Turns, turn'[u].pc = "chunk", Hears(u)
                 PROVE  last'[turn[u].owner]
                          = [kind |-> "chunk", turn |-> u, piece |-> turn'[u].said]
      BY <1>4, <1>5 DEF Announced
    <3>1. CASE u = t
      BY <1>4, <2>1, <2>2, <1>11, <3>1 DEF Fits
    <3>2. CASE u # t
      <4>1. turn'[u] = turn[u] /\ Live(u) /\ turn[u].owner # turn[t].owner
        BY <1>0, <1>4, <3>2 DEF Live, IInv, Owned
      <4> QED
        BY <2>2, <4>1 DEF Told, Announced, Hears
    <3> QED
      BY <3>1, <3>2
  <2> QED
    BY <1>6, <1>7, <1>8, <2>3, <2>4 DEF Told
<1> QED
  BY <1>3, <1>12, <1>13 DEF Shown

\* A cancellation shows in one flag of one turn.
LEMMA CancelSpares ==
  ASSUME IInv, NEW c \in Conns, Cancel(c)
  PROVE  \A t \in Turns :
           /\ turn'[t].pc = turn[t].pc /\ turn'[t].owner = turn[t].owner
           /\ turn'[t].fault = turn[t].fault /\ turn'[t].silent = turn[t].silent
           /\ turn'[t].asked = turn[t].asked /\ turn'[t].said = turn[t].said
           /\ turn'[t].held = turn[t].held /\ turn'[t].voiced = turn[t].voiced
           /\ turn'[t].ended = turn[t].ended
<1> DEFINE e(s) == [s EXCEPT !.doomed = TRUE]
<1>1. \A s \in TurnState :
        /\ e(s).pc = s.pc /\ e(s).owner = s.owner /\ e(s).fault = s.fault
        /\ e(s).silent = s.silent /\ e(s).asked = s.asked /\ e(s).said = s.said
        /\ e(s).held = s.held /\ e(s).voiced = s.voiced /\ e(s).ended = s.ended
  BY DEF TurnState
<1>2. \A t \in Turns : turn[t] \in TurnState /\ turn'[t] \in {turn[t], e(turn[t])}
  BY DEF Cancel, IInv, TypeOK
<1> HIDE DEF e
<1> QED
  BY <1>1, <1>2

LEMMA LoopTold ==
  ASSUME IInv, Told, NEW c \in Conns, Loop(c)
  PROVE  Told'
<1>1. CASE Open(c)
  <2>1. /\ \A d \in Conns : d # c => sock'[d] = sock[d] /\ rx'[d] = rx[d]
        /\ sock[c] = "absent" /\ sock'[c] = "open" /\ rx'[c] = "receive"
        /\ UNCHANGED <<current, last, turns, turn, history>>
    BY <1>1 DEF Open, IInv, TypeOK
  <2>2. \A t \in Turns : turn[t].owner # c
    <3> SUFFICES ASSUME NEW t \in Turns, turn[t].owner = c PROVE FALSE
      OBVIOUS
    <3>1. turn[t].owner # 0 /\ turns \in Nat /\ t \in Nat
      BY BoundsAssumption DEF Conns, Turns, IInv, TypeOK
    <3> QED
      BY <2>1, <3>1 DEF Told, Born
  <2>3. \A t \in Turns : Hears(t)' = Hears(t)
    BY <2>1, <2>2 DEF Hears
  <2>4. Doors' /\ Born' /\ AllSound' /\ Announced'
    BY <2>1, <2>2, <2>3 DEF Told, Doors, Born, AllSound, Announced
  <2>5. Wire'
    <3>1. last[c].turn = NoTurn
      <4>1. last[c].turn \in Turns \cup {NoTurn}
        BY DEF IInv, TypeOK, Frame
      <4>2. last[c].turn # NoTurn => turn[last[c].turn].owner = c
        BY DEF Told, Wire
      <4> QED
        BY <2>2, <4>1, <4>2
    <3> QED
      BY <2>1, <3>1 DEF Told, Wire
  <2> QED
    BY <2>4, <2>5 DEF Told
<1>2. CASE Lose(c)
  <2>1. /\ \A d \in Conns : d # c => sock'[d] = sock[d]
        /\ sock[c] = "open" /\ sock'[c] = "lost"
        /\ UNCHANGED <<rx, current, last, turns, turn, history>>
    BY <1>2 DEF Lose, IInv, TypeOK
  <2>2. \A t \in Turns : Hears(t)' => Hears(t)
    BY <2>1 DEF Hears
  <2>3. \A t \in Turns : Sound(turn[t], Hears(t)) => Sound(turn[t], Hears(t)')
    BY <2>2 DEF Sound
  <2>4. Doors' /\ AllSound' /\ Announced'
    BY <2>1, <2>2, <2>3 DEF Told, Doors, AllSound, Announced
  <2>5. Born'
    BY <2>1 DEF Told, Born
  <2>6. Wire'
    BY <2>1 DEF Told, Wire
  <2> QED
    BY <2>4, <2>5, <2>6 DEF Told
<1>3. CASE Utter(c) \/ StartTurn(c)
  <2>1. Begin(c) /\ RoomForTurn /\ UNCHANGED <<sock, last, history>>
        /\ rx[c] # "off" /\ rx' \in {rx, [rx EXCEPT ![c] = "receive"]}
    BY <1>3 DEF Utter, StartTurn, Receiving
  <2> DEFINE n == turns + 1
             r == [Unborn EXCEPT !.pc = "new", !.owner = c]
  <2>2. /\ n \in Turns /\ turns' = n /\ n > turns
        /\ \A u \in Turns : u > n => u > turns
        /\ \A u \in Turns : u <= n => u = n \/ u <= turns
    BY <2>1, BoundsAssumption DEF IInv, TypeOK, RoomForTurn, Begin, Turns
  <2>3. \A u \in Turns : turn'[u] = IF u = n THEN r ELSE turn[u]
    BY <2>1, <2>2 DEF Begin, IInv, TypeOK
  <2>4. /\ r.pc = "new" /\ r.owner = c /\ r.said = 0 /\ r.held = 0 /\ r.voiced = 0
        /\ ~r.ended /\ ~r.asked /\ ~r.silent /\ r.fault = "none"
    BY DEF Unborn
  <2>5. turn[n].pc = "unborn" /\ turn[n].owner = 0
    BY <2>2 DEF Told, Born
  <2> HIDE DEF n, r
  <2>6. \A u \in Turns : u # n => Hears(u)' = Hears(u)
    BY <2>1, <2>3 DEF Hears
  <2>7. Doors'
    BY <2>1 DEF Told, Doors, IInv, TypeOK
  <2>8. Born'
    <3> SUFFICES ASSUME NEW u \in Turns
                 PROVE  /\ u > n => turn'[u].pc = "unborn" /\ turn'[u].owner = 0
                        /\ u <= n => turn'[u].owner \in Conns /\ sock[turn'[u].owner] # "absent"
      BY <2>1, <2>2 DEF Born
    <3>1. sock[c] # "absent"
      BY <2>1 DEF Told, Doors
    <3>2. CASE u = n
      BY <2>2, <2>3, <2>4, <3>1, <3>2, BoundsAssumption DEF Turns
    <3>3. CASE u # n
      BY <2>2, <2>3, <3>3 DEF Told, Born
    <3> QED
      BY <3>2, <3>3
  <2>9. AllSound'
    <3>1. \A b \in BOOLEAN : Sound(r, b)
      BY <2>4 DEF Sound, Early, Speaking
    <3> QED
      <4> SUFFICES ASSUME NEW u \in Turns PROVE Sound(turn'[u], Hears(u)')
        BY DEF AllSound
      <4>1. CASE u = n
        BY <2>3, <3>1, <4>1 DEF Hears
      <4>2. CASE u # n
        BY <2>3, <2>6, <4>2 DEF Told, AllSound
      <4> QED
        BY <4>1, <4>2
  <2>10. Wire'
    <3>1. \A d \in Conns : last[d].turn # n
      BY <2>2, <2>5, BoundsAssumption DEF Told, Wire, Conns, Turns, NoTurn
    <3>2. \A d \in Conns : last[d].turn # NoTurn => turn'[last[d].turn] = turn[last[d].turn]
      BY <2>3, <3>1 DEF IInv, TypeOK, Frame
    <3> QED
      BY <2>1, <3>2 DEF Told, Wire
  <2>11. Announced'
    BY <2>1, <2>3, <2>4, <2>6 DEF Told, Announced
  <2> QED
    BY <2>7, <2>8, <2>9, <2>10, <2>11 DEF Told
<1>4. CASE BargeIn(c) \/ Interrupt(c) \/ Disconnect(c)
  <2>1. /\ Cancel(c) /\ UNCHANGED <<sock, current, last, turns, history>>
        /\ \E at \in {"barge", "stop", "closing"} : rx' = [rx EXCEPT ![c] = at]
        /\ rx[c] # "off"
    BY <1>4 DEF BargeIn, Interrupt, Disconnect, Receiving
  <2>2. /\ \A t \in Turns : Hears(t)' = Hears(t)
        /\ \A t \in Turns : Sound(turn[t], Hears(t)) => Sound(turn'[t], Hears(t))
    BY <2>1, CancelSpares DEF Hears, Sound
  <2>3. Doors'
    BY <2>1 DEF Told, Doors, IInv, TypeOK
  <2>4. Born'
    BY <2>1, CancelSpares DEF Told, Born
  <2>5. AllSound'
    BY <2>2 DEF Told, AllSound
  <2>6. Wire'
    <3>1. \A d \in Conns : last[d].turn \in Turns \cup {NoTurn}
      BY DEF IInv, TypeOK, Frame
    <3> QED
      BY <2>1, <3>1, CancelSpares DEF Told, Wire
  <2>7. Announced'
    BY <2>1, <2>2, CancelSpares DEF Told, Announced
  <2> QED
    BY <2>3, <2>4, <2>5, <2>6, <2>7 DEF Told
<1>5. CASE Interrupted(c) \/ Detach(c)
  <2>1. /\ UNCHANGED <<sock, last, turns, turn, history>> /\ rx[c] # "off"
        /\ \E at \in {"receive", "done"} : rx' = [rx EXCEPT ![c] = at]
    BY <1>5 DEF Interrupted, Detach
  <2>2. Doors'
    BY <2>1 DEF Told, Doors, IInv, TypeOK
  <2>3. Born' /\ AllSound' /\ Wire' /\ Announced'
    BY <2>1 DEF Told, Born, AllSound, Wire, Announced, Hears
  <2> QED
    BY <2>2, <2>3 DEF Told
<1> QED
  BY <1>1, <1>2, <1>3, <1>4, <1>5 DEF Loop

THEOREM Telling == Spec => [](IInv /\ Told)
<1>1. Init => IInv /\ Told
  BY InitSound, InitTold
<1>2. IInv /\ Told /\ [Next]_vars => (IInv /\ Told)'
  <2> SUFFICES ASSUME IInv, Told, [Next]_vars PROVE (IInv /\ Told)'
    OBVIOUS
  <2>1. CASE UNCHANGED vars
    <3>1. IInv'
      BY <2>1 DEF vars, IInv, TypeOK, Held, Owned, Live
    <3>2. Told'
      BY <2>1 DEF vars, Told, Doors, Born, AllSound, Wire, Announced, Hears
    <3> QED
      BY <3>1, <3>2
  <2>2. ASSUME NEW c \in Conns, Loop(c) PROVE (IInv /\ Told)'
    BY <2>2, LoopSound, LoopTold
  <2>3. ASSUME NEW t \in Turns, Step(t) PROVE (IInv /\ Told)'
    BY <2>3, StepSound, StepTold
  <2> QED
    BY <2>1, <2>2, <2>3 DEF Next
<1> QED
  BY <1>1, <1>2, PTL DEF Spec

\* turn_complete is sent only when the audio of the whole reply has been.
THEOREM CompleteIsVoiced == Spec => []CompleteMeansVoiced
<1>1. IInv /\ Told => CompleteMeansVoiced
  BY DEF Told, Wire, CompleteMeansVoiced
<1> QED
  BY <1>1, Telling, PTL

\* No client that is still there is left showing "thinking" after a reply, however the
\* turn ended.
THEOREM ThinkingGoesOff == Spec => []ThinkingIsSwitchedOff
<1>1. IInv /\ Told => ThinkingIsSwitchedOff
  BY DEF Told, Wire, ThinkingIsSwitchedOff, Speaking
<1> QED
  BY <1>1, Telling, PTL

\* What a frame comes from: the step of the turn it names, on the socket of its owner.
LEMMA FramesComeFromTurns ==
  ASSUME IInv, Told, [Next]_vars, NEW c \in Conns, last'[c] # last[c]
  PROVE  \E t \in Turns : \E r : \E kind \in FrameKinds, piece \in 0 .. MaxPieces :
           /\ turn[t].owner = c /\ Hears(t) /\ Live(t) /\ turn[t].pc # "sorry"
           /\ last'[c] = [kind |-> kind, turn |-> t, piece |-> piece]
           /\ Fits(t, r, kind, piece)
<1>1. PICK t \in Turns : Step(t)
  <2>1. ~UNCHANGED vars
    BY DEF vars
  <2>2. ASSUME NEW d \in Conns PROVE ~Loop(d)
    BY DEF Loop, Open, Lose, Utter, BargeIn, StartTurn, Interrupt, Interrupted,
           Disconnect, Detach
  <2> QED
    BY <2>1, <2>2 DEF Next
<1>2. turn[t].owner \in Conns /\ Sound(turn[t], Hears(t)) /\ Live(t)
  BY <1>1, StepIsTyped, LiveIsBorn DEF IInv, StepTyped, Live
<1>0. turn[t].pc # "sorry"
  <2> SUFFICES ASSUME turn[t].pc = "sorry" PROVE UNCHANGED last
    OBVIOUS
  <2>1. Finish(t) \/ Unwind(t)
    BY <1>1 DEF Step, Start, Transcribe, Think, Respond, Recall, Token, EndOfStream,
         AudioChunk, AudioBytes, Spoken, Unthink, Complete, Remember, Spare, Fail, Runs,
         CallPoints, SendPoints
  <2>2. CASE Unwind(t)
    <3>1. LeaveTurn(t, "cancel")
      BY <2>2 DEF Unwind, Raise
    <3> QED
      BY <3>1 DEF LeaveTurn
  <2> QED
    BY <2>1, <2>2 DEF Finish
<1>3. PICK r : Goes(t, r)
  BY <1>1, <1>2, StepGoes DEF IInv
<1>4. PICK kind \in FrameKinds, piece \in 0 .. MaxPieces :
        /\ Hears(t)
        /\ last' = [last EXCEPT ![turn[t].owner] =
                      [kind |-> kind, turn |-> t, piece |-> piece]]
        /\ Fits(t, r, kind, piece)
  BY <1>3 DEF Goes, Shown
<1>5. turn[t].owner = c /\ last'[c] = [kind |-> kind, turn |-> t, piece |-> piece]
  BY <1>2, <1>4 DEF IInv, TypeOK
<1> QED
  BY <1>0, <1>2, <1>4, <1>5

\* emit: a sentence's audio comes right behind its announcement.
THEOREM AudioIsAnnounced == Spec => AudioFollowsItsSentence
<1> DEFINE Behind == \A c \in Conns :
                       last'[c] # last[c] /\ last'[c].kind = "bytes"
                         => last[c] = [last'[c] EXCEPT !.kind = "chunk"]
<1>1. IInv /\ Told /\ [Next]_vars => [Behind]_vars
  <2> SUFFICES ASSUME IInv, Told, [Next]_vars, NEW c \in Conns,
                      last'[c] # last[c], last'[c].kind = "bytes"
               PROVE  last[c] = [last'[c] EXCEPT !.kind = "chunk"]
    OBVIOUS
  <2>1. PICK t \in Turns : \E r : \E kind \in FrameKinds, piece \in 0 .. MaxPieces :
          /\ turn[t].owner = c /\ Hears(t)
          /\ last'[c] = [kind |-> kind, turn |-> t, piece |-> piece]
          /\ Fits(t, r, kind, piece)
    BY FramesComeFromTurns
  <2>2. last'[c] = [kind |-> "bytes", turn |-> t, piece |-> turn[t].said]
        /\ turn[t].pc = "chunk"
    BY <2>1 DEF Fits
  <2>3. last[c] = [kind |-> "chunk", turn |-> t, piece |-> turn[t].said]
    BY <2>1, <2>2 DEF Told, Announced
  <2> QED
    BY <2>2, <2>3
<1> QED
  BY <1>1, Telling, PTL DEF Spec, AudioFollowsItsSentence

-----------------------------------------------------------------------------
(* One connection at a time                                                *)

\* _trim keeps the end of a history that ends with a question, or with a reply to one.
LEMMA TrimKeepsEnd ==
  ASSUME NEW h \in Seq(Entry), NEW i \in 1 .. Len(h), i >= Len(h) - 1, h[i].role = "user"
  PROVE  LET g == Talk!Trim(h) IN g # <<>> /\ g[Len(g)] = h[Len(h)]
<1> DEFINE low == Len(h) - Talk!Cap + 1
           front == {k \in low .. Len(h) : /\ h[k].role = "user"
                                           /\ \A j \in low .. k - 1 : h[j].role # "user"}
           S == {k \in low .. Len(h) : h[k].role = "user"}
           R == {ss \in Nat \X Nat : ss[1] < ss[2]}
<1>0. HistoryTurns \in Nat /\ Len(h) \in Nat /\ Talk!Cap \in Nat
      /\ (HistoryTurns # 0 => Talk!Cap >= 2)
  BY BoundsAssumption DEF Talk!Cap
<1>1. CASE HistoryTurns = 0 \/ Len(h) <= Talk!Cap
  BY <1>1 DEF Talk!Trim
<1>2. CASE ~(HistoryTurns = 0 \/ Len(h) <= Talk!Cap)
  <2>1. low \in Nat /\ low >= 1 /\ i \in low .. Len(h)
    BY <1>0, <1>2
  <2>2. S \subseteq Nat /\ S # {}
    BY <1>0, <2>1
  <2>3. IsWellFoundedOn(R, Nat)
    BY NatLessThanWellFounded DEF OpToRel
  <2>4. PICK k \in S : \A j \in S : <<j, k>> \notin R
    <3> HIDE DEF R, S
    <3> QED
      BY <2>2, <2>3, WFMin
  <2>5. k \in front
    <3> SUFFICES ASSUME NEW j \in low .. k - 1, h[j].role = "user" PROVE FALSE
      BY <2>4
    <3>1. j \in Nat /\ k \in Nat /\ j < k /\ j \in S
      BY <1>0, <2>1, <2>4
    <3> QED
      BY <2>4, <3>1
  <2> DEFINE m == CHOOSE x \in front : TRUE
  <2>6. m \in front
    BY <2>5
  <2>7. Talk!Trim(h) = SubSeq(h, m, Len(h))
    BY <1>2, <2>5 DEF Talk!Trim
  <2>8. m \in 1 .. Len(h)
    BY <1>0, <2>1, <2>6
  <2> DEFINE g == SubSeq(h, m, Len(h))
  <2> HIDE DEF m
  <2>9. Len(g) = Len(h) - m + 1 /\ Len(g) \in Nat /\ Len(g) >= 1
    BY <1>0, <2>8
  <2>10. g[Len(g)] = h[Len(h)]
    BY <1>0, <2>8, <2>9
  <2>11. Talk!Trim(h) = g
    BY <2>7
  <2>12. ASSUME NEW s, Len(s) >= 1 PROVE s # <<>>
    BY <2>12
  <2> HIDE DEF g
  <2> QED
    BY <2>9, <2>10, <2>11, <2>12
<1> QED
  BY <1>1, <1>2

\* A handler returns before the next one opens, so that only the latest turn can live.
InTurn ==
    /\ \A c, d \in Conns : d < c /\ sock[c] # "absent" => sock[d] # "absent"
    /\ \A c, d \in Conns : rx[c] \notin {"off", "done"} /\ rx[d] \notin {"off", "done"}
                             => c = d
    /\ \A t \in Turns : Live(t) => t = turns

LEMMA StepInTurn ==
  ASSUME IInv, InTurn, NEW t \in Turns, Step(t)
  PROVE  InTurn'
<1>1. Live(t) /\ Moved(t) /\ UNCHANGED OfTurn
  BY StepIsTyped DEF IInv, StepTyped
<1>2. \A u \in Turns : Live(u)' => Live(u)
  BY <1>1 DEF Moved, Live, IInv, TypeOK
<1> QED
  BY <1>1, <1>2 DEF InTurn, OfTurn

LEMMA LoopInTurn ==
  ASSUME ~Overlap, IInv, Told, InTurn, NEW c \in Conns, Loop(c)
  PROVE  InTurn'
<1>0. \A d \in Conns : d \in Nat
  BY DEF Conns
<1>1. CASE Open(c)
  <2>1. /\ \A d \in Conns : d # c => sock'[d] = sock[d] /\ rx'[d] = rx[d]
        /\ sock[c] = "absent" /\ sock'[c] = "open" /\ rx'[c] = "receive"
        /\ \A d \in Conns : d < c => sock[d] # "absent" /\ rx[d] = "done"
        /\ UNCHANGED <<turns, turn>>
    BY <1>1 DEF Open, IInv, TypeOK
  <2>2. \A d \in Conns : d # c => rx[d] \in {"off", "done"}
    <3> SUFFICES ASSUME NEW d \in Conns, d # c, rx[d] \notin {"off", "done"} PROVE FALSE
      OBVIOUS
    <3>1. c < d /\ sock[d] # "absent"
      BY <1>0, <2>1 DEF Told, Doors
    <3> QED
      BY <2>1, <3>1 DEF InTurn
  <2> QED
    BY <2>1, <2>2 DEF InTurn, Live
<1>2. CASE Lose(c)
  <2>1. \A d \in Conns : sock'[d] = "absent" <=> sock[d] = "absent"
    BY <1>2 DEF Lose, IInv, TypeOK
  <2>2. UNCHANGED <<rx, turns, turn>>
    BY <1>2 DEF Lose
  <2> QED
    BY <2>1, <2>2 DEF InTurn, Live
<1>3. CASE Utter(c) \/ StartTurn(c)
  <2>1. /\ Begin(c) /\ RoomForTurn /\ Idle(c) /\ UNCHANGED sock
        /\ rx[c] \notin {"off", "done"} /\ rx' \in {rx, [rx EXCEPT ![c] = "receive"]}
    BY <1>3 DEF Utter, StartTurn, Receiving
  <2>2. \A d \in Conns : rx'[d] \notin {"off", "done"} => rx[d] \notin {"off", "done"}
    BY <2>1 DEF IInv, TypeOK
  <2>3. \A u \in Turns : u # turns + 1 => ~Live(u)'
    <3> SUFFICES ASSUME NEW u \in Turns, u # turns + 1, Live(u)' PROVE FALSE
      OBVIOUS
    <3>1. Live(u)
      BY <2>1 DEF Begin, Live, IInv, TypeOK
    <3>2. turn[u].owner = c
      BY <2>1, <3>1 DEF IInv, Owned, InTurn
    <3> QED
      BY <2>1, <3>1, <3>2, IdleOwnsNothing
  <2>4. \A t \in Turns : Live(t)' => t = turns'
    BY <2>1, <2>3 DEF Begin
  <2> QED
    BY <2>1, <2>2, <2>4 DEF InTurn
<1>4. CASE BargeIn(c) \/ Interrupt(c) \/ Disconnect(c)
  <2>1. Cancel(c) /\ UNCHANGED <<sock, turns>>
        /\ \A d \in Conns : rx'[d] \notin {"off", "done"} => rx[d] \notin {"off", "done"}
    BY <1>4 DEF BargeIn, Interrupt, Disconnect, Receiving, IInv, TypeOK
  <2> QED
    BY <2>1, CancelSpares DEF InTurn, Live
<1>5. CASE Interrupted(c) \/ Detach(c)
  <2>1. UNCHANGED <<sock, turns, turn>>
        /\ \A d \in Conns : rx'[d] \notin {"off", "done"} => rx[d] \notin {"off", "done"}
    BY <1>5 DEF Interrupted, Detach, IInv, TypeOK
  <2> QED
    BY <2>1 DEF InTurn, Live
<1> QED
  BY <1>1, <1>2, <1>3, <1>4, <1>5 DEF Loop

\* What the history owes to one turn.
Kept(s, t, h) ==
    ~s.silent =>
      /\ s.pc \in {"recall"} \cup Speaking
           => h # <<>> /\ h[Len(h)] = [role |-> "user", turn |-> t, pieces |-> 0]
      /\ s.pc \notin Speaking /\ s.said > 0
           => h # <<>> /\ h[Len(h)] = [role |-> "assistant", turn |-> t, pieces |-> s.said]

LEMMA StepKept ==
  ASSUME IInv, Told, NEW t \in Turns, Kept(turn[t], t, history), Step(t)
  PROVE  Kept(turn'[t], t, history')
<1>1. turn[t].owner \in Conns /\ Sound(turn[t], Hears(t)) /\ turn[t] \in TurnState
  BY StepIsTyped, LiveIsBorn DEF IInv, StepTyped, Live, TypeOK
<1>2. PICK r : Goes(t, r)
  BY <1>1, StepGoes DEF IInv
<1>3. /\ r \in TurnState /\ turn'[t] = r /\ Sound(r, Hears(t)) /\ Recorded(t, r)
  BY <1>2 DEF Goes, IInv, TypeOK
<1>4. history \in Seq(Entry)
  BY DEF IInv, TypeOK
<1>5. CASE r.pc = "recall" /\ r.said = 0 /\ AddUser(t)
  <2> DEFINE e == [role |-> "user", turn |-> t, pieces |-> 0]
             h == Append(history, e)
  <2>1. e \in Entry /\ e.role = "user"
    BY BoundsAssumption DEF Entry
  <2> HIDE DEF e
  <2>2. h \in Seq(Entry) /\ Len(h) \in 1 .. Len(h) /\ h[Len(h)] = e
    BY <1>4, <2>1
  <2>3. Len(h) \in Nat
    BY <2>2
  <2>4. history' = Talk!Trim(h)
    BY <1>5 DEF AddUser, e
  <2> HIDE DEF h
  <2>5. history' # <<>> /\ history'[Len(history')] = e
    BY <2>1, <2>2, <2>3, <2>4, TrimKeepsEnd
  <2> QED
    BY <1>3, <1>5, <2>5 DEF Kept, e
<1>6. CASE /\ Owes(turn[t]) /\ ~Owes(r) /\ r.asked /\ r.pc \notin Speaking
           /\ r.said = turn[t].said
           /\ IF turn[t].pc = "recall" THEN UNCHANGED history ELSE AddReply(t)
  <2>1. r.pc # "recall"
    BY <1>6 DEF Owes
  <2>2. CASE r.said = 0
    BY <1>3, <1>6, <2>1, <2>2 DEF Kept
  <2>3. CASE r.said # 0
    <3> DEFINE e == [role |-> "assistant", turn |-> t, pieces |-> turn[t].said]
               h == Append(history, e)
    <3>1. turn[t].pc \in Speaking /\ ~turn[t].silent
      BY <1>1, <1>6, <2>3 DEF Owes, Sound
    <3>2. history # <<>> /\ history[Len(history)].role = "user"
      BY <3>1 DEF Kept
    <3>3. e \in Entry
      BY <1>1 DEF Entry, TurnState
    <3>4. history' = Talk!Trim(h)
      BY <1>6, <2>3, <3>1 DEF AddReply, Speaking
    <3> HIDE DEF e
    <3>5. /\ h \in Seq(Entry) /\ Len(h) = Len(history) + 1 /\ h[Len(h)] = e
          /\ Len(history) \in 1 .. Len(h) /\ h[Len(history)].role = "user"
      BY <1>4, <3>2, <3>3
    <3>6. Len(history) >= Len(h) - 1
      BY <1>4, <3>5
    <3> HIDE DEF h
    <3>7. history' # <<>> /\ history'[Len(history')] = e
      BY <3>4, <3>5, <3>6, TrimKeepsEnd
    <3> QED
      BY <1>3, <1>6, <2>1, <3>7 DEF Kept, e
  <2> QED
    BY <2>2, <2>3
<1>7. CASE /\ r.asked = turn[t].asked /\ (Owes(r) <=> Owes(turn[t]))
           /\ r.pc \notin Speaking /\ r.said > 0 /\ ~r.silent
                 => turn[t].pc \notin Speaking /\ r.said = turn[t].said /\ ~turn[t].silent
           /\ UNCHANGED history
  BY <1>1, <1>3, <1>7 DEF Kept, Owes, Sound
<1> QED
  BY <1>3, <1>5, <1>6, <1>7 DEF Recorded

\* With one connection at a time, the latest turn finds its words, and then its reply,
\* at the end of the conversation, whatever is trimmed and however it ends.
THEOREM LatestIsRecorded ==
  ASSUME ~Overlap
  PROVE  Spec => []LatestTurnIsRecorded
<1> DEFINE Latest == \A t \in Turns : t = turns => Kept(turn[t], t, history)
<1>1. Init => InTurn /\ Latest
  BY DEF Init, InTurn, Kept, Unborn, Live, Speaking
<1>2. IInv /\ Told /\ InTurn /\ Latest /\ [Next]_vars => (InTurn /\ Latest)'
  <2> SUFFICES ASSUME IInv, Told, InTurn, Latest, [Next]_vars
               PROVE  InTurn' /\ Latest'
    OBVIOUS
  <2>1. CASE UNCHANGED vars
    BY <2>1 DEF vars, InTurn, Live
  <2>2. ASSUME NEW t \in Turns, Step(t) PROVE InTurn' /\ Latest'
    <3>1. t = turns /\ turns' = turns
      BY <2>2, StepIsTyped DEF InTurn, IInv, StepTyped, OfTurn
    <3>2. Kept(turn'[t], t, history')
      BY <2>2, <3>1, StepKept
    <3> QED
      BY <2>2, <3>1, <3>2, StepInTurn
  <2>3. ASSUME NEW c \in Conns, Loop(c) PROVE InTurn' /\ Latest'
    <3>1. CASE Utter(c) \/ StartTurn(c)
      <4>1. Begin(c) /\ RoomForTurn /\ turns \in Nat
        BY <3>1, BoundsAssumption DEF Utter, StartTurn, IInv, TypeOK
      <4>2. turns + 1 \in Turns
        BY <4>1, BoundsAssumption DEF RoomForTurn, Turns
      <4>3. turns' = turns + 1
            /\ turn'[turns + 1] = [Unborn EXCEPT !.pc = "new", !.owner = c]
        BY <4>1, <4>2 DEF Begin, IInv, TypeOK
      <4>4. Kept(turn'[turns + 1], turns + 1, history')
        BY <4>3 DEF Kept, Unborn, Speaking
      <4> QED
        BY <2>3, <4>3, <4>4, LoopInTurn
    <3>2. CASE BargeIn(c) \/ Interrupt(c) \/ Disconnect(c)
      <4>1. Cancel(c) /\ UNCHANGED <<turns, history>>
        BY <3>2 DEF BargeIn, Interrupt, Disconnect
      <4>2. Latest'
        BY <4>1, CancelSpares DEF Kept
      <4> QED
        BY <2>3, <4>2, LoopInTurn
    <3>3. CASE Open(c) \/ Lose(c) \/ Interrupted(c) \/ Detach(c)
      <4>1. UNCHANGED <<turns, turn, history>>
        BY <3>3 DEF Open, Lose, Interrupted, Detach
      <4> QED
        BY <2>3, <4>1, LoopInTurn
    <3> QED
      BY <2>3, <3>1, <3>2, <3>3 DEF Loop
  <2> QED
    BY <2>1, <2>2, <2>3 DEF Next
<1>3. Latest => LatestTurnIsRecorded
  BY DEF LatestTurnIsRecorded, Kept, Speaking
<1> QED
  BY <1>1, <1>2, <1>3, Telling, PTL DEF Spec

-----------------------------------------------------------------------------
(* The turns share the conversation as Conversation has it                 *)

Words(h) == [i \in 1 .. Len(h) |-> [role |-> h[i].role, turn |-> h[i].turn]]
Asked == {t \in Turns : turn[t].asked}
Pending == {t \in Turns : /\ turn[t].asked
                          /\ turn[t].pc \in {"recall", "stream", "synth", "chunk"}}

\* The lengths of the replies play no part in what _trim drops.
LEMMA TrimWords ==
  ASSUME NEW h \in Seq(Entry)
  PROVE  Words(Talk!Trim(h)) = Talk!Trim(Words(h))
<1> DEFINE w == Words(h)
           low == Len(h) - Talk!Cap + 1
           front == {k \in low .. Len(h) : /\ h[k].role = "user"
                                           /\ \A j \in low .. k - 1 : h[j].role # "user"}
           wfront == {k \in low .. Len(h) : /\ w[k].role = "user"
                                            /\ \A j \in low .. k - 1 : w[j].role # "user"}
<1>0. /\ HistoryTurns \in Nat /\ Len(h) \in Nat /\ Talk!Cap \in Nat
      /\ Len(w) = Len(h) /\ \A k \in 1 .. Len(h) : w[k].role = h[k].role
  BY BoundsAssumption DEF Talk!Cap, Words
<1>1. CASE HistoryTurns = 0 \/ Len(h) <= Talk!Cap
  BY <1>0, <1>1 DEF Talk!Trim
<1>2. CASE ~(HistoryTurns = 0 \/ Len(h) <= Talk!Cap)
  <2>1. low \in Nat /\ low >= 1
    BY <1>0, <1>2
  <2>2. front = wfront
    <3>1. ASSUME NEW k \in low .. Len(h)
          PROVE  /\ w[k].role = h[k].role
                 /\ \A j \in low .. k - 1 : w[j].role = h[j].role
      <4>1. k \in 1 .. Len(h) /\ \A j \in low .. k - 1 : j \in 1 .. Len(h)
        BY <1>0, <2>1
      <4> HIDE DEF w, low
      <4> QED
        BY <1>0, <4>1
    <3> HIDE DEF w, low
    <3> QED
      BY <3>1
  <2>3. Talk!Trim(w) = IF wfront = {} THEN <<>>
                       ELSE SubSeq(w, CHOOSE k \in wfront : TRUE, Len(h))
    BY <1>0, <1>2 DEF Talk!Trim
  <2>4. Talk!Trim(h) = IF front = {} THEN <<>>
                       ELSE SubSeq(h, CHOOSE k \in front : TRUE, Len(h))
    BY <1>2 DEF Talk!Trim
  <2>5. CASE front = {}
    <3>1. Words(<<>>) = <<>>
      BY DEF Words
    <3>2. Talk!Trim(w) = <<>> /\ Talk!Trim(h) = <<>>
      BY <2>2, <2>3, <2>4, <2>5
    <3> QED
      BY <3>1, <3>2
  <2>6. CASE front # {}
    <3> DEFINE m == CHOOSE k \in front : TRUE
    <3>0. m \in front
      BY <2>6
    <3>1. m \in 1 .. Len(h)
      <4> HIDE DEF m
      <4> QED
        BY <1>0, <2>1, <3>0
    <3>2. Talk!Trim(h) = SubSeq(h, m, Len(h)) /\ Talk!Trim(w) = SubSeq(w, m, Len(h))
      BY <2>2, <2>3, <2>4, <2>6
    <3> HIDE DEF m
    <3>3. Words(SubSeq(h, m, Len(h))) = SubSeq(w, m, Len(h))
      BY <1>0, <3>1 DEF Words
    <3> QED
      BY <3>2, <3>3
  <2> QED
    BY <2>5, <2>6
<1> QED
  BY <1>1, <1>2

LEMMA AddedWords ==
  ASSUME NEW h \in Seq(Entry), NEW e \in Entry
  PROVE  Words(Talk!Trim(Append(h, e)))
           = Talk!Trim(Append(Words(h), [role |-> e.role, turn |-> e.turn]))
<1>1. Append(h, e) \in Seq(Entry)
  OBVIOUS
<1>2. Words(Append(h, e)) = Append(Words(h), [role |-> e.role, turn |-> e.turn])
  BY DEF Words
<1> QED
  BY <1>1, <1>2, TrimWords

\* A turn that is about to ask finds room: the others that think or speak belong to
\* other connections.
LEMMA RoomToAsk ==
  ASSUME IInv, ~Overlap => InTurn, NEW t \in Turns, turn[t].pc = "think"
  PROVE  Talk!Cardinality(Pending) < IF Overlap THEN NumConns ELSE 1
<1>1. Talk!Cardinality(Pending) = Cardinality(Pending)
  BY DEF Talk!Cardinality, Cardinality
<1>2. /\ Live(t) /\ t \notin Pending
      /\ \A u \in Pending : u \in Turns /\ Live(u)
  BY DEF Pending, Live
<1>3. CASE ~Overlap
  <2>1. Pending = {}
    BY <1>2, <1>3 DEF InTurn
  <2> QED
    BY <1>1, <1>3, <2>1, FS_EmptySet
<1>4. CASE Overlap
  <2> DEFINE free == Conns \ {turn[t].owner}
             f == [u \in Pending |-> turn[u].owner]
  <2>1. f \in [Pending -> free]
    BY <1>2 DEF IInv, Owned
  <2>2. IsFiniteSet(Conns) /\ Cardinality(Conns) = NumConns
    BY FS_Interval, BoundsAssumption DEF Conns
  <2>3. IsFiniteSet(free) /\ Cardinality(free) = NumConns - 1
    BY <1>2, <2>2, FS_RemoveElement DEF IInv, Owned
  <2>4. IsFiniteSet(Pending)
    <3>1. IsFiniteSet(Turns)
      BY FS_Interval, BoundsAssumption DEF Turns
    <3> QED
      BY <3>1, FS_Subset DEF Pending
  <2>5. Cardinality(Pending) \in Nat
    BY <2>4, FS_CardinalityType
  <2>6. ~(NumConns - 1 < Cardinality(Pending))
    <3> SUFFICES ASSUME NumConns - 1 < Cardinality(Pending) PROVE FALSE
      OBVIOUS
    <3> HIDE DEF f, free
    <3>1. PICK x \in Pending, y \in Pending : x # y /\ f[x] = f[y]
      BY <2>1, <2>3, <2>4, FS_PigeonHole
    <3> USE DEF f
    <3>2. turn[x].owner = turn[y].owner
      BY <3>1
    <3> QED
      BY <1>2, <3>1, <3>2 DEF IInv, Owned
  <2> QED
    BY <1>1, <1>4, <2>5, <2>6, BoundsAssumption
<1> QED
  BY <1>3, <1>4

\* A step that leaves the questions, the turns that answer and the history alone.
LEMMA TalkStutters ==
  ASSUME UNCHANGED history, Asked' = Asked, Pending' = Pending
  PROVE  UNCHANGED Talk!vars
  BY DEF Talk!vars, Asked, Pending

LEMMA StepTalks ==
  ASSUME IInv, Told, ~Overlap => InTurn, NEW t \in Turns, Step(t)
  PROVE  [Talk!Next]_(Talk!vars)
<1>0. Live(t)
  BY StepIsTyped DEF IInv, StepTyped
<1>1. turn[t].owner \in Conns /\ Sound(turn[t], Hears(t))
  BY <1>0, LiveIsBorn DEF Live
<1>2. PICK r : Goes(t, r)
  BY <1>1, StepGoes DEF IInv
<1>3. /\ \A u \in Turns : turn'[u] = IF u = t THEN r ELSE turn[u]
      /\ Recorded(t, r) /\ Sound(r, Hears(t))
  BY <1>2 DEF Goes, IInv, TypeOK
<1>4. /\ Asked' = {u \in Turns : IF u = t THEN r.asked ELSE u \in Asked}
      /\ Pending' = {u \in Turns : IF u = t THEN Owes(r) ELSE u \in Pending}
      /\ (t \in Asked <=> turn[t].asked) /\ (t \in Pending <=> Owes(turn[t]))
      /\ Asked \subseteq Turns /\ Pending \subseteq Turns
  BY <1>3 DEF Asked, Pending, Owes, Speaking
<1>5. history \in Seq(Entry) /\ t \in Talk!Turns
  BY DEF IInv, TypeOK, Talk!Turns, Turns
<1>6. CASE turn[t].pc = "think" /\ r.pc = "recall" /\ r.asked /\ r.said = 0 /\ AddUser(t)
  <2> DEFINE e == [role |-> "user", turn |-> t, pieces |-> 0]
  <2>1. e \in Entry /\ e.role = "user" /\ e.turn = t
    BY BoundsAssumption DEF Entry
  <2>2. history' = Talk!Trim(Append(history, e))
    BY <1>6 DEF AddUser
  <2> HIDE DEF e
  <2>3. Words(history') = Talk!Trim(Append(Words(history), [role |-> "user", turn |-> t]))
    BY <1>5, <2>1, <2>2, AddedWords
  <2>4. t \notin Asked /\ Asked' = Asked \cup {t} /\ Pending' = Pending \cup {t}
    BY <1>1, <1>4, <1>6 DEF Owes, Sound, Early
  <2>5. Talk!Cardinality(Pending) < IF Overlap THEN NumConns ELSE 1
    BY <1>6, RoomToAsk
  <2>6. Talk!Ask(t)
    BY <2>3, <2>4, <2>5 DEF Talk!Ask, Talk!Added, Words, Asked, Pending
  <2> QED
    BY <1>5, <2>6 DEF Talk!Next
<1>7. CASE /\ Owes(turn[t]) /\ ~Owes(r) /\ r.asked /\ r.pc \notin Speaking
           /\ r.said = turn[t].said
           /\ IF turn[t].pc = "recall" THEN UNCHANGED history ELSE AddReply(t)
  <2>1. t \in Pending /\ Pending' = Pending \ {t} /\ Asked' = Asked
    BY <1>4, <1>7 DEF Owes
  <2>2. CASE UNCHANGED history
    <3>1. Talk!Drop(t)
      BY <2>1, <2>2 DEF Talk!Drop, Asked, Pending
    <3> QED
      BY <1>5, <3>1 DEF Talk!Next
  <2>3. CASE ~UNCHANGED history
    <3> DEFINE e == [role |-> "assistant", turn |-> t, pieces |-> turn[t].said]
    <3>1. e \in Entry /\ e.role = "assistant" /\ e.turn = t
      BY DEF Entry, IInv, TypeOK, TurnState
    <3>2. history' = Talk!Trim(Append(history, e))
      BY <1>7, <2>3 DEF AddReply
    <3> HIDE DEF e
    <3>3. Words(history')
            = Talk!Trim(Append(Words(history), [role |-> "assistant", turn |-> t]))
      BY <1>5, <3>1, <3>2, AddedWords
    <3>4. Talk!Reply(t)
      BY <2>1, <3>3 DEF Talk!Reply, Talk!Added, Words, Asked, Pending
    <3> QED
      BY <1>5, <3>4 DEF Talk!Next
  <2> QED
    BY <2>2, <2>3
<1>8. CASE r.asked = turn[t].asked /\ (Owes(r) <=> Owes(turn[t])) /\ UNCHANGED history
  BY <1>4, <1>8, TalkStutters
<1> QED
  BY <1>3, <1>6, <1>7, <1>8 DEF Recorded

LEMMA LoopTalks ==
  ASSUME IInv, Told, NEW c \in Conns, Loop(c)
  PROVE  UNCHANGED Talk!vars
<1>1. UNCHANGED history
  BY DEF Loop, Open, Lose, Utter, BargeIn, StartTurn, Interrupt, Interrupted, Disconnect,
         Detach
<1>2. \A t \in Turns : turn'[t].asked = turn[t].asked
                       /\ (turn[t].asked => turn'[t].pc = turn[t].pc)
  <2>1. CASE Utter(c) \/ StartTurn(c)
    <3>1. Begin(c) /\ RoomForTurn /\ turns \in Nat
      BY <2>1, BoundsAssumption DEF Utter, StartTurn, IInv, TypeOK
    <3>2. turns + 1 \in Turns /\ turns + 1 > turns
      BY <3>1, BoundsAssumption DEF RoomForTurn, Turns
    <3>3. ~turn[turns + 1].asked
      BY <3>2 DEF Told, Born, AllSound, Sound, Early
    <3> DEFINE b == [Unborn EXCEPT !.pc = "new", !.owner = c]
    <3>4. ~b.asked /\ \A t \in Turns : turn'[t] = IF t = turns + 1 THEN b ELSE turn[t]
      BY <3>1, <3>2 DEF Begin, Unborn, IInv, TypeOK
    <3>5. \A t \in Turns : turn[t].asked \in BOOLEAN
      BY DEF IInv, TypeOK, TurnState
    <3> HIDE DEF b
    <3>6. b.asked \in BOOLEAN
      BY DEF b, Unborn
    <3> QED
      BY <3>3, <3>4, <3>5, <3>6
  <2>2. CASE BargeIn(c) \/ Interrupt(c) \/ Disconnect(c)
    BY <2>2, CancelSpares DEF BargeIn, Interrupt, Disconnect
  <2>3. CASE Open(c) \/ Lose(c) \/ Interrupted(c) \/ Detach(c)
    BY <2>3 DEF Open, Lose, Interrupted, Detach
  <2> QED
    BY <2>1, <2>2, <2>3 DEF Loop
<1>3. Asked' = Asked /\ Pending' = Pending
  BY <1>2 DEF Asked, Pending
<1> QED
  BY <1>1, <1>3, TalkStutters

\* The socket's turns implement the abstract conversation: each asks once, and answers
\* or gives up once, with the others kept out as far as connections exclude each other.
THEOREM TurnsTalkInTurn == Spec => TalksInTurn
<1> DEFINE Serial == ~Overlap => InTurn
<1>1. Init => Serial /\ Talk!Init
  BY DEF Init, InTurn, Unborn, Live, Talk!Init
<1>2. IInv /\ Told /\ Serial /\ [Next]_vars => Serial' /\ [Talk!Next]_(Talk!vars)
  <2> SUFFICES ASSUME IInv, Told, Serial, [Next]_vars
               PROVE  Serial' /\ [Talk!Next]_(Talk!vars)
    OBVIOUS
  <2>1. CASE UNCHANGED vars
    BY <2>1, TalkStutters DEF vars, InTurn, Live, Asked, Pending
  <2>2. ASSUME NEW t \in Turns, Step(t) PROVE Serial' /\ [Talk!Next]_(Talk!vars)
    BY <2>2, StepInTurn, StepTalks
  <2>3. ASSUME NEW c \in Conns, Loop(c) PROVE Serial' /\ [Talk!Next]_(Talk!vars)
    BY <2>3, LoopInTurn, LoopTalks
  <2> QED
    BY <2>1, <2>2, <2>3 DEF Next
<1> QED
  BY <1>1, <1>2, Telling, PTL DEF Spec, TalksInTurn, Talk!Spec

-----------------------------------------------------------------------------
(* What holds of the history by that                                       *)

\* What Conversation_proofs shows of any history with that many turns at once
Talks == INSTANCE Conversation_proofs
          WITH InFlight <- IF Overlap THEN NumConns ELSE 1,
               history <- [i \in 1 .. Len(history) |->
                             [role |-> history[i].role, turn |-> history[i].turn]],
               asked <- {t \in Turns : turn[t].asked},
               pending <- {t \in Turns : /\ turn[t].asked
                                         /\ turn[t].pc \in {"recall", "stream",
                                                            "synth", "chunk"}}

LEMMA TalkIsTalks ==
  /\ Talk!Init <=> Talks!Init
  /\ [Talk!Next]_(Talk!vars) <=> [Talks!Next]_(Talks!vars)
<1>1. Talk!Init <=> Talks!Init
  BY DEF Talk!Init, Talks!Init
<1>2. Talk!vars = Talks!vars /\ Talk!vars' = Talks!vars'
  BY DEF Talk!vars, Talks!vars
<1>3. ASSUME NEW h PROVE Talk!Trim(h) = Talks!Trim(h)
  BY Zenon DEF Talk!Trim, Talks!Trim, Talk!Cap, Talks!Cap
<1>4. ASSUME NEW r, NEW t PROVE Talk!Added(r, t) <=> Talks!Added(r, t)
  BY <1>3, Zenon DEF Talk!Added, Talks!Added
<1>5. \A S : Talk!Cardinality(S) = Talks!Cardinality(S)
  BY Zenon DEF Talk!Cardinality, Talks!Cardinality
<1>6. ASSUME NEW t \in Talk!Turns
      PROVE  /\ Talk!Ask(t) <=> Talks!Ask(t)
             /\ Talk!Reply(t) <=> Talks!Reply(t)
             /\ Talk!Drop(t) <=> Talks!Drop(t)
  BY <1>4, <1>5 DEF Talk!Ask, Talks!Ask, Talk!Reply, Talks!Reply, Talk!Drop, Talks!Drop
<1>7. Talk!Next <=> Talks!Next
  BY <1>6, Zenon DEF Talk!Next, Talks!Next, Talk!Turns, Talks!Turns
<1> QED
  BY <1>1, <1>2, <1>7

\* ... so with one connection at a time a reply always stands behind its own question.
THEOREM RepliesStandBehindTheirQuestion ==
  ASSUME ~Overlap
  PROVE  Spec => []Talk!RepliesFollowTheirQuestion
<1> DEFINE atOnce == IF Overlap THEN NumConns ELSE 1
<1>1. /\ MaxTurns \in Nat /\ HistoryTurns \in Nat /\ atOnce \in Nat \ {0}
      /\ atOnce = 1
  BY BoundsAssumption
<1>2. Talks!Spec => []Talks!RepliesFollowTheirQuestion
  BY <1>1, Talks!RepliesAreInPairs
<1>3. Talks!RepliesFollowTheirQuestion => Talk!RepliesFollowTheirQuestion
  BY DEF Talk!RepliesFollowTheirQuestion, Talks!RepliesFollowTheirQuestion
<1> QED
  BY <1>2, <1>3, TalkIsTalks, TurnsTalkInTurn, PTL DEF TalksInTurn, Talk!Spec, Talks!Spec

\* ... and what the model is asked with is within the cap and begins with the user, with
\* as many connections as the cap has entries.
THEOREM HistoryStaysReplayable ==
  ASSUME HistoryTurns = 0 \/ ~Overlap \/ NumConns <= 2 * HistoryTurns
  PROVE  Spec => []Talk!HistoryReplayable
<1> DEFINE atOnce == IF Overlap THEN NumConns ELSE 1
<1>1. /\ MaxTurns \in Nat /\ HistoryTurns \in Nat /\ atOnce \in Nat \ {0}
      /\ HistoryTurns = 0 \/ atOnce <= Talks!Cap
  BY BoundsAssumption DEF Talks!Cap
<1>2. Talks!Spec => []Talks!HistoryReplayable
  BY <1>1, Talks!HistoryIsReplayable
<1>3. Talks!HistoryReplayable => Talk!HistoryReplayable
  BY DEF Talk!HistoryReplayable, Talks!HistoryReplayable, Talk!Cap, Talks!Cap
<1> QED
  BY <1>2, <1>3, TalkIsTalks, TurnsTalkInTurn, PTL DEF TalksInTurn, Talk!Spec, Talks!Spec

-----------------------------------------------------------------------------
(* Every turn runs down                                                    *)

\* The awaits a turn may still come to, from where it is.
Ahead(s) ==
    CASE s.pc = "unborn"   -> 3 * MaxPieces + 16
      [] s.pc = "new"      -> 3 * MaxPieces + 15
      [] s.pc = "stt"      -> 3 * MaxPieces + 14
      [] s.pc = "echo"     -> 3 * MaxPieces + 13
      [] s.pc = "think"    -> 3 * MaxPieces + 12
      [] s.pc = "recall"   -> 3 * MaxPieces + 11
      [] s.pc = "synth"    -> 3 * (MaxPieces - s.said) + (IF s.ended THEN 7 ELSE 10)
      [] s.pc = "chunk"    -> 3 * (MaxPieces - s.said) + (IF s.ended THEN 6 ELSE 9)
      [] s.pc = "stream"   -> 3 * (MaxPieces - s.said) + (IF s.ended THEN 5 ELSE 8)
      [] s.pc = "save"     -> 4
      [] s.pc = "unthink"  -> 3
      [] s.pc = "complete" -> 2
      [] s.pc \in {"remember", "sorry"} -> 1
      [] s.pc = "done"     -> 0

Left(s) == 3 * Ahead(s) + (IF s.doomed THEN 1 ELSE IF s.spared THEN 0 ELSE 2)

\* A turn whose task was cancelled, or is being unwound by that.
Cancelled(s) == s.pc \notin {"unborn", "done"} /\ (s.doomed \/ s.fault = "cancel")

\* ... or that goes on because a wait_for has lost the cancellation.
Stopped(s) == Cancelled(s) \/ (s.pc \notin {"unborn", "done"} /\ s.spared)

\* The wait_for inside the stream returns an answer and loses the cancellation.
Lost(s, r) ==
    /\ SwallowsCancel /\ s.pc = "stream" /\ s.doomed
    /\ r = [s EXCEPT !.doomed = FALSE, !.spared = TRUE]

\* How often a cancelled task is resumed, at most: to record its reply, to switch
\* thinking off, and to end.
ToGo(s) ==
    CASE s.pc \in Speaking -> 3
      [] s.pc \in {"save", "recall"} -> 2
      [] OTHER -> 1

\* Whatever happens to a turn brings it nearer to its end: no exception, cancellation or
\* lost socket takes it back to an await it has left.
RunsDown == [][\A t \in Turns : turn'[t] # turn[t] => Left(turn'[t]) < Left(turn[t])]_vars

\* A cancelled turn is nowhere held up by what it was doing: it is resumed at most three
\* times until it is over, or sends the error that its own clean-up met.  Only a wait_for
\* inside its stream, where the platform's wait_for does that, can let it off; RunsDown
\* says how far such a turn can still go.
CancelledEndsSoon ==
    [][\A t \in Turns :
          Cancelled(turn[t]) /\ turn'[t] # turn[t]
            => \/ turn'[t].pc \in {"done", "sorry"}
               \/ Cancelled(turn'[t]) /\ ToGo(turn'[t]) < ToGo(turn[t])
               \/ Lost(turn[t], turn'[t])]_vars

\* A loop in cancel_current waits for a turn that was cancelled: it is on its way out, or
\* a wait_for has lost the cancellation.  No turn is cancelled that no loop waits for.
WaitsForTheCancelled ==
    /\ \A c \in Conns :
          rx[c] \in {"barge", "stop", "closing"} /\ ~Idle(c)
            => Stopped(turn[current[c]]) \/ turn[current[c]].pc = "sorry"
    /\ \A t \in Turns :
          Stopped(turn[t]) => /\ current[turn[t].owner] = t
                              /\ rx[turn[t].owner] \in {"barge", "stop", "closing"}

LEMMA AheadOf ==
  ASSUME NEW s \in TurnState
  PROVE  /\ Ahead(s) \in Nat /\ Ahead(s) >= 0
         /\ s.pc = "unborn" => Ahead(s) = 3 * MaxPieces + 16
         /\ s.pc = "new"    => Ahead(s) = 3 * MaxPieces + 15
         /\ s.pc = "stt"    => Ahead(s) = 3 * MaxPieces + 14
         /\ s.pc = "echo"   => Ahead(s) = 3 * MaxPieces + 13
         /\ s.pc = "think"  => Ahead(s) = 3 * MaxPieces + 12
         /\ s.pc = "recall" => Ahead(s) = 3 * MaxPieces + 11
         /\ s.pc = "synth"  => Ahead(s) = 3 * (MaxPieces - s.said) + (IF s.ended THEN 7 ELSE 10)
         /\ s.pc = "chunk"  => Ahead(s) = 3 * (MaxPieces - s.said) + (IF s.ended THEN 6 ELSE 9)
         /\ s.pc = "stream" => Ahead(s) = 3 * (MaxPieces - s.said) + (IF s.ended THEN 5 ELSE 8)
         /\ s.pc = "save"     => Ahead(s) = 4
         /\ s.pc = "unthink"  => Ahead(s) = 3
         /\ s.pc = "complete" => Ahead(s) = 2
         /\ s.pc \in {"remember", "sorry"} => Ahead(s) = 1
         /\ s.pc = "done" => Ahead(s) = 0
<1>1. s.pc \in PCs /\ s.said \in 0 .. MaxPieces /\ MaxPieces \in Nat
  BY BoundsAssumption DEF TurnState
<1>2. s.pc = "unborn" => Ahead(s) = 3 * MaxPieces + 16
  BY DEF Ahead
<1>3. s.pc = "new" => Ahead(s) = 3 * MaxPieces + 15
  BY DEF Ahead
<1>4. s.pc = "stt" => Ahead(s) = 3 * MaxPieces + 14
  BY DEF Ahead
<1>5. s.pc = "echo" => Ahead(s) = 3 * MaxPieces + 13
  BY DEF Ahead
<1>6. s.pc = "think" => Ahead(s) = 3 * MaxPieces + 12
  BY DEF Ahead
<1>7. s.pc = "recall" => Ahead(s) = 3 * MaxPieces + 11
  BY DEF Ahead
<1>8. s.pc = "synth" => Ahead(s) = 3 * (MaxPieces - s.said) + (IF s.ended THEN 7 ELSE 10)
  BY DEF Ahead
<1>9. s.pc = "chunk" => Ahead(s) = 3 * (MaxPieces - s.said) + (IF s.ended THEN 6 ELSE 9)
  BY DEF Ahead
<1>10. s.pc = "stream" => Ahead(s) = 3 * (MaxPieces - s.said) + (IF s.ended THEN 5 ELSE 8)
  BY DEF Ahead
<1>11. s.pc = "save" => Ahead(s) = 4
  BY DEF Ahead
<1>12. s.pc = "unthink" => Ahead(s) = 3
  BY DEF Ahead
<1>13. s.pc = "complete" => Ahead(s) = 2
  BY DEF Ahead
<1>14. s.pc = "remember" => Ahead(s) = 1
  BY DEF Ahead
<1>15. s.pc = "sorry" => Ahead(s) = 1
  BY DEF Ahead
<1>16. s.pc = "done" => Ahead(s) = 0
  BY DEF Ahead
<1>17. Ahead(s) \in Nat
  BY <1>1, <1>2, <1>3, <1>4, <1>5, <1>6, <1>7, <1>8, <1>9,
     <1>10, <1>11, <1>12, <1>13, <1>14, <1>15, <1>16 DEF PCs
<1> QED
  BY <1>2, <1>3, <1>4, <1>5, <1>6, <1>7, <1>8, <1>9,
     <1>10, <1>11, <1>12, <1>13, <1>14, <1>15, <1>16,
     <1>17

\* From s to r a turn gets nearer to its end; it is cancelled by no step of its own.
Down(s, r) ==
    /\ Ahead(r) < Ahead(s) \/ (Ahead(r) = Ahead(s) /\ Lost(s, r))
    /\ Cancelled(s) => \/ r.pc \in {"done", "sorry"}
                       \/ Cancelled(r) /\ ToGo(r) < ToGo(s)
                       \/ Lost(s, r)
    /\ s.spared => r.spared
    /\ Stopped(r) => Stopped(s)
    /\ s.pc = "sorry" => r.pc = "done"

LEMMA GoDown ==
  ASSUME NEW s \in TurnState, NEW r \in TurnState, Ahead(r) < Ahead(s),
         ~s.doomed, ~r.doomed, s.pc \notin {"sorry", "unborn", "done"},
         r.fault = s.fault, r.spared = s.spared,
         s.fault = "none" \/ (s.pc = "save" /\ r.pc = "unthink")
  PROVE  Down(s, r)
<1>1. CASE s.fault = "none"
  BY <1>1 DEF Down, Cancelled, Stopped
<1>2. CASE s.pc = "save" /\ r.pc = "unthink"
  BY <1>2 DEF Down, Cancelled, Stopped, ToGo, Speaking
<1> QED
  BY <1>1, <1>2

LEMMA EndDown ==
  ASSUME TypeOK, NEW t \in Turns, Live(t), End(t)
  PROVE  Down(turn[t], turn'[t])
<1>0. turn[t] \in TurnState
  BY DEF TypeOK
<1> DEFINE r == [turn[t] EXCEPT !.pc = "done", !.doomed = FALSE, !.fault = "none",
                                !.held = 0, !.ended = FALSE]
<1>1. r = turn'[t]
  BY DEF End, TypeOK
<1>2. r \in TurnState /\ r.pc = "done" /\ r.spared = turn[t].spared
  BY <1>0, Ranges DEF TurnState, PCs
<1> HIDE DEF r
<1>3. turn[t].pc \in PCs \ {"unborn", "done"}
  BY <1>0 DEF Live, TurnState
<1>4. Ahead(r) < Ahead(turn[t])
  <2>1. Ahead(r) = 0
    BY <1>2, AheadOf
  <2>2. Ahead(turn[t]) > 0
    <3>1. turn[t].said \in 0 .. MaxPieces /\ MaxPieces \in Nat
      BY <1>0, BoundsAssumption DEF TurnState
    <3> QED
      BY <1>3, <3>1 DEF Ahead, PCs
  <2> QED
    BY <2>1, <2>2
<1> QED
  BY <1>1, <1>2, <1>4 DEF Down, Cancelled, Stopped

\* An exception that leaves run_turn.
LEMMA LeaveTurnDown ==
  ASSUME TypeOK, NEW t \in Turns, Live(t), NEW fault \in {"cancel", "error"},
         LeaveTurn(t, fault), turn[t].doomed => fault = "cancel",
         fault = "error" => turn[t].pc \in {"stt", "echo", "think", "unthink", "complete"}
  PROVE  Down(turn[t], turn'[t])
<1>1. CASE fault = "cancel"
  BY <1>1, EndDown DEF LeaveTurn
<1>2. CASE fault = "error"
  <2> DEFINE r == [turn[t] EXCEPT !.pc = "sorry", !.fault = fault]
  <2>0. turn[t] \in TurnState
    BY DEF TypeOK
  <2>1. r = turn'[t]
    BY <1>2 DEF LeaveTurn, TypeOK
  <2>2. /\ r \in TurnState /\ r.pc = "sorry" /\ r.fault = "error"
        /\ r.doomed = turn[t].doomed /\ r.spared = turn[t].spared
    BY <2>0, <1>2 DEF TurnState, PCs
  <2> HIDE DEF r
  <2>3. Ahead(r) < Ahead(turn[t])
    BY <1>2, <2>0, <2>2, AheadOf, BoundsAssumption
  <2> QED
    BY <1>2, <2>1, <2>2, <2>3 DEF Down, Cancelled, Stopped
<1> QED
  BY <1>1, <1>2

\* An exception that leaves a turn with its clean-up to do.
LEMMA CleanUpDown ==
  ASSUME TypeOK, NEW t \in Turns, NEW at \in {"save", "unthink"},
         NEW fault \in {"none", "cancel", "error"},
         turn' = [turn EXCEPT ![t].pc = at, ![t].doomed = FALSE, ![t].fault = fault],
         turn[t].pc \in Speaking \/ (turn[t].pc \in {"recall", "save"} /\ at = "unthink"),
         turn[t].doomed <=> fault = "cancel",
         turn[t].fault = "cancel" => fault = "cancel"
  PROVE  Down(turn[t], turn'[t])
<1> DEFINE r == [turn[t] EXCEPT !.pc = at, !.doomed = FALSE, !.fault = fault]
<1>0. turn[t] \in TurnState /\ turn[t].said \in 0 .. MaxPieces /\ MaxPieces \in Nat
  BY BoundsAssumption DEF TypeOK, TurnState
<1>1. r = turn'[t]
  BY DEF TypeOK
<1>2. /\ r \in TurnState /\ r.pc = at /\ r.fault = fault /\ ~r.doomed
      /\ r.spared = turn[t].spared
  BY <1>0 DEF TurnState, PCs
<1> HIDE DEF r
<1>3. Ahead(r) < Ahead(turn[t])
  BY <1>0, <1>2, AheadOf DEF Speaking
<1>4. Cancelled(r) <=> fault = "cancel"
  BY <1>2 DEF Cancelled
<1>5. ToGo(r) < ToGo(turn[t])
  BY <1>2 DEF ToGo, Speaking
<1>6. Cancelled(turn[t]) <=> fault = "cancel"
  BY DEF Cancelled, Speaking
<1>7. turn[t].pc \notin {"sorry", "unborn", "done"}
  BY DEF Speaking
<1> QED
  BY <1>1, <1>2, <1>3, <1>4, <1>5, <1>6, <1>7 DEF Down, Stopped

LEMMA RaiseDown ==
  ASSUME TypeOK, NEW t \in Turns, Live(t), Sound(turn[t], Hears(t)),
         NEW fault \in {"cancel", "error"}, Raise(t, fault),
         turn[t].doomed <=> fault = "cancel",
         fault = "error" => turn[t].pc \in CallPoints \cup SendPoints
  PROVE  Down(turn[t], turn'[t])
<1>1. CASE turn[t].pc \in Speaking
  <2>1. turn[t].fault = "none" /\ LeaveSpeaking(t, fault)
    BY <1>1 DEF Raise, Sound, Speaking
  <2> QED
    BY <1>1, <2>1, CleanUpDown DEF LeaveSpeaking
<1>2. CASE turn[t].pc \in {"recall", "save"}
  <2>1. turn' = [turn EXCEPT ![t].pc = "unthink", ![t].doomed = FALSE, ![t].fault = fault]
    BY <1>2 DEF Raise
  <2>2. turn[t].fault = "cancel" => fault = "cancel"
    BY <1>2 DEF Sound, CallPoints, SendPoints
  <2> QED
    BY <1>2, <2>1, <2>2, CleanUpDown
<1>3. CASE turn[t].pc \notin Speaking \cup {"recall", "save"}
  <2>1. LeaveTurn(t, fault)
    BY <1>3 DEF Raise, Speaking
  <2>2. fault = "error" => turn[t].pc \in {"stt", "echo", "think", "unthink", "complete"}
    BY <1>3 DEF CallPoints, SendPoints, Speaking
  <2> QED
    BY <2>1, <2>2, LeaveTurnDown
<1> QED
  BY <1>1, <1>2, <1>3

LEMMA GoStepDown ==
  ASSUME TypeOK, NEW t \in Turns, Sound(turn[t], Hears(t)), NEW at \in PCs, Go(t, at),
         ~turn[t].doomed,
         \/ turn[t].pc = "new" /\ at \in {"stt", "echo"}
         \/ turn[t].pc = "echo" /\ at = "think"
         \/ turn[t].pc = "think" /\ at = "stream"
         \/ turn[t].pc = "recall" /\ at = "stream"
         \/ turn[t].pc = "synth" /\ at = "chunk"
         \/ turn[t].pc = "save" /\ at = "unthink"
         \/ turn[t].pc = "unthink" /\ at = "complete" /\ turn[t].fault = "none"
         \/ turn[t].pc = "complete" /\ at = "remember"
  PROVE  Down(turn[t], turn'[t])
<1> DEFINE r == [turn[t] EXCEPT !.pc = at]
<1>0. turn[t] \in TurnState /\ turn[t].said \in 0 .. MaxPieces /\ MaxPieces \in Nat
  BY BoundsAssumption DEF TypeOK, TurnState
<1>1. r = turn'[t]
  BY DEF Go, TypeOK
<1>2. /\ r \in TurnState /\ r.pc = at /\ r.fault = turn[t].fault
      /\ r.doomed = turn[t].doomed /\ r.said = turn[t].said /\ r.ended = turn[t].ended
      /\ r.spared = turn[t].spared
  BY <1>0 DEF TurnState
<1> HIDE DEF r
<1>3. Ahead(r) < Ahead(turn[t])
  BY <1>0, <1>2, AheadOf
<1>4. turn[t].fault = "none" \/ (turn[t].pc = "save" /\ r.pc = "unthink")
  BY <1>2 DEF Sound
<1> QED
  BY <1>0, <1>1, <1>2, <1>3, <1>4, GoDown

\* Every step of a turn is a step down.
LEMMA StepDown ==
  ASSUME IInv, Told, NEW t \in Turns, Step(t)
  PROVE  Down(turn[t], turn'[t])
<1> DEFINE s == turn[t]
<1>0. /\ s \in TurnState /\ s.said \in 0 .. MaxPieces /\ MaxPieces \in Nat /\ TypeOK
      /\ s.ended \in BOOLEAN
  BY BoundsAssumption DEF IInv, TypeOK, TurnState
<1>1. Live(t) /\ Sound(s, Hears(t))
  BY StepIsTyped, LiveIsBorn DEF IInv, StepTyped, Live
<1>2. CASE Start(t)
  BY <1>0, <1>1, <1>2, GoStepDown DEF Start, Runs, PCs
<1>3. CASE Transcribe(t)
  <2>1. PICK nothing \in BOOLEAN :
          turn' = [turn EXCEPT ![t].pc = "echo", ![t].silent = nothing]
    BY <1>3 DEF Transcribe
  <2> DEFINE r == [s EXCEPT !.pc = "echo", !.silent = nothing]
  <2>2. r = turn'[t]
    BY <1>0, <2>1 DEF TypeOK
  <2>3. r \in TurnState /\ r.pc = "echo" /\ r.fault = s.fault /\ r.doomed = s.doomed /\ r.spared = s.spared
    BY <1>0 DEF TurnState, PCs
  <2>4. s.pc = "stt" /\ ~s.doomed /\ s.fault = "none"
    BY <1>1, <1>3 DEF Transcribe, Runs, Sound
  <2> HIDE DEF r
  <2>5. Ahead(r) < Ahead(s)
    BY <1>0, <2>3, <2>4, AheadOf
  <2> QED
    BY <1>0, <2>2, <2>3, <2>4, <2>5, GoDown
<1>4. CASE Think(t)
  BY <1>0, <1>1, <1>4, GoStepDown DEF Think, Runs, PCs
<1>5. CASE Respond(t)
  <2>1. CASE s.silent
    BY <1>0, <1>1, <1>5, <2>1, GoStepDown DEF Respond, Runs, PCs
  <2>2. CASE ~s.silent
    <3> DEFINE r == [s EXCEPT !.pc = "recall", !.asked = TRUE]
    <3>1. r = turn'[t]
      BY <1>0, <1>5, <2>2 DEF Respond, TypeOK
    <3>2. r \in TurnState /\ r.pc = "recall" /\ r.fault = s.fault /\ r.doomed = s.doomed /\ r.spared = s.spared
      BY <1>0 DEF TurnState, PCs
    <3>3. s.pc = "think" /\ ~s.doomed /\ s.fault = "none"
      BY <1>1, <1>5 DEF Respond, Runs, Sound
    <3> HIDE DEF r
    <3>4. Ahead(r) < Ahead(s)
      BY <1>0, <3>2, <3>3, AheadOf
    <3> QED
      BY <1>0, <3>1, <3>2, <3>3, <3>4, GoDown
  <2> QED
    BY <2>1, <2>2
<1>6. CASE Recall(t)
  BY <1>0, <1>1, <1>6, GoStepDown DEF Recall, Runs, PCs
<1>7. CASE Token(t)
  <2>1. PICK at \in {"stream", "synth"} :
          turn' = [turn EXCEPT ![t].pc = at, ![t].said = @ + 1, ![t].held = @ + 1]
    BY <1>7 DEF Token
  <2> DEFINE r == [s EXCEPT !.pc = at, !.said = @ + 1, !.held = @ + 1]
  <2>2. r = turn'[t]
    BY <1>0, <2>1 DEF TypeOK
  <2>3. s.pc = "stream" /\ ~s.doomed /\ ~s.ended /\ s.said < MaxPieces /\ s.fault = "none"
    BY <1>1, <1>7 DEF Token, Runs, Sound
  <2>4. /\ r.pc = at /\ r.fault = s.fault /\ r.doomed = s.doomed /\ r.spared = s.spared
        /\ r.said = s.said + 1 /\ r.ended = s.ended
    BY <1>0 DEF TurnState
  <2>5. turn'[t] \in TurnState
    BY StepSound DEF IInv, TypeOK
  <2> HIDE DEF r
  <2>6. Ahead(r) < Ahead(s)
    BY <1>0, <2>2, <2>3, <2>4, <2>5, AheadOf
  <2> QED
    BY <1>0, <2>2, <2>3, <2>4, <2>5, <2>6, GoDown
<1>8. CASE EndOfStream(t)
  <2> DEFINE at == IF s.held > 0 THEN "synth" ELSE "stream"
             r == [s EXCEPT !.ended = TRUE, !.pc = at]
  <2>1. r = turn'[t]
    BY <1>0, <1>8 DEF EndOfStream, TypeOK
  <2>2. s.pc = "stream" /\ ~s.doomed /\ ~s.ended /\ s.fault = "none"
    BY <1>1, <1>8 DEF EndOfStream, Runs, Sound
  <2>3. at \in {"stream", "synth"}
    OBVIOUS
  <2> HIDE DEF at
  <2>4. /\ r \in TurnState /\ r.pc = at /\ r.fault = s.fault /\ r.doomed = s.doomed /\ r.spared = s.spared
        /\ r.said = s.said /\ r.ended
    BY <1>0, <2>3 DEF TurnState, PCs
  <2> HIDE DEF r
  <2>5. Ahead(r) < Ahead(s)
    BY <1>0, <2>2, <2>3, <2>4, AheadOf
  <2> QED
    BY <1>0, <2>1, <2>2, <2>4, <2>5, GoDown
<1>9. CASE AudioChunk(t)
  BY <1>0, <1>1, <1>9, GoStepDown DEF AudioChunk, Runs, PCs
<1>10. CASE AudioBytes(t)
  <2> DEFINE v == IF sock[s.owner] = "open" THEN s.said ELSE s.voiced
             r == [s EXCEPT !.pc = "stream", !.held = 0, !.voiced = v]
  <2>1. r = turn'[t]
    BY <1>0, <1>10 DEF AudioBytes, TypeOK
  <2>2. s.pc = "chunk" /\ ~s.doomed /\ s.fault = "none"
    BY <1>1, <1>10 DEF AudioBytes, Runs, Sound
  <2> HIDE DEF v
  <2>3. /\ r.pc = "stream" /\ r.fault = s.fault /\ r.doomed = s.doomed /\ r.spared = s.spared
        /\ r.said = s.said /\ r.ended = s.ended
    BY <1>0 DEF TurnState
  <2>4. turn'[t] \in TurnState
    BY StepSound DEF IInv, TypeOK
  <2> HIDE DEF r
  <2>5. Ahead(r) < Ahead(s)
    BY <1>0, <2>1, <2>2, <2>3, <2>4, AheadOf
  <2> QED
    BY <1>0, <2>1, <2>2, <2>3, <2>4, <2>5, GoDown
<1>11. CASE Spoken(t)
  <2>1. s.pc = "stream" /\ ~s.doomed /\ s.fault = "none" /\ LeaveSpeaking(t, "none")
    BY <1>1, <1>11 DEF Spoken, Runs, Sound
  <2> QED
    BY <1>0, <2>1, CleanUpDown DEF LeaveSpeaking, Speaking
<1>12. CASE Unthink(t)
  BY <1>0, <1>1, <1>12, GoStepDown DEF Unthink, Runs, PCs
<1>13. CASE Complete(t)
  <2>1. CASE s.fault = "none"
    BY <1>0, <1>1, <1>13, <2>1, GoStepDown DEF Complete, Runs, PCs
  <2>2. CASE s.fault # "none"
    <3>1. s.fault \in {"cancel", "error"} /\ LeaveTurn(t, s.fault) /\ ~s.doomed
          /\ s.pc = "unthink"
      BY <1>0, <1>13, <2>2 DEF Complete, Runs, TurnState
    <3> QED
      BY <1>0, <1>1, <3>1, LeaveTurnDown
  <2> QED
    BY <2>1, <2>2
<1>14. CASE Remember(t)
  <2>1. CASE ~s.silent /\ s.said > 0
    BY <1>0, <1>1, <1>14, <2>1, GoStepDown DEF Remember, Runs, PCs
  <2>2. CASE ~(~s.silent /\ s.said > 0)
    BY <1>0, <1>1, <1>14, <2>2, EndDown DEF Remember
  <2> QED
    BY <2>1, <2>2
<1>15. CASE Finish(t)
  BY <1>0, <1>1, <1>15, EndDown DEF Finish
<1>16. CASE Unwind(t)
  BY <1>0, <1>1, <1>16, RaiseDown DEF Unwind
<1>17. CASE Fail(t)
  <2>1. /\ ~s.doomed /\ Raise(t, "error") /\ s.pc \in CallPoints \cup SendPoints
    BY <1>17 DEF Fail
  <2> QED
    BY <1>0, <1>1, <2>1, RaiseDown
<1>18. CASE Spare(t)
  <2> DEFINE r == [s EXCEPT !.doomed = FALSE, !.spared = TRUE]
  <2>1. r = turn'[t] /\ s.pc = "stream" /\ s.doomed /\ SwallowsCancel
    BY <1>0, <1>18 DEF Spare, TypeOK
  <2>2. /\ r \in TurnState /\ r.spared /\ r.pc = s.pc /\ r.said = s.said
        /\ r.ended = s.ended
    BY <1>0 DEF TurnState
  <2>3. Lost(s, r)
    BY <2>1 DEF Lost
  <2> HIDE DEF r
  <2>4. Ahead(r) = Ahead(s)
    BY <1>0, <2>1, <2>2, AheadOf
  <2>5. Stopped(s)
    BY <2>1 DEF Stopped, Cancelled
  <2> QED
    BY <2>1, <2>2, <2>3, <2>4, <2>5 DEF Down
<1> QED
  BY <1>2, <1>3, <1>4, <1>5, <1>6, <1>7, <1>8, <1>9, <1>10, <1>11, <1>12, <1>13,
     <1>14, <1>15, <1>16, <1>17, <1>18 DEF Step

\* What makes WaitsForTheCancelled inductive: a loop's current turn is one it began.
Begun ==
    \A c \in Conns : current[c] # NoTurn => /\ current[c] <= turns
                                            /\ turn[current[c]].owner = c

WaitInv == WaitsForTheCancelled /\ Begun

\* Only the record of t moves in a step of t, and downwards.
LEMMA StepWaits ==
  ASSUME IInv, Told, WaitInv, NEW t \in Turns, Step(t)
  PROVE  WaitInv'
<1>1. Live(t) /\ UNCHANGED OfTurn /\ Down(turn[t], turn'[t])
  BY StepIsTyped, StepDown DEF IInv, StepTyped
<1>2. \A u \in Turns : /\ turn'[u].owner = turn[u].owner
                       /\ u # t => turn'[u] = turn[u]
  BY StepIsTyped DEF IInv, StepTyped, Moved, TypeOK
<1>3. rx' = rx /\ current' = current /\ turns' = turns
  BY <1>1 DEF OfTurn
<1>4. \A c \in Conns : current[c] # NoTurn => current[c] \in Turns
  BY DEF IInv, TypeOK
<1>5. Begun'
  BY <1>2, <1>3, <1>4 DEF WaitInv, Begun
<1>6. \A u \in Turns : Stopped(turn'[u]) => Stopped(turn[u])
  BY <1>1, <1>2 DEF Down
<1>7. ASSUME NEW c \in Conns, rx[c] \in {"barge", "stop", "closing"}, ~Idle(c)'
      PROVE  Stopped(turn'[current[c]]) \/ turn'[current[c]].pc = "sorry"
  <2>1. current[c] \in Turns /\ Live(current[c])'
    BY <1>3, <1>4, <1>7 DEF Idle
  <2>2. CASE current[c] = t
    <3>1. Stopped(turn[t]) \/ turn[t].pc = "sorry"
      <4>1. ~Idle(c)
        BY <1>1, <1>3, <1>7, <2>2 DEF Idle
      <4> QED
        BY <1>7, <2>2, <4>1 DEF WaitInv, WaitsForTheCancelled
    <3>2. turn'[t].pc # "done"
      BY <1>3, <2>1, <2>2 DEF Live
    <3>3. turn'[t].pc # "unborn"
      BY <1>3, <2>1, <2>2 DEF Live
    <3>4. Lost(turn[t], turn'[t]) => turn'[t].spared
      BY DEF Lost, IInv, TypeOK, TurnState
    <3> QED
      BY <1>1, <2>2, <3>1, <3>2, <3>3, <3>4 DEF Down, Stopped
  <2>3. CASE current[c] # t
    <3>1. turn'[current[c]] = turn[current[c]] /\ ~Idle(c)
      BY <1>2, <1>3, <1>7, <2>1, <2>3 DEF Idle, Live
    <3> QED
      BY <1>7, <3>1 DEF WaitInv, WaitsForTheCancelled
  <2> QED
    BY <2>2, <2>3
<1>8. WaitsForTheCancelled'
  BY <1>2, <1>3, <1>6, <1>7 DEF WaitInv, WaitsForTheCancelled
<1> QED
  BY <1>5, <1>8 DEF WaitInv

\* A turn that is cancelled is cancelled by the loop that goes on to wait for it.
LEMMA CancelWaits ==
  ASSUME IInv, WaitInv, NEW c \in Conns, Receiving(c), Cancel(c),
         NEW at \in {"barge", "stop", "closing"}, rx' = [rx EXCEPT ![c] = at],
         UNCHANGED <<current, turns>>
  PROVE  WaitInv'
<1> DEFINE n == current[c]
<1>1. \A d \in Conns : rx'[d] = IF d = c THEN at ELSE rx[d]
  BY DEF IInv, TypeOK
<1>2. \A t \in Turns : /\ turn'[t].pc = turn[t].pc /\ turn'[t].owner = turn[t].owner
                       /\ turn'[t].fault = turn[t].fault
  BY CancelSpares
<1>3. \A t \in Turns : t # n \/ Idle(c) => turn'[t] = turn[t]
  BY DEF Cancel, IInv, TypeOK
<1>4. ~Idle(c) => /\ n \in Turns /\ turn'[n].doomed /\ Live(n) /\ turn[n].owner = c
  <2> SUFFICES ASSUME ~Idle(c) PROVE n \in Turns /\ turn'[n].doomed /\ Live(n) /\ turn[n].owner = c
    OBVIOUS
  <2>1. n \in Turns /\ n # NoTurn /\ Live(n)
    BY DEF Idle, IInv, TypeOK
  <2>2. turn'[n] = [turn[n] EXCEPT !.doomed = TRUE] /\ turn[n] \in TurnState
    BY <2>1 DEF Cancel, IInv, TypeOK
  <2> QED
    BY <2>1, <2>2 DEF TurnState, WaitInv, Begun
<1>5. \A d \in Conns : current[d] # NoTurn => current[d] \in Turns
  BY DEF IInv, TypeOK
<1>6. Begun'
  BY <1>2, <1>5 DEF WaitInv, Begun
<1>7. \A d \in Conns : Idle(d)' <=> Idle(d)
  BY <1>2, <1>5 DEF Idle, Live
<1>8. ASSUME NEW d \in Conns, rx'[d] \in {"barge", "stop", "closing"}, ~Idle(d)
      PROVE  Stopped(turn'[current[d]]) \/ turn'[current[d]].pc = "sorry"
  <2>1. CASE d = c
    BY <1>2, <1>4, <1>8, <2>1 DEF Stopped, Cancelled, Live
  <2>2. CASE d # c
    <3>1. current[d] \in Turns /\ turn[current[d]].owner = d
      BY <1>5, <1>8 DEF Idle, WaitInv, Begun
    <3>2. turn'[current[d]] = turn[current[d]]
      BY <1>3, <1>4, <2>2, <3>1
    <3> QED
      BY <1>1, <1>8, <2>2, <3>2 DEF WaitInv, WaitsForTheCancelled
  <2> QED
    BY <2>1, <2>2
<1>9. ASSUME NEW t \in Turns, Stopped(turn'[t])
      PROVE  current[turn'[t].owner] = t /\ rx'[turn'[t].owner] \in {"barge", "stop", "closing"}
  <2>1. CASE t = n /\ ~Idle(c)
    BY <1>1, <1>2, <1>4, <2>1
  <2>2. CASE ~(t = n /\ ~Idle(c))
    <3>1. turn'[t] = turn[t]
      BY <1>3, <2>2
    <3>2. /\ current[turn[t].owner] = t
          /\ rx[turn[t].owner] \in {"barge", "stop", "closing"}
      BY <1>9, <3>1 DEF WaitInv, WaitsForTheCancelled
    <3>3. turn[t].owner \in Conns
      BY <1>9, <3>1 DEF IInv, Owned, Stopped, Cancelled, Live
    <3> QED
      BY <1>1, <3>1, <3>2, <3>3
  <2> QED
    BY <2>1, <2>2
<1> QED
  BY <1>6, <1>7, <1>8, <1>9 DEF WaitInv, WaitsForTheCancelled

\* A connection that is idle waits for nothing that was cancelled.
LEMMA IdleWaits ==
  ASSUME IInv, Told, WaitInv, NEW c \in Conns, Idle(c),
         \/ /\ Begin(c) /\ RoomForTurn
            /\ rx' \in {rx, [rx EXCEPT ![c] = "receive"]} /\ rx'[c] = "receive"
         \/ /\ current' = [current EXCEPT ![c] = NoTurn]
            /\ rx' \in {[rx EXCEPT ![c] = "receive"], [rx EXCEPT ![c] = "done"]}
            /\ UNCHANGED <<turn, turns>>
  PROVE  WaitInv'
<1> DEFINE n == turns + 1
<1>1. \A d \in Conns : current[d] # NoTurn => /\ current[d] \in Turns /\ current[d] <= turns
                                              /\ current[d] # n
  BY BoundsAssumption DEF WaitInv, Begun, IInv, TypeOK, Turns
<1>2. \A d \in Conns : d # c => rx'[d] = rx[d] /\ current'[d] = current[d]
  BY DEF Begin, IInv, TypeOK
<1>3. rx'[c] \notin {"barge", "stop", "closing"}
  BY DEF IInv, TypeOK
<1>4. \A t \in Turns : t <= turns => turn'[t] = turn[t]
  BY BoundsAssumption DEF Begin, IInv, TypeOK, Turns
<1>5. /\ turns <= turns'
      /\ current'[c] # NoTurn =>
            /\ current'[c] = n /\ n <= turns' /\ turn'[n].owner = c
            /\ ~Stopped(turn'[n])
  <2>1. CASE Begin(c) /\ RoomForTurn
    <3>1. n \in Turns /\ turns \in Nat
      BY <2>1, BoundsAssumption DEF RoomForTurn, IInv, TypeOK, Turns
    <3> DEFINE b == [Unborn EXCEPT !.pc = "new", !.owner = c]
    <3>2. turn'[n] = b
      BY <2>1, <3>1 DEF Begin, IInv, TypeOK
    <3>3. ~b.doomed /\ ~b.spared /\ b.fault = "none" /\ b.owner = c
      <4>1. ASSUME NEW s \in TurnState, NEW e, e = [s EXCEPT !.pc = "new", !.owner = c]
            PROVE  /\ e.owner = c /\ e.doomed = s.doomed /\ e.fault = s.fault
                   /\ e.spared = s.spared
        BY <4>1 DEF TurnState
      <4>2. /\ Unborn \in TurnState /\ ~Unborn.doomed /\ ~Unborn.spared
            /\ Unborn.fault = "none"
        BY BoundsAssumption DEF Unborn, TurnState, PCs
      <4> QED
        BY <4>1, <4>2
    <3> HIDE DEF b
    <3>4. current'[c] = n /\ turns' = n
      BY <2>1 DEF Begin, IInv, TypeOK
    <3> QED
      BY <3>1, <3>2, <3>3, <3>4 DEF Stopped, Cancelled
  <2>2. CASE /\ current' = [current EXCEPT ![c] = NoTurn]
             /\ UNCHANGED <<turn, turns>>
    <3>1. current'[c] = NoTurn /\ turns' = turns /\ turns \in Nat
      BY <2>2 DEF IInv, TypeOK
    <3> QED
      BY <3>1
  <2> QED
    BY <2>1, <2>2
<1>6. Begun'
  <2> SUFFICES ASSUME NEW d \in Conns, current'[d] # NoTurn
               PROVE  current'[d] <= turns' /\ turn'[current'[d]].owner = d
    BY DEF Begun
  <2>1. CASE d = c
    BY <1>5, <2>1
  <2>2. CASE d # c
    <3>1. current[d] \in Nat /\ turns \in Nat /\ turns' \in Nat
      BY <1>1, <1>2, <2>2 DEF IInv, TypeOK, Turns, Begin
    <3> QED
      BY <1>1, <1>2, <1>4, <1>5, <2>2, <3>1 DEF WaitInv, Begun
  <2> QED
    BY <2>1, <2>2
<1>7. ASSUME NEW d \in Conns, rx'[d] \in {"barge", "stop", "closing"}, ~Idle(d)'
      PROVE  Stopped(turn'[current'[d]]) \/ turn'[current'[d]].pc = "sorry"
  <2>1. d # c /\ current'[d] # NoTurn
    BY <1>3, <1>7 DEF Idle
  <2>2. turn'[current[d]] = turn[current[d]] /\ current'[d] = current[d] /\ rx'[d] = rx[d]
    BY <1>1, <1>2, <1>4, <2>1
  <2>3. ~Idle(d)
    BY <1>7, <2>2 DEF Idle, Live
  <2> QED
    BY <1>7, <2>2, <2>3 DEF WaitInv, WaitsForTheCancelled
<1>8. ASSUME NEW t \in Turns, Stopped(turn'[t])
      PROVE  /\ current'[turn'[t].owner] = t
             /\ rx'[turn'[t].owner] \in {"barge", "stop", "closing"}
  <2>1. turn'[t] = turn[t]
    <3>1. CASE Begin(c) /\ RoomForTurn
      <4>1. current'[c] = n /\ n # NoTurn
        BY <3>1, BoundsAssumption DEF Begin, IInv, TypeOK, NoTurn
      <4>2. t # n
        BY <1>5, <1>8, <4>1
      <4> QED
        BY <3>1, <4>2 DEF Begin, IInv, TypeOK
    <3>2. CASE UNCHANGED turn
      BY <3>2
    <3> QED
      BY <3>1, <3>2
  <2>2. Stopped(turn[t]) /\ Live(t)
    BY <1>8, <2>1 DEF Stopped, Cancelled, Live
  <2>3. turn[t].owner \in Conns /\ turn[t].owner # c
    BY <2>2, IdleOwnsNothing DEF IInv, Owned
  <2> QED
    BY <1>2, <2>1, <2>2, <2>3 DEF WaitInv, WaitsForTheCancelled
<1> QED
  BY <1>6, <1>7, <1>8 DEF WaitInv, WaitsForTheCancelled

LEMMA LoopWaits ==
  ASSUME IInv, Told, WaitInv, NEW c \in Conns, Loop(c)
  PROVE  WaitInv'
<1>1. CASE Open(c)
  <2>1. /\ \A d \in Conns : d # c => rx'[d] = rx[d]
        /\ rx'[c] = "receive" /\ rx[c] = "off"
        /\ UNCHANGED <<current, turns, turn>>
    BY <1>1 DEF Open, IInv, TypeOK, Told, Doors
  <2>2. \A d \in Conns : Idle(d)' <=> Idle(d)
    BY <2>1 DEF Idle, Live
  <2>3. \A t \in Turns : Stopped(turn[t]) => turn[t].owner \in Conns \ {c}
    BY <2>1 DEF Stopped, Cancelled, IInv, Owned, Live
  <2> QED
    BY <2>1, <2>2, <2>3 DEF WaitInv, WaitsForTheCancelled, Begun
<1>2. CASE Lose(c)
  BY <1>2 DEF Lose, WaitInv, WaitsForTheCancelled, Begun, Idle, Live
<1>3. CASE Utter(c) \/ StartTurn(c)
  BY <1>3, IdleWaits DEF Utter, StartTurn, Receiving, IInv, TypeOK
<1>4. CASE Interrupted(c) \/ Detach(c)
  BY <1>4, IdleWaits DEF Interrupted, Detach
<1>5. CASE BargeIn(c)
  BY <1>5, CancelWaits DEF BargeIn
<1>6. CASE Interrupt(c)
  BY <1>6, CancelWaits DEF Interrupt
<1>7. CASE Disconnect(c)
  BY <1>7, CancelWaits DEF Disconnect
<1> QED
  BY <1>1, <1>2, <1>3, <1>4, <1>5, <1>6, <1>7 DEF Loop

\* The invariant, of every behaviour.
THEOREM Waiting == Spec => []WaitInv
<1>1. Init => WaitInv
  BY DEF Init, WaitInv, WaitsForTheCancelled, Begun, Stopped, Cancelled, Unborn
<1>2. IInv /\ Told /\ WaitInv /\ [Next]_vars => WaitInv'
  <2> SUFFICES ASSUME IInv, Told, WaitInv, [Next]_vars PROVE WaitInv'
    OBVIOUS
  <2>1. CASE UNCHANGED vars
    BY <2>1 DEF vars, WaitInv, WaitsForTheCancelled, Begun, Idle, Live
  <2>2. ASSUME NEW t \in Turns, Step(t) PROVE WaitInv'
    BY <2>2, StepWaits
  <2>3. ASSUME NEW c \in Conns, Loop(c) PROVE WaitInv'
    BY <2>3, LoopWaits
  <2> QED
    BY <2>1, <2>2, <2>3 DEF Next
<1> QED
  BY <1>1, <1>2, Telling, PTL DEF Spec

\* cancel_current is never left waiting for a turn that was not told to stop, and nothing
\* but the loop of its own connection tells a turn to stop.
THEOREM LoopsWaitForTheCancelled == Spec => []WaitsForTheCancelled
<1>1. WaitInv => WaitsForTheCancelled
  BY DEF WaitInv
<1> QED
  BY <1>1, Waiting, PTL

\* cancel_current: an interrupted turn has one frame left, thinking(False), unless a
\* wait_for has lost its cancellation.
THEOREM CancelledTurnIsSilent == Spec => InterruptedTurnFallsSilent
<1> DEFINE Silent == \A c \in Conns :
                       LET t == last'[c].turn
                       IN  last'[c] # last[c] /\ rx[c] \in {"barge", "stop", "closing"}
                                             /\ ~turn[t].spared
                             => last'[c].kind = "unthink"
<1>1. IInv /\ Told /\ WaitInv /\ [Next]_vars => [Silent]_vars
  <2> SUFFICES ASSUME IInv, Told, WaitInv, [Next]_vars, NEW c \in Conns, last'[c] # last[c],
                      rx[c] \in {"barge", "stop", "closing"}, ~turn[last'[c].turn].spared
               PROVE  last'[c].kind = "unthink"
    OBVIOUS
  <2>1. PICK t \in Turns : \E r : \E kind \in FrameKinds, piece \in 0 .. MaxPieces :
          /\ turn[t].owner = c /\ Live(t) /\ turn[t].pc # "sorry"
          /\ last'[c] = [kind |-> kind, turn |-> t, piece |-> piece]
          /\ Fits(t, r, kind, piece)
    BY FramesComeFromTurns
  <2>2. current[c] = t /\ ~Idle(c)
    BY <2>1, BoundsAssumption DEF IInv, Owned, Idle, Turns, NoTurn
  <2>3. last'[c].turn = t /\ ~turn[t].spared
    BY <2>1
  <2>4. Cancelled(turn[t])
    BY <2>1, <2>2, <2>3 DEF WaitInv, WaitsForTheCancelled, Stopped
  <2> QED
    BY <2>1, <2>4 DEF Fits, Cancelled
<1> QED
  BY <1>1, Telling, Waiting, PTL DEF Spec, InterruptedTurnFallsSilent

\* What a loop does to a turn: it spawns it, or it cancels one that nobody has cancelled.
LEMMA LoopDown ==
  ASSUME IInv, Told, WaitInv, NEW c \in Conns, Loop(c), NEW t \in Turns, turn'[t] # turn[t]
  PROVE  Left(turn'[t]) < Left(turn[t]) /\ ~Stopped(turn[t])
<1>0. turn[t] \in TurnState /\ turn'[t] \in TurnState
  BY LoopSound DEF IInv, TypeOK
<1>1. CASE Utter(c) \/ StartTurn(c)
  <2>1. Begin(c) /\ RoomForTurn /\ turns \in Nat
    BY <1>1 DEF Utter, StartTurn, IInv, TypeOK
  <2>2. t = turns + 1 /\ t > turns
    BY <2>1 DEF Begin, IInv, TypeOK
  <2>3. turn[t].pc = "unborn"
    BY <2>2 DEF Told, Born
  <2>4. turn'[t].pc = "new"
    <3> DEFINE b == [Unborn EXCEPT !.pc = "new", !.owner = c]
    <3>1. turn'[t] = b
      BY <2>1, <2>2 DEF Begin, IInv, TypeOK
    <3>2. b.pc = "new"
      BY DEF Unborn
    <3> HIDE DEF b
    <3> QED
      BY <3>1, <3>2
  <2>5. Ahead(turn'[t]) + 1 = Ahead(turn[t]) /\ Ahead(turn[t]) \in Nat
    BY <1>0, <2>3, <2>4, AheadOf, BoundsAssumption
  <2>6. Ahead(turn'[t]) \in Nat
    BY <1>0, AheadOf
  <2> QED
    BY <2>3, <2>5, <2>6 DEF Left, Stopped, Cancelled
<1>2. CASE BargeIn(c) \/ Interrupt(c) \/ Disconnect(c)
  <2>1. Cancel(c) /\ Receiving(c)
    BY <1>2 DEF BargeIn, Interrupt, Disconnect
  <2>2. t = current[c] /\ ~Idle(c) /\ turn'[t] = [turn[t] EXCEPT !.doomed = TRUE]
    BY <2>1 DEF Cancel, IInv, TypeOK
  <2>3. ~turn[t].doomed /\ turn'[t].doomed
    BY <1>0, <2>2 DEF TurnState
  <2>4. Ahead(turn'[t]) = Ahead(turn[t]) /\ Ahead(turn[t]) \in Nat
    BY <1>0, <2>1, CancelSpares, AheadOf DEF Ahead
  <2>5. ~Stopped(turn[t])
    <3>1. t # NoTurn /\ turn[t].owner = c
      BY <2>2, BoundsAssumption DEF Turns, NoTurn, WaitInv, Begun
    <3> QED
      BY <2>1, <3>1 DEF Receiving, WaitInv, WaitsForTheCancelled
  <2>6. ~turn[t].spared
    <3>1. t # NoTurn /\ Live(t)
      BY <2>2, BoundsAssumption DEF Turns, NoTurn, Idle
    <3> QED
      BY <2>5, <3>1 DEF Stopped, Live
  <2> QED
    BY <2>3, <2>4, <2>5, <2>6 DEF Left
<1>3. CASE Open(c) \/ Lose(c) \/ Interrupted(c) \/ Detach(c)
  BY <1>3 DEF Open, Lose, Interrupted, Detach
<1> QED
  BY <1>1, <1>2, <1>3 DEF Loop

\* The two bounds, of a step of any kind.
LEMMA NextDown ==
  ASSUME IInv, Told, WaitInv, [Next]_vars, NEW t \in Turns, turn'[t] # turn[t]
  PROVE  /\ Left(turn'[t]) < Left(turn[t])
         /\ Cancelled(turn[t]) => \/ turn'[t].pc \in {"done", "sorry"}
                                  \/ Cancelled(turn'[t]) /\ ToGo(turn'[t]) < ToGo(turn[t])
                                  \/ Lost(turn[t], turn'[t])
<1>1. CASE UNCHANGED vars
  BY <1>1 DEF vars
<1>2. ASSUME NEW u \in Turns, Step(u) PROVE Down(turn[t], turn'[t]) /\ IInv'
  <2>1. u = t
    BY <1>2, StepIsTyped DEF IInv, StepTyped, Moved, TypeOK
  <2> QED
    BY <1>2, <2>1, StepDown, StepSound
<1>3. ASSUME Down(turn[t], turn'[t]), IInv' PROVE Left(turn'[t]) < Left(turn[t])
  <2>1. Ahead(turn[t]) \in Nat /\ Ahead(turn'[t]) \in Nat
    BY <1>3, AheadOf DEF IInv, TypeOK
  <2>2. Lost(turn[t], turn'[t]) => turn[t].doomed /\ turn'[t].spared /\ ~turn'[t].doomed
    BY DEF Lost, IInv, TypeOK, TurnState
  <2> QED
    BY <1>3, <2>1, <2>2 DEF Down, Left
<1>4. ASSUME NEW c \in Conns, Loop(c)
      PROVE  Left(turn'[t]) < Left(turn[t]) /\ ~Cancelled(turn[t])
  BY <1>4, LoopDown DEF Stopped
<1> QED
  BY <1>1, <1>2, <1>3, <1>4 DEF Next, Down

\* No turn of the socket goes on for ever, whatever the clients do: what it still has to
\* do gets less by all that happens to it.
THEOREM TurnsRunDown == Spec => RunsDown
<1>1. IInv /\ Told /\ WaitInv /\ [Next]_vars
        => [\A t \in Turns : turn'[t] # turn[t] => Left(turn'[t]) < Left(turn[t])]_vars
  BY NextDown
<1> QED
  BY <1>1, Telling, Waiting, PTL DEF RunsDown, Spec

\* ... and an interrupted turn keeps the one that barged in waiting for no more than the
\* recording of its reply, one last frame, and its end, if its cancellation reaches it.
THEOREM CancelledTurnsEndSoon == Spec => CancelledEndsSoon
<1>1. IInv /\ Told /\ WaitInv /\ [Next]_vars
        => [\A t \in Turns :
              Cancelled(turn[t]) /\ turn'[t] # turn[t]
                => \/ turn'[t].pc \in {"done", "sorry"}
                   \/ Cancelled(turn'[t]) /\ ToGo(turn'[t]) < ToGo(turn[t])
                   \/ Lost(turn[t], turn'[t])]_vars
  BY NextDown
<1> QED
  BY <1>1, Telling, Waiting, PTL DEF CancelledEndsSoon, Spec
=============================================================================
