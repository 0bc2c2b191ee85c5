----------------------------- MODULE Conversation ------------------------------
(***************************************************************************)
(* The history of one session (app/session.py, Conversation) as its turns    *)
(* use it (app/brain.py, think; app/pipeline.py, _think_and_speak): a turn    *)
(* adds the user's words before it asks the model, and the reply when it      *)
(* stops speaking.  How many turns may do so at once is a parameter: one for  *)
(* a single connection, one each for connections that share the session.      *)
(***************************************************************************)
EXTENDS Naturals, Sequences, FiniteSets

CONSTANTS
    MaxTurns,      \* bound: turns that ever ask
    HistoryTurns,  \* max_history_turns; 0 keeps the whole conversation
    InFlight       \* turns between their question and their reply at once

ASSUME ConversationAssumption ==
    /\ MaxTurns \in Nat
    /\ HistoryTurns \in Nat
    /\ InFlight \in Nat \ {0}

Turns == 1 .. MaxTurns

VARIABLES
    history,  \* messages
    asked,    \* the turns that have asked
    pending   \* those whose reply is still to be recorded

vars == <<history, asked, pending>>

Entry == [role : {"user", "assistant"}, turn : Turns]

TypeOK ==
    /\ history \in Seq(Entry)
    /\ asked \in SUBSET Turns
    /\ pending \in SUBSET asked

Init ==
    /\ history = <<>>
    /\ asked = {}
    /\ pending = {}

Cap == 2 * HistoryTurns

\* Mutant of Trim: a reply may be left in front.
Trim_ExcessOnly(h) ==
    IF HistoryTurns = 0 \/ Len(h) <= Cap THEN h
    ELSE SubSeq(h, Len(h) - Cap + 1, Len(h))

\* _trim: drop what exceeds the cap, then the replies that are left in front.
Trim(h) ==
    IF HistoryTurns = 0 \/ Len(h) <= Cap THEN h
    ELSE LET front == {i \in Len(h) - Cap + 1 .. Len(h) :
                         /\ h[i].role = "user"
                         /\ \A j \in Len(h) - Cap + 1 .. i - 1 : h[j].role # "user"}
         IN  IF front = {} THEN <<>> ELSE SubSeq(h, CHOOSE i \in front : TRUE, Len(h))

Added(role, t) == history' = Trim(Append(history, [role |-> role, turn |-> t]))

\* add_user
Ask(t) ==
    /\ t \notin asked /\ Cardinality(pending) < InFlight
    /\ asked' = asked \cup {t}
    /\ pending' = pending \cup {t}
    /\ Added("user", t)

\* Mutant of Reply: the turn stays pending, and may record its reply again.
Reply_Again(t) ==
    /\ t \in pending
    /\ Added("assistant", t)
    /\ UNCHANGED <<asked, pending>>

\* add_assistant, for a turn that spoke
Reply(t) ==
    /\ t \in pending
    /\ pending' = pending \ {t}
    /\ Added("assistant", t)
    /\ UNCHANGED asked

\* A turn that was cut off before its first word records nothing.
Drop(t) ==
    /\ t \in pending
    /\ pending' = pending \ {t}
    /\ UNCHANGED <<history, asked>>

Next == \E t \in Turns : Ask(t) \/ Reply(t) \/ Drop(t)

Spec == Init /\ [][Next]_vars

-----------------------------------------------------------------------------
\* A recorded reply stands right behind the words it answers, so the history begins
\* with the user's.  Holds for one turn at a time.
RepliesFollowTheirQuestion ==
    \A i \in 1 .. Len(history) :
        history[i].role = "assistant"
          => /\ i > 1
             /\ history[i - 1].role = "user"
             /\ history[i - 1].turn = history[i].turn

\* What think() replays is a valid prompt: within the cap, and "the buffer is kept
\* starting on a user turn" (session.py).  It is for as many turns in flight at once
\* as the cap has entries; the reply of one more finds the history empty.
HistoryReplayable ==
    /\ HistoryTurns # 0 => Len(history) <= Cap
    /\ history # <<>> => history[1].role = "user"
=============================================================================
