------------------------------- MODULE Sessions --------------------------------
(***************************************************************************)
(* The registry of sessions (app/session.py: SessionManager), with the rate   *)
(* limiter of each (app/ratelimit.py), and what a session remembers for its   *)
(* client: the settings it speaks and thinks with (app/voice.py,              *)
(* app/knobs.py, app/main.py).                                                *)
(*                                                                         *)
(* A connection holds its Session object; the registry may drop the session   *)
(* meanwhile, and another connection may resume it.  Voice and model keyword  *)
(* are handled alike, so there is one setting, which either stands for.  All   *)
(* limits are switched on.                                                  *)
(***************************************************************************)
EXTENDS Naturals, Sequences, FiniteSets

CONSTANTS
    Conns,        \* connections
    Values,       \* what the setting may be
    Default,      \* the install's
    Ttl,          \* session_ttl_s
    Capacity,     \* max_sessions
    RateTurns,    \* rate_limit_turns
    RateWindow,   \* rate_limit_window_s
    TurnCap,      \* max_turns_per_session
    MaxSessions,  \* bound: sessions ever made
    MaxTime       \* bound: the clock

ASSUME SessionsAssumption ==
    /\ Default \in Values
    /\ Ttl \in Nat \ {0}
    /\ Capacity \in Nat \ {0}
    /\ RateTurns \in Nat \ {0}
    /\ RateWindow \in Nat \ {0}
    /\ TurnCap \in Nat \ {0}
    /\ MaxSessions \in Nat \ {0}
    /\ MaxTime \in Nat

VARIABLES
    now,       \* the monotonic clock
    made,      \* sessions made so far; a session's number is its id
    registry,  \* _sessions
    session,   \* the Session objects
    conn,      \* voice_socket, per connection
    admitted   \* history, per session: when its turns were admitted

vars == <<now, made, registry, session, conn, admitted>>

Ids == 1 .. MaxSessions
NoSession == 0

New == [active |-> 0, events |-> <<>>, turns |-> 0, setting |-> Default]
Silent == [step |-> "none", pinned |-> Default, said |-> {}]
Away == [pc |-> "off", session |-> NoSession, shown |-> Default,
         behind |-> FALSE, starting |-> FALSE, turn |-> Silent]

Object == [active : 0 .. MaxTime, events : Seq(0 .. MaxTime), turns : Nat, setting : Values]
Turn == [step : {"none", "created", "speaking"}, pinned : Values, said : SUBSET Values]
Connection == [pc : {"off", "greeting", "up"},
               session : {NoSession} \cup Ids,
               shown : Values,     \* the setting its client was told last
               behind : BOOLEAN,   \* another one has set it since
               starting : BOOLEAN, \* start_turn waits for the turn it interrupts
               turn : Turn]

TypeOK ==
    /\ now \in 0 .. MaxTime
    /\ made \in 0 .. MaxSessions
    /\ registry \subseteq 1 .. made
    /\ session \in [Ids -> Object]
    /\ \A s \in Ids : Len(session[s].events) <= RateTurns
    /\ conn \in [Conns -> Connection]
    /\ admitted \in [Ids -> Seq(0 .. MaxTime)]

Init ==
    /\ now = 0
    /\ made = 0
    /\ registry = {}
    /\ session = [s \in Ids |-> New]
    /\ conn = [c \in Conns |-> Away]
    /\ admitted = [s \in Ids |-> <<>>]

Tick == now < MaxTime /\ now' = now + 1 /\ UNCHANGED <<made, registry, session, conn, admitted>>

-----------------------------------------------------------------------------
(* The registry                                                            *)

\* _evict_expired
Expired == {s \in registry : now - session[s].active > Ttl}

\* Mutant of Oldest: the one that was made first
Oldest_Made(S, active) == CHOOSE s \in S : \A r \in S : s <= r

\* _enforce_capacity: the one that was active longest ago, and of two the one made first
Oldest(S, active) ==
    CHOOSE s \in S : \A r \in S :
        active[s] < active[r] \/ (active[s] = active[r] /\ s <= r)

\* resume_or_create, with the id of a session that lives
Resume(c, s) ==
    /\ s \in registry \ Expired
    /\ registry' = registry \ Expired
    /\ session' = [session EXCEPT ![s].active = now]
    /\ conn' = [conn EXCEPT ![c].pc = "greeting", ![c].session = s]
    /\ UNCHANGED made

\* ... and without one, or with one nobody knows any more: the new session pushes another
\* one out if there are too many.  (There was room before, so one is enough.)
Create(c) ==
    LET s == made + 1
        live == (registry \ Expired) \cup {s}
        active == [r \in live |-> IF r = s THEN now ELSE session[r].active]
    IN  /\ made < MaxSessions /\ made' = s
        /\ registry' = IF Cardinality(live) <= Capacity THEN live
                       ELSE live \ {Oldest(live, active)}
        /\ session' = [session EXCEPT ![s].active = now]
        /\ conn' = [conn EXCEPT ![c].pc = "greeting", ![c].session = s]

Connect(c) ==
    /\ conn[c].pc = "off"
    /\ Create(c) \/ \E s \in Ids : Resume(c, s)
    /\ UNCHANGED <<now, admitted>>

\* After the ready frame: the setting as it is now
Greet(c) ==
    /\ conn[c].pc = "greeting"
    /\ conn' = [conn EXCEPT ![c].pc = "up", ![c].shown = session[conn[c].session].setting,
                            ![c].behind = FALSE]
    /\ UNCHANGED <<now, made, registry, session, admitted>>

\* The socket is lost before the handler's try: nothing marks the session.
Vanish(c) ==
    /\ conn[c].pc = "greeting"
    /\ conn' = [conn EXCEPT ![c] = Away]
    /\ UNCHANGED <<now, made, registry, session, admitted>>

\* The receive loop takes the next frame.
Listening(c) == conn[c].pc = "up" /\ ~conn[c].starting

\* The socket is lost: the turn is cancelled, the session stays warm.  The client may come
\* back for it.
Disconnect(c) ==
    /\ Listening(c)
    /\ conn' = [conn EXCEPT ![c] = Away]
    /\ session' = [session EXCEPT ![conn[c].session].active = now]
    /\ UNCHANGED <<now, made, registry, admitted>>

-----------------------------------------------------------------------------
(* Turns                                                                   *)

\* Mutant of InWindow: the window is one too short.
InWindow_Short(t) == t + RateWindow > now + 1

\* An event that old still counts.
InWindow(t) == t + RateWindow > now

\* _purge: the events in front that have left the window
Purged(events) ==
    LET young == {i \in DOMAIN events : InWindow(events[i])}
    IN  IF young = {} THEN <<>>
        ELSE SubSeq(events, CHOOSE i \in young : \A j \in young : i <= j, Len(events))

\* RateLimiter.allow counts when it has purged.
Allows(s) == Len(Purged(session[s].events)) < RateTurns

\* _admit_turn: the cap of the session, then its rate; what is refused counts for nothing.
Refuse(c) ==
    LET s == conn[c].session
    IN  /\ Listening(c)
        /\ session[s].turns < TurnCap /\ ~Allows(s)
        /\ session' = [session EXCEPT ![s].events = Purged(@)]
        /\ UNCHANGED <<now, made, registry, conn, admitted>>

Created == [Silent EXCEPT !.step = "created"]

\* _admit_turn, and start_turn as far as it comes: if this connection has a turn, it is
\* cancelled, and until it is over (cancel_current) only the limiter has counted the new one.
Admit(c) ==
    LET s == conn[c].session
        events == Append(Purged(session[s].events), now)
    IN  /\ Listening(c)
        /\ session[s].turns < TurnCap /\ Allows(s)
        /\ admitted' = [admitted EXCEPT ![s] = Append(@, now)]
        /\ \/ /\ conn[c].turn.step = "none"
              /\ session' = [session EXCEPT ![s].events = events,
                                            ![s].turns = @ + 1, ![s].active = now]
              /\ conn' = [conn EXCEPT ![c].turn = Created]
           \/ /\ conn[c].turn.step # "none"
              /\ session' = [session EXCEPT ![s].events = events]
              /\ conn' = [conn EXCEPT ![c].starting = TRUE]
        /\ UNCHANGED <<now, made, registry>>

\* The rest of start_turn, when the interrupted turn is over
StartTurn(c) ==
    LET s == conn[c].session
    IN  /\ conn[c].pc = "up" /\ conn[c].starting /\ conn[c].turn.step = "none"
        /\ session' = [session EXCEPT ![s].turns = @ + 1, ![s].active = now]
        /\ conn' = [conn EXCEPT ![c].starting = FALSE, ![c].turn = Created]
        /\ UNCHANGED <<now, made, registry, admitted>>

\* _guarded_turn reads the settings once, when its task begins.
Begin(c) ==
    /\ conn[c].turn.step = "created"
    /\ conn' = [conn EXCEPT ![c].turn.step = "speaking",
                            ![c].turn.pinned = session[conn[c].session].setting]
    /\ UNCHANGED <<now, made, registry, session, admitted>>

\* Mutant of Voiced: each sentence is spoken as the session is set.
Voiced_Live(c) == session[conn[c].session].setting

\* What _speak_stream hands to synthesize
Voiced(c) == conn[c].turn.pinned

Say(c) ==
    /\ conn[c].turn.step = "speaking"
    /\ conn' = [conn EXCEPT ![c].turn.said = @ \cup {Voiced(c)}]
    /\ UNCHANGED <<now, made, registry, session, admitted>>

\* It is over, or it is interrupted, be it before its first step.
EndTurn(c) ==
    /\ conn[c].turn.step # "none"
    /\ conn' = [conn EXCEPT ![c].turn = Silent]
    /\ UNCHANGED <<now, made, registry, session, admitted>>

-----------------------------------------------------------------------------
(* The setting                                                             *)

\* Mutant of Told: the client is not told.
Told_Not(c, v) == conn[c]

\* The client that set it has the new setting in answer (_echo_voice and _echo_model, or
\* the frame that answers set_voice and set_model).
Told(c, v) == [conn[c] EXCEPT !.shown = v, !.behind = FALSE]

\* The setting becomes v.  What is not valid is dropped, or is the default
\* (VoiceSettings.patched, _chosen_keyword, Knobs.set_brain), so v is a value.
Change(c, v) ==
    /\ session' = [session EXCEPT ![conn[c].session].setting = v]
    /\ conn' = [d \in Conns |->
                   IF d = c THEN Told(c, v)
                   ELSE [conn[d] EXCEPT !.behind = @ \/ conn[d].session = conn[c].session]]
    /\ UNCHANGED <<now, made, registry, admitted>>

\* set_voice and set_model: set and answered in one go.  (A set_model that also maps
\* keywords writes those first, in a thread: only its socket waits for that.)
Set(c) == Listening(c) /\ \E v \in Values : Change(c, v)

\* Knobs.set_voice and set_brain: the model has been asked to change the setting.
Knob(c) == conn[c].turn.step = "speaking" /\ \E v \in Values : Change(c, v)

-----------------------------------------------------------------------------
Next ==
    \/ Tick
    \/ \E c \in Conns :
          \/ Connect(c) \/ Greet(c) \/ Vanish(c) \/ Disconnect(c)
          \/ Refuse(c) \/ Admit(c) \/ StartTurn(c) \/ Begin(c) \/ Say(c) \/ EndTurn(c)
          \/ Set(c) \/ Knob(c)

Spec == Init /\ [][Next]_vars

-----------------------------------------------------------------------------
(* What a session promises                                                 *)

\* RateLimiter: however often its client reconnects, a session never has more than
\* RateTurns turns within any RateWindow.
RateHolds ==
    \A s \in Ids : \A i, j \in DOMAIN admitted[s] :
        j = i + RateTurns => admitted[s][j] >= admitted[s][i] + RateWindow

\* SessionManager: a session goes when nobody was active in it for the time it has, or when
\* there are too many and it is the one that was idle longest; never the one that a client
\* is just told it has.
OnlyTheIdleGo ==
    [][/\ \A s \in registry \ registry' :
             \/ now > session[s].active + Ttl
             \/ /\ Cardinality(registry') = Capacity
                /\ \A r \in registry' : session[s].active <= session'[r].active
       /\ \A c \in Conns : conn[c].pc = "off" /\ conn'[c].pc = "greeting"
                            => conn'[c].session \in registry']_vars

\* Knobs, "what keeps asking and clicking in step": a client knows the setting of its
\* session, whether it was set by a frame or by asking, unless another connection to the
\* same session has set it since.
ClientsKnowTheirSetting ==
    \A c \in Conns : conn[c].pc = "up" /\ ~conn[c].behind
                     => conn[c].shown = session[conn[c].session].setting

\* run_turn, "rather than switching voices between two sentences of the same one".
OneVoicePerReply == \A c \in Conns : Cardinality(conn[c].turn.said) <= 1
=============================================================================
