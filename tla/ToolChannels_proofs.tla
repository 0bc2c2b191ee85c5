-------------------------- MODULE ToolChannels_proofs --------------------------
(* What holds of ToolChannels for any number of connections, questions and   *)
(* calls, whatever wait_for makes of a cancellation.                         *)
EXTENDS ToolChannels, TLAPS

-----------------------------------------------------------------------------
(* Type correctness                                                        *)

LEMMA InitTyped == Init => TypeOK
  BY ChannelAssumption DEF Init, TypeOK, Nobody, Question, Request

\* Taking an entry out of its table, and what unbind makes of an entry, keep its type.
LEMMA PoppedTyped ==
  ASSUME ask \in [Asks -> Question], NEW c \in Conns, Popped(c)
  PROVE  ask' \in [Asks -> Question]
  BY DEF Popped, Question

LEMMA UnbindAsksTyped ==
  ASSUME TypeOK, NEW c \in Conns, UnbindAsks(c)
  PROVE  /\ ask' \in [Asks -> Question]
         /\ askVia' \in Conns \cup {Nobody}
         /\ UNCHANGED <<askCount, approved, ran>>
<1>1. CASE UNCHANGED askVars
  BY <1>1 DEF askVars, TypeOK
<1>2. CASE ~ UNCHANGED askVars
  <2> DEFINE Refused(r) == [r EXCEPT !.listed = FALSE,
                                     !.fut = IF @ = "pending" THEN "no" ELSE @]
  <2>1. /\ askVia' = Nobody
        /\ ask' = [q \in Asks |-> IF ask[q].listed THEN Refused(ask[q]) ELSE ask[q]]
        /\ UNCHANGED <<askCount, approved, ran>>
    BY <1>2 DEF UnbindAsks
  <2>2. \A r \in Question : Refused(r) \in Question
    BY DEF Question
  <2>3. \A q \in Asks : ask[q] \in Question
    BY DEF TypeOK
  <2> QED
    BY <2>1, <2>2, <2>3
<1> QED
  BY <1>1, <1>2

LEMMA UnbindToolsTyped ==
  ASSUME TypeOK, UnbindTools
  PROVE  /\ call' \in [Calls -> Request]
         /\ toolVia' \in Conns \cup {Nobody}
         /\ UNCHANGED callCount
<1> DEFINE Cancelled(r) == [r EXCEPT !.listed = FALSE,
                                     !.fut = IF @ = "pending" THEN "cancelled" ELSE @]
<1>1. /\ toolVia' = Nobody
      /\ call' = [n \in Calls |-> IF call[n].listed THEN Cancelled(call[n]) ELSE call[n]]
      /\ UNCHANGED callCount
  BY DEF UnbindTools
<1>2. \A r \in Request : Cancelled(r) \in Request
  BY DEF Request
<1>3. \A n \in Calls : call[n] \in Request
  BY DEF TypeOK
<1> QED
  BY <1>1, <1>2, <1>3

LEMMA NumbersAreNaturals == Asks \subseteq Nat /\ Calls \subseteq Nat
  BY ChannelAssumption DEF Asks, Calls

LEMMA AskTyped ==
  ASSUME TypeOK, NEW c \in Conns, Ask(c)
  PROVE  TypeOK'
<1> DEFINE Put(listed, fut) ==
             [by |-> c, label |-> askCount + 1, listed |-> listed, fut |-> fut]
<1>1. PICK q \in Asks :
        /\ askCount' = askCount + 1
        /\ \/ /\ ask' = [ask EXCEPT ![q] = Put(TRUE, "pending")]
              /\ pc' = [pc EXCEPT ![c] = "asking"]
              /\ req' = [req EXCEPT ![c] = q]
           \/ /\ ask' = [ask EXCEPT ![q] = Put(FALSE, "no")]
              /\ UNCHANGED <<pc, req>>
  BY DEF Ask
<1>2. Put(TRUE, "pending") \in Question /\ Put(FALSE, "no") \in Question
  BY DEF TypeOK, Question
<1>3. ask' \in [Asks -> Question]
  BY <1>1, <1>2 DEF TypeOK
<1>4. pc' \in [Conns -> {"none", "think", "asking", "calling"}]
  BY <1>1 DEF TypeOK
<1>5. /\ req' \in [Conns -> Nat]
      /\ \A d \in Conns : /\ pc'[d] = "asking" => req'[d] \in Asks
                          /\ pc'[d] = "calling" => req'[d] \in Calls
  BY <1>1, NumbersAreNaturals DEF TypeOK
<1>6. UNCHANGED <<handler, lost, doomed, askVia, approved, ran, toolVia, callCount, call>>
  BY DEF Ask, connVars, callVars
<1> QED
  BY <1>1, <1>3, <1>4, <1>5, <1>6 DEF TypeOK

LEMMA CallTyped ==
  ASSUME TypeOK, NEW c \in Conns, Call(c)
  PROVE  TypeOK'
<1> DEFINE Put(listed, fut) ==
             [by |-> c, label |-> callCount + 1, listed |-> listed, fut |-> fut, got |-> 0]
<1>1. PICK n \in Calls :
        /\ callCount' = callCount + 1
        /\ \/ /\ call' = [call EXCEPT ![n] = Put(TRUE, "pending")]
              /\ pc' = [pc EXCEPT ![c] = "calling"]
              /\ req' = [req EXCEPT ![c] = n]
           \/ /\ call' = [call EXCEPT ![n] = Put(FALSE, "raised")]
              /\ UNCHANGED <<pc, req>>
  BY DEF Call
<1>2. Put(TRUE, "pending") \in Request /\ Put(FALSE, "raised") \in Request
  BY DEF TypeOK, Request
<1>3. call' \in [Calls -> Request]
  BY <1>1, <1>2 DEF TypeOK
<1>4. pc' \in [Conns -> {"none", "think", "asking", "calling"}]
  BY <1>1 DEF TypeOK
<1>5. /\ req' \in [Conns -> Nat]
      /\ \A d \in Conns : /\ pc'[d] = "asking" => req'[d] \in Asks
                          /\ pc'[d] = "calling" => req'[d] \in Calls
  BY <1>1, NumbersAreNaturals DEF TypeOK
<1>6. UNCHANGED <<handler, lost, doomed, askVia, askCount, ask, approved, ran, toolVia>>
  BY DEF Call, connVars, askVars
<1> QED
  BY <1>1, <1>3, <1>4, <1>5, <1>6 DEF TypeOK

LEMMA StepTyped ==
  ASSUME TypeOK, NEW c \in Conns, Step(c)
  PROVE  TypeOK'
<1>1. CASE Ask(c)
  BY <1>1, AskTyped
<1>2. CASE Collect(c)
  <2>1. ask' \in [Asks -> Question]
    BY <1>2, PoppedTyped DEF Collect, TypeOK
  <2>2. ran' \in SUBSET Asks
    BY <1>2 DEF Collect, Asking, TypeOK
  <2> QED
    BY <1>2, <2>1, <2>2 DEF Collect, TypeOK, connVars, callVars
<1>3. CASE AskTimeout(c)
  <2>1. ask' \in [Asks -> Question]
    BY <1>3, PoppedTyped DEF AskTimeout, TypeOK
  <2> QED
    BY <1>3, <2>1 DEF AskTimeout, TypeOK, connVars, callVars
<1>4. CASE Call(c)
  BY <1>4, CallTyped
<1>5. CASE Return(c)
  <2>1. call' \in [Calls -> Request]
    <3> DEFINE Done(r) == [r EXCEPT !.listed = FALSE, !.fut = "done"]
    <3>1. call' = [call EXCEPT ![req[c]] = Done(@)]
      BY <1>5 DEF Return, TypeOK
    <3>2. \A r \in Request : Done(r) \in Request
      BY DEF Request
    <3> QED
      BY <3>1, <3>2 DEF TypeOK
  <2> QED
    BY <1>5, <2>1 DEF Return, TypeOK, connVars, askVars
<1>6. CASE Killed(c)
  BY <1>6 DEF Killed, TypeOK, connVars, askVars, callVars
<1>7. CASE EndTurn(c)
  BY <1>7 DEF EndTurn, TypeOK, connVars, askVars, callVars
<1>8. CASE Unwind(c)
  <2>1. ask' \in [Asks -> Question]
    BY <1>8, PoppedTyped DEF Unwind, Withdraw, TypeOK
  <2>2. call' \in [Calls -> Request]
    <3> DEFINE Gone(r) == [r EXCEPT !.listed = FALSE]
    <3>1. call' = call \/ call' = [call EXCEPT ![req[c]] = Gone(@)]
      BY <1>8 DEF Unwind, Withdraw
    <3>2. \A r \in Request : Gone(r) \in Request
      BY DEF Request
    <3> QED
      BY <3>1, <3>2 DEF TypeOK
  <2> QED
    BY <1>8, <2>1, <2>2 DEF Unwind, TypeOK, connVars
<1> QED
  BY <1>1, <1>2, <1>3, <1>4, <1>5, <1>6, <1>7, <1>8 DEF Step

LEMMA LoopTyped ==
  ASSUME TypeOK, NEW c \in Conns, Loop(c)
  PROVE  TypeOK'
<1> USE DEF connVars, turnVars, askVars, callVars
<1>1. CASE Connect(c)
  BY <1>1 DEF Connect, BindAsks, BindTools, TypeOK
<1>2. CASE Lose(c)
  BY <1>2 DEF Lose, TypeOK
<1>3. CASE StartTurn(c)
  BY <1>3 DEF StartTurn, TypeOK
<1>4. CASE Interrupt(c)
  BY <1>4 DEF Interrupt, TypeOK
<1>5. CASE Interrupted(c)
  BY <1>5 DEF Interrupted, TypeOK
<1>6. CASE Close(c)
  BY <1>6 DEF Close, TypeOK
<1>7. CASE Detach(c)
  BY <1>7, UnbindAsksTyped, UnbindToolsTyped DEF Detach, TypeOK
<1>8. ASSUME NEW q \in Asks, Answer(c, q) PROVE TypeOK'
  <2>1. PICK verdict \in {"yes", "no"} :
          /\ Resolve(ask[q].label, verdict)
          /\ approved' \in {approved, approved \cup {q}}
    BY <1>8 DEF Answer
  <2>2. \A r \in Question : [r EXCEPT !.fut = verdict] \in Question
    BY DEF Question
  <2>3. ask' \in [Asks -> Question]
    BY <2>1, <2>2 DEF Resolve, TypeOK
  <2> QED
    BY <1>8, <2>1, <2>3 DEF Answer, TypeOK
<1>9. ASSUME NEW n \in Calls, Result(c, n) PROVE TypeOK'
  <2>1. \A r \in Request : [r EXCEPT !.fut = "done", !.got = n] \in Request
    BY <1>9 DEF Request
  <2>2. call' \in [Calls -> Request]
    BY <1>9, <2>1 DEF Result, TypeOK
  <2> QED
    BY <1>9, <2>2 DEF Result, TypeOK
<1> QED
  BY <1>1, <1>2, <1>3, <1>4, <1>5, <1>6, <1>7, <1>8, <1>9 DEF Loop

\* The type invariant holds: in particular a turn that waits does so for a question
\* or a call that exists.
THEOREM TypeCorrect == Spec => []TypeOK
<1>1. TypeOK /\ UNCHANGED vars => TypeOK'
  BY DEF TypeOK, vars, connVars, turnVars, askVars, callVars
<1>2. TypeOK /\ [Next]_vars => TypeOK'
  BY <1>1, StepTyped, LoopTyped DEF Next
<1> QED
  BY InitTyped, <1>2, PTL DEF Spec

-----------------------------------------------------------------------------
(* Approvals                                                               *)

\* Ids are never given twice, so an answer settles the question it was meant for.
AskInv ==
    /\ \A q \in Asks : ask[q].fut # "unborn" => ask[q].label \in 1 .. askCount
    /\ \A q, r \in Asks :
          /\ ask[q].fut # "unborn" /\ ask[r].fut # "unborn"
          /\ ask[q].label = ask[r].label
          => q = r
    /\ \A q \in Asks : ask[q].fut = "yes" => q \in approved

\* What every step but Ask and Answer does to the table.
Quiet ==
    /\ UNCHANGED <<askCount, approved>>
    /\ \A q \in Asks : /\ ask'[q].label = ask[q].label
                       /\ \/ ask'[q].fut = ask[q].fut
                          \/ ask[q].fut # "unborn" /\ ask'[q].fut = "no"

LEMMA QuietKeeps == AskInv /\ Quiet => AskInv'
  BY DEF AskInv, Quiet

LEMMA PoppedQuiet ==
  ASSUME TypeOK, NEW c \in Conns, Popped(c)
  PROVE  \A q \in Asks : ask'[q].label = ask[q].label /\ ask'[q].fut = ask[q].fut
  BY DEF TypeOK, Question, Popped

LEMMA UnbindQuiet ==
  ASSUME TypeOK, NEW c \in Conns, UnbindAsks(c)
  PROVE  Quiet /\ UNCHANGED ran
<1>1. CASE UNCHANGED askVars
  BY <1>1 DEF askVars, Quiet
<1>2. CASE ~ UNCHANGED askVars
  <2> DEFINE Refused(r) == [r EXCEPT !.listed = FALSE,
                                     !.fut = IF @ = "pending" THEN "no" ELSE @]
  <2>1. /\ ask' = [q \in Asks |-> IF ask[q].listed THEN Refused(ask[q]) ELSE ask[q]]
        /\ UNCHANGED <<askCount, approved, ran>>
    BY <1>2 DEF UnbindAsks
  <2>2. \A r \in Question : /\ Refused(r).label = r.label
                           /\ \/ Refused(r).fut = r.fut
                              \/ r.fut # "unborn" /\ Refused(r).fut = "no"
    BY DEF Question
  <2>3. \A q \in Asks : ask[q] \in Question
    BY DEF TypeOK
  <2> QED
    BY <2>1, <2>2, <2>3 DEF Quiet
<1> QED
  BY <1>1, <1>2

\* Put a question: its label is a new one.
LEMMA AskKeeps ==
  ASSUME TypeOK, AskInv, NEW c \in Conns, Ask(c)
  PROVE  AskInv' /\ UNCHANGED <<approved, ran>>
<1>1. PICK q \in Asks :
        /\ ask[q].fut = "unborn"
        /\ askCount' = askCount + 1
        /\ \/ ask' = [ask EXCEPT ![q] = [by |-> c, label |-> askCount + 1,
                                         listed |-> TRUE, fut |-> "pending"]]
           \/ ask' = [ask EXCEPT ![q] = [by |-> c, label |-> askCount + 1,
                                         listed |-> FALSE, fut |-> "no"]]
  BY DEF Ask
<1>2. /\ ask'[q].label = askCount + 1 /\ ask'[q].fut \in {"pending", "no"}
      /\ \A r \in Asks \ {q} : ask'[r] = ask[r]
  BY <1>1 DEF TypeOK
<1>3. UNCHANGED <<approved, ran>>
  BY DEF Ask
<1>4. askCount \in Nat
  BY DEF TypeOK
<1> QED
  BY <1>1, <1>2, <1>3, <1>4 DEF AskInv

\* An answer settles at most the question it was meant for.
LEMMA AnswerKeeps ==
  ASSUME TypeOK, AskInv, NEW c \in Conns, NEW q \in Asks, Answer(c, q)
  PROVE  AskInv' /\ UNCHANGED ran /\ approved \subseteq approved'
<1>1. PICK verdict \in {"yes", "no"} :
        /\ Resolve(ask[q].label, verdict)
        /\ approved' = IF verdict = "yes" THEN approved \cup {q} ELSE approved
        /\ ask[q].fut # "unborn"
        /\ UNCHANGED <<askCount, ran>>
  BY DEF Answer
<1>2. \A r \in Asks : ask[r] \in Question
  BY DEF TypeOK
<1>3. \A r \in Asks :
        /\ ask'[r].label = ask[r].label
        /\ \/ ask'[r].fut = ask[r].fut
           \/ /\ ask'[r].fut = verdict /\ ask[r].fut = "pending"
              /\ ask[r].label = ask[q].label
  BY <1>1, <1>2 DEF Resolve, Question
<1>4. \A r \in Asks : ask[r].fut = "pending" /\ ask[r].label = ask[q].label => r = q
  BY <1>1 DEF AskInv
<1> QED
  BY <1>1, <1>3, <1>4 DEF AskInv

LEMMA LoopKeeps ==
  ASSUME TypeOK, AskInv, NEW c \in Conns, Loop(c)
  PROVE  AskInv' /\ UNCHANGED ran /\ approved \subseteq approved'
<1> USE DEF askVars
<1>1. CASE UNCHANGED <<askCount, ask, approved, ran>>
  BY <1>1 DEF AskInv
<1>2. CASE Detach(c)
  BY <1>2, UnbindQuiet, QuietKeeps DEF Detach, Quiet
<1>3. CASE \E q \in Asks : Answer(c, q)
  BY <1>3, AnswerKeeps
<1>4. CASE \/ Connect(c) \/ Lose(c) \/ StartTurn(c) \/ Interrupt(c)
           \/ Interrupted(c) \/ Close(c) \/ \E n \in Calls : Result(c, n)
  BY <1>1, <1>4 DEF Connect, BindAsks, Lose, StartTurn, Interrupt, Interrupted, Close, Result
<1> QED
  BY <1>2, <1>3, <1>4 DEF Loop

LEMMA StepKeeps ==
  ASSUME TypeOK, AskInv, RunsOnlyWhatWasApproved, NEW c \in Conns, Step(c)
  PROVE  AskInv' /\ RunsOnlyWhatWasApproved'
<1> USE DEF RunsOnlyWhatWasApproved
<1>1. CASE UNCHANGED <<askCount, ask, approved, ran>>
  BY <1>1 DEF AskInv
<1>2. CASE Ask(c)
  BY <1>2, AskKeeps
<1>3. CASE Collect(c)
  <2>1. AskInv'
    BY <1>3, PoppedQuiet, QuietKeeps DEF Collect, Quiet
  <2>2. req[c] \in Asks
    BY <1>3 DEF Collect, Asking, TypeOK
  <2> QED
    BY <1>3, <2>1, <2>2 DEF Collect, Verdict, AskInv
<1>4. CASE AskTimeout(c)
  BY <1>4, PoppedQuiet, QuietKeeps DEF AskTimeout, Quiet
<1>5. CASE Unwind(c)
  <2>1. UNCHANGED ask \/ Popped(c)
    BY <1>5 DEF Unwind, Withdraw
  <2> QED
    BY <1>5, <2>1, PoppedQuiet, QuietKeeps DEF Unwind, Quiet
<1>6. CASE Call(c) \/ Return(c) \/ Killed(c) \/ EndTurn(c)
  BY <1>1, <1>6 DEF Call, Return, Killed, EndTurn, askVars
<1> QED
  BY <1>2, <1>3, <1>4, <1>5, <1>6 DEF Step

\* A gated tool runs only if a human approved the very question about it, for any
\* number of connections and questions, and whether or not a cancellation gets lost.
THEOREM ApprovalIsNeeded == Spec => []RunsOnlyWhatWasApproved
<1> DEFINE IInv == AskInv /\ RunsOnlyWhatWasApproved
<1>1. Init => IInv
  BY DEF Init, AskInv, RunsOnlyWhatWasApproved
<1>2. TypeOK /\ IInv /\ [Next]_vars => IInv'
  <2> SUFFICES ASSUME TypeOK, IInv, [Next]_vars PROVE IInv'
    OBVIOUS
  <2>1. CASE UNCHANGED vars
    BY <2>1 DEF vars, askVars, AskInv, RunsOnlyWhatWasApproved
  <2>2. ASSUME NEW c \in Conns, Loop(c) PROVE IInv'
    BY <2>2, LoopKeeps DEF RunsOnlyWhatWasApproved
  <2>3. ASSUME NEW c \in Conns, Step(c) PROVE IInv'
    BY <2>3, StepKeeps
  <2> QED
    BY <2>1, <2>2, <2>3 DEF Next
<1>3. IInv => RunsOnlyWhatWasApproved
  OBVIOUS
<1> QED
  BY <1>1, <1>2, <1>3, TypeCorrect, PTL DEF Spec

-----------------------------------------------------------------------------
(* Reconnecting                                                            *)

\* Connections are made one after the other.
InOrder == \A c, d \in Conns : c < d /\ handler[d] # "off" => handler[c] # "off"

\* A step that makes and ends no connection.
SameConnections ==
    /\ askVia' = askVia
    /\ \A c \in Conns : /\ handler'[c] = "off" <=> handler[c] = "off"
                        /\ handler'[c] = "gone" <=> handler[c] = "gone"

LEMMA SameConnectionsKeep ==
  ASSUME InOrder, ApprovalsFollowTheNewest, SameConnections
  PROVE  InOrder' /\ ApprovalsFollowTheNewest'
  BY DEF InOrder, ApprovalsFollowTheNewest, Newest, SameConnections

LEMMA ConnectKeeps ==
  ASSUME TypeOK, InOrder, NEW c \in Conns, Connect(c)
  PROVE  InOrder' /\ ApprovalsFollowTheNewest'
<1>1. /\ handler' = [handler EXCEPT ![c] = "up"] /\ askVia' = c
      /\ handler[c] = "off"
      /\ \A d \in Conns : d < c => handler[d] # "off"
  BY DEF Connect, BindAsks
<1>2. Conns \subseteq Nat
  BY ChannelAssumption DEF Conns
<1>3. \A d \in Conns : c < d => handler[d] = "off"
  BY <1>1 DEF InOrder
<1>4. InOrder'
  BY <1>1, <1>2, <1>3 DEF InOrder, TypeOK
<1>5. \A d \in Conns : Newest(d)' => d = c
  BY <1>1, <1>2, <1>3 DEF Newest, TypeOK
<1> QED
  BY <1>1, <1>4, <1>5 DEF ApprovalsFollowTheNewest

LEMMA DetachKeeps ==
  ASSUME TypeOK, InOrder, ApprovalsFollowTheNewest, NEW c \in Conns, Detach(c)
  PROVE  InOrder' /\ ApprovalsFollowTheNewest'
<1>1. /\ handler[c] = "closing" /\ handler' = [handler EXCEPT ![c] = "gone"]
      /\ UnbindAsks(c)
  BY DEF Detach
<1>2. \A d \in Conns : handler'[d] = "off" <=> handler[d] = "off"
  BY <1>1 DEF TypeOK
<1>3. \A d \in Conns : Newest(d)' <=> Newest(d)
  BY <1>2 DEF Newest
<1>4. Nobody \notin Conns
  BY ChannelAssumption DEF Conns, Nobody
<1>5. ASSUME NEW d \in Conns, Newest(d), handler'[d] # "gone" PROVE askVia' = d
  <2>1. d # c /\ askVia = d
    BY <1>1, <1>5 DEF ApprovalsFollowTheNewest, TypeOK
  <2> QED
    BY <1>1, <1>4, <2>1 DEF UnbindAsks, askVars
<1> QED
  BY <1>2, <1>3, <1>5 DEF InOrder, ApprovalsFollowTheNewest

\* A session that is resumed keeps its approvals: the handler of the connection that
\* was replaced does not take them along, however many connections there were.
THEOREM ApprovalsAreNotDetached == Spec => []ApprovalsFollowTheNewest
<1> DEFINE IInv == InOrder /\ ApprovalsFollowTheNewest
<1>1. Init => IInv
  BY DEF Init, InOrder, ApprovalsFollowTheNewest, Newest
<1>2. TypeOK /\ IInv /\ [Next]_vars => IInv'
  <2> SUFFICES ASSUME TypeOK, IInv, [Next]_vars PROVE IInv'
    OBVIOUS
  <2> USE DEF connVars, turnVars, askVars, callVars
  <2>1. CASE UNCHANGED vars
    BY <2>1, SameConnectionsKeep DEF vars, SameConnections
  <2>2. ASSUME NEW c \in Conns, Step(c) PROVE IInv'
    <3>1. UNCHANGED <<handler, askVia>>
      BY <2>2 DEF Step, Ask, Collect, AskTimeout, Call, Return, Killed, EndTurn, Unwind
    <3> QED
      BY <3>1, SameConnectionsKeep DEF SameConnections
  <2>3. ASSUME NEW c \in Conns, Loop(c) PROVE IInv'
    <3>1. CASE Connect(c)
      BY <3>1, ConnectKeeps
    <3>2. CASE Detach(c)
      BY <3>2, DetachKeeps
    <3>3. CASE \/ Lose(c) \/ StartTurn(c) \/ \E q \in Asks : Answer(c, q)
               \/ \E n \in Calls : Result(c, n)
      <4>1. UNCHANGED <<handler, askVia>>
        BY <3>3 DEF Lose, StartTurn, Answer, Result
      <4> QED
        BY <4>1, SameConnectionsKeep DEF SameConnections
    <3>4. CASE Interrupt(c) \/ Interrupted(c) \/ Close(c)
      <4>1. SameConnections
        BY <3>4 DEF Interrupt, Interrupted, Close, SameConnections, TypeOK
      <4> QED
        BY <4>1, SameConnectionsKeep
    <3> QED
      BY <2>3, <3>1, <3>2, <3>3, <3>4 DEF Loop
  <2> QED
    BY <2>1, <2>2, <2>3 DEF Next
<1>3. IInv => ApprovalsFollowTheNewest
  OBVIOUS
<1> QED
  BY <1>1, <1>2, <1>3, TypeCorrect, PTL DEF Spec

-----------------------------------------------------------------------------
(* What the client's tools return                                          *)

\* Calls that were made have labels of their own, none ahead of the count.
CallInv ==
    /\ \A n \in Calls : call[n].fut # "unborn" => call[n].label <= callCount
    /\ \A n, m \in Calls : /\ call[n].fut # "unborn" /\ call[m].fut # "unborn"
                           /\ call[n].label = call[m].label
                           => n = m

\* A step that makes no call and brings no result
NoResult ==
    /\ callCount' = callCount
    /\ \A n \in Calls : /\ call'[n].label = call[n].label /\ call'[n].got = call[n].got
                        /\ call'[n].fut = "unborn" <=> call[n].fut = "unborn"

LEMMA NoResultKeeps ==
  ASSUME CallInv, ResultsReachTheirCall, NoResult
  PROVE  CallInv' /\ ResultsReachTheirCall'
  BY DEF CallInv, ResultsReachTheirCall, NoResult

LEMMA CallKeeps ==
  ASSUME TypeOK, CallInv, ResultsReachTheirCall, NEW c \in Conns, Call(c)
  PROVE  CallInv' /\ ResultsReachTheirCall'
<1>1. PICK n \in Calls :
        /\ call[n].fut = "unborn"
        /\ callCount' = callCount + 1
        /\ \/ call' = [call EXCEPT ![n] = [by |-> c, label |-> callCount + 1,
                                  listed |-> TRUE, fut |-> "pending", got |-> 0]]
           \/ call' = [call EXCEPT ![n] = [by |-> c, label |-> callCount + 1,
                                  listed |-> FALSE, fut |-> "raised", got |-> 0]]
  BY DEF Call
<1>2. /\ call'[n].label = callCount + 1 /\ call'[n].fut # "unborn" /\ call'[n].got = 0
      /\ \A m \in Calls \ {n} : call'[m] = call[m]
  BY <1>1 DEF TypeOK
<1>3. callCount \in Nat
  BY DEF TypeOK
<1>4. \A m \in Calls : call[m] \in Request
  BY DEF TypeOK
<1>5. CallInv'
  BY <1>1, <1>2, <1>3, <1>4 DEF CallInv, Request
<1>6. ResultsReachTheirCall'
  BY <1>2 DEF ResultsReachTheirCall
<1> QED
  BY <1>5, <1>6

\* A result settles at most the call it was made for.
LEMMA ResultKeeps ==
  ASSUME TypeOK, CallInv, ResultsReachTheirCall, NEW c \in Conns, NEW n \in Calls, Result(c, n)
  PROVE  CallInv' /\ ResultsReachTheirCall'
<1>1. \A m \in Calls : call[m] \in Request
  BY DEF TypeOK
<1>2. callCount' = callCount /\ call[n].fut # "unborn"
  BY DEF Result
<1>3. \A m \in Calls :
        /\ call'[m].label = call[m].label
        /\ call'[m].fut = "unborn" <=> call[m].fut = "unborn"
        /\ \/ call'[m].got = call[m].got
           \/ /\ call'[m].got = n /\ call[m].fut = "pending"
              /\ call[m].label = call[n].label
  BY <1>1 DEF Result, Request
<1>4. \A m \in Calls : call[m].fut = "pending" /\ call[m].label = call[n].label => m = n
  BY <1>2 DEF CallInv
<1>5. CallInv'
  BY <1>2, <1>3 DEF CallInv
<1>6. ResultsReachTheirCall'
  BY <1>3, <1>4 DEF ResultsReachTheirCall
<1> QED
  BY <1>5, <1>6

\* Unbinding cancels what is pending and settles nothing with a result.
LEMMA UnbindToolsQuiet ==
  ASSUME TypeOK, UnbindTools
  PROVE  NoResult
<1> DEFINE Cancelled(r) == [r EXCEPT !.listed = FALSE,
                                     !.fut = IF @ = "pending" THEN "cancelled" ELSE @]
<1>1. /\ call' = [n \in Calls |-> IF call[n].listed THEN Cancelled(call[n]) ELSE call[n]]
      /\ UNCHANGED callCount
  BY DEF UnbindTools
<1>2. \A r \in Request : /\ Cancelled(r).label = r.label /\ Cancelled(r).got = r.got
                         /\ Cancelled(r).fut = "unborn" <=> r.fut = "unborn"
  BY DEF Request
<1>3. \A n \in Calls : call[n] \in Request
  BY DEF TypeOK
<1> QED
  BY <1>1, <1>2, <1>3 DEF NoResult

LEMMA StepBringsNoResult ==
  ASSUME TypeOK, NEW c \in Conns, Step(c), ~Call(c)
  PROVE  NoResult
<1> USE DEF callVars
<1>1. \A n \in Calls : call[n] \in Request
  BY DEF TypeOK
<1>2. CASE Return(c)
  <2>1. /\ req[c] \in Calls /\ call[req[c]].fut \in {"done", "pending"}
        /\ call' = [call EXCEPT ![req[c]].listed = FALSE, ![req[c]].fut = "done"]
        /\ callCount' = callCount
    BY <1>2 DEF Return, Calling, TypeOK
  <2> QED
    BY <1>1, <2>1 DEF NoResult, Request, TypeOK
<1>3. CASE Unwind(c)
  <2>1. callCount' = callCount /\ Withdraw(c)
    BY <1>3 DEF Unwind
  <2>2. \/ UNCHANGED call
        \/ req[c] \in Calls /\ call' = [call EXCEPT ![req[c]].listed = FALSE]
    BY <2>1 DEF Withdraw, Calling, TypeOK
  <2> QED
    BY <1>1, <2>1, <2>2 DEF NoResult, Request, TypeOK
<1>4. CASE Ask(c) \/ Collect(c) \/ AskTimeout(c) \/ Killed(c) \/ EndTurn(c)
  BY <1>4 DEF Ask, Collect, AskTimeout, Killed, EndTurn, NoResult
<1> QED
  BY <1>2, <1>3, <1>4 DEF Step

\* What a client's tool returned reaches the call it was made for, late, repeated or sent
\* over another connection, for any number of connections and calls.
THEOREM ResultsAreNotCrossed == Spec => []ResultsReachTheirCall
<1> DEFINE IInv == CallInv /\ ResultsReachTheirCall
<1>1. Init => IInv
  BY DEF Init, CallInv, ResultsReachTheirCall
<1>2. TypeOK /\ IInv /\ [Next]_vars => IInv'
  <2> SUFFICES ASSUME TypeOK, IInv, [Next]_vars PROVE IInv'
    OBVIOUS
  <2> USE DEF callVars
  <2>1. CASE UNCHANGED vars
    BY <2>1, NoResultKeeps DEF vars, NoResult
  <2>2. ASSUME NEW c \in Conns, Step(c) PROVE IInv'
    BY <2>2, CallKeeps, StepBringsNoResult, NoResultKeeps
  <2>3. ASSUME NEW c \in Conns, Loop(c) PROVE IInv'
    <3>1. CASE \E n \in Calls : Result(c, n)
      BY <3>1, ResultKeeps
    <3>2. CASE Detach(c)
      BY <3>2, UnbindToolsQuiet, NoResultKeeps DEF Detach
    <3>3. CASE \/ Connect(c) \/ Lose(c) \/ StartTurn(c) \/ Interrupt(c) \/ Interrupted(c)
               \/ Close(c) \/ \E q \in Asks : Answer(c, q)
      <4>1. NoResult
        BY <3>3 DEF Connect, BindTools, Lose, StartTurn, Interrupt, Interrupted, Close, Answer,
                    NoResult
      <4> QED
        BY <4>1, NoResultKeeps
    <3> QED
      BY <2>3, <3>1, <3>2, <3>3 DEF Loop
  <2> QED
    BY <2>1, <2>2, <2>3 DEF Next
<1>3. IInv => ResultsReachTheirCall
  OBVIOUS
<1> QED
  BY <1>1, <1>2, <1>3, TypeCorrect, PTL DEF Spec

-----------------------------------------------------------------------------
(* Nobody waits in vain                                                    *)

Settled(f) == f \in {"yes", "no", "done", "cancelled", "raised"}

\* What Confirmations._pending and ClientTools._pending hold is what some turn waits for,
\* no more and no less, but for answers that are already there: nothing is left in them by
\* a timeout, a cancellation or a connection that went, and no turn sits out its timeout on
\* a future that nobody can settle any more.
AsksMatched ==
    /\ \A q \in Asks :
          ask[q].listed => /\ ask[q].by \in Conns /\ Asking(ask[q].by) /\ req[ask[q].by] = q
                           /\ ask[q].fut \in {"pending", "yes", "no"}
    /\ \A c \in Conns :
          Asking(c) => /\ ask[req[c]].by = c
                       /\ ask[req[c]].listed \/ Settled(ask[req[c]].fut)

CallsMatched ==
    /\ \A n \in Calls :
          call[n].listed => /\ call[n].by \in Conns /\ Calling(call[n].by) /\ req[call[n].by] = n
                            /\ call[n].fut \in {"pending", "done"}
    /\ \A c \in Conns :
          Calling(c) => /\ call[req[c]].by = c
                        /\ call[req[c]].listed \/ Settled(call[req[c]].fut)

WaitsAreListed == AsksMatched /\ CallsMatched

\* A step in which no turn starts or ends a wait for an answer: entries may be settled, and
\* those that are settled may be taken out.
LEMMA AsksStay ==
  ASSUME TypeOK, AsksMatched,
         \A d \in Conns : (Asking(d)' <=> Asking(d)) /\ (Asking(d) => req'[d] = req[d]),
         \A q \in Asks : /\ ask'[q].by = ask[q].by /\ (ask'[q].listed => ask[q].listed)
                         /\ \/ ask'[q].fut = ask[q].fut
                            \/ ask[q].fut = "pending" /\ ask'[q].fut \in {"yes", "no"}
                         /\ ask[q].listed /\ ~ask'[q].listed => ask'[q].fut # "pending"
  PROVE  AsksMatched'
<1>1. \A c \in Conns : Asking(c) => req[c] \in Asks
  BY DEF TypeOK, Asking
<1>2. ASSUME NEW q \in Asks, ask'[q].listed
      PROVE  /\ ask'[q].by \in Conns /\ pc'[ask'[q].by] = "asking"
             /\ req'[ask'[q].by] = q /\ ask'[q].fut \in {"pending", "yes", "no"}
  <2>1. PICK d \in Conns : d = ask[q].by /\ Asking(d) /\ req[d] = q
    BY <1>2 DEF AsksMatched
  <2>2. ask'[q].by = d /\ pc'[d] = "asking" /\ req'[d] = q
    BY <2>1 DEF Asking
  <2>3. ask'[q].fut \in {"pending", "yes", "no"}
    BY <1>2 DEF AsksMatched
  <2> QED
    BY <2>2, <2>3
<1>3. ASSUME NEW c \in Conns, Asking(c)'
      PROVE  /\ ask'[req'[c]].by = c
             /\ ask'[req'[c]].listed \/ Settled(ask'[req'[c]].fut)
  <2>1. Asking(c) /\ req'[c] = req[c] /\ req[c] \in Asks
    BY <1>1, <1>3
  <2>2. /\ ask[req[c]].by = c
        /\ \/ ask[req[c]].listed /\ ask[req[c]].fut \in {"pending", "yes", "no"}
           \/ Settled(ask[req[c]].fut)
    BY <2>1 DEF AsksMatched
  <2> QED
    BY <2>1, <2>2 DEF Settled
<1> QED
  BY <1>2, <1>3 DEF AsksMatched, Asking

LEMMA CallsStay ==
  ASSUME TypeOK, CallsMatched,
         \A d \in Conns : (Calling(d)' <=> Calling(d)) /\ (Calling(d) => req'[d] = req[d]),
         \A n \in Calls : /\ call'[n].by = call[n].by /\ (call'[n].listed => call[n].listed)
                          /\ \/ call'[n].fut = call[n].fut
                             \/ call[n].fut = "pending" /\ call'[n].fut = "done"
                             \/ call[n].fut = "pending" /\ call'[n].fut = "cancelled"
                                /\ ~call'[n].listed
                          /\ call[n].listed /\ ~call'[n].listed => call'[n].fut # "pending"
  PROVE  CallsMatched'
<1>1. \A c \in Conns : Calling(c) => req[c] \in Calls
  BY DEF TypeOK, Calling
<1>2. ASSUME NEW n \in Calls, call'[n].listed
      PROVE  /\ call'[n].by \in Conns /\ pc'[call'[n].by] = "calling"
             /\ req'[call'[n].by] = n /\ call'[n].fut \in {"pending", "done"}
  <2>1. PICK d \in Conns : d = call[n].by /\ Calling(d) /\ req[d] = n
    BY <1>2 DEF CallsMatched
  <2>2. call'[n].by = d /\ pc'[d] = "calling" /\ req'[d] = n
    BY <2>1 DEF Calling
  <2>3. call'[n].fut \in {"pending", "done"}
    BY <1>2 DEF CallsMatched
  <2> QED
    BY <2>2, <2>3
<1>3. ASSUME NEW c \in Conns, Calling(c)'
      PROVE  /\ call'[req'[c]].by = c
             /\ call'[req'[c]].listed \/ Settled(call'[req'[c]].fut)
  <2>1. Calling(c) /\ req'[c] = req[c] /\ req[c] \in Calls
    BY <1>1, <1>3
  <2>2. /\ call[req[c]].by = c
        /\ \/ call[req[c]].listed /\ call[req[c]].fut \in {"pending", "done"}
           \/ Settled(call[req[c]].fut)
    BY <2>1 DEF CallsMatched
  <2> QED
    BY <2>1, <2>2 DEF Settled
<1> QED
  BY <1>2, <1>3 DEF CallsMatched, Calling

\* A turn that stops waiting takes its entry with it.
LEMMA AskOver ==
  ASSUME TypeOK, AsksMatched, NEW c \in Conns, Asking(c), Popped(c), UNCHANGED req,
         \A d \in Conns : Asking(d)' <=> Asking(d) /\ d # c
  PROVE  AsksMatched'
<1>1. req[c] \in Asks /\ \A q \in Asks : ask[q] \in Question
  BY DEF TypeOK, Asking
<1>2. \A q \in Asks : /\ ask'[q].by = ask[q].by /\ ask'[q].fut = ask[q].fut
                      /\ ask'[q].listed <=> ask[q].listed /\ q # req[c]
  BY <1>1 DEF Popped, TypeOK, Question
<1>3. \A d \in Conns : Asking(d)' => req[d] \in Asks /\ req[d] # req[c]
  BY DEF TypeOK, AsksMatched, Asking
<1>4. \A q \in Asks : ask'[q].listed => ask[q].by # c
  BY <1>2 DEF AsksMatched
<1> QED
  BY <1>2, <1>3, <1>4 DEF AsksMatched, Asking

LEMMA CallOver ==
  ASSUME TypeOK, CallsMatched, NEW c \in Conns, Calling(c), UNCHANGED req,
         call' \in [Calls -> Request],
         \A n \in Calls \ {req[c]} : call'[n] = call[n],
         ~call'[req[c]].listed,
         \A d \in Conns : Calling(d)' <=> Calling(d) /\ d # c
  PROVE  CallsMatched'
<1>1. \A d \in Conns : Calling(d)' => req[d] \in Calls /\ req[d] # req[c]
  BY DEF TypeOK, CallsMatched, Calling
<1>2. \A n \in Calls : call'[n].listed => call[n].listed /\ call'[n] = call[n] /\ call[n].by # c
  BY DEF CallsMatched
<1> QED
  BY <1>1, <1>2 DEF CallsMatched, Calling

\* A turn that starts to wait.
LEMMA AskMatches ==
  ASSUME TypeOK, AsksMatched, NEW c \in Conns, Ask(c)
  PROVE  AsksMatched'
<1>1. PICK q \in Asks :
        /\ ask[q].fut = "unborn"
        /\ \/ /\ ask' = [ask EXCEPT ![q] = [by |-> c, label |-> askCount + 1,
                                            listed |-> TRUE, fut |-> "pending"]]
              /\ pc' = [pc EXCEPT ![c] = "asking"]
              /\ req' = [req EXCEPT ![c] = q]
           \/ /\ ask' = [ask EXCEPT ![q] = [by |-> c, label |-> askCount + 1,
                                            listed |-> FALSE, fut |-> "no"]]
              /\ UNCHANGED <<pc, req>>
  BY DEF Ask
<1>2. ~ask[q].listed /\ ~Asking(c)
  BY <1>1 DEF AsksMatched, Ask, Thinks, Asking
<1>3. \A d \in Conns : Asking(d) => req[d] \in Asks /\ req[d] # q
  BY <1>1, <1>2 DEF AsksMatched, TypeOK, Asking, Settled
<1>4. \A p \in Asks \ {q} : ask'[p] = ask[p] /\ (ask[p].listed => ask[p].by # c)
  BY <1>1, <1>2 DEF AsksMatched, TypeOK
<1>5. CASE /\ ask' = [ask EXCEPT ![q] = [by |-> c, label |-> askCount + 1,
                                         listed |-> TRUE, fut |-> "pending"]]
           /\ pc' = [pc EXCEPT ![c] = "asking"]
           /\ req' = [req EXCEPT ![c] = q]
  <2>1. /\ ask'[q].by = c /\ ask'[q].listed /\ ask'[q].fut = "pending"
        /\ \A d \in Conns : /\ Asking(d)' <=> Asking(d) \/ d = c
                            /\ req'[d] = IF d = c THEN q ELSE req[d]
    BY <1>5 DEF TypeOK, Asking
  <2> QED
    BY <1>3, <1>4, <2>1 DEF AsksMatched, Asking
<1>6. CASE /\ ask' = [ask EXCEPT ![q] = [by |-> c, label |-> askCount + 1,
                                         listed |-> FALSE, fut |-> "no"]]
           /\ UNCHANGED <<pc, req>>
  <2>1. ~ask'[q].listed
    BY <1>6 DEF TypeOK
  <2> QED
    BY <1>3, <1>4, <1>6, <2>1 DEF AsksMatched, Asking
<1> QED
  BY <1>1, <1>5, <1>6

LEMMA CallMatches ==
  ASSUME TypeOK, CallsMatched, NEW c \in Conns, Call(c)
  PROVE  CallsMatched'
<1>1. PICK n \in Calls :
        /\ call[n].fut = "unborn"
        /\ \/ /\ call' = [call EXCEPT ![n] = [by |-> c, label |-> callCount + 1,
                                   listed |-> TRUE, fut |-> "pending", got |-> 0]]
              /\ pc' = [pc EXCEPT ![c] = "calling"]
              /\ req' = [req EXCEPT ![c] = n]
           \/ /\ call' = [call EXCEPT ![n] = [by |-> c, label |-> callCount + 1,
                                   listed |-> FALSE, fut |-> "raised", got |-> 0]]
              /\ UNCHANGED <<pc, req>>
  BY DEF Call
<1>2. ~call[n].listed /\ ~Calling(c)
  BY <1>1 DEF CallsMatched, Call, Thinks, Calling
<1>3. \A d \in Conns : Calling(d) => req[d] \in Calls /\ req[d] # n
  BY <1>1, <1>2 DEF CallsMatched, TypeOK, Calling, Settled
<1>4. \A m \in Calls \ {n} : call'[m] = call[m] /\ (call[m].listed => call[m].by # c)
  BY <1>1, <1>2 DEF CallsMatched, TypeOK
<1>5. CASE /\ call' = [call EXCEPT ![n] = [by |-> c, label |-> callCount + 1,
                                listed |-> TRUE, fut |-> "pending", got |-> 0]]
           /\ pc' = [pc EXCEPT ![c] = "calling"]
           /\ req' = [req EXCEPT ![c] = n]
  <2>1. /\ call'[n].by = c /\ call'[n].listed /\ call'[n].fut = "pending"
        /\ \A d \in Conns : /\ Calling(d)' <=> Calling(d) \/ d = c
                            /\ req'[d] = IF d = c THEN n ELSE req[d]
    BY <1>5 DEF TypeOK, Calling
  <2> QED
    BY <1>3, <1>4, <2>1 DEF CallsMatched, Calling
<1>6. CASE /\ call' = [call EXCEPT ![n] = [by |-> c, label |-> callCount + 1,
                                listed |-> FALSE, fut |-> "raised", got |-> 0]]
           /\ UNCHANGED <<pc, req>>
  <2>1. ~call'[n].listed
    BY <1>6 DEF TypeOK
  <2> QED
    BY <1>3, <1>4, <1>6, <2>1 DEF CallsMatched, Calling
<1> QED
  BY <1>1, <1>5, <1>6

LEMMA LoopMatches ==
  ASSUME TypeOK, WaitsAreListed, NEW c \in Conns, Loop(c)
  PROVE  WaitsAreListed'
<1> DEFINE Kept == \A d \in Conns : /\ Asking(d)' <=> Asking(d)
                                    /\ Calling(d)' <=> Calling(d)
                                    /\ req'[d] = req[d]
<1>0. /\ \A q \in Asks : ask[q] \in Question
      /\ \A n \in Calls : call[n] \in Request
  BY DEF TypeOK
<1>1. CASE \/ Connect(c) \/ Lose(c) \/ StartTurn(c) \/ Interrupt(c) \/ Interrupted(c)
           \/ Close(c)
  <2>1. Kept /\ UNCHANGED <<ask, call>>
    BY <1>1 DEF Connect, BindAsks, BindTools, Lose, StartTurn, Interrupt, Interrupted, Close,
                turnVars, askVars, callVars, Asking, Calling, TypeOK
  <2> QED
    BY <2>1, AsksStay, CallsStay DEF WaitsAreListed
<1>2. CASE Detach(c)
  <2>1. Kept
    BY <1>2 DEF Detach, turnVars, Asking, Calling
  <2>2. AsksMatched'
    <3>1. CASE UNCHANGED ask
      BY <2>1, <3>1, AsksStay DEF WaitsAreListed
    <3>2. CASE ~UNCHANGED ask
      <4> DEFINE Refused(r) == [r EXCEPT !.listed = FALSE,
                                         !.fut = IF @ = "pending" THEN "no" ELSE @]
      <4>1. ask' = [q \in Asks |-> IF ask[q].listed THEN Refused(ask[q]) ELSE ask[q]]
        BY <1>2, <3>2 DEF Detach, UnbindAsks, askVars
      <4>2. \A r \in Question : /\ Refused(r).by = r.by /\ ~Refused(r).listed
                                /\ Refused(r).fut = IF r.fut = "pending" THEN "no" ELSE r.fut
        BY DEF Question
      <4> HIDE DEF Refused
      <4>3. \A q \in Asks : /\ ask'[q].by = ask[q].by /\ (ask'[q].listed => ask[q].listed)
                            /\ \/ ask'[q].fut = ask[q].fut
                               \/ ask[q].fut = "pending" /\ ask'[q].fut \in {"yes", "no"}
                            /\ ask[q].listed /\ ~ask'[q].listed => ask'[q].fut # "pending"
        BY <1>0, <4>1, <4>2
      <4> QED
        BY <2>1, <4>3, AsksStay DEF WaitsAreListed
    <3> QED
      BY <3>1, <3>2
  <2>3. CallsMatched'
    <3> DEFINE Gone(r) == [r EXCEPT !.listed = FALSE,
                                    !.fut = IF @ = "pending" THEN "cancelled" ELSE @]
    <3>1. call' = [n \in Calls |-> IF call[n].listed THEN Gone(call[n]) ELSE call[n]]
      BY <1>2 DEF Detach, UnbindTools
    <3>2. \A r \in Request : /\ Gone(r).by = r.by /\ ~Gone(r).listed
                             /\ Gone(r).fut = IF r.fut = "pending" THEN "cancelled" ELSE r.fut
      BY DEF Request
    <3> HIDE DEF Gone
    <3>3. \A n \in Calls : /\ call'[n].by = call[n].by /\ (call'[n].listed => call[n].listed)
                           /\ \/ call'[n].fut = call[n].fut
                              \/ call[n].fut = "pending" /\ call'[n].fut = "done"
                              \/ call[n].fut = "pending" /\ call'[n].fut = "cancelled"
                                 /\ ~call'[n].listed
                           /\ call[n].listed /\ ~call'[n].listed => call'[n].fut # "pending"
      BY <1>0, <3>1, <3>2
    <3> QED
      BY <2>1, <3>3, CallsStay DEF WaitsAreListed
  <2> QED
    BY <2>2, <2>3 DEF WaitsAreListed
<1>3. ASSUME NEW q \in Asks, Answer(c, q) PROVE WaitsAreListed'
  <2>1. PICK verdict \in {"yes", "no"} : Resolve(ask[q].label, verdict)
    BY <1>3 DEF Answer
  <2>2. \A r \in Question : /\ [r EXCEPT !.fut = verdict].by = r.by
                            /\ [r EXCEPT !.fut = verdict].listed = r.listed
                            /\ [r EXCEPT !.fut = verdict].fut = verdict
    BY DEF Question
  <2>3. \A p \in Asks : /\ ask'[p].by = ask[p].by /\ ask'[p].listed = ask[p].listed
                        /\ \/ ask'[p].fut = ask[p].fut
                           \/ ask[p].fut = "pending" /\ ask'[p].fut \in {"yes", "no"}
    BY <1>0, <2>1, <2>2 DEF Resolve
  <2>4. Kept /\ UNCHANGED call
    BY <1>3 DEF Answer, turnVars, callVars, Asking, Calling
  <2> QED
    BY <2>3, <2>4, AsksStay, CallsStay DEF WaitsAreListed
<1>4. ASSUME NEW n \in Calls, Result(c, n) PROVE WaitsAreListed'
  <2>1. \A r \in Request : /\ [r EXCEPT !.fut = "done", !.got = n].by = r.by
                           /\ [r EXCEPT !.fut = "done", !.got = n].listed = r.listed
                           /\ [r EXCEPT !.fut = "done", !.got = n].fut = "done"
    BY DEF Request
  <2>2. \A m \in Calls : /\ call'[m].by = call[m].by /\ call'[m].listed = call[m].listed
                         /\ \/ call'[m].fut = call[m].fut
                            \/ call[m].fut = "pending" /\ call'[m].fut = "done"
    BY <1>0, <1>4, <2>1 DEF Result
  <2>3. Kept /\ UNCHANGED ask
    BY <1>4 DEF Result, turnVars, askVars, Asking, Calling
  <2> QED
    BY <2>2, <2>3, AsksStay, CallsStay DEF WaitsAreListed
<1> QED
  BY <1>1, <1>2, <1>3, <1>4 DEF Loop

LEMMA StepMatches ==
  ASSUME TypeOK, WaitsAreListed, NEW c \in Conns, Step(c)
  PROVE  WaitsAreListed'
<1> DEFINE AsksKept == \A d \in Conns : (Asking(d)' <=> Asking(d)) /\ (Asking(d) => req'[d] = req[d])
           CallsKept == \A d \in Conns : (Calling(d)' <=> Calling(d)) /\ (Calling(d) => req'[d] = req[d])
<1>1. CASE Ask(c)
  <2>1. CallsKept /\ UNCHANGED call
    BY <1>1 DEF Ask, Thinks, Calling, callVars, TypeOK
  <2> QED
    BY <1>1, <2>1, AskMatches, CallsStay DEF WaitsAreListed
<1>2. CASE Collect(c) \/ AskTimeout(c)
  <2>1. CallsKept /\ UNCHANGED call /\ UNCHANGED req
    BY <1>2 DEF Collect, AskTimeout, Asking, Calling, callVars, TypeOK
  <2>2. Asking(c) /\ Popped(c) /\ \A d \in Conns : Asking(d)' <=> Asking(d) /\ d # c
    BY <1>2 DEF Collect, AskTimeout, Asking, TypeOK
  <2> QED
    BY <2>1, <2>2, AskOver, CallsStay DEF WaitsAreListed
<1>3. CASE Call(c)
  <2>1. AsksKept /\ UNCHANGED ask
    BY <1>3 DEF Call, Thinks, Asking, askVars, TypeOK
  <2> QED
    BY <1>3, <2>1, CallMatches, AsksStay DEF WaitsAreListed
<1>4. CASE Return(c)
  <2>1. AsksKept /\ UNCHANGED ask /\ UNCHANGED req
    BY <1>4 DEF Return, Asking, Calling, askVars, TypeOK
  <2>2. Calling(c) /\ \A d \in Conns : Calling(d)' <=> Calling(d) /\ d # c
    BY <1>4 DEF Return, Calling, TypeOK
  <2>3. /\ req[c] \in Calls /\ \A n \in Calls \ {req[c]} : call'[n] = call[n]
        /\ ~call'[req[c]].listed
    <3>1. req[c] \in Calls /\ call[req[c]] \in Request
      BY <2>2 DEF Calling, TypeOK
    <3>2. call' = [call EXCEPT ![req[c]] = [@ EXCEPT !.listed = FALSE, !.fut = "done"]]
      BY <1>4, <3>1 DEF Return, TypeOK
    <3>3. \A r \in Request : ~[r EXCEPT !.listed = FALSE, !.fut = "done"].listed
      BY DEF Request
    <3> QED
      BY <3>1, <3>2, <3>3 DEF TypeOK
  <2>4. call' \in [Calls -> Request]
    BY <1>4, StepTyped DEF TypeOK
  <2> QED
    BY <2>1, <2>2, <2>3, <2>4, AsksStay, CallOver DEF WaitsAreListed
<1>5. CASE Killed(c)
  <2>1. AsksKept /\ UNCHANGED ask /\ UNCHANGED req /\ UNCHANGED call
    BY <1>5 DEF Killed, Asking, Calling, askVars, callVars, TypeOK
  <2>2. Calling(c) /\ \A d \in Conns : Calling(d)' <=> Calling(d) /\ d # c
    BY <1>5 DEF Killed, Calling, TypeOK
  <2>3. ~call[req[c]].listed
    BY <1>5 DEF Killed, Calling, TypeOK, WaitsAreListed, CallsMatched
  <2>4. call' \in [Calls -> Request]
    BY <2>1 DEF TypeOK
  <2> QED
    BY <2>1, <2>2, <2>3, <2>4, AsksStay, CallOver DEF WaitsAreListed
<1>6. CASE EndTurn(c)
  <2>1. AsksKept /\ CallsKept /\ UNCHANGED <<ask, call>>
    BY <1>6 DEF EndTurn, Thinks, Asking, Calling, askVars, callVars, TypeOK
  <2> QED
    BY <2>1, AsksStay, CallsStay DEF WaitsAreListed
<1>7. CASE Unwind(c)
  <2>0. UNCHANGED req /\ pc' = [pc EXCEPT ![c] = "none"] /\ Withdraw(c)
    BY <1>7 DEF Unwind
  <2>1. AsksMatched'
    <3>1. CASE Asking(c)
      <4>1. Popped(c) /\ \A d \in Conns : Asking(d)' <=> Asking(d) /\ d # c
        BY <2>0, <3>1 DEF Withdraw, Asking, TypeOK
      <4> QED
        BY <2>0, <3>1, <4>1, AskOver DEF WaitsAreListed
    <3>2. CASE ~Asking(c)
      <4>1. AsksKept /\ UNCHANGED ask
        BY <2>0, <3>2 DEF Withdraw, Asking, TypeOK
      <4> QED
        BY <4>1, AsksStay DEF WaitsAreListed
    <3> QED
      BY <3>1, <3>2
  <2>2. CallsMatched'
    <3>1. CASE Calling(c)
      <4>1. \A d \in Conns : Calling(d)' <=> Calling(d) /\ d # c
        BY <2>0, <3>1 DEF Calling, TypeOK
      <4>2. req[c] \in Calls /\ call[req[c]] \in Request
        BY <3>1 DEF Calling, TypeOK
      <4>3. call' = [call EXCEPT ![req[c]].listed = FALSE]
        BY <2>0, <3>1 DEF Withdraw
      <4>4. (\A n \in Calls \ {req[c]} : call'[n] = call[n]) /\ ~call'[req[c]].listed
        BY <4>2, <4>3 DEF TypeOK, Request
      <4>5. call' \in [Calls -> Request]
        BY <1>7, StepTyped DEF TypeOK
      <4> QED
        BY <2>0, <3>1, <4>1, <4>4, <4>5, CallOver DEF WaitsAreListed
    <3>2. CASE ~Calling(c)
      <4>1. CallsKept /\ UNCHANGED call
        BY <2>0, <3>2 DEF Withdraw, Calling, TypeOK
      <4> QED
        BY <4>1, CallsStay DEF WaitsAreListed
    <3> QED
      BY <3>1, <3>2
  <2> QED
    BY <2>1, <2>2 DEF WaitsAreListed
<1> QED
  BY <1>1, <1>2, <1>3, <1>4, <1>5, <1>6, <1>7 DEF Step

\* Nothing is left behind in the two tables of waits, and nobody waits who is not in them
\* or answered, however timeouts, answers, cancellations and reconnects fall together.
THEOREM NobodyWaitsInVain == Spec => []WaitsAreListed
<1>1. Init => WaitsAreListed
  BY DEF Init, WaitsAreListed, AsksMatched, CallsMatched, Asking, Calling
<1>2. TypeOK /\ WaitsAreListed /\ [Next]_vars => WaitsAreListed'
  <2>1. TypeOK /\ WaitsAreListed /\ UNCHANGED vars => WaitsAreListed'
    BY DEF WaitsAreListed, AsksMatched, CallsMatched, Asking, Calling,
           vars, connVars, turnVars, askVars, callVars
  <2> QED
    BY <2>1, StepMatches, LoopMatches DEF Next
<1> QED
  BY <1>1, <1>2, TypeCorrect, PTL DEF Spec
=============================================================================
