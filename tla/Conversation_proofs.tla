-------------------------- MODULE Conversation_proofs --------------------------
(* What holds of the history of a session for any cap and any number of turns,  *)
(* one at a time or several.                                                    *)
EXTENDS Conversation, FiniteSetTheorems, WellFoundedInduction, TLAPS

LEMMA InitTyped == Init => TypeOK
  BY DEF Init, TypeOK

LEMMA AppendProperties ==
  ASSUME NEW h \in Seq(Entry), NEW e \in Entry
  PROVE  /\ Append(h, e) \in Seq(Entry)
         /\ Len(Append(h, e)) = Len(h) + 1
         /\ \A i \in 1 .. Len(h) : Append(h, e)[i] = h[i]
         /\ Append(h, e)[Len(h) + 1] = e
  OBVIOUS

\* What _trim returns is a part of the history up to its end.
LEMMA TrimProperties ==
  ASSUME NEW h \in Seq(Entry)
  PROVE  /\ Trim(h) \in Seq(Entry)
         /\ HistoryTurns # 0 => Len(Trim(h)) <= Cap
         /\ \/ Trim(h) = h
            \/ Trim(h) = <<>>
            \/ \E k \in 1 .. Len(h) : h[k].role = "user" /\ Trim(h) = SubSeq(h, k, Len(h))
<1> DEFINE low == Len(h) - Cap + 1
           front == {i \in low .. Len(h) : /\ h[i].role = "user"
                                           /\ \A j \in low .. i - 1 : h[j].role # "user"}
<1> HistoryTurns \in Nat /\ Len(h) \in Nat /\ Cap \in Nat
  BY ConversationAssumption DEF Cap
<1>1. CASE HistoryTurns = 0 \/ Len(h) <= Cap
  BY <1>1 DEF Trim
<1>2. CASE ~(HistoryTurns = 0 \/ Len(h) <= Cap) /\ front = {}
  <2>1. Trim(h) = <<>>
    BY <1>2 DEF Trim
  <2> QED
    BY <2>1
<1>3. CASE ~(HistoryTurns = 0 \/ Len(h) <= Cap) /\ front # {}
  <2> DEFINE k == CHOOSE i \in front : TRUE
  <2>1. k \in front
    BY <1>3
  <2>2. Trim(h) = SubSeq(h, k, Len(h))
    BY <1>3 DEF Trim
  <2>3. k \in 1 .. Len(h) /\ k \in low .. Len(h) /\ h[k].role = "user"
    BY <2>1, <1>3
  <2> HIDE DEF k
  <2>4. Trim(h) \in Seq(Entry) /\ Len(Trim(h)) = Len(h) - k + 1
    BY <2>2, <2>3
  <2> QED
    BY <2>2, <2>3, <2>4
<1> QED
  BY <1>1, <1>2, <1>3

LEMMA AddedTyped ==
  ASSUME TypeOK, NEW t \in Turns, NEW role \in {"user", "assistant"}, Added(role, t)
  PROVE  history' \in Seq(Entry)
<1>1. [role |-> role, turn |-> t] \in Entry
  BY DEF Entry
<1> QED
  BY <1>1, AppendProperties, TrimProperties DEF Added, TypeOK

\* The history is made of turns that asked, and only those may still be pending.
THEOREM TypeCorrect == Spec => []TypeOK
<1>1. TypeOK /\ [Next]_vars => TypeOK'
  <2> SUFFICES ASSUME TypeOK, [Next]_vars PROVE TypeOK'
    OBVIOUS
  <2>1. CASE UNCHANGED vars
    BY <2>1 DEF vars, TypeOK
  <2>2. ASSUME NEW t \in Turns, Ask(t) PROVE TypeOK'
    BY <2>2, AddedTyped DEF Ask, TypeOK
  <2>3. ASSUME NEW t \in Turns, Reply(t) PROVE TypeOK'
    BY <2>3, AddedTyped DEF Reply, TypeOK
  <2>4. ASSUME NEW t \in Turns, Drop(t) PROVE TypeOK'
    BY <2>4 DEF Drop, TypeOK
  <2> QED
    BY <2>1, <2>2, <2>3, <2>4 DEF Next
<1> QED
  BY InitTyped, <1>1, PTL DEF Spec

-----------------------------------------------------------------------------
(* One turn at a time                                                      *)

\* RepliesFollowTheirQuestion, of any history.
InPairs(h) ==
    \A i \in 1 .. Len(h) :
        h[i].role = "assistant"
          => i > 1 /\ h[i - 1].role = "user" /\ h[i - 1].turn = h[i].turn

\* Cutting a history in front of a question leaves its pairs and its end alone.
LEMMA CutInPairs ==
  ASSUME NEW h \in Seq(Entry), InPairs(h), NEW k \in 1 .. Len(h), h[k].role = "user"
  PROVE  LET g == SubSeq(h, k, Len(h))
         IN  InPairs(g) /\ g # <<>> /\ g[Len(g)] = h[Len(h)]
<1> DEFINE g == SubSeq(h, k, Len(h))
<1>1. Len(h) \in Nat
  OBVIOUS
<1>2. /\ Len(g) = Len(h) - k + 1
      /\ \A i \in 1 .. Len(g) : g[i] = h[k + i - 1]
  BY <1>1
<1> HIDE DEF g
<1>3. ASSUME NEW i \in 1 .. Len(g), g[i].role = "assistant"
      PROVE  i > 1 /\ g[i - 1].role = "user" /\ g[i - 1].turn = g[i].turn
  <2>1. k + i - 1 \in 1 .. Len(h) /\ h[k + i - 1].role = "assistant"
    BY <1>1, <1>2, <1>3
  <2>2. i # 1
    BY <2>1
  <2>3. i - 1 \in 1 .. Len(g) /\ k + (i - 1) - 1 = (k + i - 1) - 1
    BY <1>1, <1>2, <2>2
  <2> DEFINE m == k + i - 1
  <2>4. m > 1 /\ h[m - 1].role = "user" /\ h[m - 1].turn = h[m].turn
    BY <2>1 DEF InPairs
  <2>5. g[i] = h[m] /\ g[i - 1] = h[m - 1]
    BY <1>2, <2>3
  <2> HIDE DEF m
  <2> QED
    BY <2>2, <2>4, <2>5
<1>4. InPairs(g)
  BY <1>3 DEF InPairs
<1>5. g # <<>> /\ g[Len(g)] = h[Len(h)]
  BY <1>1, <1>2
<1> QED
  BY <1>4, <1>5 DEF g

\* What exceeds the cap goes, and at most one reply with it: the second entry that
\* is kept is a question if the first one is a reply.
LEMMA TrimInPairs ==
  ASSUME NEW h \in Seq(Entry), h # <<>>, InPairs(h)
  PROVE  InPairs(Trim(h)) /\ Trim(h) # <<>> /\ Trim(h)[Len(Trim(h))] = h[Len(h)]
<1> DEFINE low == Len(h) - Cap + 1
           front == {i \in low .. Len(h) : /\ h[i].role = "user"
                                           /\ \A j \in low .. i - 1 : h[j].role # "user"}
<1>0. HistoryTurns \in Nat /\ Len(h) \in Nat /\ Cap \in Nat
      /\ (HistoryTurns # 0 => Cap >= 2)
  BY ConversationAssumption DEF Cap
<1>1. CASE HistoryTurns = 0 \/ Len(h) <= Cap
  BY <1>1 DEF Trim
<1>2. CASE ~(HistoryTurns = 0 \/ Len(h) <= Cap)
  <2>1. low \in 1 .. Len(h) /\ low + 1 \in 1 .. Len(h)
    BY <1>0, <1>2
  <2>2. \A i \in 1 .. Len(h) : h[i].role \in {"user", "assistant"}
    <3>1. \A i \in 1 .. Len(h) : h[i] \in Entry
      OBVIOUS
    <3> QED
      BY <3>1 DEF Entry
  <2>3. h[low].role = "user" \/ h[low + 1].role = "user"
    <3>1. h[low + 1].role = "assistant" => h[low].role = "user"
      BY <2>1 DEF InPairs
    <3> QED
      BY <2>1, <2>2, <3>1
  <2>4. front # {}
    <3>1. CASE h[low].role = "user"
      <4>1. low \in front
        BY <1>0, <2>1, <3>1
      <4> QED
        BY <4>1
    <3>2. CASE h[low].role # "user"
      <4>1. low .. (low + 1) - 1 = {low}
        BY <1>0
      <4>2. low + 1 \in front
        BY <1>0, <2>1, <2>3, <3>2, <4>1
      <4> QED
        BY <4>2
    <3> QED
      BY <3>1, <3>2
  <2> DEFINE k == CHOOSE i \in front : TRUE
  <2>5. k \in front
    BY <2>4
  <2>6. Trim(h) = SubSeq(h, k, Len(h))
    BY <1>2, <2>4 DEF Trim
  <2>7. k \in 1 .. Len(h) /\ h[k].role = "user"
    BY <1>0, <2>1, <2>5
  <2> HIDE DEF k
  <2> QED
    BY <2>6, <2>7, CutInPairs
<1> QED
  BY <1>1, <1>2

\* While a turn is in flight its question ends the history: what makes the reply
\* land behind it.
QuestionIsLast ==
    \A t \in pending :
        history # <<>> /\ history[Len(history)] = [role |-> "user", turn |-> t]

IInv == InPairs(history) /\ QuestionIsLast

LEMMA AskInPairs ==
  ASSUME TypeOK, IInv, InFlight = 1, NEW t \in Turns, Ask(t)
  PROVE  IInv'
<1> DEFINE e == [role |-> "user", turn |-> t]
<1>1. pending = {}
  <2>1. IsFiniteSet(pending)
    <3>1. IsFiniteSet(1 .. MaxTurns)
      BY ConversationAssumption, FS_Interval
    <3>2. pending \subseteq 1 .. MaxTurns
      BY DEF TypeOK, Turns
    <3> QED
      BY <3>1, <3>2, FS_Subset
  <2>2. Cardinality(pending) \in Nat /\ Cardinality(pending) < 1
    BY <2>1, FS_CardinalityType DEF Ask
  <2> QED
    BY <2>1, <2>2, FS_EmptySet
<1>2. e \in Entry /\ history \in Seq(Entry)
  BY DEF Entry, TypeOK
<1> DEFINE h == Append(history, e)
<1>3. h \in Seq(Entry) /\ Len(h) = Len(history) + 1 /\ h[Len(h)] = e
      /\ \A i \in 1 .. Len(history) : h[i] = history[i]
  BY <1>2, AppendProperties
<1>4. Len(history) \in Nat
  BY <1>2
<1>5. history' = Trim(h) /\ pending' = {t}
  BY <1>1 DEF Ask, Added
<1> HIDE DEF h
<1>6. InPairs(h)
  <2> SUFFICES ASSUME NEW i \in 1 .. Len(h), h[i].role = "assistant"
               PROVE  i > 1 /\ h[i - 1].role = "user" /\ h[i - 1].turn = h[i].turn
    BY DEF InPairs
  <2>1. i \in 1 .. Len(history)
    BY <1>3, <1>4
  <2>2. i > 1 /\ history[i - 1].role = "user" /\ history[i - 1].turn = history[i].turn
    BY <1>3, <2>1 DEF IInv, InPairs
  <2> QED
    BY <1>3, <1>4, <2>1, <2>2
<1>7. h # <<>>
  BY <1>3, <1>4
<1> QED
  BY <1>3, <1>5, <1>6, <1>7, TrimInPairs DEF IInv, QuestionIsLast

LEMMA ReplyInPairs ==
  ASSUME TypeOK, IInv, NEW t \in Turns, Reply(t)
  PROVE  IInv'
<1> DEFINE e == [role |-> "assistant", turn |-> t]
<1>1. history # <<>> /\ history[Len(history)] = [role |-> "user", turn |-> t]
  BY DEF Reply, IInv, QuestionIsLast
<1>2. pending' = {}
  <2>1. ASSUME NEW u \in pending PROVE u = t
    <3>1. [role |-> "user", turn |-> u] = [role |-> "user", turn |-> t]
      BY <1>1 DEF IInv, QuestionIsLast
    <3> QED
      BY <3>1
  <2> QED
    BY <2>1 DEF Reply
<1>3. e \in Entry /\ history \in Seq(Entry)
  BY DEF Entry, TypeOK
<1> DEFINE h == Append(history, e)
<1>4. h \in Seq(Entry) /\ Len(h) = Len(history) + 1 /\ h[Len(h)] = e
      /\ \A i \in 1 .. Len(history) : h[i] = history[i]
  BY <1>3, AppendProperties
<1>5. Len(history) \in Nat /\ Len(history) >= 1
  BY <1>1, <1>3
<1>6. history' = Trim(h)
  BY DEF Reply, Added
<1> HIDE DEF h
<1>7. InPairs(h)
  <2> SUFFICES ASSUME NEW i \in 1 .. Len(h), h[i].role = "assistant"
               PROVE  i > 1 /\ h[i - 1].role = "user" /\ h[i - 1].turn = h[i].turn
    BY DEF InPairs
  <2>1. CASE i = Len(h)
    BY <1>1, <1>4, <1>5, <2>1
  <2>2. CASE i # Len(h)
    <3>1. i \in 1 .. Len(history)
      BY <1>4, <1>5, <2>2
    <3>2. i > 1 /\ history[i - 1].role = "user" /\ history[i - 1].turn = history[i].turn
      BY <1>4, <3>1 DEF IInv, InPairs
    <3> QED
      BY <1>4, <1>5, <3>1, <3>2
  <2> QED
    BY <2>1, <2>2
<1>8. h # <<>>
  BY <1>4, <1>5
<1> QED
  BY <1>2, <1>4, <1>6, <1>7, <1>8, TrimInPairs DEF IInv, QuestionIsLast

\* With one turn at a time every recorded reply stands behind its own question,
\* whatever the cap cut off and however many turns were dropped.
THEOREM RepliesAreInPairs ==
  ASSUME InFlight = 1
  PROVE  Spec => []RepliesFollowTheirQuestion
<1>1. Init => IInv
  BY DEF Init, IInv, InPairs, QuestionIsLast
<1>2. TypeOK /\ IInv /\ [Next]_vars => IInv'
  <2> SUFFICES ASSUME TypeOK, IInv, [Next]_vars PROVE IInv'
    OBVIOUS
  <2>1. CASE UNCHANGED vars
    BY <2>1 DEF vars, IInv, InPairs, QuestionIsLast
  <2>2. ASSUME NEW t \in Turns, Ask(t) PROVE IInv'
    BY <2>2, AskInPairs
  <2>3. ASSUME NEW t \in Turns, Reply(t) PROVE IInv'
    BY <2>3, ReplyInPairs
  <2>4. ASSUME NEW t \in Turns, Drop(t) PROVE IInv'
    BY <2>4 DEF Drop, IInv, InPairs, QuestionIsLast
  <2> QED
    BY <2>1, <2>2, <2>3, <2>4 DEF Next
<1>3. IInv => RepliesFollowTheirQuestion
  BY DEF IInv, InPairs, RepliesFollowTheirQuestion
<1> QED
  BY <1>1, <1>2, <1>3, TypeCorrect, PTL DEF Spec

-----------------------------------------------------------------------------
(* Several turns at a time                                                 *)

\* A history that begins with the user's words, and has no more replies at its end than
\* turns were in flight when its last question was asked: n are still to come.
HeardOf(h, n) ==
    /\ h[1].role = "user"
    /\ \E i \in 1 .. Len(h) : h[i].role = "user" /\ (Len(h) - i) + n <= InFlight

Heard ==
    /\ Cardinality(pending) <= InFlight
    /\ (history = <<>>) => (pending = {})
    /\ (history # <<>>) => HeardOf(history, Cardinality(pending))

LEMMA Smallest ==
  ASSUME NEW T \in SUBSET Nat, T # {}
  PROVE  \E x \in T : \A y \in T : x <= y
<1>1. PICK x \in T : \A y \in T : ~(<<y, x>> \in OpToRel(<, Nat))
  BY WFMin, NatLessThanWellFounded, Zenon
<1>2. x \in Nat /\ \A y \in T : y \in Nat /\ ~(y < x)
  BY <1>1 DEF OpToRel
<1> QED
  BY <1>2

\* _trim drops all there is only when nobody is left to reply.
LEMMA TrimHeard ==
  ASSUME HistoryTurns = 0 \/ InFlight <= Cap,
         NEW h \in Seq(Entry), h # <<>>, NEW n \in Nat, HeardOf(h, n)
  PROVE  IF Trim(h) = <<>> THEN n = 0 ELSE HeardOf(Trim(h), n)
<1> DEFINE low == Len(h) - Cap + 1
           front == {i \in low .. Len(h) : /\ h[i].role = "user"
                                           /\ \A j \in low .. i - 1 : h[j].role # "user"}
<1>0. /\ HistoryTurns \in Nat /\ Len(h) \in Nat /\ Len(h) >= 1 /\ Cap \in Nat
      /\ InFlight \in Nat
  BY ConversationAssumption DEF Cap
<1>1. CASE HistoryTurns = 0 \/ Len(h) <= Cap
  BY <1>1 DEF Trim
<1>2. CASE ~(HistoryTurns = 0 \/ Len(h) <= Cap)
  <2>1. low \in 1 .. Len(h) \/ low = Len(h) + 1
    BY <1>0, <1>2
  <2>2. PICK i \in 1 .. Len(h) : h[i].role = "user" /\ (Len(h) - i) + n <= InFlight
    BY DEF HeardOf
  <2>3. CASE front = {}
    <3>1. i < low
      <4> SUFFICES ASSUME i >= low PROVE FALSE
        BY <1>0, <2>1
      <4> DEFINE U == {j \in low .. Len(h) : h[j].role = "user"}
      <4>1. U \in SUBSET Nat /\ i \in U
        BY <1>0, <2>1, <2>2
      <4>2. PICK k \in U : \A j \in U : k <= j
        BY <1>0, <2>1, <4>1, Smallest
      <4>3. k \in front
        BY <1>0, <2>1, <4>2
      <4> QED
        BY <2>3, <4>3
    <3>2. n = 0
      BY <1>0, <1>2, <2>2, <3>1
    <3>3. Trim(h) = <<>>
      BY <1>2, <2>3 DEF Trim
    <3> QED
      BY <3>2, <3>3
  <2>4. CASE front # {}
    <3> DEFINE k == CHOOSE j \in front : TRUE
    <3>1. k \in front
      BY <2>4
    <3>2. Trim(h) = SubSeq(h, k, Len(h))
      BY <1>2, <2>4 DEF Trim
    <3> DEFINE g == SubSeq(h, k, Len(h))
    <3> HIDE DEF k
    <3>3. k \in 1 .. Len(h) /\ h[k].role = "user"
          /\ \A j \in low .. k - 1 : h[j].role # "user"
      BY <1>0, <2>1, <3>1
    <3>4. Len(g) = Len(h) - k + 1 /\ \A j \in 1 .. Len(g) : g[j] = h[k + j - 1]
      BY <1>0, <3>3
    <3> HIDE DEF g
    <3>5. g[1].role = "user" /\ Len(g) >= 1 /\ g # <<>>
      BY <1>0, <3>3, <3>4
    <3>6. \E m \in 1 .. Len(g) : g[m].role = "user" /\ (Len(g) - m) + n <= InFlight
      <4>1. CASE i >= k
        <5>1. i - k + 1 \in 1 .. Len(g) /\ k + (i - k + 1) - 1 = i
              /\ Len(g) - (i - k + 1) = Len(h) - i
          BY <1>0, <2>2, <3>3, <3>4, <4>1
        <5>2. g[i - k + 1].role = "user"
          BY <2>2, <3>4, <5>1
        <5> QED
          BY <2>2, <5>1, <5>2
      <4>2. CASE i < k
        <5>1. (Len(g) - 1) + n <= InFlight /\ 1 \in 1 .. Len(g)
          BY <1>0, <2>2, <3>3, <3>4, <4>2
        <5> QED
          BY <3>5, <5>1
      <4> QED
        BY <1>0, <2>2, <3>3, <4>1, <4>2
    <3>7. Trim(h) = g
      BY <3>2 DEF g
    <3> QED
      BY <3>5, <3>6, <3>7 DEF HeardOf
  <2> QED
    BY <2>3, <2>4
<1> QED
  BY <1>1, <1>2

LEMMA PendingCounted ==
  ASSUME TypeOK
  PROVE  IsFiniteSet(pending) /\ Cardinality(pending) \in Nat
<1>1. IsFiniteSet(1 .. MaxTurns)
  BY ConversationAssumption, FS_Interval
<1>2. pending \subseteq 1 .. MaxTurns
  BY DEF TypeOK, Turns
<1> QED
  BY <1>1, <1>2, FS_Subset, FS_CardinalityType

LEMMA AskHeard ==
  ASSUME TypeOK, Heard, HistoryTurns = 0 \/ InFlight <= Cap, NEW t \in Turns, Ask(t)
  PROVE  Heard'
<1> DEFINE e == [role |-> "user", turn |-> t]
           h == Append(history, e)
<1>1. Cardinality(pending') \in Nat /\ Cardinality(pending') <= InFlight
  <2>1. t \notin pending
    BY DEF Ask, TypeOK
  <2>2. Cardinality(pending \cup {t}) = Cardinality(pending) + 1
    BY <2>1, PendingCounted, FS_AddElement
  <2> QED
    BY <2>2, PendingCounted, ConversationAssumption DEF Ask
<1>2. e \in Entry /\ history \in Seq(Entry)
  BY DEF Entry, TypeOK
<1>3. h \in Seq(Entry) /\ Len(h) = Len(history) + 1 /\ h[Len(h)] = e /\ Len(h) \in Nat
      /\ \A i \in 1 .. Len(history) : h[i] = history[i]
  BY <1>2, AppendProperties
<1>4. history' = Trim(h)
  BY DEF Ask, Added
<1> HIDE DEF h
<1>5. h[1].role = "user"
  <2>1. CASE history = <<>>
    BY <1>3, <2>1
  <2>2. CASE history # <<>>
    <3>1. 1 \in 1 .. Len(history)
      BY <1>2, <2>2
    <3> QED
      BY <1>3, <2>2, <3>1 DEF Heard, HeardOf
  <2> QED
    BY <2>1, <2>2
<1>6. HeardOf(h, Cardinality(pending'))
  <2>1. Len(h) \in 1 .. Len(h) /\ h[Len(h)].role = "user"
        /\ (Len(h) - Len(h)) + Cardinality(pending') <= InFlight
    BY <1>1, <1>2, <1>3
  <2> QED
    BY <1>5, <2>1 DEF HeardOf
<1>7. h # <<>>
  BY <1>2, <1>3
<1>8. IF history' = <<>> THEN Cardinality(pending') = 0
      ELSE HeardOf(history', Cardinality(pending'))
  BY <1>1, <1>3, <1>4, <1>6, <1>7, TrimHeard
<1>9. Cardinality(pending') = 0 => pending' = {}
  <2>1. IsFiniteSet(pending')
    BY PendingCounted, FS_AddElement DEF Ask
  <2> QED
    BY <2>1, FS_EmptySet
<1> QED
  BY <1>1, <1>8, <1>9 DEF Heard, HeardOf

LEMMA ReplyHeard ==
  ASSUME TypeOK, Heard, HistoryTurns = 0 \/ InFlight <= Cap, NEW t \in Turns,
         Reply(t) \/ Drop(t)
  PROVE  Heard'
<1> DEFINE e == [role |-> "assistant", turn |-> t]
           h == Append(history, e)
<1>1. /\ Cardinality(pending') = Cardinality(pending) - 1 /\ Cardinality(pending') \in Nat
      /\ Cardinality(pending') = 0 => pending' = {}
  <2>1. t \in pending /\ pending' = pending \ {t}
    BY DEF Reply, Drop
  <2>2. IsFiniteSet(pending') /\ Cardinality(pending') = Cardinality(pending) - 1
    BY <2>1, PendingCounted, FS_RemoveElement
  <2> QED
    BY <2>2, FS_EmptySet, FS_CardinalityType
<1>2. history # <<>> /\ HeardOf(history, Cardinality(pending))
      /\ Cardinality(pending) <= InFlight /\ InFlight \in Nat
  BY ConversationAssumption DEF Reply, Drop, Heard
<1>3. e \in Entry /\ history \in Seq(Entry) /\ Len(history) \in Nat
  BY DEF Entry, TypeOK
<1>4. PICK i \in 1 .. Len(history) :
         history[i].role = "user" /\ (Len(history) - i) + Cardinality(pending) <= InFlight
  BY <1>2 DEF HeardOf
<1>5. CASE Drop(t)
  <2>1. (Len(history) - i) + Cardinality(pending') <= InFlight
    BY <1>1, <1>2, <1>3, <1>4, PendingCounted
  <2>2. HeardOf(history, Cardinality(pending')) /\ history' = history
    BY <1>2, <1>4, <1>5, <2>1 DEF HeardOf, Drop
  <2>3. Cardinality(pending') <= InFlight
    BY <1>1, <1>2, PendingCounted
  <2>4. history' # <<>> /\ HeardOf(history', Cardinality(pending'))
    BY <1>2, <2>2
  <2> QED
    BY <2>3, <2>4 DEF Heard, HeardOf
<1>6. CASE Reply(t)
  <2>1. h \in Seq(Entry) /\ Len(h) = Len(history) + 1
        /\ \A j \in 1 .. Len(history) : h[j] = history[j]
    BY <1>3, AppendProperties
  <2>2. history' = Trim(h)
    BY <1>6 DEF Reply, Added
  <2> HIDE DEF h
  <2>3. /\ 1 \in 1 .. Len(history) /\ i \in 1 .. Len(h) /\ h # <<>>
        /\ (Len(h) - i) + Cardinality(pending') <= InFlight
    BY <1>1, <1>2, <1>3, <1>4, <2>1, PendingCounted
  <2>4. HeardOf(h, Cardinality(pending'))
    BY <1>2, <1>4, <2>1, <2>3 DEF HeardOf
  <2>5. IF history' = <<>> THEN Cardinality(pending') = 0
        ELSE HeardOf(history', Cardinality(pending'))
    BY <1>1, <2>1, <2>2, <2>3, <2>4, TrimHeard
  <2> QED
    BY <1>1, <1>2, <2>5, PendingCounted DEF Heard, HeardOf
<1> QED
  BY <1>5, <1>6

\* What is replayed to the model is within the cap and begins with the user, for as many
\* turns at once as the cap has entries.
THEOREM HistoryIsReplayable ==
  ASSUME HistoryTurns = 0 \/ InFlight <= Cap
  PROVE  Spec => []HistoryReplayable
<1> DEFINE Short == HistoryTurns # 0 => Len(history) <= Cap
<1>1. Init => Short /\ Heard
  BY ConversationAssumption, FS_EmptySet DEF Init, Cap, Heard
<1>2. TypeOK /\ Short /\ Heard /\ [Next]_vars => (Short /\ Heard)'
  <2> SUFFICES ASSUME TypeOK, Short, Heard, [Next]_vars PROVE Short' /\ Heard'
    OBVIOUS
  <2>1. CASE UNCHANGED vars
    BY <2>1 DEF vars, Heard, HeardOf
  <2>2. ASSUME NEW t \in Turns, NEW role \in {"user", "assistant"}, Added(role, t)
        PROVE  Short'
    <3>1. Append(history, [role |-> role, turn |-> t]) \in Seq(Entry)
      BY AppendProperties DEF TypeOK, Entry
    <3> QED
      BY <2>2, <3>1, TrimProperties DEF Added
  <2>3. ASSUME NEW t \in Turns, Ask(t) PROVE Short' /\ Heard'
    BY <2>2, <2>3, AskHeard DEF Ask
  <2>4. ASSUME NEW t \in Turns, Reply(t) PROVE Short' /\ Heard'
    BY <2>2, <2>4, ReplyHeard DEF Reply
  <2>5. ASSUME NEW t \in Turns, Drop(t) PROVE Short' /\ Heard'
    BY <2>5, ReplyHeard DEF Drop
  <2> QED
    BY <2>1, <2>3, <2>4, <2>5 DEF Next
<1>3. Short /\ Heard => HistoryReplayable
  BY DEF HistoryReplayable, Heard, HeardOf
<1> QED
  BY <1>1, <1>2, <1>3, TypeCorrect, PTL DEF Spec
=============================================================================
