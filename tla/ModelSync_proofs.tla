---------------------------- MODULE ModelSync_proofs ----------------------------
(* What holds of the shared keywords for any number of keywords, models, edits *)
(* and faults, with two passes under way.                                     *)
EXTENDS ModelSync, TLAPS

PassState == [pc : {"off", "pending", "push", "settle", "local", "apply"},
              plan : [Keywords -> Entry \cup {Keep}],
              at : Keywords \cup {Keep}]

\* What a pass is about to do for a keyword whose edit still waits: nothing but to push
\* that very edit.  An edit that comes while a pass works on the keyword does not count.
Pushing(p, k) ==
    /\ pass[p].pc \in {"push", "settle", "apply"}
    /\ pass[p].plan[k] # Keep
    /\ mine[k] # Keep
    => /\ pass[p].pc # "apply"
       /\ pass[p].pc = "settle" => pass[p].at # k
       /\ pass[p].plan[k] = mine[k]

Settling(p) ==
    pass[p].pc = "settle" => pass[p].at \in Keywords /\ pass[p].plan[pass[p].at] # Keep

\* Compare lets no malformed entry into what is written down.
Valid(p) == pass[p].pc = "apply" => \A k \in Keywords : pass[p].plan[k] # Bad

IInv ==
    /\ TypeOK
    /\ QueuedEditsWin
    /\ \A p \in Passes : Settling(p) /\ Valid(p) /\ \A k \in Keywords : Pushing(p, k)

-----------------------------------------------------------------------------
(* Types                                                                   *)

LEMMA Typed ==
  /\ NoRow \in Row
  /\ PassOff \in PassState /\ Begun \in PassState
  /\ AllKeep \in [Keywords -> Entry \cup {Keep}]
  /\ Passes = {"soon", "loop"}
  BY DEF NoRow, Row, PassOff, Begun, PassState, AllKeep, Entry, Passes

LEMMA InitTyped == Init => TypeOK
  BY Typed, SyncAssumption DEF Init, TypeOK, Unloaded, PassState, Entry, AllKeep

LEMMA RowsTyped ==
  ASSUME TypeOK, NEW k \in Keywords
  PROVE  /\ Effective \in [Keywords -> Models \cup {Nothing}]
         /\ Loaded \in [Keywords -> Models \cup {Nothing}]
         /\ Erased(k) \in [Keywords -> Row]
         /\ Marked(k) \in [Keywords -> Row]
         /\ Cleared(k) \in [Keywords -> Row]
         /\ \A m \in Models \cup {Nothing}, b \in BOOLEAN :
               Written(k, m, b) \in [Keywords -> Row]
  BY Typed DEF TypeOK, Effective, Loaded, Erased, Marked, Cleared, Written, Row

LEMMA PassesTyped ==
  ASSUME TypeOK, NEW p \in Passes
  PROVE  /\ Schedule => pass' \in [Passes -> PassState]
         /\ Stop(p) => pass' \in [Passes -> PassState]
         /\ \A plan \in [Keywords -> Entry \cup {Keep}] :
              \A pc \in {"push", "local", "apply"} :
                 Go(p, pc, plan) => pass' \in [Passes -> PassState]
  BY Typed DEF TypeOK, Schedule, Stop, Go, PassState

\* The work on a keyword is done.
LEMMA DoneTyped ==
  ASSUME pass \in [Passes -> PassState], NEW p \in Passes, NEW k \in Keywords
  PROVE  /\ [pass EXCEPT ![p].plan[k] = Keep] \in [Passes -> PassState]
         /\ [pass EXCEPT ![p].pc = "push", ![p].plan[k] = Keep, ![p].at = Keep]
               \in [Passes -> PassState]
<1> DEFINE plan == [pass[p].plan EXCEPT ![k] = Keep]
<1>1. plan \in [Keywords -> Entry \cup {Keep}]
  BY DEF PassState
<1>2. [pass[p] EXCEPT !.plan = plan] \in PassState
  <2> HIDE DEF plan
  <2> QED
    BY <1>1 DEF PassState
<1>3. [pass[p] EXCEPT !.pc = "push", !.plan = plan, !.at = Keep] \in PassState
  <2> HIDE DEF plan
  <2> QED
    BY <1>1 DEF PassState
<1> QED
  BY <1>2, <1>3

LEMMA EditTyped ==
  ASSUME TypeOK, NEW k \in Keywords,
         \/ \E m \in Models : Repoint(k, m)
         \/ Reset(k)
         \/ \E e \in Entry : EditElsewhere(k, e)
  PROVE  TypeOK'
<1>1. Edit => edits' \in 0 .. MaxEdits
  BY SyncAssumption DEF Edit, TypeOK
<1>2. ASSUME NEW m \in Models, Repoint(k, m)
      PROVE  TypeOK'
  <2>1. /\ row' \in [Keywords -> Row]
        /\ cache' \in [loaded : BOOLEAN, table : [Keywords -> Models \cup {Nothing}]]
    BY <1>2, RowsTyped DEF Repoint
  <2>2. pass' \in [Passes -> PassState]
    BY <1>2, PassesTyped, Typed DEF Repoint
  <2> QED
    BY <1>1, <1>2, <2>1, <2>2 DEF Repoint, TypeOK, PassState
<1>3. CASE Reset(k)
  <2>1. row' \in [Keywords -> Row]
    BY <1>3, RowsTyped DEF Reset
  <2>2. cache' \in [loaded : BOOLEAN, table : [Keywords -> Models \cup {Nothing}]]
    BY <1>3, <2>1 DEF Reset, Effective, Row
  <2>3. pass' \in [Passes -> PassState]
    BY <1>3, PassesTyped, Typed DEF Reset
  <2> QED
    BY <1>1, <1>3, <2>1, <2>2, <2>3 DEF Reset, TypeOK, PassState
<1>4. CASE \E e \in Entry : EditElsewhere(k, e)
  BY <1>1, <1>4 DEF EditElsewhere, TypeOK
<1> QED
  BY <1>2, <1>3, <1>4

LEMMA FaultTyped ==
  ASSUME TypeOK, Fault \/ NoFault
  PROVE  faults' \in 0 .. MaxFaults
  BY SyncAssumption DEF Fault, NoFault, TypeOK

LEMMA PassStepTyped ==
  ASSUME TypeOK, NEW p \in Passes, Settling(p), Valid(p), PassStep(p)
  PROVE  TypeOK'
<1> USE DEF PassState
<1>1. CASE ReadPending(p)
  <2>1. [k \in Keywords |-> IF row[k].held /\ ~row[k].synced THEN row[k].model ELSE Keep]
          \in [Keywords -> Entry \cup {Keep}]
    BY DEF TypeOK, Row, Entry
  <2>2. pass' \in [Passes -> PassState]
    BY <1>1, <2>1, PassesTyped DEF ReadPending
  <2> QED
    BY <1>1, <2>2 DEF ReadPending, TypeOK
<1>2. ASSUME NEW k \in Keywords, Request(p, k)
      PROVE  TypeOK'
  <2> DEFINE e == pass[p].plan[k]
  <2>1. e \in Entry
    BY <1>2 DEF Request, Work, TypeOK
  <2>2. remote' \in [Keywords -> Entry]
    BY <1>2, <2>1 DEF Request, Taken, TypeOK
  <2>3. mine' \in [Keywords -> Models \cup {Nothing, Keep}]
    BY <1>2 DEF Request, Taken, TypeOK
  <2>4. pass' \in [Passes -> PassState]
    BY <1>2, PassesTyped DEF Request, TypeOK
  <2> QED
    BY <1>2, <2>2, <2>3, <2>4, FaultTyped DEF Request, TypeOK
<1>3. CASE Settle(p)
  <2> DEFINE k == pass[p].at
  <2>0. k \in Keywords
    BY <1>3 DEF Settle, Settling
  <2>1. row' \in [Keywords -> Row]
    <3>1. row' \in {Erased(k), Marked(k)}
      BY <1>3 DEF Settle
    <3> QED
      BY <2>0, <3>1, RowsTyped
  <2>2. pass' \in [Passes -> PassState]
    BY <1>3, <2>0, DoneTyped DEF Settle, TypeOK
  <2>3. known' \in SUBSET Keywords /\ cleared' \in SUBSET Keywords
    <3>1. /\ known' \in {known \ {k}, known \cup {k}}
          /\ cleared' \in {cleared, cleared \ {k}}
      BY <1>3 DEF Settle
    <3> QED
      BY <2>0, <3>1 DEF TypeOK
  <2> QED
    BY <1>3, <2>1, <2>2, <2>3 DEF Settle, TypeOK
<1>4. CASE Pull(p)
  <2>1. pass' \in [Passes -> PassState]
    BY <1>4, PassesTyped DEF Pull, TypeOK
  <2> QED
    BY <1>4, <2>1, FaultTyped DEF Pull, TypeOK
<1>5. CASE Compare(p)
  <2> DEFINE left == [k \in Keywords |->
                        LET e == pass[p].plan[k]
                        IN  IF Wanted(k, e) \/ Pruned(k, e) THEN e ELSE Keep]
  <2>1. left \in [Keywords -> Entry \cup {Keep}]
    BY DEF TypeOK, PassState
  <2>2. pass' \in [Passes -> PassState]
    BY <1>5, <2>1, PassesTyped DEF Compare
  <2> QED
    BY <1>5, <2>2 DEF Compare, TypeOK
<1>6. ASSUME NEW k \in Keywords, Apply(p, k)
      PROVE  TypeOK'
  <2>0. pass[p].plan[k] \in Models \cup {Nothing}
    BY <1>6 DEF Apply, Valid, Work, TypeOK, Entry
  <2>1. row' \in [Keywords -> Row]
    <3>1. row' \in {row, Erased(k), Written(k, pass[p].plan[k], TRUE)}
      BY <1>6 DEF Apply
    <3>2. row \in [Keywords -> Row]
      BY DEF TypeOK
    <3>3. /\ Erased(k) \in [Keywords -> Row]
          /\ Written(k, pass[p].plan[k], TRUE) \in [Keywords -> Row]
      BY <2>0, RowsTyped
    <3> QED
      BY <3>1, <3>2, <3>3
  <2>2. pass' \in [Passes -> PassState]
    <3>1. CASE Stop(p)
      BY <3>1, PassesTyped
    <3>2. CASE pass' = [pass EXCEPT ![p].plan[k] = Keep]
      BY <3>2, DoneTyped DEF TypeOK
    <3> QED
      BY <1>6, <3>1, <3>2 DEF Apply
  <2>3. known' \in SUBSET Keywords
    <3>1. known' \in {known, known \ {k}, known \cup {k}}
      BY <1>6 DEF Apply
    <3> QED
      BY <3>1 DEF TypeOK
  <2> QED
    BY <1>6, <2>1, <2>2, <2>3, FaultTyped DEF Apply, TypeOK
<1>7. CASE Finish(p)
  BY <1>7, PassesTyped DEF Finish, TypeOK, Invalidated, Unloaded
<1> QED
  BY <1>1, <1>2, <1>3, <1>4, <1>5, <1>6, <1>7 DEF PassStep

LEMMA StepTyped ==
  ASSUME TypeOK, \A p \in Passes : Settling(p) /\ Valid(p), [Next]_vars
  PROVE  TypeOK'
<1>1. CASE Resolve
  BY <1>1, RowsTyped DEF Resolve, TypeOK, Loaded, Effective, Row
<1>2. CASE Tick
  BY <1>2, Typed DEF Tick, TypeOK, PassState
<1>3. CASE Restart
  BY <1>3, Typed, FaultTyped DEF Restart, TypeOK, PassState, Unloaded
<1>4. CASE UNCHANGED vars
  BY <1>4 DEF vars, TypeOK
<1> QED
  BY <1>1, <1>2, <1>3, <1>4, EditTyped, PassStepTyped DEF Next

-----------------------------------------------------------------------------
(* Queued edits                                                            *)

\* An edit: it is remembered as waiting only if no pass is working on its keyword.
LEMMA EditKeeps ==
  ASSUME IInv, NEW k \in Keywords,
         \/ \E m \in Models : Repoint(k, m)
         \/ Reset(k)
         \/ \E e \in Entry : EditElsewhere(k, e)
  PROVE  /\ QueuedEditsWin'
         /\ \A p \in Passes : (Settling(p) /\ Valid(p) /\ \A j \in Keywords : Pushing(p, j))'
<1>1. ASSUME Schedule
      PROVE  \A p \in Passes : \/ pass'[p] = pass[p]
                               \/ pass'[p].pc = "pending"
  BY <1>1, Typed DEF Schedule, IInv, TypeOK, Begun, PassOff
<1>2. ASSUME \/ \E m \in Models : Repoint(k, m)
             \/ Reset(k)
      PROVE  /\ QueuedEditsWin'
             /\ \A p \in Passes : (Settling(p) /\ Valid(p) /\ \A j \in Keywords : Pushing(p, j))'
  <2>1. /\ Schedule
        /\ \A j \in Keywords \ {k} : mine'[j] = mine[j] /\ row'[j] = row[j]
        /\ mine'[k] # Keep => ~Stale(k)
        /\ mine'[k] # Keep => row'[k] = [held |-> TRUE, model |-> mine'[k], synced |-> FALSE]
    <3>1. CASE Reset(k)
      BY <3>1 DEF Reset, Cleared, Erased, IInv, TypeOK, Row
    <3>2. ASSUME NEW m \in Models, Repoint(k, m)
          PROVE  <2>1!:
      BY <3>2 DEF Repoint, Written, IInv, TypeOK
    <3> QED
      BY <1>2, <3>1, <3>2
  <2>2. QueuedEditsWin'
    BY <2>1 DEF IInv, QueuedEditsWin
  <2>3. ASSUME NEW p \in Passes
        PROVE  (Settling(p) /\ Valid(p) /\ \A j \in Keywords : Pushing(p, j))'
    <3>1. CASE pass'[p].pc = "pending"
      BY <3>1 DEF Settling, Valid, Pushing
    <3>2. CASE pass'[p] = pass[p]
      BY <2>1, <2>3, <3>2 DEF Settling, Valid, Pushing, IInv, Stale
    <3> QED
      BY <1>1, <2>1, <2>3, <3>1, <3>2
  <2> QED
    BY <2>2, <2>3
<1>3. CASE \E e \in Entry : EditElsewhere(k, e)
  BY <1>3 DEF EditElsewhere, IInv, QueuedEditsWin, Settling, Valid, Pushing
<1> QED
  BY <1>2, <1>3

\* What a step of one pass has to respect: the other pass goes on from what it knew, so
\* no edit may be remembered anew.
LEMMA OtherPassKeeps ==
  ASSUME IInv, NEW p \in Passes, NEW q \in Passes, q # p,
         pass'[q] = pass[q],
         \A k \in Keywords : mine'[k] \in {mine[k], Keep}
  PROVE  (Settling(q) /\ Valid(q) /\ \A k \in Keywords : Pushing(q, k))'
  BY DEF IInv, Settling, Valid, Pushing

LEMMA PassStepKeeps ==
  ASSUME IInv, NEW p \in Passes, PassStep(p)
  PROVE  /\ QueuedEditsWin'
         /\ \A q \in Passes : (Settling(q) /\ Valid(q) /\ \A k \in Keywords : Pushing(q, k))'
<1> DEFINE Good == /\ QueuedEditsWin'
                   /\ (Settling(p) /\ Valid(p) /\ \A k \in Keywords : Pushing(p, k))'
                   /\ \A q \in Passes \ {p} : pass'[q] = pass[q]
                   /\ \A k \in Keywords : mine'[k] \in {mine[k], Keep}
<1> SUFFICES Good
  BY OtherPassKeeps
<1>0. /\ pass \in [Passes -> PassState]
      /\ QueuedEditsWin /\ Settling(p) /\ Valid(p)
      /\ \A k \in Keywords : Pushing(p, k)
      /\ mine \in [Keywords -> Models \cup {Nothing, Keep}]
      /\ row \in [Keywords -> Row]
  BY DEF IInv, TypeOK, PassState
<1>a. Stop(p) => /\ pass'[p] = PassOff
                 /\ \A q \in Passes \ {p} : pass'[q] = pass[q]
  BY <1>0 DEF Stop
<1>b. PassOff.pc = "off"
  BY DEF PassOff
<1>1. CASE ReadPending(p)
  <2>1. /\ pass'[p].pc = "push"
        /\ \A k \in Keywords : pass'[p].plan[k] = IF row[k].held /\ ~row[k].synced
                                                  THEN row[k].model ELSE Keep
        /\ \A q \in Passes \ {p} : pass'[q] = pass[q]
        /\ UNCHANGED <<mine, row>>
    BY <1>0, <1>1 DEF ReadPending, Go, PassState
  <2> QED
    BY <1>0, <2>1 DEF QueuedEditsWin, Settling, Valid, Pushing
<1>2. ASSUME NEW k \in Keywords, Request(p, k)
      PROVE  Good
  <2> DEFINE e == pass[p].plan[k]
  <2>1. pass[p].pc = "push" /\ e # Keep /\ UNCHANGED row
    BY <1>2 DEF Request, Work
  <2>2. \/ UNCHANGED mine
        \/ Taken(k, e)
    BY <1>2 DEF Request
  <2>3. /\ \A j \in Keywords : mine'[j] \in {mine[j], Keep}
        /\ Taken(k, e) => mine'[k] = Keep
    BY <1>0, <2>1, <2>2 DEF Taken, Pushing
  <2>4. QueuedEditsWin'
    BY <1>0, <2>1, <2>3 DEF QueuedEditsWin
  <2>5. CASE Stop(p)
    BY <1>a, <1>b, <2>3, <2>4, <2>5 DEF Settling, Valid, Pushing
  <2>6. CASE Taken(k, e) /\ pass' = [pass EXCEPT ![p].pc = "settle", ![p].at = k]
    <3>1. /\ pass'[p].pc = "settle" /\ pass'[p].at = k /\ pass'[p].plan = pass[p].plan
          /\ \A q \in Passes \ {p} : pass'[q] = pass[q]
      BY <1>0, <2>6 DEF PassState
    <3> QED
      BY <1>0, <2>1, <2>3, <2>4, <2>6, <3>1 DEF Settling, Valid, Pushing
  <2> QED
    BY <1>2, <2>5, <2>6 DEF Request
<1>3. CASE Settle(p)
  <2> DEFINE k == pass[p].at
  <2>1. pass[p].pc = "settle" /\ k \in Keywords /\ pass[p].plan[k] # Keep /\ mine[k] = Keep
    BY <1>0, <1>3 DEF Settle, Settling, Pushing
  <2>2. UNCHANGED mine /\ \A j \in Keywords \ {k} : row'[j] = row[j]
    BY <1>0, <1>3 DEF Settle, Erased, Marked
  <2>3. /\ pass'[p].pc = "push"
        /\ pass'[p].plan[k] = Keep
        /\ \A j \in Keywords \ {k} : pass'[p].plan[j] = pass[p].plan[j]
        /\ \A q \in Passes \ {p} : pass'[q] = pass[q]
    BY <1>0, <1>3, <2>1 DEF Settle, PassState
  <2>4. QueuedEditsWin'
    BY <1>0, <2>1, <2>2 DEF QueuedEditsWin
  <2> QED
    BY <1>0, <2>1, <2>2, <2>3, <2>4 DEF Settling, Valid, Pushing
<1>4. CASE Pull(p)
  <2>1. UNCHANGED <<row, mine>> /\ pass'[p].pc \in {"local", "off"}
        /\ \A q \in Passes \ {p} : pass'[q] = pass[q]
    BY <1>0, <1>4, <1>a, <1>b DEF Pull, Go, PassState
  <2> QED
    BY <1>0, <2>1 DEF QueuedEditsWin, Settling, Valid, Pushing
<1>5. CASE Compare(p)
  <2>1. /\ UNCHANGED <<row, mine>>
        /\ pass'[p].pc = "apply"
        /\ \A k \in Keywords :
              pass'[p].plan[k] # Keep => \/ Wanted(k, pass'[p].plan[k])
                                         \/ Pruned(k, pass'[p].plan[k])
        /\ \A q \in Passes \ {p} : pass'[q] = pass[q]
    BY <1>0, <1>5 DEF Compare, Go, PassState
  <2>2. \A k \in Keywords : mine[k] # Keep => pass'[p].plan[k] = Keep
    BY <1>0, <2>1 DEF QueuedEditsWin, Wanted, Pruned
  <2>3. \A k \in Keywords : pass'[p].plan[k] # Bad
    BY <2>1, SyncAssumption DEF Wanted, Pruned
  <2> QED
    BY <1>0, <2>1, <2>2, <2>3 DEF QueuedEditsWin, Settling, Valid, Pushing
<1>6. ASSUME NEW k \in Keywords, Apply(p, k)
      PROVE  Good
  <2>1. pass[p].pc = "apply" /\ pass[p].plan[k] # Keep /\ mine[k] = Keep
    BY <1>0, <1>6 DEF Apply, Work, Pushing
  <2>2. UNCHANGED mine /\ \A j \in Keywords \ {k} : row'[j] = row[j]
    BY <1>0, <1>6 DEF Apply, Erased, Written
  <2>3. QueuedEditsWin'
    BY <1>0, <2>1, <2>2 DEF QueuedEditsWin
  <2>4. CASE Stop(p)
    BY <1>a, <1>b, <2>2, <2>3, <2>4 DEF Settling, Valid, Pushing
  <2>5. CASE pass' = [pass EXCEPT ![p].plan[k] = Keep]
    <3>1. /\ pass'[p].pc = "apply"
          /\ pass'[p].plan[k] = Keep
          /\ \A j \in Keywords \ {k} : pass'[p].plan[j] = pass[p].plan[j]
          /\ \A q \in Passes \ {p} : pass'[q] = pass[q]
      BY <1>0, <2>1, <2>5 DEF PassState
    <3> QED
      BY <1>0, <2>1, <2>2, <2>3, <3>1, SyncAssumption DEF Settling, Valid, Pushing
  <2> QED
    BY <1>6, <2>4, <2>5 DEF Apply
<1>7. CASE Finish(p)
  BY <1>0, <1>7, <1>a, <1>b DEF Finish, QueuedEditsWin, Settling, Valid, Pushing
<1> QED
  BY <1>1, <1>2, <1>3, <1>4, <1>5, <1>6, <1>7 DEF PassStep

LEMMA StepKeeps == IInv /\ [Next]_vars => IInv'
<1> SUFFICES ASSUME IInv, [Next]_vars
             PROVE  IInv'
  OBVIOUS
<1>1. TypeOK'
  BY StepTyped DEF IInv
<1>2. ASSUME UNCHANGED <<row, mine>>,
             \A p \in Passes : pass'[p] = pass[p] \/ pass'[p].pc \in {"pending", "off"}
      PROVE  IInv'
  BY <1>1, <1>2 DEF IInv, QueuedEditsWin, Settling, Valid, Pushing
<1>3. CASE Resolve
  BY <1>2, <1>3 DEF Resolve
<1>4. CASE Tick
  BY <1>2, <1>4 DEF Tick, Begun, PassOff, IInv, TypeOK
<1>5. CASE Restart
  BY <1>2, <1>5 DEF Restart, Begun, PassOff
<1>6. CASE UNCHANGED vars
  BY <1>2, <1>6 DEF vars
<1> QED
  BY <1>1, <1>3, <1>4, <1>5, <1>6, EditKeeps, PassStepKeeps DEF Next, IInv

LEMMA InitGood == Init => IInv
  BY InitTyped DEF Init, IInv, QueuedEditsWin, AllKeep, Settling, Valid, Pushing, Begun, PassOff

THEOREM SyncInvariant == Spec => []IInv
  BY InitGood, StepKeeps, PTL DEF Spec

\* Rows, cache, table and passes are well typed: a malformed entry of the shared table
\* (valid_model) never reaches a row or the cache.
THEOREM TypeCorrect == Spec => []TypeOK
<1>1. IInv => TypeOK
  BY DEF IInv
<1> QED
  BY <1>1, SyncInvariant, PTL

\* sync_once, "a local change is still queued; it wins until it is pushed": however many
\* keywords, edits, lost requests and restarts there are, and whatever the two passes hold.
THEOREM QueuedEditsStay == Spec => []QueuedEditsWin
<1>1. IInv => QueuedEditsWin
  BY DEF IInv
<1> QED
  BY <1>1, SyncInvariant, PTL
=============================================================================
