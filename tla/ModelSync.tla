------------------------------- MODULE ModelSync -------------------------------
(***************************************************************************)
(* The model keywords: the overrides in SQLite (app/memory/store.py), the    *)
(* cache every turn resolves through (app/models.py, _Catalogue) and the      *)
(* passes that reconcile the rows with the ecosystem's sync store             *)
(* (app/model_sync.py).                                                      *)
(*                                                                         *)
(* A pass is push, then pull, then prune, with an await at every row: it     *)
(* works from copies it has read earlier.  Two passes may be under way, the  *)
(* one an edit schedules and the periodic one; edits come from the clients    *)
(* meanwhile, and from other apps straight into the sync store.              *)
(***************************************************************************)
EXTENDS Naturals

CONSTANTS
    Keywords,
    Models,     \* model ids that pass valid_model
    Bad,        \* an entry of the shared table that does not
    Nothing,    \* no entry; in a row, the empty model of a tombstone
    Keep,       \* in a pass: no work for this keyword
    MaxEdits,   \* bound: edits, here and elsewhere
    MaxFaults   \* bound: failed requests, failed writes and restarts

ASSUME SyncAssumption ==
    /\ Bad \notin Models /\ Nothing \notin Models /\ Keep \notin Models
    /\ Bad # Nothing /\ Keep # Nothing /\ Keep # Bad /\ Keep \notin Keywords
    /\ MaxEdits \in Nat
    /\ MaxFaults \in Nat

Passes == {"soon", "loop"}   \* _task, and the one sync_loop runs

VARIABLES
    row,      \* model_keywords
    cache,    \* _Catalogue._overrides
    remote,   \* the shared table
    pass,     \* the passes under way
    edits,
    faults,
    mine,     \* history: the edit made here, between passes, that the store has not taken
    known,    \* history: the keywords whose row the store has taken or supplied
    cleared   \* history: those of them reset here, between passes, and set by nobody since

vars == <<row, cache, remote, pass, edits, faults, mine, known, cleared>>

Entry == Models \cup {Bad, Nothing}
Row == [held : BOOLEAN, model : Models \cup {Nothing}, synced : BOOLEAN]
NoRow == [held |-> FALSE, model |-> Nothing, synced |-> FALSE]

AllKeep == [k \in Keywords |-> Keep]
PassOff == [pc |-> "off", plan |-> AllKeep, at |-> Keep]
Begun == [PassOff EXCEPT !.pc = "pending"]
Unloaded == [loaded |-> FALSE, table |-> [k \in Keywords |-> Nothing]]

TypeOK ==
    /\ row \in [Keywords -> Row]
    /\ cache \in [loaded : BOOLEAN, table : [Keywords -> Models \cup {Nothing}]]
    /\ remote \in [Keywords -> Entry]
    /\ pass \in [Passes -> [pc : {"off", "pending", "push", "settle", "local", "apply"},
                            plan : [Keywords -> Entry \cup {Keep}],
                            at : Keywords \cup {Keep}]]
    /\ edits \in 0 .. MaxEdits
    /\ faults \in 0 .. MaxFaults
    /\ mine \in [Keywords -> Models \cup {Nothing, Keep}]
    /\ known \in SUBSET Keywords
    /\ cleared \in SUBSET Keywords

Init ==
    /\ row = [k \in Keywords |-> NoRow]
    /\ cache = Unloaded
    /\ remote = [k \in Keywords |-> Nothing]
    /\ pass = [p \in Passes |-> IF p = "loop" THEN Begun ELSE PassOff]
    /\ edits = 0
    /\ faults = 0
    /\ mine = AllKeep
    /\ known = {}
    /\ cleared = {}

Fault == faults < MaxFaults /\ faults' = faults + 1
NoFault == UNCHANGED faults
Edit == edits < MaxEdits /\ edits' = edits + 1

-----------------------------------------------------------------------------
(* The rows and the cache                                                  *)

\* What a keyword is overridden with; a tombstone overrides nothing.
Effective == [k \in Keywords |-> row[k].model]

\* _Catalogue._load, if the cache is not there
Loaded == IF cache.loaded THEN cache.table ELSE Effective

\* drop_model_keyword
Erased(k) == [row EXCEPT ![k] = NoRow]

\* set_model_keyword
Written(k, m, synced) == [row EXCEPT ![k] = [held |-> TRUE, model |-> m, synced |-> synced]]

\* mark_model_keyword_synced: whatever the row holds by now
Marked(k) == IF row[k].held THEN [row EXCEPT ![k].synced = TRUE] ELSE row

\* clear_model_keyword: a row the store has accepted becomes a tombstone, another one
\* is deleted.
Cleared(k) ==
    IF row[k].held /\ row[k].synced
    THEN [row EXCEPT ![k].model = Nothing, ![k].synced = FALSE]
    ELSE Erased(k)

-----------------------------------------------------------------------------
(* Edits                                                                   *)

\* Some pass is about to act on k from what it read before: an edit made now may be
\* overwritten, or marked as synced although the store never saw it.
Stale(k) ==
    \E p \in Passes : /\ pass[p].pc \in {"push", "settle", "apply"}
                      /\ pass[p].plan[k] # Keep

\* The fire-and-forget pass after an edit: one task at a time.
Schedule == pass' = [pass EXCEPT !["soon"] = IF @.pc = "off" THEN Begun ELSE @]

\* set_model: re-point a keyword (_Catalogue.set), write row and cache, schedule.
Repoint(k, m) ==
    /\ Edit
    /\ row' = Written(k, m, FALSE)
    /\ cache' = [loaded |-> TRUE, table |-> [Loaded EXCEPT ![k] = m]]
    /\ Schedule
    /\ mine' = [mine EXCEPT ![k] = IF Stale(k) THEN Keep ELSE m]
    /\ cleared' = cleared \ {k}
    /\ UNCHANGED <<remote, faults, known>>

\* ... or reset it (_Catalogue.reset): the cache is read again from the rows.
Reset(k) ==
    /\ row[k].held
    /\ Edit
    /\ row' = Cleared(k)
    /\ cache' = [loaded |-> TRUE, table |-> Effective']
    /\ Schedule
    /\ mine' = [mine EXCEPT ![k] = IF row[k].synced /\ ~Stale(k) THEN Nothing ELSE Keep]
    /\ cleared' = IF k \in known /\ ~Stale(k) THEN cleared \cup {k} ELSE cleared
    /\ UNCHANGED <<remote, faults, known>>

\* A turn resolves its keyword, and fills the cache.
Resolve ==
    /\ ~cache.loaded
    /\ cache' = [loaded |-> TRUE, table |-> Loaded]
    /\ UNCHANGED <<row, remote, pass, edits, faults, mine, known, cleared>>

\* Another app edits the shared table.
EditElsewhere(k, e) ==
    /\ Edit
    /\ remote[k] # e
    /\ remote' = [remote EXCEPT ![k] = e]
    /\ cleared' = cleared \ {k}
    /\ UNCHANGED <<row, cache, pass, faults, mine, known>>

-----------------------------------------------------------------------------
(* A pass (sync_once)                                                      *)

Work(p) == {k \in Keywords : pass[p].plan[k] # Keep}
Go(p, pc, plan) == pass' = [pass EXCEPT ![p].pc = pc, ![p].plan = plan]
Stop(p) == pass' = [pass EXCEPT ![p] = PassOff]

\* sync_loop's timer
Tick ==
    /\ pass["loop"].pc = "off"
    /\ pass' = [pass EXCEPT !["loop"] = Begun]
    /\ UNCHANGED <<row, cache, remote, edits, faults, mine, known, cleared>>

\* Read the rows the store has not accepted.
ReadPending(p) ==
    /\ pass[p].pc = "pending"
    /\ Go(p, "push", [k \in Keywords |-> IF row[k].held /\ ~row[k].synced
                                         THEN row[k].model ELSE Keep])
    /\ UNCHANGED <<row, cache, remote, edits, faults, mine, known, cleared>>

\* Mutant of Refused: deleting what is already gone is an error.
Refused_Gone(k, e) == e = Nothing /\ remote[k] = Nothing

\* An answer that ends the pass; the 404 of a DELETE is none.
Refused(k, e) == FALSE

\* The store takes a queued row.
Taken(k, e) ==
    /\ remote' = [remote EXCEPT ![k] = e]
    /\ mine' = [mine EXCEPT ![k] = IF @ = e THEN Keep ELSE @]

\* PUT or DELETE one queued row.  The request or its response may get lost, and then
\* the pass is over.
Request(p, k) ==
    /\ pass[p].pc = "push" /\ k \in Work(p)
    /\ LET e == pass[p].plan[k]
       IN  \/ /\ ~Refused(k, e) /\ Taken(k, e) /\ NoFault
              /\ pass' = [pass EXCEPT ![p].pc = "settle", ![p].at = k]
           \/ /\ Refused(k, e) /\ Stop(p) /\ NoFault
              /\ UNCHANGED <<remote, mine>>
           \/ /\ Fault /\ Stop(p)
              /\ Taken(k, e) \/ UNCHANGED <<remote, mine>>
    /\ UNCHANGED <<row, cache, edits, known, cleared>>

\* ... then mark the row, or drop the tombstone.
Settle(p) ==
    /\ pass[p].pc = "settle"
    /\ LET k == pass[p].at
           reset == pass[p].plan[k] = Nothing
       IN  /\ row' = IF reset THEN Erased(k) ELSE Marked(k)
           /\ known' = IF reset THEN known \ {k} ELSE known \cup {k}
           /\ cleared' = IF reset THEN cleared \ {k} ELSE cleared
           /\ pass' = [pass EXCEPT ![p].pc = "push", ![p].plan[k] = Keep, ![p].at = Keep]
    /\ UNCHANGED <<cache, remote, edits, faults, mine>>

\* Everything is pushed: GET the shared table.
Pull(p) ==
    /\ pass[p].pc = "push" /\ Work(p) = {}
    /\ \/ Go(p, "local", remote) /\ NoFault
       \/ Stop(p) /\ Fault
    /\ UNCHANGED <<row, cache, remote, edits, mine, known, cleared>>

\* Mutant of Wanted: a pending row is overwritten.
Wanted_Pending(k, e) == e \in Models /\ ~(row[k].held /\ row[k].model = e)
\* An entry to write down: valid, new here, and no local change is queued.
Wanted(k, e) == e \in Models /\ ~(row[k].held /\ (row[k].model = e \/ ~row[k].synced))

\* A row to prune: agreed on, and in the shared table no longer.
Pruned(k, e) == e = Nothing /\ row[k].held /\ row[k].synced

\* Copy the rows and compare: from here on the pass works from this copy.
Compare(p) ==
    /\ pass[p].pc = "local"
    /\ Go(p, "apply", [k \in Keywords |->
             LET e == pass[p].plan[k]
             IN  IF Wanted(k, e) \/ Pruned(k, e) THEN e ELSE Keep])
    /\ UNCHANGED <<row, cache, remote, edits, faults, mine, known, cleared>>

\* Write one entry down as synced, or prune one.  (A write that fails ends the pass.)
Apply(p, k) ==
    /\ pass[p].pc = "apply" /\ k \in Work(p)
    /\ LET e == pass[p].plan[k]
       IN  \/ /\ row' = IF e = Nothing THEN Erased(k) ELSE Written(k, e, TRUE)
              /\ known' = IF e = Nothing THEN known \ {k} ELSE known \cup {k}
              /\ pass' = [pass EXCEPT ![p].plan[k] = Keep]
              /\ NoFault
           \/ Stop(p) /\ Fault /\ UNCHANGED <<row, known>>
    /\ UNCHANGED <<cache, remote, edits, mine, cleared>>

\* Mutant of Invalidated: the cache is left alone.
Invalidated_Not == cache

\* _Catalogue.invalidate
Invalidated == Unloaded

Finish(p) ==
    /\ pass[p].pc = "apply" /\ Work(p) = {}
    /\ cache' = Invalidated
    /\ Stop(p)
    /\ UNCHANGED <<row, remote, edits, faults, mine, known, cleared>>

\* The process restarts: the rows and the shared table survive.
Restart ==
    /\ Fault
    /\ cache' = Unloaded
    /\ pass' = [p \in Passes |-> IF p = "loop" THEN Begun ELSE PassOff]
    /\ UNCHANGED <<row, remote, edits, mine, known, cleared>>

PassStep(p) ==
    \/ ReadPending(p) \/ Settle(p) \/ Pull(p) \/ Compare(p) \/ Finish(p)
    \/ \E k \in Keywords : Request(p, k) \/ Apply(p, k)

Next ==
    \/ \E k \in Keywords : \/ \E m \in Models : Repoint(k, m)
                           \/ Reset(k)
                           \/ \E e \in Entry : EditElsewhere(k, e)
    \/ Resolve \/ Tick \/ Restart
    \/ \E p \in Passes : PassStep(p)

Spec == Init /\ [][Next]_vars

\* The timer goes off again, and every request and every write of a pass returns.
Fairness == WF_vars(Tick) /\ \A p \in Passes : WF_vars(PassStep(p))

FairSpec == Spec /\ Fairness

-----------------------------------------------------------------------------
(* What sharing the table promises                                         *)

\* "A local change is still queued; it wins until it is pushed" (sync_once): whatever is
\* lost, pulled or pruned, an edit the store has not taken stays queued.  (One that was
\* made while a pass held an older copy of its row is excepted: see Stale.)
QueuedEditsWin ==
    \A k \in Keywords :
        mine[k] # Keep => row[k] = [held |-> TRUE, model |-> mine[k], synced |-> FALSE]

\* Once the edits stop and the store answers, the overrides here are the shared
\* table's, a malformed entry aside: whatever was lost, overtaken or applied twice.
RowsConverge ==
    <>[](\A k \in Keywords : remote[k] # Bad => row[k].model = remote[k])

\* ... and a turn resolves through what the rows say.
CacheCatchesUp == <>[](cache.loaded => cache.table = Effective)

\* clear_model_keyword: resetting a keyword the store has accepted is not "silently
\* reverted by the next pull".  (It is if the keyword was re-pointed in between: that
\* row waits to be pushed, and is deleted without a tombstone.  A reset made while a
\* pass held an older copy of the row is not counted: see Stale.)
ResetsSurvive == \A k \in cleared : row[k].model = Nothing
=============================================================================
