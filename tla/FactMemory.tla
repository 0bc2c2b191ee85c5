------------------------------ MODULE FactMemory ------------------------------
(***************************************************************************)
(* Everybody who calls the fact store: the turns that recall facts, curate    *)
(* them with tools and distil new ones (app/memory/context.py,                *)
(* app/tools/memory_tools.py, app/memory/writer.py), the panel                *)
(* (app/memory_control.py) and the maintenance passes (app/maintenance.py),   *)
(* over a database that is migrated first (Schema) and may crash.             *)
(*                                                                         *)
(* Each call of the store runs in a worker thread and is awaited, so every    *)
(* caller works from rows it has read some calls ago.  What the models        *)
(* answer (which facts an exchange holds, what to merge) is any answer.       *)
(***************************************************************************)
EXTENDS FactStore, Schema, FiniteSets

CONSTANTS
    Turns,       \* turns that may be under way at once
    MaxEntries,  \* memory_max_new_facts
    MaxChanges,  \* maintenance_max_changes
    MaxTalk,     \* bound: what people do to the memory, by voice or panel, and turns
    MaxPasses    \* bound: maintenance passes

ASSUME MemoryAssumption ==
    /\ MaxEntries \in Nat
    /\ MaxChanges \in Nat
    /\ MaxTalk \in Nat
    /\ MaxPasses \in Nat

\* The service's loop, whose passes wait for each other (_lock), and the command line's
\* process, which has a lock of its own.
Passes == {"loop", "cli"}

VARIABLES
    turn,    \* run_turn, as far as memory goes
    pass,    \* run_maintenance
    old,     \* history: the database had rows before they had tiers
    talk,
    passes

vars == <<facts, schema, turn, pass, old, talk, passes>>

AnyId == 1 .. MaxFacts

Quiet == [pc |-> "off", ids |-> {}, checked |-> Nobody, left |-> 0]
NoTiers == [i \in AnyId |-> "short"]
Resting == [pc |-> "off", batch |-> {}, tier |-> NoTiers, changes |-> 0, retired |-> {}]

MemoryTypeOK ==
    /\ TypeOK
    /\ SchemaTypeOK
    /\ turn \in [Turns -> [pc : {"off", "talking", "writing", "storing"},
                           ids : SUBSET AnyId,
                           checked : AnyId \cup {Nobody},
                           left : 0 .. MaxEntries]]
    /\ pass \in [Passes -> [pc : {"off", "decay", "promote", "read", "merge", "correct"},
                            batch : SUBSET AnyId,
                            tier : [AnyId -> Tiers],
                            changes : 0 .. MaxChanges,
                            retired : SUBSET AnyId]]
    /\ old \in BOOLEAN
    /\ talk \in 0 .. MaxTalk
    /\ passes \in 0 .. MaxPasses

MemoryInit ==
    /\ Init
    /\ SchemaInit
    /\ facts # <<>> => has[1] = "all"
    /\ turn = [t \in Turns |-> Quiet]
    /\ pass = [p \in Passes |-> Resting]
    /\ old = (facts # <<>>)
    /\ talk = 0
    /\ passes = 0

Talk == talk < MaxTalk /\ talk' = talk + 1

-----------------------------------------------------------------------------
(* Opening, and the process dying                                          *)

\* Mutant of Backfilled: the rows keep the column's default.
Backfilled_Default == UNCHANGED facts

\* v2's UPDATE, which its stamp commits
Backfilled == IF Version = 2 THEN Grandfather ELSE UNCHANGED facts

Migration ==
    /\ \/ Migrate /\ UNCHANGED facts
       \/ Stamp /\ Backfilled
    /\ UNCHANGED <<turn, pass, old, talk, passes>>

\* Turns and the loop's pass die with the process; the command line's goes on.
Die ==
    /\ Crash
    /\ turn' = [t \in Turns |-> Quiet]
    /\ pass' = [pass EXCEPT !["loop"] = Resting]
    /\ UNCHANGED <<facts, old, talk, passes>>

-----------------------------------------------------------------------------
(* A turn                                                                  *)

AtTurn(t, pc) == store = "open" /\ turn[t].pc = pc

\* rank_facts: some of the active facts, by score and budget, and never none if there
\* are any.
Chosen == {S \in SUBSET Active : S = {} => Active = {}}

\* build_memory_view
Recall(t) ==
    /\ AtTurn(t, "off") /\ Talk
    /\ \E S \in Chosen : turn' = [turn EXCEPT ![t] = [Quiet EXCEPT !.pc = "talking", !.ids = S]]
    /\ UNCHANGED <<facts, schema, pass, old, passes>>

\* remember_fact
Remember(t) ==
    /\ AtTurn(t, "talking") /\ Talk
    /\ \E text \in Texts : AddFact(text, "durable", "explicit")
    /\ UNCHANGED <<schema, turn, pass, old, passes>>

\* correct_fact: get_fact, and some time later supersede_fact.
CheckFact(t) ==
    /\ AtTurn(t, "talking") /\ turn[t].checked = Nobody /\ Talk
    /\ \E i \in Active : turn' = [turn EXCEPT ![t].checked = i]
    /\ UNCHANGED <<facts, schema, pass, old, passes>>

CorrectFact(t) ==
    /\ AtTurn(t, "talking") /\ turn[t].checked # Nobody
    /\ \E text \in Texts : SupersedeFact(turn[t].checked, text, "durable", "explicit")
    /\ turn' = [turn EXCEPT ![t].checked = Nobody]
    /\ UNCHANGED <<schema, pass, old, talk, passes>>

\* The reply is out: _touch_safe, with the ids of the recall.
Touch(t) ==
    /\ AtTurn(t, "talking") /\ turn[t].checked = Nobody
    /\ TouchFacts(turn[t].ids)
    /\ turn' = [turn EXCEPT ![t] = [Quiet EXCEPT !.pc = "writing"]]
    /\ UNCHANGED <<schema, pass, old, talk, passes>>

\* remember: what extraction is told is known (_relevant_known), then its answer, which
\* is cut to MaxEntries (_parse_facts).
Extract(t) ==
    /\ AtTurn(t, "writing")
    /\ \E S \in Chosen :
          turn' = [turn EXCEPT ![t] = [Quiet EXCEPT !.pc = "storing", !.ids = S,
                                                    !.left = MaxEntries]]
    /\ UNCHANGED <<facts, schema, pass, old, talk, passes>>

\* One entry: it replaces a fact that was known, or it is added.
Store(t) ==
    /\ AtTurn(t, "storing") /\ turn[t].left > 0
    /\ \E text \in Texts, tier \in Tiers :
          \/ \E i \in turn[t].ids : SupersedeFact(i, text, tier, "extracted")
          \/ AddFact(text, tier, "extracted")
    /\ turn' = [turn EXCEPT ![t].left = @ - 1]
    /\ UNCHANGED <<schema, pass, old, talk, passes>>

\* The turn is over, was interrupted, or its write has failed (_remember_safe).
Leave(t) ==
    /\ store = "open" /\ turn[t].pc # "off"
    /\ turn' = [turn EXCEPT ![t] = Quiet]
    /\ UNCHANGED <<facts, schema, pass, old, talk, passes>>

-----------------------------------------------------------------------------
(* The panel (handle_action), and forget_fact, which is the tool's too     *)

Forget(id) ==
    /\ store = "open" /\ Talk
    /\ ForgetFact(id)
    /\ UNCHANGED <<schema, turn, pass, old, passes>>

Restore(id) ==
    /\ store = "open" /\ Talk
    /\ RestoreFact(id)
    /\ UNCHANGED <<schema, turn, pass, old, passes>>

Correct(id) ==
    /\ store = "open" /\ Talk
    /\ \E text \in Texts : SupersedeFact(id, text, "durable", "explicit")
    /\ UNCHANGED <<schema, turn, pass, old, passes>>

-----------------------------------------------------------------------------
(* A maintenance pass (run_maintenance)                                    *)

AtPass(p, pc) == pass[p].pc = pc /\ (p = "loop" => store = "open")
Go(p, pc) == pass' = [pass EXCEPT ![p].pc = pc]
OnlyPass == UNCHANGED <<schema, turn, old, talk, passes>>

Tidy(p) ==
    /\ AtPass(p, "off") /\ store = "open"
    /\ passes < MaxPasses /\ passes' = passes + 1
    /\ Go(p, "decay")
    /\ UNCHANGED <<facts, schema, turn, old, talk>>

\* _step_decay; which rows are old enough is any choice.  (A step that fails is one that
\* finds none.)
StepDecay(p) ==
    /\ AtPass(p, "decay")
    /\ \E S \in SUBSET Ids : DecayFacts(S)
    /\ Go(p, "promote") /\ OnlyPass

\* _step_promote
StepPromote(p) ==
    /\ AtPass(p, "promote")
    /\ PromoteFacts \/ UNCHANGED facts
    /\ Go(p, "read") /\ OnlyPass

\* _consolidate: the batch, as it is now.  (Those not changed lately are left out.)
ReadBatch(p) ==
    /\ AtPass(p, "read")
    /\ \E S \in SUBSET Active :
          /\ Cardinality(S) > 1
          /\ pass' = [pass EXCEPT ![p].pc = "merge", ![p].batch = S,
                                  ![p].tier = [i \in AnyId |-> IF i \in S THEN facts[i].tier
                                                                ELSE NoTiers[i]]]
    /\ UNCHANGED facts /\ OnlyPass

MayChange(p) == pass[p].changes < MaxChanges

Changed(p, id) ==
    pass' = [pass EXCEPT ![p].changes = @ + 1, ![p].retired = @ \cup {id}]

\* The clearest wording of a merge goes to the row it keeps.
Reword(p) ==
    /\ AtPass(p, "merge") /\ MayChange(p)
    /\ \E keep \in pass[p].batch, text \in Texts : RewordFact(keep, text)
    /\ UNCHANGED pass /\ OnlyPass

\* Mutant of Mergeable: ids the model has made up are forgotten too.
Mergeable_Invented(p) == [keep : Ids, drop : Ids]

\* What of a merge is accepted: "never let a merge delete a fact the user stated
\* outright in favour of one the extractor guessed at".
Mergeable(p) ==
    {m \in [keep : pass[p].batch, drop : pass[p].batch] :
        /\ m.drop # m.keep
        /\ facts[m.drop].source = "explicit" => facts[m.keep].source = "explicit"}

Drop(p) ==
    /\ AtPass(p, "merge") /\ MayChange(p)
    /\ \E m \in Mergeable(p) : ForgetFact(m.drop) /\ Changed(p, m.drop)
    /\ OnlyPass

Merged(p) == AtPass(p, "merge") /\ Go(p, "correct") /\ UNCHANGED facts /\ OnlyPass

\* A contradiction: the correction takes over the tier of the batch.
Supersede(p) ==
    /\ AtPass(p, "correct") /\ MayChange(p)
    /\ \E i \in pass[p].batch, text \in Texts :
          /\ SupersedeFact(i, text, pass[p].tier[i], "consolidated")
          /\ Changed(p, i)
    /\ OnlyPass

\* Done, or a step has failed, or there was nothing to compare.
EndPass(p) ==
    /\ AtPass(p, "read") \/ AtPass(p, "merge") \/ AtPass(p, "correct")
    /\ pass' = [pass EXCEPT ![p] = Resting]
    /\ UNCHANGED facts /\ OnlyPass

TurnStep(t) ==
    \/ Recall(t) \/ Remember(t) \/ CheckFact(t) \/ CorrectFact(t) \/ Touch(t)
    \/ Extract(t) \/ Store(t) \/ Leave(t)

PassStep(p) ==
    \/ Tidy(p) \/ StepDecay(p) \/ StepPromote(p) \/ ReadBatch(p)
    \/ Reword(p) \/ Drop(p) \/ Merged(p) \/ Supersede(p) \/ EndPass(p)

MemoryNext ==
    \/ Migration \/ Die
    \/ \E t \in Turns : TurnStep(t)
    \/ \E i \in Ids : Forget(i) \/ Restore(i) \/ Correct(i)
    \/ \E p \in Passes : PassStep(p)

MemorySpec == MemoryInit /\ [][MemoryNext]_vars

-----------------------------------------------------------------------------
(* What the callers are promised                                           *)

\* Whatever they do, the table goes through the steps of FactStore.
Rows == Init /\ [][Next]_facts

\* _migrate: however often the process died on the way, a database that opens has every
\* migration that is not optional, and its rows from before the tiers are durable, so
\* that the first pass does not wipe them.
OpenMeansMigrated ==
    store = "open" =>
        /\ \A v \in Versions \ Optional : has[v] = "all"
        /\ old => facts[1].tier = "durable"

\* _consolidate: a pass retires only rows it was shown, and no more than it may, although
\* people change the rows meanwhile and the model may answer anything.
PassIsBounded ==
    \A p \in Passes : /\ pass[p].retired \subseteq pass[p].batch
                      /\ Cardinality(pass[p].retired) <= MaxChanges

\* forget_fact, "it won't come back on its own": no extraction and no pass makes a
\* forgotten row the past of a new one.
ForgottenStays ==
    [][\A i \in Ids :
          /\ facts[i].status = "forgotten"
          /\ facts'[i].status = "superseded"
          => Correct(i) \/ \E t \in Turns : CorrectFact(t)]_vars
=============================================================================
