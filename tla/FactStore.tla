------------------------------- MODULE FactStore -------------------------------
(***************************************************************************)
(* The facts table (app/memory/store.py) and everything that may ever be     *)
(* done to it: MemoryStore's operations, each of them one transaction under   *)
(* the store's lock.                                                         *)
(*                                                                         *)
(* This is the abstract specification of the long-term memory: whoever calls  *)
(* the store, from however many coroutines and with however stale an idea of  *)
(* the rows, the table goes through steps of this module only.  FactMemory    *)
(* has the callers, and is shown to implement it.                            *)
(*                                                                         *)
(* A row's id is its position: ids are given out in order and never again     *)
(* (AUTOINCREMENT, and no row is ever deleted).                              *)
(***************************************************************************)
EXTENDS Naturals, Sequences

CONSTANTS
    Texts,        \* what a fact may say, up to case
    PromoteUses,  \* fact_promote_uses
    LineageLimit, \* lineage's limit, of both walks
    MaxFacts      \* bound: rows

ASSUME StoreAssumption ==
    /\ PromoteUses \in Nat \ {0}
    /\ LineageLimit \in Nat \ {0}
    /\ MaxFacts \in Nat \ {0}

VARIABLE facts

\* The third tier, "session", is written by nobody in app/.
Tiers == {"short", "durable"}

Statuses == {"active", "superseded", "forgotten"}
Sources == {"extracted", "explicit", "consolidated"}

\* Uses are counted up to where the last threshold lies: decay asks for two.
UsesCap == IF PromoteUses > 2 THEN PromoteUses ELSE 2

Fact == [text : Texts, tier : Tiers, status : Statuses, source : Sources,
         uses : 0 .. UsesCap, by : 0 .. MaxFacts]

\* A row nobody has corrected
Nobody == 0

Ids == DOMAIN facts
Active == {i \in Ids : facts[i].status = "active"}
Twins(text) == {i \in Active : facts[i].text = text}

-----------------------------------------------------------------------------
(* The operations                                                          *)

Fresh(text, tier, source) ==
    [text |-> text, tier |-> tier, status |-> "active", source |-> source,
     uses |-> 0, by |-> Nobody]

Used(n) == IF n < UsesCap THEN n + 1 ELSE n

\* Mutant of Reinforced: a background extraction pushes a durable fact back down.
Reinforced_Demotes(row, tier) == [row EXCEPT !.uses = Used(@), !.tier = tier]

\* A repeated mention never demotes.
Reinforced(row, tier) ==
    [row EXCEPT !.uses = Used(@), !.tier = IF tier = "durable" THEN tier ELSE @]

\* add_fact: strengthen the active row that says the same, or insert one.
AddFact(text, tier, source) ==
    \/ /\ Twins(text) = {} /\ Len(facts) < MaxFacts
       /\ facts' = Append(facts, Fresh(text, tier, source))
    \/ \E i \in Twins(text) : facts' = [facts EXCEPT ![i] = Reinforced(@, tier)]

\* Mutant of Superseded: the correction reuses the newest row.
Superseded_Reused(row) == [row EXCEPT !.status = "superseded", !.by = Len(facts)]

\* The old row, pointing at the one that is about to be inserted
Superseded(row) == [row EXCEPT !.status = "superseded", !.by = Len(facts) + 1]

\* supersede_fact: whatever the status of the old row, and whatever says the same.
SupersedeFact(old, text, tier, source) ==
    /\ old \in Ids /\ Len(facts) < MaxFacts
    /\ facts' = Append([facts EXCEPT ![old] = Superseded(@)], Fresh(text, tier, source))

\* forget_fact: soft, and only an active row.
ForgetFact(id) ==
    /\ id \in Active
    /\ facts' = [facts EXCEPT ![id].status = "forgotten"]

\* update_fact, as its two callers use it: the wording or the status, of any row.
RewordFact(id, text) == id \in Ids /\ facts' = [facts EXCEPT ![id].text = text]
RestoreFact(id) == id \in Ids /\ facts' = [facts EXCEPT ![id].status = "active"]

\* touch_facts: whatever has become of the rows since they were read.
TouchFacts(S) ==
    facts' = [i \in Ids |-> IF i \in S THEN [facts[i] EXCEPT !.uses = Used(@)]
                                       ELSE facts[i]]

\* promote_facts
PromoteFacts ==
    facts' = [i \in Ids |-> IF /\ i \in Active
                               /\ facts[i].tier = "short" /\ facts[i].uses >= PromoteUses
                            THEN [facts[i] EXCEPT !.tier = "durable"]
                            ELSE facts[i]]

\* What decay_facts may take, once it is old enough.
Decays(i) == i \in Active /\ facts[i].tier = "short" /\ facts[i].uses < 2

\* decay_facts, when the rows of S have not been used for longer than the limit
DecayFacts(S) ==
    facts' = [i \in Ids |-> IF i \in S /\ Decays(i)
                            THEN [facts[i] EXCEPT !.status = "forgotten"]
                            ELSE facts[i]]

-----------------------------------------------------------------------------
(* A fact's history (lineage)                                              *)

Corrected(i) == {j \in Ids : facts[j].by = i}
First(S) == CHOOSE i \in S : \A j \in S : i <= j

\* Mutant of Oldest: the walk starts where the question was asked.
Oldest_Asked(id) == id

\* Back along the corrections, up to n of them; of two rows corrected by the same one there
\* are none.
Backward[n \in 0 .. LineageLimit] ==
    [i \in Ids |-> IF n = 0 \/ Corrected(i) = {} THEN i
                   ELSE Backward[n - 1][First(Corrected(i))]]

Oldest(id) == Backward[LineageLimit][id]

\* ... and forward from there, n rows.  (Rows that were seen end both walks in the code:
\* there are none, as CorrectionsPointForward says.)
Forward[n \in 0 .. LineageLimit] ==
    [i \in Ids \cup {Nobody} |-> IF n = 0 \/ i = Nobody THEN <<>>
                                 ELSE <<i>> \o Forward[n - 1][facts[i].by]]

Lineage(id) == Forward[LineageLimit][Oldest(id)]

-----------------------------------------------------------------------------
\* _m2_fact_metadata's last statement: everything that predates tiering is durable.
Grandfather == facts' = [i \in Ids |-> [facts[i] EXCEPT !.tier = "durable"]]

\* A new database, or one that was written before the rows had a tier
Init == facts = <<>> \/ \E text \in Texts : facts = <<Fresh(text, "short", "extracted")>>

Next ==
    \/ \E text \in Texts, tier \in Tiers, source \in Sources :
          \/ AddFact(text, tier, source)
          \/ \E i \in Ids : SupersedeFact(i, text, tier, source)
    \/ \E i \in Ids :
          \/ ForgetFact(i) \/ RestoreFact(i)
          \/ \E text \in Texts : RewordFact(i, text)
    \/ \E S \in SUBSET Ids : TouchFacts(S) \/ DecayFacts(S)
    \/ PromoteFacts \/ Grandfather

Spec == Init /\ [][Next]_facts

-----------------------------------------------------------------------------
(* What the table promises                                                 *)

TypeOK == facts \in Seq(Fact) /\ Len(facts) <= MaxFacts

\* supersede_fact and update_fact: a correction always points at a younger row, so the
\* chains lineage walks have no cycle, whatever is restored, reworded or corrected twice.
\* (Its docstring does not count on that.)
CorrectionsPointForward ==
    \A i \in Ids : facts[i].by # Nobody => facts[i].by \in (i + 1) .. Len(facts)

\* The rows of line start with one that corrects none and end with one that nobody has
\* corrected, and row i is among them.  (A row that was corrected twice points at its last
\* correction only: the earlier one corrects none, and its story starts with itself.)
WholeStory(line, i) ==
    /\ line # <<>>
    /\ Corrected(line[1]) = {}
    /\ facts[line[Len(line)]].by = Nobody
    /\ \E n \in DOMAIN line : line[n] = i

\* lineage, whichever link it is asked about and in a table of any length: what it shows is
\* a run of corrections without a gap, oldest first and no longer than the limit, and it is
\* the whole story unless the limit cut it off, which it does of a full line only, in a table
\* that has more rows than that.  (Its docstring promises the whole story without the
\* exception.  A line that was cut off may lack its beginning, its end and the row itself.)
LineageFollowsTheCorrections ==
    \A i \in Ids :
        LET line == Lineage(i)
        IN  /\ Len(line) \in 1 .. LineageLimit
            /\ \A n \in 1 .. Len(line) - 1 : facts[line[n]].by = line[n + 1]
            /\ Len(line) < LineageLimit \/ Len(facts) <= LineageLimit => WholeStory(line, i)

\* add_fact, "never demote": whatever extraction, correction, recall and maintenance do to
\* a row, and in whatever order, it never falls to a lower tier.
NeverDemoted ==
    [][\A i \in Ids : facts[i].tier = "durable" => facts'[i].tier = "durable"]_facts
=============================================================================
