--------------------------- MODULE FactMemory_proofs ---------------------------
(***************************************************************************)
(* What the fact store keeps up whoever calls it: proved for the table alone *)
(* (FactStore), and carried over to its callers, who are shown to implement  *)
(* it.                                                                       *)
(***************************************************************************)
EXTENDS FactMemory, FiniteSetTheorems, SequenceTheorems, WellFoundedInduction, TLAPS

(***************************************************************************)
(* A step of the table, seen from its rows: none goes away, none falls to a  *)
(* lower tier, and a row that is corrected points at the one this step adds. *)
(***************************************************************************)
Kept(row, next) == row.tier = "durable" => next.tier = "durable"

Grows ==
    /\ Len(facts') \in {Len(facts), Len(facts) + 1}
    /\ \A i \in Ids : /\ Kept(facts[i], facts'[i])
                      /\ \/ facts'[i].by = facts[i].by
                         \/ Len(facts') = Len(facts) + 1 /\ facts'[i].by = Len(facts')
    /\ \A i \in DOMAIN facts' : i > Len(facts) => facts'[i].by = Nobody

\* A table whose rows were changed in place is one.
LEMMA InPlace ==
    ASSUME TypeOK, NEW f, f = [i \in Ids |-> f[i]], \A i \in Ids : f[i] \in Fact
    PROVE  f \in Seq(Fact) /\ Len(f) = Len(facts) /\ DOMAIN f = Ids
<1>1. Len(facts) \in Nat /\ Ids = 1 .. Len(facts)
  BY DEF TypeOK, Ids
<1>2. f \in [1 .. Len(facts) -> Fact]
  BY <1>1
<1>3. QED
  BY <1>1, <1>2

\* Changing one row, or all of them, in place is such a step.
LEMMA InPlaceGrows ==
    ASSUME TypeOK, facts' = [i \in Ids |-> facts'[i]],
           \A i \in Ids : /\ facts'[i] \in Fact
                          /\ Kept(facts[i], facts'[i])
                          /\ facts'[i].by = facts[i].by
    PROVE  TypeOK' /\ Grows
<1>1. facts' \in Seq(Fact) /\ Len(facts') = Len(facts) /\ DOMAIN facts' = Ids
  BY InPlace
<1>2. Len(facts) \in Nat /\ Ids = 1 .. Len(facts)
  BY DEF TypeOK, Ids
<1>3. TypeOK'
  BY <1>1 DEF TypeOK
<1>4. Grows
  <2>1. Len(facts') \in {Len(facts), Len(facts) + 1}
    BY <1>1
  <2>2. \A i \in DOMAIN facts' : ~ i > Len(facts)
    BY <1>1, <1>2
  <2>3. QED
    BY <2>1, <2>2 DEF Grows
<1>5. QED
  BY <1>3, <1>4

\* What a row may become
LEMMA RowsTyped ==
    ASSUME StoreAssumption, NEW row \in Fact
    PROVE  /\ \A tier \in Tiers : /\ Reinforced(row, tier) \in Fact
                                  /\ Kept(row, Reinforced(row, tier))
                                  /\ Reinforced(row, tier).by = row.by
           /\ [row EXCEPT !.uses = Used(@)] \in Fact
           /\ \A text \in Texts : [row EXCEPT !.text = text] \in Fact
           /\ \A status \in Statuses : [row EXCEPT !.status = status] \in Fact
           /\ [row EXCEPT !.tier = "durable"] \in Fact
<1>1. UsesCap \in Nat
  BY DEF StoreAssumption, UsesCap
<1>2. \A n \in 0 .. UsesCap : Used(n) \in 0 .. UsesCap
  BY <1>1 DEF Used
<1>3. QED
  BY <1>2 DEF Fact, Reinforced, Kept, Tiers, Statuses

LEMMA FreshTyped ==
    ASSUME StoreAssumption, NEW text \in Texts, NEW tier \in Tiers, NEW source \in Sources
    PROVE  Fresh(text, tier, source) \in Fact /\ Fresh(text, tier, source).by = Nobody
BY DEF StoreAssumption, Fresh, Fact, Statuses, Nobody, UsesCap

LEMMA AddGrows ==
    ASSUME StoreAssumption, TypeOK,
           NEW text \in Texts, NEW tier \in Tiers, NEW source \in Sources,
           AddFact(text, tier, source)
    PROVE  TypeOK' /\ Grows
<1>1. CASE Len(facts) < MaxFacts /\ facts' = Append(facts, Fresh(text, tier, source))
  <2> DEFINE new == Fresh(text, tier, source)
  <2>1. new \in Fact /\ new.by = Nobody
    BY FreshTyped
  <2> HIDE DEF new
  <2>2. /\ facts' \in Seq(Fact) /\ Len(facts') = Len(facts) + 1
        /\ \A i \in Ids : facts'[i] = facts[i]
        /\ facts'[Len(facts) + 1] = new
    BY <1>1, <2>1 DEF TypeOK, Ids, new
  <2>3. Len(facts') <= MaxFacts
    BY <1>1, <2>2 DEF TypeOK, StoreAssumption
  <2>4. QED
    BY <2>1, <2>2, <2>3 DEF TypeOK, Grows, Ids, Kept
<1>2. CASE \E i \in Twins(text) : facts' = [facts EXCEPT ![i] = Reinforced(@, tier)]
  <2>1. PICK i \in Ids : facts' = [facts EXCEPT ![i] = Reinforced(@, tier)]
    BY <1>2 DEF Twins, Active
  <2>2. \A j \in Ids : facts[j] \in Fact
    BY DEF TypeOK, Ids
  <2>3. facts' = [j \in Ids |-> facts'[j]]
    BY <2>1 DEF TypeOK, Ids
  <2>4. \A j \in Ids : facts'[j] = IF j = i THEN Reinforced(facts[i], tier) ELSE facts[j]
    BY <2>1 DEF TypeOK, Ids
  <2>5. \A j \in Ids : /\ facts'[j] \in Fact
                       /\ Kept(facts[j], facts'[j])
                       /\ facts'[j].by = facts[j].by
    <3> SUFFICES ASSUME NEW j \in Ids
                 PROVE  /\ facts'[j] \in Fact
                        /\ Kept(facts[j], facts'[j])
                        /\ facts'[j].by = facts[j].by
      OBVIOUS
    <3>1. /\ Reinforced(facts[j], tier) \in Fact
          /\ Kept(facts[j], Reinforced(facts[j], tier))
          /\ Reinforced(facts[j], tier).by = facts[j].by
      BY <2>2, RowsTyped
    <3>2. Kept(facts[j], facts[j])
      BY DEF Kept
    <3>3. CASE j = i
      BY <2>4, <3>1, <3>3
    <3>4. CASE j # i
      BY <2>2, <2>4, <3>2, <3>4
    <3>5. QED
      BY <3>3, <3>4
  <2>6. QED
    BY <2>3, <2>5, InPlaceGrows
<1>3. QED
  BY <1>1, <1>2 DEF AddFact

LEMMA SupersedeGrows ==
    ASSUME StoreAssumption, TypeOK, NEW old0 \in Ids,
           NEW text \in Texts, NEW tier \in Tiers, NEW source \in Sources,
           SupersedeFact(old0, text, tier, source)
    PROVE  TypeOK' /\ Grows
<1> DEFINE new == Fresh(text, tier, source)
           there == [facts EXCEPT ![old0] = Superseded(@)]
<1>1. new \in Fact /\ new.by = Nobody
  BY FreshTyped
<1>2. Len(facts) \in Nat /\ Len(facts) + 1 <= MaxFacts
  BY DEF TypeOK, SupersedeFact, StoreAssumption
<1>3. \A i \in Ids : facts[i] \in Fact
  BY DEF TypeOK, Ids
<1>4. Superseded(facts[old0]) \in Fact
  <2>1. \A row \in Fact, n \in 0 .. MaxFacts :
           [row EXCEPT !.status = "superseded", !.by = n] \in Fact
    BY DEF Fact, Statuses
  <2>2. Len(facts) + 1 \in 0 .. MaxFacts
    BY <1>2 DEF StoreAssumption
  <2>3. QED
    BY <1>3, <2>1, <2>2 DEF Superseded
<1>5. /\ Superseded(facts[old0]).tier = facts[old0].tier
      /\ Superseded(facts[old0]).by = Len(facts) + 1
  BY <1>3 DEF Superseded, Fact
<1>6. there = [i \in Ids |-> there[i]] /\ \A i \in Ids : there[i] \in Fact
  BY <1>3, <1>4 DEF Ids
<1>7. there \in Seq(Fact) /\ Len(there) = Len(facts) /\ DOMAIN there = Ids
  BY <1>6, InPlace
<1>8. \A i \in Ids : there[i] = IF i = old0 THEN Superseded(facts[old0]) ELSE facts[i]
  BY DEF Ids
<1>9. facts' = Append(there, new)
  BY DEF SupersedeFact
<1> HIDE DEF new, there
<1>10. /\ facts' \in Seq(Fact) /\ Len(facts') = Len(facts) + 1
       /\ \A i \in Ids : facts'[i] = there[i]
       /\ facts'[Len(facts) + 1] = new
  BY <1>1, <1>7, <1>9 DEF TypeOK, Ids
<1>11. \A i \in Ids : /\ Kept(facts[i], facts'[i])
                      /\ facts'[i].by = facts[i].by \/ facts'[i].by = Len(facts')
  BY <1>5, <1>8, <1>10 DEF Kept
<1>12. QED
  BY <1>1, <1>2, <1>10, <1>11 DEF TypeOK, Grows, Ids

\* The steps that change rows in place, one by one
LEMMA EditsGrow ==
    ASSUME StoreAssumption, TypeOK,
           \/ \E i \in Ids : \/ ForgetFact(i) \/ RestoreFact(i)
                             \/ \E text \in Texts : RewordFact(i, text)
           \/ \E S \in SUBSET Ids : TouchFacts(S) \/ DecayFacts(S)
           \/ PromoteFacts \/ Grandfather
    PROVE  TypeOK' /\ Grows
<1> DEFINE Fine(row, next) == next \in Fact /\ Kept(row, next) /\ next.by = row.by
<1>1. \A i \in Ids : facts[i] \in Fact
  BY DEF TypeOK, Ids
<1>2. \A row \in Fact :
         /\ Fine(row, row)
         /\ Fine(row, [row EXCEPT !.uses = Used(@)])
         /\ \A text \in Texts : Fine(row, [row EXCEPT !.text = text])
         /\ \A status \in Statuses : Fine(row, [row EXCEPT !.status = status])
         /\ Fine(row, [row EXCEPT !.tier = "durable"])
  BY RowsTyped DEF Fact, Kept
<1>3. SUFFICES facts' = [i \in Ids |-> facts'[i]] /\ \A i \in Ids : Fine(facts[i], facts'[i])
  BY InPlaceGrows
<1>4. CASE \E i \in Ids, status \in Statuses : facts' = [facts EXCEPT ![i].status = status]
  <2>1. PICK i \in Ids, status \in Statuses : facts' = [facts EXCEPT ![i].status = status]
    BY <1>4
  <2>2. /\ facts' = [j \in Ids |-> facts'[j]]
        /\ \A j \in Ids : facts'[j] \in {facts[j], [facts[j] EXCEPT !.status = status]}
    BY <2>1 DEF TypeOK, Ids
  <2> HIDE DEF Fine
  <2>3. \A j \in Ids : Fine(facts[j], facts[j]) /\ Fine(facts[j], [facts[j] EXCEPT !.status = status])
    BY <1>1, <1>2
  <2>4. QED
    BY <2>2, <2>3
<1>5. CASE \E i \in Ids, text \in Texts : RewordFact(i, text)
  <2>1. PICK i \in Ids, text \in Texts : facts' = [facts EXCEPT ![i].text = text]
    BY <1>5 DEF RewordFact
  <2>2. /\ facts' = [j \in Ids |-> facts'[j]]
        /\ \A j \in Ids : facts'[j] \in {facts[j], [facts[j] EXCEPT !.text = text]}
    BY <2>1 DEF TypeOK, Ids
  <2> HIDE DEF Fine
  <2>3. \A j \in Ids : Fine(facts[j], facts[j]) /\ Fine(facts[j], [facts[j] EXCEPT !.text = text])
    BY <1>1, <1>2
  <2>4. QED
    BY <2>2, <2>3
<1>6. CASE \E S \in SUBSET Ids : TouchFacts(S)
  <2>1. PICK S \in SUBSET Ids : TouchFacts(S)
    BY <1>6
  <2>2. /\ facts' = [j \in Ids |-> facts'[j]]
        /\ \A j \in Ids : facts'[j] \in {facts[j], [facts[j] EXCEPT !.uses = Used(@)]}
    BY <2>1 DEF TouchFacts
  <2> HIDE DEF Fine
  <2>3. QED
    BY <1>1, <1>2, <2>2
<1>7. CASE \E S \in SUBSET Ids : DecayFacts(S)
  <2>1. PICK S \in SUBSET Ids : DecayFacts(S)
    BY <1>7
  <2>2. /\ facts' = [j \in Ids |-> facts'[j]]
        /\ \A j \in Ids : facts'[j] \in {facts[j], [facts[j] EXCEPT !.status = "forgotten"]}
    BY <2>1 DEF DecayFacts
  <2>3. "forgotten" \in Statuses
    BY DEF Statuses
  <2> HIDE DEF Fine
  <2>4. \A j \in Ids : /\ Fine(facts[j], facts[j])
                       /\ Fine(facts[j], [facts[j] EXCEPT !.status = "forgotten"])
    BY <1>1, <1>2, <2>3
  <2>5. QED
    BY <2>2, <2>4
<1>8. CASE PromoteFacts \/ Grandfather
  <2>1. /\ facts' = [j \in Ids |-> facts'[j]]
        /\ \A j \in Ids : facts'[j] \in {facts[j], [facts[j] EXCEPT !.tier = "durable"]}
    BY <1>8 DEF PromoteFacts, Grandfather
  <2> HIDE DEF Fine
  <2>2. QED
    BY <1>1, <1>2, <2>1
<1>9. \A i \in Ids : ForgetFact(i) \/ RestoreFact(i) =>
          \E status \in Statuses : facts' = [facts EXCEPT ![i].status = status]
  BY DEF ForgetFact, RestoreFact, Statuses
<1>10. QED
  BY <1>4, <1>5, <1>6, <1>7, <1>8, <1>9

LEMMA StepGrows ==
    ASSUME StoreAssumption, TypeOK, Next
    PROVE  TypeOK' /\ Grows
<1>1. CASE \E text \in Texts, tier \in Tiers, source \in Sources : AddFact(text, tier, source)
  BY <1>1, AddGrows
<1>2. CASE \E text \in Texts, tier \in Tiers, source \in Sources, i \in Ids :
              SupersedeFact(i, text, tier, source)
  BY <1>2, SupersedeGrows
<1>3. QED
  BY <1>1, <1>2, EditsGrow DEF Next

(***************************************************************************)
(* The table                                                               *)
(***************************************************************************)
StoreInv == TypeOK /\ CorrectionsPointForward

LEMMA StoreInit ==
    ASSUME StoreAssumption, Init
    PROVE  StoreInv
<1>1. CASE facts = <<>>
  BY <1>1 DEF StoreInv, TypeOK, CorrectionsPointForward, Ids, StoreAssumption
<1>2. CASE \E text \in Texts : facts = <<Fresh(text, "short", "extracted")>>
  <2>1. PICK text \in Texts : facts = <<Fresh(text, "short", "extracted")>>
    BY <1>2
  <2>2. /\ Fresh(text, "short", "extracted") \in Fact
        /\ Fresh(text, "short", "extracted").by = Nobody
    BY FreshTyped DEF Tiers, Sources
  <2> DEFINE first == Fresh(text, "short", "extracted")
  <2> HIDE DEF first
  <2>3. facts = <<first>> /\ first \in Fact /\ first.by = Nobody
    BY <2>1, <2>2 DEF first
  <2>4. QED
    BY <2>3 DEF StoreInv, TypeOK, CorrectionsPointForward, Ids, StoreAssumption
<1>3. QED
  BY <1>1, <1>2 DEF Init

LEMMA StoreStep ==
    ASSUME StoreAssumption, StoreInv, [Next]_facts
    PROVE  StoreInv'
<1>1. CASE UNCHANGED facts
  BY <1>1 DEF StoreInv, TypeOK, CorrectionsPointForward, Ids
<1>2. CASE Next
  <2>1. TypeOK' /\ Grows
    BY <1>2, StepGrows DEF StoreInv
  <2>2. Len(facts) \in Nat /\ Len(facts') \in Nat
        /\ Ids = 1 .. Len(facts) /\ DOMAIN facts' = 1 .. Len(facts')
    BY <2>1 DEF StoreInv, TypeOK, Ids
  <2>3. CorrectionsPointForward'
    <3> SUFFICES ASSUME NEW i \in DOMAIN facts', facts'[i].by # Nobody
                 PROVE  facts'[i].by \in (i + 1) .. Len(facts')
      BY DEF CorrectionsPointForward, Ids
    <3>0. i > Len(facts) => facts'[i].by = Nobody
      BY <2>1 DEF Grows
    <3>1. i \in Ids
      BY <2>2, <3>0
    <3>2. CASE facts'[i].by = facts[i].by
      <4>1. facts[i].by \in (i + 1) .. Len(facts)
        BY <3>1, <3>2 DEF StoreInv, CorrectionsPointForward
      <4>2. Len(facts) <= Len(facts')
        <5> DEFINE before == Len(facts)
                   after == Len(facts')
        <5>1. before \in Nat /\ after \in {before, before + 1}
          BY <2>1, <2>2 DEF Grows
        <5> HIDE DEF before, after
        <5>2. before <= after
          BY <5>1
        <5>3. QED
          BY <5>2 DEF before, after
      <4>3. i \in Nat
        BY <2>2, <3>1
      <4>4. QED
        BY <2>2, <3>2, <4>1, <4>2, <4>3
    <3>3. CASE Len(facts') = Len(facts) + 1 /\ facts'[i].by = Len(facts')
      BY <2>2, <3>1, <3>3
    <3>4. QED
      BY <2>1, <3>1, <3>2, <3>3 DEF Grows
  <2>4. QED
    BY <2>1, <2>3 DEF StoreInv
<1>3. QED
  BY <1>1, <1>2

LEMMA TiersHold ==
    ASSUME StoreAssumption, StoreInv, Next
    PROVE  \A i \in Ids : facts[i].tier = "durable" => facts'[i].tier = "durable"
BY StepGrows DEF StoreInv, Grows, Kept

(***************************************************************************)
(* The callers: every step of theirs is one of the table, or leaves it alone *)
(***************************************************************************)
LEMMA TurnMaps ==
    ASSUME MemoryTypeOK, NEW t \in Turns, TurnStep(t)
    PROVE  [Next]_facts
<1>1. "durable" \in Tiers /\ "explicit" \in Sources /\ "extracted" \in Sources
  BY DEF Tiers, Sources
<1>2. CASE Remember(t)
  BY <1>1, <1>2 DEF Remember, Next
<1>3. CASE CorrectFact(t)
  <2>1. PICK text \in Texts : SupersedeFact(turn[t].checked, text, "durable", "explicit")
    BY <1>3 DEF CorrectFact
  <2>2. turn[t].checked \in Ids
    BY <2>1 DEF SupersedeFact
  <2>3. QED
    BY <1>1, <2>1, <2>2 DEF Next
<1>4. CASE Touch(t)
  <2>1. facts' = [i \in Ids |-> IF i \in turn[t].ids \cap Ids THEN [facts[i] EXCEPT !.uses = Used(@)]
                                                           ELSE facts[i]]
    BY <1>4 DEF Touch, TouchFacts
  <2>2. TouchFacts(turn[t].ids \cap Ids)
    BY <2>1 DEF TouchFacts
  <2>3. QED
    BY <2>2 DEF Next
<1>5. CASE Store(t)
  <2>1. PICK text \in Texts, tier \in Tiers :
           \/ \E i \in turn[t].ids : SupersedeFact(i, text, tier, "extracted")
           \/ AddFact(text, tier, "extracted")
    BY <1>5 DEF Store
  <2>2. CASE AddFact(text, tier, "extracted")
    BY <1>1, <2>2 DEF Next
  <2>3. CASE \E i \in turn[t].ids : SupersedeFact(i, text, tier, "extracted")
    <3>1. PICK i \in Ids : SupersedeFact(i, text, tier, "extracted")
      BY <2>3 DEF SupersedeFact
    <3>2. QED
      BY <1>1, <3>1 DEF Next
  <2>4. QED
    BY <2>1, <2>2, <2>3
<1>6. CASE Recall(t) \/ CheckFact(t) \/ Extract(t) \/ Leave(t)
  BY <1>6 DEF Recall, CheckFact, Extract, Leave
<1>7. QED
  BY <1>2, <1>3, <1>4, <1>5, <1>6 DEF TurnStep

LEMMA PassMaps ==
    ASSUME MemoryTypeOK, NEW p \in Passes, PassStep(p)
    PROVE  [Next]_facts
<1>1. CASE StepDecay(p)
  BY <1>1 DEF StepDecay, Next
<1>2. CASE StepPromote(p)
  BY <1>2 DEF StepPromote, Next
<1>3. CASE Reword(p)
  <2>1. PICK keep \in Ids, text \in Texts : RewordFact(keep, text)
    BY <1>3 DEF Reword, RewordFact
  <2>2. QED
    BY <2>1 DEF Next
<1>4. CASE Drop(p)
  <2>1. PICK id \in Ids : ForgetFact(id)
    BY <1>4 DEF Drop, ForgetFact, Active
  <2>2. QED
    BY <2>1 DEF Next
<1>5. CASE Supersede(p)
  <2>1. PICK i \in pass[p].batch, text \in Texts :
           SupersedeFact(i, text, pass[p].tier[i], "consolidated")
    BY <1>5 DEF Supersede
  <2>2. i \in Ids
    BY <2>1 DEF SupersedeFact
  <2>3. pass[p].tier[i] \in Tiers /\ "consolidated" \in Sources
    BY DEF MemoryTypeOK, Sources
  <2>4. QED
    BY <2>1, <2>2, <2>3 DEF Next
<1>6. CASE Tidy(p) \/ ReadBatch(p) \/ Merged(p) \/ EndPass(p)
  BY <1>6 DEF Tidy, ReadBatch, Merged, EndPass
<1>7. QED
  BY <1>1, <1>2, <1>3, <1>4, <1>5, <1>6 DEF PassStep

LEMMA StepMaps ==
    ASSUME MemoryTypeOK, [MemoryNext]_vars
    PROVE  [Next]_facts
<1>1. CASE Migration
  BY <1>1 DEF Migration, Backfilled, Next
<1>2. CASE Die
  BY <1>2 DEF Die
<1>3. ASSUME NEW i \in Ids, Forget(i) \/ Restore(i) \/ Correct(i)
      PROVE  Next
  BY <1>3 DEF Forget, Restore, Correct, Next, Tiers, Sources
<1>4. CASE UNCHANGED vars
  BY <1>4 DEF vars
<1>5. QED
  BY <1>1, <1>2, <1>3, <1>4, TurnMaps, PassMaps DEF MemoryNext

(***************************************************************************)
(* Types                                                                   *)
(***************************************************************************)
TurnType == [Turns -> [pc : {"off", "talking", "writing", "storing"}, ids : SUBSET AnyId,
                       checked : AnyId \cup {Nobody}, left : 0 .. MaxEntries]]
PassType == [Passes -> [pc : {"off", "decay", "promote", "read", "merge", "correct"},
                        batch : SUBSET AnyId, tier : [AnyId -> Tiers],
                        changes : 0 .. MaxChanges, retired : SUBSET AnyId]]

LEMMA IdsInRange ==
    ASSUME StoreAssumption, TypeOK
    PROVE  Ids \subseteq AnyId /\ Active \subseteq AnyId /\ IsFiniteSet(AnyId)
<1>1. Len(facts) \in Nat /\ Ids = 1 .. Len(facts) /\ Len(facts) <= MaxFacts
  BY DEF TypeOK, Ids
<1>2. Ids \subseteq AnyId
  BY <1>1 DEF AnyId, StoreAssumption
<1>3. IsFiniteSet(AnyId)
  BY FS_Interval DEF AnyId, StoreAssumption
<1>4. QED
  BY <1>2, <1>3 DEF Active

\* The loop of _migrate is at a migration there is.
MigratingInv == store = "migrating" => Version \in Versions

LEMMA SchemaTyped ==
    ASSUME SchemaAssumption, SchemaTypeOK, MigratingInv,
           Migrate \/ Stamp \/ Crash \/ UNCHANGED schema
    PROVE  SchemaTypeOK' /\ MigratingInv'
<1>1. CASE Crash
  BY <1>1 DEF Crash, SchemaTypeOK, SchemaAssumption, MigratingInv
<1>2. CASE Begin
  BY <1>2 DEF Begin, SchemaTypeOK, MigratingInv, Version
<1>3. CASE Complete
  BY <1>3 DEF Complete, SchemaTypeOK, MigratingInv, Version
<1>4. CASE Stamp \/ Skip
  <2>1. Version \in Versions
    <3>1. CASE Skip
      BY <3>1 DEF Skip, Optional, Versions, Latest
    <3>2. CASE Stamp
      BY <3>2 DEF Stamp, MigratingInv
    <3>3. QED
      BY <1>4, <3>1, <3>2
  <2>2. QED
    BY <1>4, <2>1 DEF Stamp, Skip, SchemaTypeOK, Versions, Latest, MigratingInv
<1>5. CASE Open \/ Opened \/ UNCHANGED schema
  BY <1>5 DEF Open, Opened, schema, SchemaTypeOK, MigratingInv, Version
<1>6. QED
  BY <1>1, <1>2, <1>3, <1>4, <1>5 DEF Migrate

LEMMA TurnTyped ==
    ASSUME MemoryAssumption, StoreAssumption, MemoryTypeOK, NEW t \in Turns, TurnStep(t)
    PROVE  turn' \in TurnType /\ talk' \in 0 .. MaxTalk
<1> USE DEF TurnType
<1>1. turn \in TurnType /\ talk \in 0 .. MaxTalk /\ MaxEntries \in Nat /\ MaxTalk \in Nat
  BY DEF MemoryTypeOK, MemoryAssumption
<1>2. Active \subseteq AnyId /\ Nobody \notin AnyId
  BY IdsInRange DEF MemoryTypeOK, Nobody, AnyId
<1>3. Talk => talk' \in 0 .. MaxTalk
  BY <1>1 DEF Talk
<1>4. \A S \in Chosen : S \subseteq AnyId
  BY <1>2 DEF Chosen
<1> DEFINE Turn == [pc : {"off", "talking", "writing", "storing"}, ids : SUBSET AnyId,
                    checked : AnyId \cup {Nobody}, left : 0 .. MaxEntries]
<1>5. CASE Recall(t)
  <2>1. PICK S \in Chosen :
           turn' = [turn EXCEPT ![t] = [Quiet EXCEPT !.pc = "talking", !.ids = S]]
    BY <1>5 DEF Recall
  <2>2. [Quiet EXCEPT !.pc = "talking", !.ids = S] \in Turn
    <3>1. S \in SUBSET AnyId /\ 0 \in 0 .. MaxEntries
      BY <1>1, <1>4
    <3>2. QED
      BY <3>1 DEF Quiet
  <2>3. QED
    BY <1>1, <1>3, <1>5, <2>1, <2>2 DEF Recall
<1>6. CASE Remember(t)
  BY <1>1, <1>3, <1>6 DEF Remember
<1>7. CASE CheckFact(t)
  BY <1>1, <1>2, <1>3, <1>7 DEF CheckFact
<1>8. CASE CorrectFact(t)
  BY <1>1, <1>8 DEF CorrectFact
<1>9. CASE Touch(t)
  BY <1>1, <1>9 DEF Touch, Quiet
<1>10. CASE Extract(t)
  <2>1. PICK S \in Chosen :
           turn' = [turn EXCEPT ![t] = [Quiet EXCEPT !.pc = "storing", !.ids = S,
                                                     !.left = MaxEntries]]
    BY <1>10 DEF Extract
  <2>2. [Quiet EXCEPT !.pc = "storing", !.ids = S, !.left = MaxEntries] \in Turn
    <3>1. S \in SUBSET AnyId /\ MaxEntries \in 0 .. MaxEntries
      BY <1>1, <1>4
    <3>2. QED
      BY <3>1 DEF Quiet
  <2>3. QED
    BY <1>1, <1>10, <2>1, <2>2 DEF Extract
<1>11. CASE Store(t)
  <2>1. turn[t].left - 1 \in 0 .. MaxEntries
    BY <1>1, <1>11 DEF Store
  <2>2. QED
    BY <1>1, <1>11, <2>1 DEF Store
<1>12. CASE Leave(t)
  BY <1>1, <1>12 DEF Leave, Quiet
<1>13. QED
  BY <1>5, <1>6, <1>7, <1>8, <1>9, <1>10, <1>11, <1>12 DEF TurnStep

LEMMA PassTyped ==
    ASSUME MemoryAssumption, StoreAssumption, MemoryTypeOK, NEW p \in Passes, PassStep(p)
    PROVE  pass' \in PassType /\ passes' \in 0 .. MaxPasses
<1> USE DEF PassType
<1>1. /\ pass \in PassType /\ passes \in 0 .. MaxPasses
      /\ MaxChanges \in Nat /\ MaxPasses \in Nat
  BY DEF MemoryTypeOK, MemoryAssumption
<1>2. Active \subseteq AnyId
  BY IdsInRange DEF MemoryTypeOK
<1>3. CASE Tidy(p)
  <2>1. passes' \in 0 .. MaxPasses
    BY <1>1, <1>3 DEF Tidy
  <2>2. pass' \in PassType
    BY <1>1, <1>3 DEF Tidy, Go
  <2>3. QED
    BY <2>1, <2>2
<1>4. CASE StepDecay(p) \/ StepPromote(p) \/ Merged(p)
  BY <1>1, <1>4 DEF StepDecay, StepPromote, Merged, Go, OnlyPass
<1>5. CASE ReadBatch(p)
  <2>1. PICK S \in SUBSET Active :
           pass' = [pass EXCEPT ![p].pc = "merge", ![p].batch = S,
                                ![p].tier = [i \in AnyId |-> IF i \in S THEN facts[i].tier
                                                                        ELSE NoTiers[i]]]
    BY <1>5 DEF ReadBatch
  <2>2. \A i \in S : facts[i].tier \in Tiers
    <3>1. \A i \in S : facts[i] \in Fact
      BY DEF MemoryTypeOK, TypeOK, Active, Ids
    <3>2. QED
      BY <3>1 DEF Fact
  <2>3. \A i \in AnyId : NoTiers[i] \in Tiers
    BY DEF NoTiers, Tiers
  <2> DEFINE tiers == [i \in AnyId |-> IF i \in S THEN facts[i].tier ELSE NoTiers[i]]
  <2>4. tiers \in [AnyId -> Tiers]
    BY <2>2, <2>3
  <2>5. pass' = [pass EXCEPT ![p].pc = "merge", ![p].batch = S, ![p].tier = tiers]
    BY <2>1
  <2> HIDE DEF tiers
  <2>6. S \in SUBSET AnyId
    BY <1>2
  <2>7. pass' \in PassType
    <3> DEFINE q == [pass EXCEPT ![p].pc = "merge"]
               r == [q EXCEPT ![p].batch = S]
    <3>1. q \in PassType
      BY <1>1
    <3>2. r \in PassType
      BY <2>6, <3>1
    <3>3. [r EXCEPT ![p].tier = tiers] \in PassType
      <4> HIDE DEF r
      <4>1. QED
        BY <2>4, <3>2
    <3>4. QED
      BY <2>5, <3>3
  <2>8. QED
    BY <1>1, <1>5, <2>7 DEF ReadBatch, OnlyPass
<1>6. CASE Reword(p)
  BY <1>1, <1>6 DEF Reword, OnlyPass
<1>7. \A id \in AnyId : MayChange(p) /\ Changed(p, id) => pass' \in PassType
  <2>1. SUFFICES ASSUME NEW id \in AnyId, MayChange(p), Changed(p, id)
                 PROVE  pass' \in PassType
    OBVIOUS
  <2>2. pass[p].changes + 1 \in 0 .. MaxChanges /\ pass[p].retired \cup {id} \in SUBSET AnyId
    BY <1>1, <2>1 DEF MayChange
  <2>3. QED
    BY <1>1, <2>1, <2>2 DEF Changed
<1>8. CASE Drop(p)
  <2>1. PICK m \in Mergeable(p) : ForgetFact(m.drop) /\ Changed(p, m.drop)
    BY <1>8 DEF Drop
  <2>2. m.drop \in AnyId
    BY <1>2, <2>1 DEF ForgetFact
  <2>3. QED
    BY <1>1, <1>7, <1>8, <2>1, <2>2 DEF Drop, OnlyPass
<1>9. CASE Supersede(p)
  <2>1. PICK i \in pass[p].batch : Changed(p, i)
    BY <1>9 DEF Supersede
  <2>2. i \in AnyId
    BY <1>1
  <2>3. QED
    BY <1>1, <1>7, <1>9, <2>1, <2>2 DEF Supersede, OnlyPass
<1>10. CASE EndPass(p)
  <2>1. Resting \in [pc : {"off", "decay", "promote", "read", "merge", "correct"},
                     batch : SUBSET AnyId, tier : [AnyId -> Tiers],
                     changes : 0 .. MaxChanges, retired : SUBSET AnyId]
    BY <1>1 DEF Resting, NoTiers, Tiers
  <2>2. QED
    BY <1>1, <1>10, <2>1 DEF EndPass, OnlyPass
<1>11. QED
  BY <1>3, <1>4, <1>5, <1>6, <1>8, <1>9, <1>10 DEF PassStep

(***************************************************************************)
(* The invariant                                                           *)
(***************************************************************************)

\* What has been stamped has been applied, and the rows have their tiers from v2 on.
Stamped ==
    /\ \A v \in 1 .. stamped : v \notin Optional => has[v] = "all"
    /\ store = "open" => stamped = Latest
    /\ old => Len(facts) > 0 /\ (stamped > 1 => facts[1].tier = "durable")

\* A pass retires rows once it has its batch, and has made at least as many changes.
Counted ==
    \A p \in Passes :
        /\ pass[p].pc \in {"off", "decay", "promote", "read"} => pass[p].retired = {}
        /\ pass[p].retired \subseteq pass[p].batch
        /\ Cardinality(pass[p].retired) <= pass[p].changes

MemoryInv == MemoryTypeOK /\ StoreInv /\ MigratingInv /\ Stamped /\ Counted

LEMMA MemoryInitially ==
    ASSUME StoreAssumption, SchemaAssumption, MemoryAssumption, MemoryInit
    PROVE  MemoryInv
<1>1. StoreInv
  BY StoreInit DEF MemoryInit
<1>2. SchemaTypeOK /\ MigratingInv /\ stamped = 0 /\ store = "closed"
  BY DEF MemoryInit, SchemaInit, SchemaTypeOK, SchemaAssumption, MigratingInv, Latest
<1>3. MemoryTypeOK
  <2>1. \A t \in Turns : turn[t] \in [pc : {"off", "talking", "writing", "storing"},
             ids : SUBSET AnyId, checked : AnyId \cup {Nobody}, left : 0 .. MaxEntries]
    BY DEF MemoryInit, Quiet, MemoryAssumption
  <2>2. Resting \in [pc : {"off", "decay", "promote", "read", "merge", "correct"},
             batch : SUBSET AnyId, tier : [AnyId -> Tiers], changes : 0 .. MaxChanges,
             retired : SUBSET AnyId]
    BY DEF Resting, NoTiers, Tiers, MemoryAssumption
  <2>3. old \in BOOLEAN /\ talk \in 0 .. MaxTalk /\ passes \in 0 .. MaxPasses
    BY DEF MemoryInit, MemoryAssumption
  <2>4. QED
    BY <1>1, <1>2, <2>1, <2>2, <2>3 DEF MemoryInit, MemoryTypeOK, StoreInv
<1>4. Stamped
  <2>1. old => Len(facts) > 0
    <3>1. old => \E text \in Texts : facts = <<Fresh(text, "short", "extracted")>>
      BY DEF MemoryInit, Init
    <3>2. ASSUME old PROVE Len(facts) > 0
      <4>1. PICK text \in Texts : facts = <<Fresh(text, "short", "extracted")>>
        BY <3>1, <3>2
      <4>2. \A row : Len(<<row>>) = 1
        OBVIOUS
      <4>3. Len(facts) = 1
        BY <4>1, <4>2
      <4>4. QED
        BY <4>3
    <3>3. QED
      BY <3>2
  <2>2. QED
    BY <1>2, <2>1 DEF Stamped
<1>5. Counted
  <2>1. \A p \in Passes : pass[p] = Resting
    BY DEF MemoryInit
  <2>2. /\ Resting.retired = {} /\ Resting.batch = {} /\ Resting.changes = 0
    BY DEF Resting
  <2>3. Cardinality({}) = 0
    BY FS_EmptySet
  <2>4. QED
    BY <2>1, <2>2, <2>3 DEF Counted
<1>6. QED
  BY <1>1, <1>2, <1>3, <1>4, <1>5 DEF MemoryInv

\* The steps by what they do to the database
LEMMA StepSchema ==
    ASSUME [MemoryNext]_vars
    PROVE  /\ old' = old
           /\ \/ Migrate /\ UNCHANGED facts
              \/ Stamp /\ Backfilled
              \/ Crash /\ UNCHANGED facts
              \/ UNCHANGED schema
<1>1. CASE Migration
  BY <1>1 DEF Migration
<1>2. CASE Die
  BY <1>2 DEF Die
<1>3. ASSUME NEW t \in Turns, TurnStep(t) PROVE UNCHANGED <<old, schema>>
  BY <1>3 DEF TurnStep, Recall, Remember, CheckFact, CorrectFact, Touch, Extract, Store, Leave
<1>4. ASSUME NEW i \in Ids, Forget(i) \/ Restore(i) \/ Correct(i) PROVE UNCHANGED <<old, schema>>
  BY <1>4 DEF Forget, Restore, Correct
<1>5. ASSUME NEW p \in Passes, PassStep(p) PROVE UNCHANGED <<old, schema>>
  BY <1>5 DEF PassStep, Tidy, StepDecay, StepPromote, ReadBatch, Reword, Drop, Merged,
              Supersede, EndPass, OnlyPass
<1>6. CASE UNCHANGED vars
  BY <1>6 DEF vars
<1>7. QED
  BY <1>1, <1>2, <1>3, <1>4, <1>5, <1>6 DEF MemoryNext

LEMMA StepTyped ==
    ASSUME StoreAssumption, SchemaAssumption, MemoryAssumption, MemoryInv, [MemoryNext]_vars
    PROVE  MemoryTypeOK' /\ StoreInv' /\ MigratingInv'
<1>1. StoreInv'
  BY StepMaps, StoreStep DEF MemoryInv
<1>2. SchemaTypeOK' /\ MigratingInv' /\ old' \in BOOLEAN
  BY StepSchema, SchemaTyped DEF MemoryInv, MemoryTypeOK
<1>3. /\ turn \in TurnType /\ pass \in PassType
      /\ talk \in 0 .. MaxTalk /\ passes \in 0 .. MaxPasses
  BY DEF MemoryInv, MemoryTypeOK, TurnType, PassType
<1>4. turn' \in TurnType /\ talk' \in 0 .. MaxTalk /\ pass' \in PassType /\ passes' \in 0 .. MaxPasses
  <2>1. CASE Migration
    BY <1>3, <2>1 DEF Migration
  <2>2. CASE Die
    <3>1. [t \in Turns |-> Quiet] \in TurnType
      BY DEF TurnType, Quiet, MemoryAssumption
    <3>2. Resting \in [pc : {"off", "decay", "promote", "read", "merge", "correct"},
             batch : SUBSET AnyId, tier : [AnyId -> Tiers], changes : 0 .. MaxChanges,
             retired : SUBSET AnyId]
      BY DEF Resting, NoTiers, Tiers, MemoryAssumption
    <3>3. [pass EXCEPT !["loop"] = Resting] \in PassType
      BY <1>3, <3>2 DEF PassType
    <3>4. QED
      BY <1>3, <2>2, <3>1, <3>3 DEF Die
  <2>3. ASSUME NEW t \in Turns, TurnStep(t)
        PROVE  UNCHANGED <<pass, passes>>
    BY <2>3 DEF TurnStep, Recall, Remember, CheckFact, CorrectFact, Touch, Extract, Store, Leave
  <2>4. ASSUME NEW i \in Ids, Forget(i) \/ Restore(i) \/ Correct(i)
        PROVE  UNCHANGED <<turn, pass, passes>> /\ talk' \in 0 .. MaxTalk
    BY <1>3, <2>4 DEF Forget, Restore, Correct, Talk, MemoryAssumption
  <2>5. ASSUME NEW p \in Passes, PassStep(p)
        PROVE  UNCHANGED <<turn, talk>>
    BY <2>5 DEF PassStep, Tidy, StepDecay, StepPromote, ReadBatch, Reword, Drop, Merged,
                Supersede, EndPass, OnlyPass
  <2>6. CASE UNCHANGED vars
    BY <1>3, <2>6 DEF vars
  <2>7. QED
    BY <1>3, <2>1, <2>2, <2>3, <2>4, <2>5, <2>6, TurnTyped, PassTyped
    DEF MemoryNext, MemoryInv
<1>5. QED
  BY <1>1, <1>2, <1>4 DEF MemoryTypeOK, StoreInv, TurnType, PassType

LEMMA StepStamped ==
    ASSUME StoreAssumption, MemoryInv, [MemoryNext]_vars
    PROVE  Stamped'
<1>1. TypeOK' /\ (Grows \/ UNCHANGED facts)
  BY StepMaps, StepGrows DEF MemoryInv, StoreInv, TypeOK
<1> DEFINE before == Len(facts)
           after == Len(facts')
<1>2. before \in Nat /\ after \in Nat /\ Ids = 1 .. before
  BY <1>1 DEF MemoryInv, StoreInv, TypeOK, Ids
<1>3. before <= after
  BY <1>1, <1>2 DEF Grows
<1>4. before > 0 /\ facts[1].tier = "durable" => facts'[1].tier = "durable"
  BY <1>1, <1>2 DEF Grows, Kept
<1> HIDE DEF before, after
<1>5. old' = old /\ (old => before > 0 /\ (stamped > 1 => facts[1].tier = "durable"))
  BY StepSchema DEF MemoryInv, Stamped, before
<1>6. old' => after > 0
  BY <1>2, <1>3, <1>5
<1>7. stamped \in 0 .. Latest /\ has \in [Versions -> {"none", "part", "all"}]
  BY DEF MemoryInv, MemoryTypeOK, SchemaTypeOK
<1>8. old' /\ stamped' > 1 => facts'[1].tier = "durable"
  <2>1. CASE stamped > 1 \/ stamped' = stamped
    BY <1>4, <1>5, <2>1
  <2>2. CASE stamped <= 1 /\ stamped' # stamped
    <3>1. stamped' = stamped + 1
      BY <2>2, StepSchema DEF Migrate, Open, Begin, Complete, Skip, Opened, Stamp, Crash,
                              schema, Version
    <3>2. CASE stamped = 1
      <4>1. Stamp /\ Backfilled
        BY <2>2, <3>2, StepSchema DEF Migrate, Open, Begin, Complete, Skip, Opened, Crash,
                                      schema, Version, Optional
      <4>2. Grandfather
        BY <3>2, <4>1 DEF Backfilled, Version
      <4>3. 1 \in Ids /\ facts[1] \in Fact => facts'[1].tier = "durable"
        BY <4>2 DEF Grandfather, Fact
      <4>4. old => 1 \in Ids
        BY <1>2, <1>5
      <4>5. 1 \in Ids => facts[1] \in Fact
        BY DEF MemoryInv, StoreInv, TypeOK, Ids
      <4>6. QED
        BY <1>5, <4>3, <4>4, <4>5
    <3>3. QED
      BY <1>7, <2>2, <3>1, <3>2 DEF Latest
  <2>3. QED
    BY <1>7, <2>1, <2>2 DEF Latest
<1>9. \A v \in 1 .. stamped' : v \notin Optional => has'[v] = "all"
  <2>1. \A v \in 1 .. stamped : v \in Versions /\ (v \notin Optional => has[v] = "all")
    BY <1>7 DEF MemoryInv, Stamped, Versions, Latest
  <2>2. CASE Stamp
    BY <1>7, <2>1, <2>2 DEF Stamp, Applied, Version, Versions, Latest
  <2>3. CASE Begin
    BY <1>7, <2>1, <2>3 DEF Begin, Version, Versions, Latest
  <2>4. CASE Complete
    BY <1>7, <2>1, <2>4 DEF Complete, Version, Versions, Latest
  <2>5. CASE Skip
    BY <1>7, <2>1, <2>5 DEF Skip, Version, Versions, Latest
  <2>6. CASE Open \/ Opened \/ Crash \/ UNCHANGED schema
    BY <2>1, <2>6 DEF Open, Opened, Crash, schema
  <2>7. QED
    BY <2>2, <2>3, <2>4, <2>5, <2>6, StepSchema DEF Migrate
<1>10. store' = "open" => stamped' = Latest
  <2>1. store = "open" => stamped = Latest
    BY DEF MemoryInv, Stamped
  <2>2. QED
    BY <2>1, StepSchema DEF Migrate, Open, Begin, Complete, Skip, Opened, Stamp, Crash, schema
<1>11. QED
  BY <1>6, <1>8, <1>9, <1>10 DEF Stamped, after

\* A pass as it rests, or as one more of its changes leaves it, keeps count.
LEMMA RestCounts ==
    ASSUME NEW p \in Passes, Counted, pass \in PassType,
           pass' = [pass EXCEPT ![p] = Resting]
    PROVE  Counted'
<1>1. Resting.retired = {} /\ Resting.batch = {} /\ Resting.changes = 0
  BY DEF Resting
<1>2. Cardinality({}) = 0
  BY FS_EmptySet
<1>3. pass'[p] = Resting /\ \A q \in Passes \ {p} : pass'[q] = pass[q]
  BY DEF PassType
<1>4. /\ pass'[p].retired = {}
      /\ pass'[p].retired \subseteq pass'[p].batch
      /\ Cardinality(pass'[p].retired) <= pass'[p].changes
  BY <1>1, <1>2, <1>3
<1>5. \A q \in Passes \ {p} :
        /\ pass'[q].pc \in {"off", "decay", "promote", "read"} => pass'[q].retired = {}
        /\ pass'[q].retired \subseteq pass'[q].batch
        /\ Cardinality(pass'[q].retired) <= pass'[q].changes
  BY <1>3 DEF Counted
<1>6. QED
  BY <1>4, <1>5 DEF Counted

LEMMA ChangeCounts ==
    ASSUME StoreAssumption, TypeOK, NEW p \in Passes, NEW id \in pass[p].batch,
           Counted, pass \in PassType, pass[p].pc \in {"merge", "correct"}, Changed(p, id)
    PROVE  Counted'
<1> DEFINE before == pass[p].retired
           n == pass[p].changes
<1>1. before \in SUBSET AnyId /\ n \in Nat /\ Cardinality(before) <= n
      /\ before \subseteq pass[p].batch
  BY DEF PassType, Counted
<1>2. IsFiniteSet(before)
  BY <1>1, IdsInRange, FS_Subset
<1>3. Cardinality(before) \in Nat
  BY <1>2, FS_CardinalityType
<1>4. Cardinality(before \cup {id}) \in {Cardinality(before), Cardinality(before) + 1}
  BY <1>2, FS_AddElement
<1>5. Cardinality(before \cup {id}) <= n + 1
  <2> HIDE DEF before, n
  <2>1. QED
    BY <1>1, <1>3, <1>4
<1>6. /\ pass'[p].pc = pass[p].pc
      /\ pass'[p].batch = pass[p].batch
      /\ pass'[p].retired = before \cup {id}
      /\ pass'[p].changes = n + 1
      /\ \A q \in Passes \ {p} : pass'[q] = pass[q]
  BY DEF Changed, PassType
<1>7. QED
  BY <1>1, <1>5, <1>6 DEF Counted

LEMMA StepCounted ==
    ASSUME StoreAssumption, MemoryInv, [MemoryNext]_vars
    PROVE  Counted'
<1>1. pass \in PassType /\ Counted /\ TypeOK
  BY DEF MemoryInv, MemoryTypeOK, PassType
<1>2. CASE UNCHANGED pass
  BY <1>1, <1>2 DEF Counted
<1>3. ASSUME NEW p \in Passes, PassStep(p)
      PROVE  Counted'
  <2>1. CASE Drop(p)
    <3>1. PICK m \in Mergeable(p) : Changed(p, m.drop)
      BY <2>1 DEF Drop
    <3>2. m.drop \in pass[p].batch /\ pass[p].pc = "merge"
      BY <2>1 DEF Drop, Mergeable, AtPass
    <3>3. QED
      BY <1>1, <3>1, <3>2, ChangeCounts
  <2>2. CASE Supersede(p)
    <3>1. PICK i \in pass[p].batch : Changed(p, i)
      BY <2>2 DEF Supersede
    <3>2. pass[p].pc = "correct"
      BY <2>2 DEF Supersede, AtPass
    <3>3. QED
      BY <1>1, <3>1, <3>2, ChangeCounts
  <2>3. ASSUME NEW from, NEW to, AtPass(p, from), Go(p, to),
               from \in {"off", "decay", "promote", "read"} \/ to \in {"merge", "correct"}
        PROVE  Counted'
    <3>1. /\ pass'[p].pc = to
          /\ pass'[p].batch = pass[p].batch
          /\ pass'[p].retired = pass[p].retired
          /\ pass'[p].changes = pass[p].changes
          /\ \A q \in Passes \ {p} : pass'[q] = pass[q]
      BY <1>1, <2>3 DEF Go, PassType
    <3>2. QED
      BY <1>1, <2>3, <3>1 DEF Counted, AtPass
  <2>4. CASE Tidy(p) \/ StepDecay(p) \/ StepPromote(p) \/ Merged(p)
    BY <2>3, <2>4 DEF Tidy, StepDecay, StepPromote, Merged
  <2>5. CASE ReadBatch(p)
    <3>1. PICK S \in SUBSET Active :
             pass' = [pass EXCEPT ![p].pc = "merge", ![p].batch = S,
                                  ![p].tier = [i \in AnyId |-> IF i \in S THEN facts[i].tier
                                                                ELSE NoTiers[i]]]
      BY <2>5 DEF ReadBatch
    <3>2. /\ pass'[p].pc = "merge"
          /\ pass'[p].batch = S
          /\ pass'[p].retired = pass[p].retired
          /\ pass'[p].changes = pass[p].changes
          /\ \A q \in Passes \ {p} : pass'[q] = pass[q]
      BY <1>1, <3>1 DEF PassType
    <3>3. pass[p].retired = {}
      BY <1>1, <2>5 DEF ReadBatch, AtPass, Counted
    <3>4. QED
      BY <1>1, <3>2, <3>3 DEF Counted
  <2>6. CASE Reword(p)
    BY <1>2, <2>6 DEF Reword
  <2>7. CASE EndPass(p)
    BY <1>1, <2>7, RestCounts DEF EndPass
  <2>8. QED
    BY <1>3, <2>1, <2>2, <2>4, <2>5, <2>6, <2>7 DEF PassStep
<1>4. CASE Die
  BY <1>1, <1>4, RestCounts DEF Die, Passes
<1>5. ASSUME NEW t \in Turns, TurnStep(t)
      PROVE  UNCHANGED pass
  BY <1>5 DEF TurnStep, Recall, Remember, CheckFact, CorrectFact, Touch, Extract, Store, Leave
<1>6. QED
  BY <1>2, <1>3, <1>4, <1>5 DEF MemoryNext, Migration, Forget, Restore, Correct, vars

(***************************************************************************)
(* A fact's history: the walks of lineage                                  *)
(***************************************************************************)

LEMMA Smallest ==
    ASSUME NEW T \in SUBSET Nat, T # {}
    PROVE  \E x \in T : \A y \in T : x <= y
<1>1. PICK x \in T : \A y \in T : ~(<<y, x>> \in OpToRel(<, Nat))
  BY WFMin, NatLessThanWellFounded, Zenon
<1>2. x \in Nat /\ \A y \in T : y \in Nat /\ ~(y < x)
  BY <1>1 DEF OpToRel
<1>3. QED
  BY <1>2

\* Induction up to n, over a set of numbers
LEMMA UpTo ==
    ASSUME NEW n \in Nat, NEW T, 0 \in T, \A k \in 1 .. n : k - 1 \in T => k \in T
    PROVE  \A k \in 0 .. n : k \in T
<1>1. SUFFICES ASSUME (0 .. n) \ T # {} PROVE FALSE
  OBVIOUS
<1>2. PICK k \in (0 .. n) \ T : \A m \in (0 .. n) \ T : k <= m
  <2>1. (0 .. n) \ T \in SUBSET Nat
    OBVIOUS
  <2>2. QED
    BY <1>1, <2>1, Smallest
<1>3. k \in 1 .. n /\ k - 1 \in 0 .. n /\ ~(k <= k - 1)
  BY <1>2
<1>4. QED
  BY <1>2, <1>3

\* f is what becomes of first when step is taken up to n times.
Iterated(f, n, A, first, step) ==
    f \in [0 .. n -> A] /\ f[0] = first /\ \A k \in 1 .. n : f[k] = step[f[k - 1]]

\* There is such a function: what makes the walks well defined
LEMMA Iterates ==
    ASSUME NEW n \in Nat, NEW A, NEW first \in A, NEW step \in [A -> A]
    PROVE  \E f : Iterated(f, n, A, first, step)
<1> DEFINE Upto(k, f) == Iterated(f, k, A, first, step)
           T == {k \in 0 .. n : \E f : Upto(k, f)}
<1>1. 0 \in T
  <2>1. Upto(0, [m \in 0 .. 0 |-> first])
    BY DEF Iterated
  <2> HIDE DEF Upto
  <2>2. 0 \in 0 .. n /\ \E f : Upto(0, f)
    BY <2>1
  <2>3. QED
    BY <2>2
<1>2. ASSUME NEW k \in 1 .. n, k - 1 \in T PROVE k \in T
  <2>0. PICK f : Upto(k - 1, f)
    BY <1>2
  <2>1. /\ f \in [0 .. k - 1 -> A] /\ f[0] = first
        /\ \A m \in 1 .. k - 1 : f[m] = step[f[m - 1]]
    BY <2>0 DEF Iterated
  <2> DEFINE g == [m \in 0 .. k |-> IF m = k THEN step[f[k - 1]] ELSE f[m]]
  <2>2. f[k - 1] \in A /\ step[f[k - 1]] \in A
    BY <2>1
  <2>3. g \in [0 .. k -> A]
    BY <2>1, <2>2
  <2>4. g[0] = first
    BY <2>1
  <2>5. \A m \in 1 .. k : g[m] = step[g[m - 1]]
    <3>1. ASSUME NEW m \in 1 .. k PROVE g[m] = step[g[m - 1]]
      <4>1. m - 1 \in 0 .. k /\ m - 1 # k /\ g[m - 1] = f[m - 1]
        OBVIOUS
      <4>2. CASE m = k
        BY <4>1, <4>2
      <4>3. CASE m # k
        <5>1. m \in 1 .. k - 1 /\ g[m] = f[m]
          BY <4>3
        <5>2. QED
          BY <2>1, <4>1, <5>1
      <4>4. QED
        BY <4>2, <4>3
    <3>2. QED
      BY <3>1
  <2>6. Upto(k, g)
    BY <2>3, <2>4, <2>5 DEF Iterated
  <2> HIDE DEF Upto, g
  <2>7. k \in 0 .. n /\ \E h : Upto(k, h)
    BY <2>6
  <2>8. QED
    BY <2>7
<1> HIDE DEF Upto
<1>3. n \in T
  BY <1>1, <1>2, UpTo, n \in 0 .. n
<1>4. QED
  BY <1>3 DEF Upto

LEMMA FirstOfMany ==
    ASSUME NEW S \in SUBSET Nat, S # {}
    PROVE  First(S) \in S
<1>1. \E i \in S : \A j \in S : i <= j
  BY Smallest
<1>2. QED
  BY <1>1 DEF First

LEMMA IdsCounted ==
    ASSUME TypeOK
    PROVE  /\ Len(facts) \in Nat /\ Ids = 1 .. Len(facts) /\ Ids \in SUBSET Nat
           /\ \A i \in Ids : Corrected(i) \in SUBSET Ids /\ facts[i] \in Fact
<1>1. facts \in Seq(Fact)
  BY DEF TypeOK
<1>2. QED
  BY <1>1 DEF Ids, Corrected

\* Both walks are well defined.
LEMMA BackwardDefined ==
    ASSUME StoreAssumption, TypeOK
    PROVE  /\ \A i \in Ids : Backward[0][i] = i
           /\ \A n \in 1 .. LineageLimit : \A i \in Ids :
                 Backward[n][i] = IF Corrected(i) = {} THEN i
                                  ELSE Backward[n - 1][First(Corrected(i))]
<1>i. /\ LineageLimit \in Nat
      /\ \A i \in Ids : Corrected(i) # {} => First(Corrected(i)) \in Ids
  BY IdsCounted, FirstOfMany DEF StoreAssumption
<1> DEFINE A == [Ids -> Ids]
           first == [i \in Ids |-> i]
           Prior(g) == [i \in Ids |-> IF Corrected(i) = {} THEN i ELSE g[First(Corrected(i))]]
           step == [g \in A |-> Prior(g)]
           Body(f) == [n \in 0 .. LineageLimit |->
                         [i \in Ids |-> IF n = 0 \/ Corrected(i) = {} THEN i
                                        ELSE f[n - 1][First(Corrected(i))]]]
<1>1. first \in A /\ \A g \in A : Prior(g) \in A
  BY <1>i
<1>2. step \in [A -> A]
  BY <1>1
<1>3. PICK f \in [0 .. LineageLimit -> A] :
         f[0] = first /\ \A k \in 1 .. LineageLimit : f[k] = step[f[k - 1]]
  <2> HIDE DEF A, first, step
  <2>1. LineageLimit \in Nat /\ first \in A /\ step \in [A -> A]
    BY <1>i, <1>1, <1>2
  <2>2. PICK f : Iterated(f, LineageLimit, A, first, step)
    BY <2>1, Iterates
  <2>3. QED
    BY <2>2 DEF Iterated
<1>4. f = Body(f)
  <2>1. ASSUME NEW n \in 0 .. LineageLimit PROVE f[n] = Body(f)[n]
    <3>1. CASE n = 0
      BY <1>3, <3>1
    <3>2. CASE n # 0
      <4>1. n \in 1 .. LineageLimit /\ n - 1 \in 0 .. LineageLimit
        BY <3>2, <1>i
      <4>2. f[n] = Prior(f[n - 1])
        BY <1>3, <4>1
      <4>3. QED
        BY <3>2, <4>2
    <3>3. QED
      BY <3>1, <3>2
  <2> HIDE DEF A
  <2>2. f = [n \in 0 .. LineageLimit |-> f[n]]
    BY <1>3
  <2>3. QED
    BY <2>1, <2>2
<1>5. Backward = Body(Backward)
  <2>1. Backward = CHOOSE g : g = Body(g)
    BY DEF Backward
  <2> HIDE DEF Body
  <2>2. QED
    BY <1>4, <2>1
<1>6. \A n \in 0 .. LineageLimit : \A i \in Ids :
         Backward[n][i] = IF n = 0 \/ Corrected(i) = {} THEN i
                          ELSE Backward[n - 1][First(Corrected(i))]
  <2>1. \A n \in 0 .. LineageLimit : \A i \in Ids :
           Body(Backward)[n][i] = IF n = 0 \/ Corrected(i) = {} THEN i
                                  ELSE Backward[n - 1][First(Corrected(i))]
    OBVIOUS
  <2> HIDE DEF Body
  <2>2. QED
    BY <1>5, <2>1
<1>7. QED
  BY <1>6, <1>i

LEMMA ForwardDefined ==
    ASSUME StoreAssumption, TypeOK, CorrectionsPointForward
    PROVE  /\ Forward \in [0 .. LineageLimit -> [Ids \cup {Nobody} -> Seq(Ids)]]
           /\ \A i \in Ids : Forward[0][i] = << >>
           /\ \A n \in 0 .. LineageLimit : Forward[n][Nobody] = << >>
           /\ \A n \in 1 .. LineageLimit : \A i \in Ids :
                 Forward[n][i] = <<i>> \o Forward[n - 1][facts[i].by]
<1>i. LineageLimit \in Nat /\ Nobody \notin Ids /\ \A i \in Ids : facts[i].by \in Ids \cup {Nobody}
  <2>1. \A i \in Ids : facts[i].by # Nobody => facts[i].by \in (i + 1) .. Len(facts)
    BY DEF CorrectionsPointForward
  <2>2. QED
    BY <2>1, IdsCounted DEF Nobody, StoreAssumption
<1> DEFINE D == Ids \cup {Nobody}
           A == [D -> Seq(Ids)]
           first == [i \in D |-> << >>]
           Longer(g) == [i \in D |-> IF i = Nobody THEN << >> ELSE <<i>> \o g[facts[i].by]]
           step == [g \in A |-> Longer(g)]
           Body(f) == [n \in 0 .. LineageLimit |->
                         [i \in D |-> IF n = 0 \/ i = Nobody THEN << >>
                                      ELSE <<i>> \o f[n - 1][facts[i].by]]]
<1>1. first \in A
  OBVIOUS
<1>2. ASSUME NEW g \in A PROVE Longer(g) \in A
  <2>1. ASSUME NEW i \in D PROVE (IF i = Nobody THEN << >> ELSE <<i>> \o g[facts[i].by]) \in Seq(Ids)
    <3>1. CASE i = Nobody
      BY <3>1
    <3>2. CASE i # Nobody
      <4>1. <<i>> \in Seq(Ids) /\ g[facts[i].by] \in Seq(Ids)
        BY <1>i, <3>2
      <4>2. QED
        BY <3>2, <4>1, ConcatProperties
    <3>3. QED
      BY <3>1, <3>2
  <2>2. QED
    BY <2>1
<1>3. step \in [A -> A]
  <2> HIDE DEF A, Longer
  <2>1. QED
    BY <1>2
<1>4. PICK f \in [0 .. LineageLimit -> A] :
         f[0] = first /\ \A k \in 1 .. LineageLimit : f[k] = step[f[k - 1]]
  <2> HIDE DEF A, first, step
  <2>1. LineageLimit \in Nat /\ first \in A /\ step \in [A -> A]
    BY <1>i, <1>1, <1>3
  <2>2. PICK f : Iterated(f, LineageLimit, A, first, step)
    BY <2>1, Iterates
  <2>3. QED
    BY <2>2 DEF Iterated
<1>5. f = Body(f)
  <2>1. ASSUME NEW n \in 0 .. LineageLimit PROVE f[n] = Body(f)[n]
    <3>1. CASE n = 0
      BY <1>4, <3>1
    <3>2. CASE n # 0
      <4>1. n \in 1 .. LineageLimit /\ n - 1 \in 0 .. LineageLimit
        BY <3>2, <1>i
      <4>2. f[n] = Longer(f[n - 1])
        <5> HIDE DEF Longer, A
        <5>1. QED
          BY <1>4, <4>1
      <4>3. QED
        BY <3>2, <4>2
    <3>3. QED
      BY <3>1, <3>2
  <2> HIDE DEF A
  <2>2. f = [n \in 0 .. LineageLimit |-> f[n]]
    BY <1>4
  <2>3. QED
    BY <2>1, <2>2
<1>6. Forward = Body(Forward)
  <2>1. Forward = CHOOSE g : g = Body(g)
    BY DEF Forward
  <2> HIDE DEF Body
  <2>2. QED
    BY <1>5, <2>1
<1>7. \A n \in 0 .. LineageLimit : \A i \in D :
         Forward[n][i] = IF n = 0 \/ i = Nobody THEN << >>
                         ELSE <<i>> \o Forward[n - 1][facts[i].by]
  <2>1. \A n \in 0 .. LineageLimit : \A i \in D :
           Body(Forward)[n][i] = IF n = 0 \/ i = Nobody THEN << >>
                                 ELSE <<i>> \o Forward[n - 1][facts[i].by]
    OBVIOUS
  <2> HIDE DEF Body
  <2>2. QED
    BY <1>6, <2>1
<1>z. 0 \in 0 .. LineageLimit /\ << >> \in Seq(Ids)
  BY <1>i
<1>a. \A i \in D : Forward[0][i] = << >>
  BY <1>7, <1>z, Zenon
<1>b. \A n \in 0 .. LineageLimit : Forward[n][Nobody] = << >>
  BY <1>7, Zenon
<1>c. \A n \in 1 .. LineageLimit : \A i \in Ids :
         Forward[n][i] = <<i>> \o Forward[n - 1][facts[i].by]
  <2>1. \A n \in 1 .. LineageLimit : n \in 0 .. LineageLimit /\ n # 0
    BY <1>i
  <2>2. \A i \in Ids : i \in D /\ i # Nobody
    BY <1>i
  <2>3. QED
    BY <1>7, <2>1, <2>2, Zenon
<1> DEFINE T == {n \in 0 .. LineageLimit : \A i \in D : Forward[n][i] \in Seq(Ids)}
<1>8. 0 \in T
  BY <1>a, <1>z, Zenon
<1>9. ASSUME NEW n \in 1 .. LineageLimit, n - 1 \in T PROVE n \in T
  <2>1. ASSUME NEW i \in D PROVE Forward[n][i] \in Seq(Ids)
    <3>1. CASE i = Nobody
      BY <1>b, <1>z, <3>1, n \in 0 .. LineageLimit, Zenon
    <3>2. CASE i # Nobody
      <4>1. <<i>> \in Seq(Ids) /\ Forward[n - 1][facts[i].by] \in Seq(Ids)
        BY <1>i, <1>9, <3>2
      <4>2. Forward[n][i] = <<i>> \o Forward[n - 1][facts[i].by]
        BY <1>c, <3>2
      <4>3. QED
        BY <4>1, <4>2, ConcatProperties
    <3>3. QED
      BY <3>1, <3>2
  <2>2. QED
    BY <2>1
<1>10. \A n \in 0 .. LineageLimit : n \in T
  <2> HIDE DEF T
  <2>1. QED
    BY <1>i, <1>8, <1>9, UpTo
<1>11. Forward \in [0 .. LineageLimit -> A]
  <2>1. ASSUME NEW n \in 0 .. LineageLimit PROVE Body(Forward)[n] \in A
    <3>1. Body(Forward)[n] = [i \in D |-> Forward[n][i]]
      BY <1>7
    <3>2. QED
      BY <1>10, <3>1
  <2>2. Body(Forward) = [n \in 0 .. LineageLimit |-> Body(Forward)[n]]
    OBVIOUS
  <2> HIDE DEF Body, A
  <2>3. Body(Forward) \in [0 .. LineageLimit -> A]
    BY <2>1, <2>2
  <2>4. QED
    BY <1>6, <2>3
<1>12. QED
  BY <1>a, <1>b, <1>c, <1>11

(***************************************************************************)
(* c is what a walk of k rows forward from p shows: each row the correction  *)
(* of the one before, and no further than k rows or the last correction.     *)
(***************************************************************************)
Stretch(c, p, k) ==
    /\ c \in Seq(Ids) /\ Len(c) \in 1 .. k /\ c[1] = p
    /\ \A n \in 1 .. Len(c) - 1 : facts[c[n]].by = c[n + 1]
    /\ Len(c) < k => facts[c[Len(c)]].by = Nobody
    /\ \A n \in 1 .. Len(c) : p + n - 1 <= c[n]

LEMMA StretchAlone ==
    ASSUME TypeOK, NEW p \in Ids, NEW k \in Nat \ {0}, k = 1 \/ facts[p].by = Nobody
    PROVE  Stretch(<<p>>, p, k)
<1>1. /\ <<p>> \in Seq(Ids) /\ Len(<<p>>) = 1 /\ <<p>>[1] = p /\ p \in Nat
  BY IdsCounted
<1>2. QED
  BY <1>1 DEF Stretch

LEMMA StretchLonger ==
    ASSUME TypeOK, CorrectionsPointForward,
           NEW p \in Ids, NEW k \in Nat, NEW d, facts[p].by \in Ids, Stretch(d, facts[p].by, k - 1)
    PROVE  Stretch(<<p>> \o d, p, k)
<1> DEFINE c == <<p>> \o d
           q == facts[p].by
<1>1. /\ d \in Seq(Ids) /\ Len(d) \in 1 .. k - 1 /\ d[1] = q
      /\ \A n \in 1 .. Len(d) - 1 : facts[d[n]].by = d[n + 1]
      /\ Len(d) < k - 1 => facts[d[Len(d)]].by = Nobody
      /\ \A n \in 1 .. Len(d) : q + n - 1 <= d[n]
  BY DEF Stretch
<1>2. p \in Nat /\ q \in Nat /\ p + 1 <= q
  BY IdsCounted DEF CorrectionsPointForward, Nobody
<1>3. /\ c \in Seq(Ids) /\ Len(c) = Len(d) + 1 /\ c[1] = p
      /\ \A n \in 1 .. Len(d) : c[n + 1] = d[n]
  <2>1. <<p>> \in Seq(Ids) /\ Len(<<p>>) = 1
    OBVIOUS
  <2>2. QED
    BY <1>1, <2>1
<1>4. \A n \in 2 .. Len(d) + 1 : c[n] = d[n - 1] /\ n - 1 \in 1 .. Len(d)
  <2>1. ASSUME NEW n \in 2 .. Len(d) + 1 PROVE c[n] = d[n - 1] /\ n - 1 \in 1 .. Len(d)
    <3>1. n - 1 \in 1 .. Len(d) /\ (n - 1) + 1 = n
      BY <1>1
    <3>2. QED
      BY <1>3, <3>1
  <2>2. QED
    BY <2>1
<1> HIDE DEF c
<1>5. \A n \in 1 .. Len(c) - 1 : facts[c[n]].by = c[n + 1]
  <2>1. ASSUME NEW n \in 1 .. Len(d) PROVE facts[c[n]].by = c[n + 1]
    <3>1. CASE n = 1
      BY <1>1, <1>3, <3>1
    <3>2. CASE n # 1
      <4>1. n \in 2 .. Len(d) + 1 /\ n - 1 \in 1 .. Len(d) - 1 /\ (n - 1) + 1 = n
        BY <1>1, <3>2
      <4>2. facts[d[n - 1]].by = d[n]
        BY <1>1, <4>1
      <4>3. QED
        BY <1>3, <1>4, <4>1, <4>2
    <3>3. QED
      BY <3>1, <3>2
  <2>2. QED
    BY <1>1, <1>3, <2>1
<1>6. Len(c) < k => facts[c[Len(c)]].by = Nobody
  <2>1. Len(d) + 1 \in 2 .. Len(d) + 1 /\ (Len(d) + 1) - 1 = Len(d)
    BY <1>1
  <2>2. c[Len(d) + 1] = d[Len(d)]
    BY <1>4, <2>1
  <2>3. QED
    BY <1>1, <1>3, <2>2
<1>7. \A n \in 1 .. Len(c) : p + n - 1 <= c[n]
  <2>1. ASSUME NEW n \in 1 .. Len(d) + 1 PROVE p + n - 1 <= c[n]
    <3>1. CASE n = 1
      BY <1>2, <1>3, <3>1
    <3>2. CASE n # 1
      <4>1. n \in 2 .. Len(d) + 1
        BY <1>1, <3>2
      <4>2. n - 1 \in 1 .. Len(d) /\ c[n] = d[n - 1]
        BY <1>1, <1>4, <4>1
      <4>3. q + (n - 1) - 1 <= d[n - 1]
        BY <1>1, <4>2
      <4>4. d[n - 1] \in Ids
        BY <1>1, <4>2
      <4>5. d[n - 1] \in Nat /\ p \in Nat /\ q \in Nat /\ n \in Nat
        BY <1>1, <4>1, <4>4, IdsCounted
      <4>6. QED
        BY <1>2, <4>2, <4>3, <4>5
    <3>3. QED
      BY <3>1, <3>2
  <2>2. QED
    BY <1>1, <1>3, <2>1
<1>8. QED
  BY <1>1, <1>3, <1>5, <1>6, <1>7 DEF Stretch, c

\* The second loop of lineage
LEMMA ForwardShows ==
    ASSUME StoreAssumption, TypeOK, CorrectionsPointForward
    PROVE  \A k \in 1 .. LineageLimit : \A p \in Ids : Stretch(Forward[k][p], p, k)
<1> DEFINE T == {k \in 0 .. LineageLimit : k = 0 \/ \A p \in Ids : Stretch(Forward[k][p], p, k)}
<1>1. LineageLimit \in Nat /\ 0 \in T
  BY DEF StoreAssumption
<1>2. ASSUME NEW k \in 1 .. LineageLimit, k - 1 \in T PROVE k \in T
  <2>1. SUFFICES ASSUME NEW p \in Ids PROVE Stretch(Forward[k][p], p, k)
    BY <1>1
  <2>2. Forward[k][p] = <<p>> \o Forward[k - 1][facts[p].by]
    BY ForwardDefined
  <2>3. facts[p].by = Nobody \/ facts[p].by \in Ids
    BY IdsCounted DEF CorrectionsPointForward
  <2>4. CASE k = 1 \/ facts[p].by = Nobody
    <3>1. Forward[k - 1][facts[p].by] = << >>
      <4>1. k - 1 \in 0 .. LineageLimit
        BY <1>1
      <4>2. \A i \in Ids : Forward[0][i] = << >>
        BY ForwardDefined
      <4>3. \A n \in 0 .. LineageLimit : Forward[n][Nobody] = << >>
        BY ForwardDefined
      <4>4. QED
        BY <2>3, <2>4, <4>1, <4>2, <4>3
    <3>2. Forward[k][p] = <<p>>
      <4>1. <<p>> \o << >> = <<p>>
        OBVIOUS
      <4>2. QED
        BY <2>2, <3>1, <4>1, Zenon
    <3>3. QED
      BY <1>1, <2>4, <3>2, StretchAlone
  <2>5. CASE k # 1 /\ facts[p].by \in Ids
    <3>1. Stretch(Forward[k - 1][facts[p].by], facts[p].by, k - 1)
      BY <1>2, <2>5
    <3>2. k \in Nat
      BY <1>1
    <3>3. QED
      BY <2>2, <2>5, <3>1, <3>2, StretchLonger
  <2>6. QED
    BY <2>3, <2>4, <2>5
<1> HIDE DEF T
<1>3. \A k \in 0 .. LineageLimit : k \in T
  BY <1>1, <1>2, UpTo
<1>4. QED
  BY <1>1, <1>3 DEF T

\* i is m corrections on from o: a walk from o shows it as its row m + 1, or stops before.
Leads(o, i, m) ==
    \A k \in Nat, c \in Seq(Ids) :
        Stretch(c, o, k) => \/ m < Len(c) /\ c[m + 1] = i
                            \/ Len(c) = k /\ k <= m

LEMMA LeadsOn ==
    ASSUME TypeOK, NEW o \in Ids, NEW j \in Ids, NEW i \in Ids, NEW m \in Nat,
           Leads(o, j, m), facts[j].by = i
    PROVE  Leads(o, i, m + 1)
<1>1. SUFFICES ASSUME NEW k \in Nat, NEW c \in Seq(Ids), Stretch(c, o, k)
               PROVE  \/ m + 1 < Len(c) /\ c[(m + 1) + 1] = i
                      \/ Len(c) = k /\ k <= m + 1
  BY DEF Leads
<1>2. /\ Len(c) \in 1 .. k
      /\ \A n \in 1 .. Len(c) - 1 : facts[c[n]].by = c[n + 1]
      /\ Len(c) < k => facts[c[Len(c)]].by = Nobody
  BY <1>1 DEF Stretch
<1>3. \/ m < Len(c) /\ c[m + 1] = j
      \/ Len(c) = k /\ k <= m
  BY <1>1 DEF Leads
<1>4. i # Nobody
  BY IdsCounted DEF Nobody
<1>5. CASE m < Len(c) /\ c[m + 1] = j /\ m + 1 < Len(c)
  <2>1. m + 1 \in 1 .. Len(c) - 1
    BY <1>2, <1>5
  <2>2. QED
    BY <1>2, <1>5, <2>1
<1>6. CASE m < Len(c) /\ c[m + 1] = j /\ ~(m + 1 < Len(c))
  <2>1. m + 1 = Len(c)
    BY <1>2, <1>6
  <2>2. ~(Len(c) < k)
    BY <1>2, <1>4, <1>6, <2>1
  <2>3. QED
    BY <1>2, <2>1, <2>2
<1>7. CASE Len(c) = k /\ k <= m
  BY <1>7
<1>8. QED
  BY <1>3, <1>5, <1>6, <1>7

\* The first loop of lineage: it comes to a row that corrects none, or is cut short, and
\* either way from a row that leads to the one it was asked about.
Found(n, i, m) ==
    /\ Backward[n][i] \in Ids
    /\ Corrected(Backward[n][i]) = {} \/ m = n
    /\ Backward[n][i] + m <= i
    /\ Leads(Backward[n][i], i, m)

LEMMA BackwardFinds ==
    ASSUME StoreAssumption, TypeOK, CorrectionsPointForward
    PROVE  \A n \in 0 .. LineageLimit : \A i \in Ids : \E m \in 0 .. n : Found(n, i, m)
<1> DEFINE T == {n \in 0 .. LineageLimit : \A i \in Ids : \E m \in 0 .. n : Found(n, i, m)}
<1>i. LineageLimit \in Nat /\ Ids \in SUBSET Nat
  BY IdsCounted DEF StoreAssumption
<1>s. ASSUME NEW i \in Ids PROVE Leads(i, i, 0)
  BY DEF Leads, Stretch
<1>1. 0 \in T
  <2>1. ASSUME NEW i \in Ids PROVE Found(0, i, 0)
    <3>1. Backward[0][i] = i
      BY BackwardDefined
    <3>2. i \in Nat
      BY <1>i
    <3>3. QED
      BY <1>s, <3>1, <3>2 DEF Found
  <2>2. 0 \in 0 .. 0 /\ 0 \in 0 .. LineageLimit
    BY <1>i
  <2> HIDE DEF Found
  <2>3. QED
    BY <2>1, <2>2
<1>2. ASSUME NEW n \in 1 .. LineageLimit, n - 1 \in T PROVE n \in T
  <2>1. SUFFICES ASSUME NEW i \in Ids PROVE \E m \in 0 .. n : Found(n, i, m)
    BY <1>i
  <2>2. Backward[n][i] = IF Corrected(i) = {} THEN i ELSE Backward[n - 1][First(Corrected(i))]
    BY BackwardDefined
  <2>3. n \in Nat /\ i \in Nat
    BY <1>i
  <2>4. CASE Corrected(i) = {}
    <3>1. Found(n, i, 0)
      BY <1>s, <2>2, <2>3, <2>4 DEF Found
    <3>2. 0 \in 0 .. n
      BY <2>3
    <3>3. QED
      BY <3>1, <3>2
  <2>5. CASE Corrected(i) # {}
    <3> DEFINE j == First(Corrected(i))
    <3>1. Corrected(i) \in SUBSET Nat
      BY <1>i, IdsCounted
    <3>2. j \in Corrected(i)
      BY <2>5, <3>1, FirstOfMany
    <3>3. j \in Ids /\ facts[j].by = i
      BY <3>2 DEF Corrected
    <3>4. j + 1 <= i /\ j \in Nat
      BY <1>i, <2>3, <3>3 DEF CorrectionsPointForward, Nobody, Ids
    <3> HIDE DEF j
    <3>5. PICK m \in 0 .. n - 1 : Found(n - 1, j, m)
      BY <1>2, <3>3
    <3>6. Backward[n][i] = Backward[n - 1][j]
      BY <2>2, <2>5 DEF j
    <3>7. /\ Backward[n][i] \in Ids
          /\ Corrected(Backward[n][i]) = {} \/ m = n - 1
          /\ Backward[n][i] + m <= j
          /\ Leads(Backward[n][i], j, m)
      BY <3>5, <3>6 DEF Found
    <3>8. Leads(Backward[n][i], i, m + 1)
      BY <3>3, <3>7, LeadsOn
    <3>9. Found(n, i, m + 1)
      <4>1. Backward[n][i] \in Nat
        BY <1>i, <3>7
      <4>2. Backward[n][i] + (m + 1) <= i
        BY <2>3, <3>4, <3>7, <4>1
      <4>3. m + 1 = n \/ Corrected(Backward[n][i]) = {}
        BY <2>3, <3>7
      <4>4. QED
        BY <3>7, <3>8, <4>2, <4>3 DEF Found
    <3>10. m + 1 \in 0 .. n
      BY <2>3
    <3>11. QED
      BY <3>9, <3>10
  <2>6. QED
    BY <2>4, <2>5
<1> HIDE DEF T
<1>3. \A n \in 0 .. LineageLimit : n \in T
  BY <1>i, <1>1, <1>2, UpTo
<1>4. QED
  BY <1>3 DEF T

\* What lineage shows is a stretch of corrections without a gap, LineageLimit rows at most; if it is
\* shorter than that, or the table is no longer, it is the whole story.
LEMMA LineageShows ==
    ASSUME StoreAssumption, TypeOK, CorrectionsPointForward, NEW i \in Ids
    PROVE  /\ Stretch(Lineage(i), Oldest(i), LineageLimit)
           /\ Len(Lineage(i)) < LineageLimit \/ Len(facts) <= LineageLimit
              => WholeStory(Lineage(i), i)
<1> DEFINE o == Oldest(i)
           c == Lineage(i)
           k == LineageLimit
<1>1. k \in Nat \ {0} /\ k \in 0 .. k /\ k \in 1 .. k
  BY DEF StoreAssumption
<1>2. PICK m \in 0 .. k : Found(k, i, m)
  BY <1>1, BackwardFinds
<1>3. o \in Ids /\ (Corrected(o) = {} \/ m = k) /\ o + m <= i /\ Leads(o, i, m)
  BY <1>2 DEF Found, Oldest
<1>4. Stretch(c, o, k)
  BY <1>1, <1>3, ForwardShows DEF Lineage
<1>5. /\ c \in Seq(Ids) /\ Len(c) \in 1 .. k /\ c[1] = o
      /\ Len(c) < k => facts[c[Len(c)]].by = Nobody
      /\ \A n \in 1 .. Len(c) : o + n - 1 <= c[n]
  BY <1>4 DEF Stretch
<1>6. (m < Len(c) /\ c[m + 1] = i) \/ (Len(c) = k /\ k <= m)
  BY <1>1, <1>3, <1>4, <1>5 DEF Leads
<1>7. /\ o \in Nat \ {0} /\ i \in Nat /\ i <= Len(facts) /\ Len(facts) \in Nat
      /\ \A n \in 1 .. Len(c) : c[n] \in Nat /\ c[n] \in Ids /\ c[n] <= Len(facts)
  <2>1. Len(facts) \in Nat /\ Ids = 1 .. Len(facts)
    BY IdsCounted
  <2>2. \A n \in 1 .. Len(c) : c[n] \in Ids
    BY <1>5
  <2>3. QED
    BY <1>3, <2>1, <2>2
<1> HIDE DEF o, c, k
<1>8. ASSUME Len(c) < k \/ Len(facts) <= k PROVE WholeStory(c, i)
  <2>1. m < k
    <3>1. CASE Len(c) < k
      BY <1>1, <1>5, <1>6, <3>1
    <3>2. CASE Len(facts) <= k
      BY <1>1, <1>3, <1>7, <3>2
    <3>3. QED
      BY <1>8, <3>1, <3>2
  <2>2. Corrected(c[1]) = {}
    BY <1>1, <1>3, <1>5, <2>1
  <2>3. m + 1 \in DOMAIN c /\ c[m + 1] = i
    BY <1>1, <1>5, <1>6, <2>1
  <2>4. facts[c[Len(c)]].by = Nobody
    <3>1. CASE Len(c) < k
      BY <1>5, <3>1
    <3>2. CASE Len(c) = k
      <4>1. k \in 1 .. Len(c) /\ Len(facts) <= k
        BY <1>1, <1>8, <3>2
      <4>2. o + k - 1 <= c[k] /\ c[k] \in Nat /\ c[k] \in Ids /\ c[k] <= Len(facts)
        BY <1>5, <1>7, <4>1
      <4>3. c[k] = Len(facts)
        BY <1>1, <1>7, <4>1, <4>2
      <4>4. facts[c[k]].by # Nobody => facts[c[k]].by \in (Len(facts) + 1) .. Len(facts)
        BY <4>2, <4>3 DEF CorrectionsPointForward
      <4>5. QED
        BY <1>7, <3>2, <4>4
    <3>3. QED
      BY <1>1, <1>5, <3>1, <3>2
  <2>5. c # << >>
    BY <1>5
  <2>6. QED
    BY <2>2, <2>3, <2>4, <2>5 DEF WholeStory
<1>9. QED
  BY <1>4, <1>8 DEF o, c, k

(***************************************************************************)
(* The theorems                                                            *)
(***************************************************************************)

THEOREM MemoryInvariant == MemorySpec => []MemoryInv
<1>1. MemoryInit => MemoryInv
  BY MemoryInitially, StoreAssumption, SchemaAssumption, MemoryAssumption
<1>2. MemoryInv /\ [MemoryNext]_vars => MemoryInv'
  BY StepTyped, StepStamped, StepCounted, StoreAssumption, SchemaAssumption, MemoryAssumption
  DEF MemoryInv
<1>3. QED
  BY <1>1, <1>2, PTL DEF MemorySpec

\* Turns, panel, passes, migrations and crashes keep every variable in its type
\* (context.py, memory_tools.py, writer.py, memory_control.py, maintenance.py, store.py).
THEOREM MemoryTyped == MemorySpec => []MemoryTypeOK
<1>1. MemoryInv => MemoryTypeOK
  BY DEF MemoryInv
<1>2. QED
  BY <1>1, MemoryInvariant, PTL

\* Whatever the callers of MemoryStore do, and however stale what they know is, the table
\* goes through the store's own steps: FactMemory implements FactStore.
THEOREM MemoryImplementsStore == MemorySpec => Rows
<1>1. MemoryInit => Init
  BY DEF MemoryInit
<1>2. MemoryInv /\ [MemoryNext]_vars => [Next]_facts
  BY StepMaps DEF MemoryInv
<1>3. QED
  BY <1>1, <1>2, MemoryInvariant, PTL DEF MemorySpec, Rows

\* supersede_fact points a row at the one it inserts, and no later call of anybody turns
\* the chain round: the corrections of the table are acyclic.
THEOREM CorrectionsAreAcyclic == MemorySpec => []CorrectionsPointForward
<1>1. MemoryInv => CorrectionsPointForward
  BY DEF MemoryInv, StoreInv
<1>2. QED
  BY <1>1, MemoryInvariant, PTL

\* lineage, in a table of any length and whatever its callers did to it: what it shows is a
\* run of corrections without a gap, and a line that stops short of the limit, or any line of
\* a table that is no longer than the limit, is the whole story of the row it was asked about.
THEOREM LineagesAreTrue == MemorySpec => []LineageFollowsTheCorrections
<1>1. MemoryInv => LineageFollowsTheCorrections
  <2>1. SUFFICES ASSUME MemoryInv, NEW i \in Ids
                 PROVE  /\ Len(Lineage(i)) \in 1 .. LineageLimit
                        /\ \A n \in 1 .. Len(Lineage(i)) - 1 :
                              facts[Lineage(i)[n]].by = Lineage(i)[n + 1]
                        /\ Len(Lineage(i)) < LineageLimit \/ Len(facts) <= LineageLimit
                           => WholeStory(Lineage(i), i)
    BY DEF LineageFollowsTheCorrections
  <2>2. TypeOK /\ CorrectionsPointForward
    BY <2>1 DEF MemoryInv, StoreInv
  <2>3. /\ Stretch(Lineage(i), Oldest(i), LineageLimit)
        /\ Len(Lineage(i)) < LineageLimit \/ Len(facts) <= LineageLimit
           => WholeStory(Lineage(i), i)
    BY <2>2, StoreAssumption, LineageShows
  <2>4. QED
    BY <2>3 DEF Stretch
<1>2. QED
  BY <1>1, MemoryInvariant, PTL

\* add_fact's "never demote" holds of every caller: no row ever leaves the durable tier.
THEOREM TiersNeverFall == MemorySpec => NeverDemoted
<1>1. MemoryInv /\ [MemoryNext]_vars
      => [\A i \in Ids : facts[i].tier = "durable" => facts'[i].tier = "durable"]_facts
  BY StepMaps, TiersHold, StoreAssumption DEF MemoryInv
<1>2. QED
  BY <1>1, MemoryInvariant, PTL DEF MemorySpec, NeverDemoted

\* _migrate: a database that opens has been migrated whole, wherever the process died in
\* the attempts before, and the rows from before the tiers are durable.
THEOREM DatabasesOpenMigrated == MemorySpec => []OpenMeansMigrated
<1>1. MemoryInv => OpenMeansMigrated
  BY DEF MemoryInv, Stamped, OpenMeansMigrated, Versions, Latest
<1>2. QED
  BY <1>1, MemoryInvariant, PTL

\* _consolidate: a pass retires rows of its batch only, maintenance_max_changes at most.
THEOREM PassesAreBounded == MemorySpec => []PassIsBounded
<1>1. MemoryInv => PassIsBounded
  <2>1. SUFFICES ASSUME MemoryInv, NEW p \in Passes
                 PROVE  /\ pass[p].retired \subseteq pass[p].batch
                        /\ Cardinality(pass[p].retired) <= MaxChanges
    BY DEF PassIsBounded
  <2>2. pass[p].changes \in 0 .. MaxChanges /\ pass[p].retired \in SUBSET AnyId /\ TypeOK
    BY <2>1 DEF MemoryInv, MemoryTypeOK
  <2>3. Cardinality(pass[p].retired) \in Nat
    BY <2>2, StoreAssumption, IdsInRange, FS_Subset, FS_CardinalityType
  <2>4. pass[p].retired \subseteq pass[p].batch /\ Cardinality(pass[p].retired) <= pass[p].changes
    BY <2>1 DEF MemoryInv, Counted
  <2>5. QED
    BY <2>2, <2>3, <2>4, MemoryAssumption
<1>2. QED
  BY <1>1, MemoryInvariant, PTL
=============================================================================
