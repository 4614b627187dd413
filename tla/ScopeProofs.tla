------------------------------ MODULE ScopeProofs -----------------------------
(* Theorems about Scope, for every catalog, set of facts, starting file and    *)
(* sequence of edits.                                                          *)
EXTENDS Scope, TLAPS

\* resolve_soa returns a Statement of Applicability, whatever it is given.
LEMMA ResolveType ==
    ASSUME NEW f, NEW t \in Tiers
    PROVE  ResolveSoA(f, t) \in SoA
<1>1. \A c \in Controls : Obligation(c, t) \in {"required", "recommended", None}
  BY DEF Obligation
<1> QED BY <1>1 DEF ResolveSoA, SoA, SoAEntry, NOT_APPLICABLE, APPLIES, INHERITED,
                    EXCLUDED

\* An edit of a scoping file leaves a scoping file.
LEMMA EditType ==
    ASSUME TypeOK, NEW edited \in ScopingFile, Edit(edited)
    PROVE  TypeOK'
BY MaxEditsAssumption DEF TypeOK, Edit

\* The file is a scoping file whatever is edited, and what `openaisf scope`
\* writes is a Statement of Applicability that evaluate() can take.
THEOREM ScopeTypeCorrect == Spec => []TypeOK
<1>1. Init => TypeOK
  BY FilesAssumption, MaxEditsAssumption DEF Init, TypeOK
<1>2. TypeOK /\ [Next]_vars => TypeOK'
  <2> SUFFICES ASSUME TypeOK, [Next]_vars PROVE TypeOK'
    OBVIOUS
  <2>1. CASE \E k \in Keys : \E value \in Facts[k] : StateFact(k, value)
    <3> PICK k \in Keys : \E value \in Facts[k] : StateFact(k, value)
      BY <2>1
    <3> PICK value \in Facts[k] : StateFact(k, value)
      OBVIOUS
    <3>1. [file EXCEPT !.facts[k] = @ \cup {value}] \in ScopingFile
      BY DEF TypeOK, ScopingFile
    <3>2. [file EXCEPT !.facts[k] = @ \ {value}] \in ScopingFile
      BY DEF TypeOK, ScopingFile
    <3> QED BY <3>1, <3>2, EditType DEF StateFact
  <2>2. CASE \E level \in Range(AUTONOMY_LADDER) \cup OffLadder : StateAutonomy(level)
    <3> PICK level \in Range(AUTONOMY_LADDER) \cup OffLadder : StateAutonomy(level)
      BY <2>2
    <3>1. [file EXCEPT !.autonomy = level] \in ScopingFile
      BY DEF TypeOK, ScopingFile
    <3> QED BY <3>1, EditType DEF StateAutonomy
  <2>3. CASE \E c \in Controls \cup Strangers, how \in Inheritances : Inherit(c, how)
    <3> PICK c \in Controls \cup Strangers, how \in Inheritances : Inherit(c, how)
      BY <2>3
    <3>1. [file EXCEPT !.inherits[c] = how] \in ScopingFile
      BY DEF TypeOK, ScopingFile
    <3> QED BY <3>1, EditType DEF Inherit
  <2>4. CASE \E c \in Controls \cup Strangers, how \in Exclusions : Exclude(c, how)
    <3> PICK c \in Controls \cup Strangers, how \in Exclusions : Exclude(c, how)
      BY <2>4
    <3>1. [file EXCEPT !.exclusions[c] = how] \in ScopingFile
      BY DEF TypeOK, ScopingFile
    <3> QED BY <3>1, EditType DEF Exclude
  <2>5. CASE MangleOrMend
    <3>1. [file EXCEPT !.readable = ~@] \in ScopingFile
      BY DEF TypeOK, ScopingFile
    <3> QED BY <2>5, <3>1, EditType DEF MangleOrMend
  <2>6. CASE \E t \in Tiers : AskFor(t)
    BY <2>6, MaxEditsAssumption DEF AskFor, TypeOK
  <2>7. CASE WriteSoA
    <3>1. document' \in Document
      BY <2>7, ResolveType DEF WriteSoA, TypeOK, Document
    <3> QED BY <2>7, <3>1 DEF WriteSoA, TypeOK
  <2>8. CASE UNCHANGED vars
    BY <2>8 DEF vars, TypeOK
  <2> QED BY <2>1, <2>2, <2>3, <2>4, <2>5, <2>6, <2>7, <2>8 DEF Next
<1> QED BY <1>1, <1>2, PTL DEF Spec

\* The document that was written is what its own file and tier resolve to.
Faithful ==
    document # None =>
        /\ document.soa = ResolveSoA(document.file, document.tier)
        /\ Resolves(document.file, document.tier)

\* No edit touches a document that was written.
THEOREM DocumentsAreFaithful == Spec => []Faithful
<1>1. Init => Faithful
  BY DEF Init, Faithful
<1>2. TypeOK /\ Faithful /\ [Next]_vars => Faithful'
  <2> SUFFICES ASSUME TypeOK, Faithful, [Next]_vars PROVE Faithful'
    OBVIOUS
  <2>1. CASE WriteSoA
    BY <2>1 DEF WriteSoA, Faithful
  <2>2. CASE document' = document
    BY <2>2 DEF Faithful
  <2> QED BY <2>1, <2>2 DEF Next, vars, StateFact, StateAutonomy, Inherit, Exclude,
                            MangleOrMend, AskFor, Edit
<1> QED BY <1>1, <1>2, ScopeTypeCorrect, PTL DEF Spec

\* The rungs of the ladder are numbered.
LEMMA RankType ==
    ASSUME NEW level \in Range(AUTONOMY_LADDER)
    PROVE  AutonomyRank(level) \in 1..5
<1>1. DOMAIN AUTONOMY_LADDER = 1..5
  BY DEF AUTONOMY_LADDER
<1>2. \E i \in DOMAIN AUTONOMY_LADDER : AUTONOMY_LADDER[i] = level
  BY DEF Range
<1> QED BY <1>1, <1>2 DEF AutonomyRank

\* Whatever says no less of a system is owed all that it was owed.
LEMMA AppliesMonotone ==
    ASSUME NEW c \in Controls, NEW t \in Tiers, NEW f, NEW g,
           f.autonomy \in Range(AUTONOMY_LADDER), g.autonomy \in Range(AUTONOMY_LADDER),
           SaysNoLess(f, g), Thresholds(c), AppliesTo(c, g, t)
    PROVE  AppliesTo(c, f, t)
<1>1. PassesSets(c, f, t)
  <2> SUFFICES ASSUME NEW k \in Keys, Scoped[c].wanted[k] # {}
               PROVE  Scoped[c].wanted[k] \cap f.facts[k] # {}
    BY DEF AppliesTo, PassesSets
  <2>1. Scoped[c].wanted[k] \cap g.facts[k] # {}
    BY DEF AppliesTo, PassesSets
  <2> QED BY <2>1 DEF SaysNoLess
<1>2. Decisive(c, g) \subseteq Decisive(c, f)
  <2> SUFFICES ASSUME NEW i \in Decisive(c, g) PROVE i \in Decisive(c, f)
    OBVIOUS
  <2> DEFINE e == Scoped[c].autonomy[i]
  <2>1. i \in DOMAIN Scoped[c].autonomy
    BY DEF Decisive
  <2>2. CASE Malformed(e)
    BY <2>1, <2>2 DEF Decisive
  <2>3. CASE ~Malformed(e)
    <3>1. AutonomyMatches(e, g.autonomy)
      BY <2>3 DEF Decisive
    <3>2. e \in Expression
      BY <2>1, ScopedAssumption DEF Predicate
    <3>3. e.level \in Range(AUTONOMY_LADDER)
      BY <2>3, <3>2 DEF Expression, Malformed
    <3>4. /\ AutonomyRank(e.level) \in 1..5
          /\ AutonomyRank(f.autonomy) \in 1..5 /\ AutonomyRank(g.autonomy) \in 1..5
      BY <3>3, RankType
    <3>5. e.operator # "=="
      BY <2>1 DEF Thresholds
    <3>6. AutonomyRank(f.autonomy) >= AutonomyRank(g.autonomy)
      BY DEF SaysNoLess
    <3>7. AutonomyMatches(e, f.autonomy)
      BY <3>1, <3>4, <3>5, <3>6 DEF AutonomyMatches
    <3> QED BY <2>1, <3>7 DEF Decisive
  <2> QED BY <2>2, <2>3
<1> QED BY <1>1, <1>2 DEF AppliesTo

\* A control is out of scope in what resolve_soa returns if it does not apply,
\* and only then; if it applies, what was declared of it takes effect.
LEMMA VerdictOf ==
    ASSUME NEW c \in Controls, NEW f, NEW t
    PROVE  /\ ResolveSoA(f, t).entries[c].verdict # NOT_APPLICABLE <=> AppliesTo(c, f, t)
           /\ AppliesTo(c, f, t) /\ Declared(c, f) =>
                ResolveSoA(f, t).entries[c].verdict \in {INHERITED, EXCLUDED}
BY DEF ResolveSoA, Declared, NOT_APPLICABLE, APPLIES, INHERITED, EXCLUDED

\* The ladder is one: a system that says no less of itself and climbs is owed
\* every obligation it was owed before, however its file was edited meanwhile.
THEOREM ClimbingShedsNothing == Spec => []NothingIsShed
<1>1. TypeOK /\ Faithful => NothingIsShed
  <2> SUFFICES
        ASSUME TypeOK, Faithful, document # None,
               tier = document.tier, Resolves(file, tier),
               SaysNoLess(file, document.file),
               NEW c \in Controls, Thresholds(c),
               document.soa.entries[c].verdict # NOT_APPLICABLE
        PROVE  ResolveSoA(file, tier).entries[c].verdict # NOT_APPLICABLE
    BY DEF NothingIsShed
  <2>1. document \in Document /\ tier \in Tiers /\ file \in ScopingFile
    BY DEF TypeOK
  <2>2. /\ file.autonomy \in Range(AUTONOMY_LADDER)
        /\ document.file.autonomy \in Range(AUTONOMY_LADDER)
    BY <2>1 DEF Faithful, Resolves, Document, ScopingFile
  <2>3. AppliesTo(c, document.file, tier)
    BY VerdictOf DEF Faithful
  <2>4. AppliesTo(c, file, tier)
    BY <2>1, <2>2, <2>3, AppliesMonotone
  <2> QED BY <2>4, VerdictOf
<1> QED BY <1>1, ScopeTypeCorrect, DocumentsAreFaithful, PTL

\* A declaration has its effect on the document or keeps it from being written.
THEOREM DeclarationsTakeEffect == Spec => []NoDeclarationIgnored
<1>1. Faithful => NoDeclarationIgnored
  <2> SUFFICES ASSUME Faithful, document # None,
                      NEW c \in Controls, Declared(c, document.file)
               PROVE  document.soa.entries[c].verdict \in {INHERITED, EXCLUDED}
    BY DEF NoDeclarationIgnored
  <2>1. AppliesTo(c, document.file, document.tier)
    BY DEF Faithful, Resolves
  <2> QED BY <2>1, VerdictOf DEF Faithful
<1> QED BY <1>1, DocumentsAreFaithful, PTL

\* Where there are no records, whatever a control requires is missing.
LEMMA JudgeNothing ==
    ASSUME NEW c, NEW required \in (SUBSET Planes) \ {{}}, NEW obligation, NEW t
    PROVE  LET r == Judge(c, required, obligation, t, [p \in Planes |-> <<>>], 0)
           IN  r.status = FAIL /\ r.obligation = obligation
<1> DEFINE planes == [p \in Planes |-> <<>>]
           record == [p \in Planes |-> Newest(planes[p], t)]
           present == {p \in required : record[p] # None}
<1>1. \A p \in Planes : Newest(planes[p], t) = None
  <2> SUFFICES ASSUME NEW p \in Planes PROVE Newest(<<>>, t) = None
    OBVIOUS
  <2>1. Usable(<<>>, t) = {}
    BY DEF Usable
  <2> QED BY <2>1 DEF Newest
<1>2. present = {}
  BY <1>1
<1>3. present # required
  BY <1>2
<1> QED BY <1>3 DEF Judge, ControlResult

\* Without evidence a required control that applies blocks, unless it was
\* excluded with a reason or inherited by bare assertion below T3.
THEOREM NothingIsFree == Spec => []NothingForNothing
<1>1. TypeOK /\ Faithful => NothingForNothing
  <2> SUFFICES
        ASSUME TypeOK, Faithful, document # None, NEW c \in Controls,
               AppliesTo(c, document.file, document.tier),
               Obligation(c, document.tier) = "required",
               document.file.exclusions[c] # "reason",
               ~(document.file.inherits[c] = "asserted" /\ document.tier \in {"T1", "T2"})
        PROVE  ~Conformant(CheckOnNothing(document))
    BY DEF NothingForNothing
  <2> DEFINE f == document.file
             t == document.tier
             entry == document.soa.entries[c]
             result == CheckOnNothing(document).results[c]
  <2>1. f \in ScopingFile /\ t \in Tiers
    BY DEF TypeOK, Document
  <2>2. f.inherits[c] \in {None, "asserted", "log"} /\ f.exclusions[c] = None
    BY <2>1 DEF Faithful, Resolves, ScopingFile, Inheritances, Exclusions
  <2>3. /\ entry.obligation = "required"
        /\ entry.verdict = IF f.inherits[c] # None THEN INHERITED ELSE APPLIES
    BY <2>2 DEF Faithful, ResolveSoA
  <2>4. document.soa.tier = t
    BY DEF Faithful, ResolveSoA
  <2>5. result = EvaluateControl(document.soa, [d \in Controls |-> [p \in Planes |-> <<>>]],
                    [d \in Controls |->
                       [found |-> IF f.inherits[d] = "log" THEN "absent" ELSE "asserted",
                        tier |-> t, state |-> VALID]], 0, c)
    BY DEF CheckOnNothing, Evaluate
  <2>6. result.obligation = "required" /\ result.status \in {FAIL, MANUAL}
    <3>1. CASE f.inherits[c] = None
      <4>1. entry.verdict = APPLIES
        BY <2>3, <3>1
      <4>2. Catalog[c].method \in Methods /\ Catalog[c].planes \in (SUBSET Planes) \ {{}}
        BY CatalogAssumption DEF Verification
      <4>3. {CONTROL_PLANE} \in (SUBSET Planes) \ {{}}
        BY DEF Planes
      <4>4. \A required \in (SUBSET Planes) \ {{}} :
              LET r == Judge(c, required, entry.obligation, t, [p \in Planes |-> <<>>], 0)
              IN  r.status = FAIL /\ r.obligation = entry.obligation
        BY JudgeNothing
      <4> HIDE DEF entry
      <4>5. \/ result = Judge(c, Catalog[c].planes, entry.obligation, t,
                              [p \in Planes |-> <<>>], 0)
            \/ result = Judge(c, {CONTROL_PLANE}, entry.obligation, t,
                              [p \in Planes |-> <<>>], 0)
            \/ result = ControlResult(MANUAL, entry.obligation, FALSE, None, None)
        BY <2>4, <2>5, <4>1, <4>2
           DEF entry, EvaluateControl, EvaluateEmitted, EvaluateDeclared, Methods,
               APPLIES, NOT_APPLICABLE, EXCLUDED, INHERITED
      <4> QED BY <2>3, <4>2, <4>3, <4>4, <4>5 DEF ControlResult
    <3>2. CASE f.inherits[c] # None
      <4>1. entry.verdict = INHERITED
        BY <2>3, <3>2
      <4> DEFINE found == [found |-> IF f.inherits[c] = "log" THEN "absent" ELSE "asserted",
                           tier |-> t, state |-> VALID]
      <4>2. Refused(t, found)
        BY <2>1, <2>2, <3>2 DEF Refused, Tiers
      <4>3. result = EvaluateInherited("required", t, found)
        BY <2>3, <2>4, <2>5, <4>1
           DEF EvaluateControl, APPLIES, NOT_APPLICABLE, EXCLUDED, INHERITED
      <4> HIDE DEF found
      <4> QED BY <4>2, <4>3 DEF EvaluateInherited, ControlResult
    <3> QED BY <3>1, <3>2
  <2> HIDE DEF result
  <2>7. Blocks(result)
    BY <2>6 DEF Blocks, BLOCKING
  <2>8. c \in BlockingControls(CheckOnNothing(document))
    BY <2>7 DEF BlockingControls, result
  <2> QED BY <2>8 DEF Conformant
<1> QED BY <1>1, ScopeTypeCorrect, DocumentsAreFaithful, PTL
===============================================================================
