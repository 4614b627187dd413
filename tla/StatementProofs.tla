----------------------------- MODULE StatementProofs ---------------------------
(* What evaluate and build_statement return, whatever the scope, the evidence, *)
(* the time and the upstreams: the lemmas that the proofs about Lease and      *)
(* Inheritance share.                                                          *)
EXTENDS Statement, TLAPS, WellFoundedInduction

\* Every set of naturals with an element has a least one, and Min finds it.
LEMMA MinOfNaturals ==
    ASSUME NEW S \in SUBSET Nat, S # {}
    PROVE  Min(S) \in S /\ \A y \in S : Min(S) <= y
<1>1. PICK x \in S : \A y \in S : <<y, x>> \notin OpToRel(<, Nat)
  BY WFMin, NatLessThanWellFounded, Zenon
<1>2. \A y \in S : ~(y < x)
  BY <1>1, Zenon DEF OpToRel
<1>3. \A y \in S : x <= y
  BY <1>2
<1> QED BY <1>3 DEF Min

\* A set of integers with an element and an upper bound has a greatest one.
LEMMA MaxOfBounded ==
    ASSUME NEW S \in SUBSET Int, S # {}, NEW bound \in Int, \A y \in S : y <= bound
    PROVE  Max(S) \in S /\ \A y \in S : y <= Max(S)
<1> DEFINE T == {n \in Nat : \E y \in S : n = bound - y}
<1>1. T \subseteq Nat /\ T # {}
  <2>1. PICK y \in S : TRUE OBVIOUS
  <2>2. bound - y \in T BY <2>1
  <2> QED BY <2>2
<1>2. Min(T) \in T /\ \A n \in T : Min(T) <= n
  BY <1>1, MinOfNaturals
<1>3. PICK x \in S : Min(T) = bound - x
  BY <1>2
<1>4. \A y \in S : x >= y
  <2> SUFFICES ASSUME NEW y \in S PROVE x >= y OBVIOUS
  <2>1. bound - y \in T OBVIOUS
  <2>2. bound - x <= bound - y BY <1>2, <1>3, <2>1
  <2> QED BY <2>2
<1> HIDE DEF T
<1> QED BY <1>4 DEF Max

\* The newest admissible record is one of the records, if there is any.
LEMMA NewestType ==
    ASSUME NEW records \in Seq(EvidenceRecord), NEW tier
    PROVE  /\ Newest(records, tier) \in EvidenceRecord \cup {None}
           /\ Newest(records, tier) # None =>
                 \E i \in DOMAIN records : Newest(records, tier) = records[i]
<1> DEFINE usable == Usable(records, tier)
           latest == {i \in usable :
                        \A j \in usable : records[j].window_to <= records[i].window_to}
<1>1. usable \subseteq DOMAIN records /\ DOMAIN records \subseteq Nat
  BY DEF Usable
<1>2. \A i \in DOMAIN records : records[i] \in EvidenceRecord
  OBVIOUS
<1>3. CASE usable = {}
  BY <1>3 DEF Newest
<1>4. CASE usable # {}
  <2> DEFINE W == {records[i].window_to : i \in usable}
  <2>1. W \subseteq Int /\ W # {} /\ \A y \in W : y <= Horizon
    BY <1>1, <1>2, <1>4, HorizonAssumption DEF EvidenceRecord, Times
  <2>2. Max(W) \in W /\ \A y \in W : y <= Max(W)
    <3> HIDE DEF W
    <3>1. W \in SUBSET Int /\ Horizon \in Int
      BY <2>1, HorizonAssumption
    <3> QED BY <2>1, <3>1, MaxOfBounded, Zenon
  <2>3. PICK i \in usable : records[i].window_to = Max(W)
    BY <2>2
  <2>4. i \in latest
    BY <2>2, <2>3
  <2>5. Min(latest) \in latest
    BY <2>4, <1>1, MinOfNaturals
  <2>6. Newest(records, tier) = records[Min(latest)]
    BY <1>4 DEF Newest
  <2> QED BY <2>5, <2>6, <1>1, <1>2
<1> QED BY <1>3, <1>4

-------------------------------------------------------------------------------
(* A result depends on the time of evaluation through its age alone.           *)

Obligations == {"required", "recommended", None}

\* What a control's result is at time t, when its oldest required record's window
\* ends at oldest (None: it has no age) and its freshness window is limit.
Dated(base, obligation, disqualifying, oldest, limit, t) ==
    ControlResult(
        IF base = PASS /\ limit # None /\ t - oldest > limit THEN STALE ELSE base,
        obligation, disqualifying,
        IF oldest = None THEN None ELSE t - oldest,
        IF limit \in {None, 0} THEN None ELSE limit)

\* The greatest of a set of ages is the age of the oldest record.
LEMMA OldestIsGreatestAge ==
    ASSUME NEW W \in SUBSET Times, W # {}, NEW t \in Times
    PROVE  /\ Min(W) \in Times
           /\ Max({t - w : w \in W}) = t - Min(W)
<1> DEFINE A == {t - w : w \in W}
<1>0. t \in Nat /\ \A w \in W : w \in Nat /\ w \in Times
  BY HorizonAssumption DEF Times
<1>1. Min(W) \in W /\ \A w \in W : Min(W) <= w
  <2>1. W \in SUBSET Nat BY HorizonAssumption DEF Times
  <2> QED BY <2>1, MinOfNaturals
<1>2. A \in SUBSET Int /\ A # {} /\ t \in Int /\ \A y \in A : y <= t
  <2>1. PICK w \in W : TRUE OBVIOUS
  <2>2. t - w \in A BY <2>1
  <2>3. \A y \in A : y \in Int /\ y <= t
    BY <1>0
  <2> HIDE DEF A
  <2> QED BY <1>0, <2>2, <2>3
<1>3. Max(A) \in A /\ \A y \in A : y <= Max(A)
  <2> HIDE DEF A
  <2> QED BY <1>2, MaxOfBounded, Zenon
<1>4. PICK w \in W : Max(A) = t - w
  BY <1>3
<1>5. t - Min(W) <= Max(A)
  BY <1>1, <1>3
<1>6. Min(W) \in Nat /\ w \in Nat /\ Min(W) <= w
  BY <1>0, <1>1, <1>4
<1>7. Max(A) = t - Min(W)
  <2> HIDE DEF A
  <2> QED BY <1>0, <1>4, <1>5, <1>6
<1> QED BY <1>0, <1>1, <1>7

\* Judge's verdict at any time is Dated by three values and the window.
JudgeHasForm(c, required, obligation, tier, planes) ==
    \E base \in {PASS, FAIL}, disqualifying \in BOOLEAN,
       oldest \in Times \cup {None} :
       /\ base = PASS => oldest # None
       /\ oldest # None =>
             \E p \in Planes : \E i \in DOMAIN planes[p] :
                oldest = planes[p][i].window_to
       /\ \A t \in Times :
             Judge(c, required, obligation, tier, planes, t)
             = Dated(base, obligation, disqualifying, oldest,
                     Catalog[c].freshness[tier], t)

\* What Judge finds, as time passes over the same records, has this one form.
LEMMA JudgeForm ==
    ASSUME NEW c \in Controls, NEW required \in SUBSET Planes, required # {},
           NEW obligation, NEW tier \in Tiers,
           NEW planes \in [Planes -> Seq(EvidenceRecord)]
    PROVE  JudgeHasForm(c, required, obligation, tier, planes)
<1> DEFINE record == [p \in Planes |-> Newest(planes[p], tier)]
           present == {p \in required : record[p] # None}
           limit == Catalog[c].freshness[tier]
           contradicted == Contradiction(record[CONTROL_PLANE], record[DATA_PLANE])
           W == {record[p].window_to : p \in present}
           oldest == IF present = {} THEN None ELSE Min(W)
           base == IF present # required \/ contradicted THEN FAIL ELSE PASS
           disqualifying == present = required /\ contradicted
           ages(t) == {t - record[p].window_to : p \in present}
<1>1. \A p \in present : record[p] \in EvidenceRecord
  BY NewestType DEF Planes
<1>2. W \in SUBSET Times
  BY <1>1 DEF EvidenceRecord
<1>3. oldest \in Times \cup {None} /\ (oldest = None <=> present = {})
  <2>1. CASE present = {}
    BY <2>1
  <2>2. CASE present # {}
    <3>1. W # {} BY <2>2
    <3>2. Min(W) \in Times
      <4> HIDE DEF W
      <4>1. PICK t \in Times : TRUE BY HorizonAssumption DEF Times
      <4> QED BY <1>2, <3>1, <4>1, OldestIsGreatestAge
    <3>3. None \notin Times BY NoneAssumption DEF Times
    <3> QED BY <2>2, <3>2, <3>3
  <2> QED BY <2>1, <2>2
<1>4. limit \in Nat \cup {None}
  BY CatalogAssumption DEF Verification
<1>5. ASSUME NEW t \in Times, present # {}
      PROVE  /\ ages(t) # {} /\ Max(ages(t)) = t - oldest
             /\ t - oldest \in ages(t)
             /\ ages(t) \subseteq Int
             /\ \A age \in ages(t) : age <= t - oldest
  <2>1. W # {} /\ ages(t) = {t - w : w \in W}
    BY <1>5
  <2>2. Max(ages(t)) = t - Min(W)
    <3> HIDE DEF W
    <3> QED BY <1>2, <2>1, OldestIsGreatestAge
  <2>3. ages(t) \in SUBSET Int /\ ages(t) # {} /\ t \in Int
        /\ \A y \in ages(t) : y <= t
    <3>1. t \in Nat /\ \A w \in W : w \in Nat
      BY <1>2, HorizonAssumption DEF Times
    <3> HIDE DEF W, ages
    <3> QED BY <2>1, <3>1
  <2>4. Max(ages(t)) \in ages(t) /\ \A y \in ages(t) : y <= Max(ages(t))
    <3> HIDE DEF ages
    <3> QED BY <2>3, MaxOfBounded, Zenon
  <2> HIDE DEF ages, W
  <2> QED BY <1>5, <2>2, <2>3, <2>4
<1>6. ASSUME NEW t \in Times
      PROVE  Judge(c, required, obligation, tier, planes, t)
             = Dated(base, obligation, disqualifying, oldest, limit, t)
  <2> DEFINE Result(status, disq) ==
               ControlResult(status, obligation, disq,
                             IF ages(t) = {} THEN None ELSE Max(ages(t)),
                             IF limit \in {None, 0} THEN None ELSE limit)
  <2>1. Judge(c, required, obligation, tier, planes, t)
        = CASE present # required -> Result(FAIL, FALSE)
            [] present = required /\ contradicted -> Result(FAIL, TRUE)
            [] OTHER -> IF limit # None /\ \E age \in ages(t) : age > limit
                        THEN Result(STALE, FALSE) ELSE Result(PASS, FALSE)
    BY DEF Judge
  <2>2. (IF ages(t) = {} THEN None ELSE Max(ages(t)))
        = IF oldest = None THEN None ELSE t - oldest
    <3>1. CASE present = {}
      <4>1. ages(t) = {} BY <3>1
      <4> QED BY <3>1, <4>1
    <3>2. CASE present # {}
      <4> HIDE DEF ages, oldest
      <4> QED BY <3>2, <1>3, <1>5
    <3> QED BY <3>1, <3>2
  <2>3. CASE present # required \/ contradicted
    <3> HIDE DEF ages, oldest, contradicted, present, limit
    <3> QED BY <2>1, <2>2, <2>3 DEF Dated, FAIL, PASS
  <2>4. CASE present = required /\ ~contradicted
    <3>1. present # {} BY <2>4
    <3> HIDE DEF ages, oldest, contradicted, present, limit
    <3>2. limit # None =>
            ((\E age \in ages(t) : age > limit) <=> t - oldest > limit)
      <4> SUFFICES ASSUME limit # None
                   PROVE (\E age \in ages(t) : age > limit) <=> t - oldest > limit
        OBVIOUS
      <4>1. limit \in Int /\ oldest \in Int /\ t \in Int
        BY <1>3, <1>4, <3>1, HorizonAssumption DEF Times
      <4> QED BY <1>5, <3>1, <4>1
    <3> QED BY <2>1, <2>2, <2>4, <3>2 DEF Dated
  <2> QED BY <2>3, <2>4
<1>7. base \in {PASS, FAIL} /\ disqualifying \in BOOLEAN
      /\ (base = PASS => oldest # None)
  BY <1>3 DEF PASS, FAIL
<1>8. ASSUME oldest # None
      PROVE  \E p \in Planes : \E i \in DOMAIN planes[p] :
                oldest = planes[p][i].window_to
  <2>0. present # {}
    <3> HIDE DEF oldest, present
    <3> QED BY <1>3, <1>8
  <2>1. W \in SUBSET Nat /\ W # {} /\ oldest = Min(W)
    <3>1. W # {} /\ oldest = Min(W) BY <2>0
    <3>2. Times \in SUBSET Nat BY HorizonAssumption DEF Times
    <3> HIDE DEF W
    <3> QED BY <1>2, <3>1, <3>2
  <2>2. Min(W) \in W
    <3> HIDE DEF W
    <3> QED BY <2>1, MinOfNaturals
  <2>3. PICK p \in present : oldest = record[p].window_to
    BY <2>1, <2>2
  <2>4. PICK i \in DOMAIN planes[p] : record[p] = planes[p][i]
    BY <2>3, NewestType
  <2> QED BY <2>3, <2>4
<1> HIDE DEF base, disqualifying, oldest
<1> QED BY <1>3, <1>6, <1>7, <1>8 DEF JudgeHasForm

\* Every window the catalog states is longer than nothing. duration.py accepts
\* P0D, for which a badge is not sound; the published catalog has none.
PositiveWindows ==
    \A c \in Controls, t \in Tiers : Catalog[c].freshness[t] # 0

\* Such a control's result at any time is Dated by these five values.
ResultForm(scope, index, upstream, c, base, obligation, disqualifying, oldest, limit) ==
    /\ base = PASS => oldest # None
    /\ base = STALE => upstream[c].found # "asserted"
    /\ PositiveWindows => limit # 0
    /\ \A t \in Times :
          EvaluateControl(scope, index, upstream, t, c)
          = Dated(base, obligation, disqualifying, oldest, limit, t)

Bases == {PASS, FAIL, STALE, MANUAL, INHERITED_OK, EXCLUDED_OK, NA}

HasResultForm(scope, index, upstream, c) ==
    \E base \in Bases, obligation \in Obligations, disqualifying \in BOOLEAN,
       oldest \in Times \cup {None}, limit \in Nat \cup {None} :
       ResultForm(scope, index, upstream, c,
                  base, obligation, disqualifying, oldest, limit)

\* And so has the result of every control, whatever its verdict and method, and
\* whatever the upstreams that were looked up said.
LEMMA ControlForm ==
    ASSUME NEW scope \in SoA, NEW index \in EvidenceIndex,
           NEW upstream \in [Controls -> Lookup], NEW c \in Controls
    PROVE  HasResultForm(scope, index, upstream, c)
<1> DEFINE entry == scope.entries[c]
           tier == scope.tier
           method == Catalog[c].method
           planes == index[c]
           up == upstream[c]
           R(t) == EvaluateControl(scope, index, upstream, t, c)
<1>1. /\ entry \in SoAEntry /\ tier \in Tiers
      /\ planes \in [Planes -> Seq(EvidenceRecord)]
      /\ Catalog[c] \in Verification
  BY CatalogAssumption DEF SoA, EvidenceIndex
<1>2. /\ entry.obligation \in Obligations
      /\ entry.verdict \in {NOT_APPLICABLE, APPLIES, INHERITED, EXCLUDED}
  BY <1>1 DEF SoAEntry, Obligations
<1>3. None \in Obligations /\ None # 0
  BY NoneAssumption DEF Obligations
<1>4. ASSUME NEW base \in Bases \ {PASS}, NEW disqualifying \in BOOLEAN,
             NEW obligation \in Obligations,
             base = STALE => up.found # "asserted",
             \A t \in Times :
                R(t) = ControlResult(base, obligation, disqualifying, None, None)
      PROVE  HasResultForm(scope, index, upstream, c)
  <2>1. base # PASS /\ base \in Bases
    BY <1>4
  <2>2. \A t \in Times : R(t) = Dated(base, obligation, disqualifying, None, None, t)
    BY <1>4, <2>1 DEF Dated
  <2>3. ResultForm(scope, index, upstream, c, base, obligation, disqualifying, None, None)
    BY <1>3, <1>4, <2>1, <2>2 DEF ResultForm
  <2> QED BY <1>4, <2>1, <2>3 DEF HasResultForm
<1>5. CASE entry.verdict = NOT_APPLICABLE
  <2>1. \A t \in Times : R(t) = ControlResult(NA, None, FALSE, None, None)
    BY <1>5 DEF EvaluateControl, NOT_APPLICABLE, EXCLUDED, INHERITED
  <2>2. NA \in Bases \ {PASS} /\ NA # STALE
    BY DEF Bases, PASS, FAIL, STALE, MANUAL, INHERITED_OK, EXCLUDED_OK, NA
  <2> QED BY <1>3, <1>4, <2>1, <2>2
<1>6. CASE entry.verdict = EXCLUDED
  <2>1. \A t \in Times :
          R(t) = ControlResult(EXCLUDED_OK, entry.obligation, FALSE, None, None)
    BY <1>6 DEF EvaluateControl, EXCLUDED, NOT_APPLICABLE, INHERITED
  <2>2. EXCLUDED_OK \in Bases \ {PASS} /\ EXCLUDED_OK # STALE
    BY DEF Bases, PASS, FAIL, STALE, MANUAL, INHERITED_OK, EXCLUDED_OK, NA
  <2> QED BY <1>2, <1>4, <2>1, <2>2
<1>7. CASE entry.verdict = INHERITED
  <2> DEFINE base == IF Refused(tier, up) THEN FAIL
                     ELSE IF Proven(up) THEN INHERITED_OK
                     ELSE IF up.state = LEASE_STALE THEN STALE ELSE FAIL
             revoked == /\ ~Refused(tier, up) /\ ~Proven(up)
                        /\ up.state # LEASE_STALE /\ up.state = REVOKED
  <2>1. \A t \in Times : R(t) = EvaluateInherited(entry.obligation, tier, up)
    BY <1>7 DEF EvaluateControl, EXCLUDED, NOT_APPLICABLE, INHERITED
  <2>2. EvaluateInherited(entry.obligation, tier, up)
        = ControlResult(base, entry.obligation, revoked, None, None)
    BY DEF EvaluateInherited
  <2>3. base \in Bases \ {PASS} /\ revoked \in BOOLEAN
    BY DEF Bases, PASS, FAIL, STALE, MANUAL, INHERITED_OK, EXCLUDED_OK, NA
  <2>4. base = STALE => up.found # "asserted"
    BY DEF Proven, STALE, FAIL, INHERITED_OK
  <2> HIDE DEF R, base, revoked
  <2> QED BY <1>2, <1>4, <2>1, <2>2, <2>3, <2>4
<1>8. CASE entry.verdict = APPLIES
  <2>1. CASE method \in {"emitted", "asserted", "attested"}
    <3> DEFINE required == IF method = "emitted" THEN Catalog[c].planes
                           ELSE {CONTROL_PLANE}
               limit == Catalog[c].freshness[tier]
    <3>1. required \in SUBSET Planes /\ required # {}
      <4>1. Catalog[c].planes \in SUBSET Planes /\ Catalog[c].planes # {}
        BY <1>1 DEF Verification
      <4>2. {CONTROL_PLANE} \in SUBSET Planes /\ {CONTROL_PLANE} # {}
        BY DEF Planes
      <4> QED BY <4>1, <4>2
    <3>2. \A t \in Times :
            R(t) = Judge(c, required, entry.obligation, tier, planes, t)
      BY <1>8, <2>1 DEF EvaluateControl, EvaluateEmitted, EvaluateDeclared,
                        APPLIES, EXCLUDED, NOT_APPLICABLE, INHERITED
    <3>3. limit \in Nat \cup {None} /\ (PositiveWindows => limit # 0)
      BY <1>1 DEF Verification, PositiveWindows
    <3>4. PICK base \in {PASS, FAIL}, disqualifying \in BOOLEAN,
               oldest \in Times \cup {None} :
              /\ base = PASS => oldest # None
              /\ \A t \in Times :
                    Judge(c, required, entry.obligation, tier, planes, t)
                    = Dated(base, entry.obligation, disqualifying, oldest, limit, t)
      <4>1. JudgeHasForm(c, required, entry.obligation, tier, planes)
        BY <1>1, <3>1, JudgeForm
      <4> HIDE DEF required, planes
      <4> QED BY <4>1 DEF JudgeHasForm
    <3>5. base \in Bases /\ base # STALE
      BY <3>4 DEF Bases, PASS, FAIL, STALE
    <3>6. ResultForm(scope, index, upstream, c,
                     base, entry.obligation, disqualifying, oldest, limit)
      <4> HIDE DEF required, limit
      <4> QED BY <3>2, <3>3, <3>4, <3>5 DEF ResultForm
    <3> HIDE DEF limit
    <3> QED BY <1>2, <3>3, <3>4, <3>5, <3>6 DEF HasResultForm
  <2>2. CASE method = "assessed"
    <3>1. \A t \in Times :
            R(t) = ControlResult(MANUAL, entry.obligation, FALSE, None, None)
      BY <1>8, <2>2 DEF EvaluateControl, APPLIES, EXCLUDED, NOT_APPLICABLE, INHERITED
    <3>2. MANUAL \in Bases \ {PASS} /\ MANUAL # STALE
      BY DEF Bases, PASS, FAIL, STALE, MANUAL, INHERITED_OK, EXCLUDED_OK, NA
    <3> QED BY <1>2, <1>4, <3>1, <3>2
  <2>3. method \in Methods
    BY <1>1 DEF Verification
  <2> QED BY <2>1, <2>2, <2>3 DEF Methods
<1> QED BY <1>2, <1>5, <1>6, <1>7, <1>8

-------------------------------------------------------------------------------
(* Runs and statements.                                                        *)

\* A result's parts have their types, and its deadline is an instant.
LEMMA ResultFacts ==
    ASSUME NEW scope \in SoA, NEW index \in EvidenceIndex,
           NEW upstream \in [Controls -> Lookup], NEW c \in Controls, NEW t \in Times
    PROVE  LET r == Evaluate(scope, index, upstream, t).results[c]
           IN  /\ r.obligation \in Obligations /\ r.disqualifying \in BOOLEAN
               /\ r.age \in Int \cup {None} /\ r.window \in Nat \cup {None}
               /\ r.window # None /\ r.age # None => t + (r.window - r.age) \in Nat
<1> DEFINE r == Evaluate(scope, index, upstream, t).results[c]
<1>1. r = EvaluateControl(scope, index, upstream, t, c)
  BY DEF Evaluate
<1>2. PICK base \in Bases, obligation \in Obligations, disqualifying \in BOOLEAN,
           oldest \in Times \cup {None}, limit \in Nat \cup {None} :
           ResultForm(scope, index, upstream, c,
                      base, obligation, disqualifying, oldest, limit)
  BY ControlForm DEF HasResultForm
<1>3. r = Dated(base, obligation, disqualifying, oldest, limit, t)
  BY <1>1, <1>2 DEF ResultForm
<1>4. /\ r.obligation = obligation /\ r.disqualifying = disqualifying
      /\ r.age = IF oldest = None THEN None ELSE t - oldest
      /\ r.window = IF limit \in {None, 0} THEN None ELSE limit
  BY <1>3 DEF Dated, ControlResult
<1>5. t \in Nat /\ oldest \in Nat \cup {None} /\ None \notin Int
  BY HorizonAssumption, NoneAssumption DEF Times
<1> HIDE DEF r
<1> QED BY <1>2, <1>4, <1>5 DEF r

\* stale_after is a deadline or the ceiling, and none of these comes before it.
LEMMA StaleAfterIsSoonest ==
    ASSUME NEW scope \in SoA, NEW index \in EvidenceIndex,
           NEW upstream \in [Controls -> Lookup], NEW t \in Times
    PROVE  LET run == Evaluate(scope, index, upstream, t)
           IN  /\ run.tier \in Tiers
               /\ StaleAfter(run) \in Nat
               /\ StaleAfter(run) \in
                     ControlDeadlines(run) \cup {t + MaxLease[run.tier]}
               /\ StaleAfter(run) <= t + MaxLease[run.tier]
               /\ \A d \in ControlDeadlines(run) : StaleAfter(run) <= d
<1> DEFINE run == Evaluate(scope, index, upstream, t)
           S == ControlDeadlines(run) \cup {run.evaluated_at + MaxLease[run.tier]}
<1>1. run.tier \in Tiers /\ run.evaluated_at = t
  BY DEF Evaluate, SoA
<1>2. t + MaxLease[run.tier] \in Nat
  BY <1>1, MaxLeaseAssumption, HorizonAssumption DEF Times
<1>3. ControlDeadlines(run) \subseteq Nat
  <2> SUFFICES ASSUME NEW c \in Controls,
                      run.results[c].window # None, run.results[c].age # None
               PROVE  t + (run.results[c].window - run.results[c].age) \in Nat
    BY <1>1 DEF ControlDeadlines
  <2> QED BY ResultFacts
<1>4. Min(S) \in S /\ \A y \in S : Min(S) <= y
  <2>1. S \in SUBSET Nat /\ S # {}
    BY <1>1, <1>2, <1>3
  <2> QED BY <2>1, MinOfNaturals
<1>5. StaleAfter(run) = Min(S)
  BY DEF StaleAfter
<1> HIDE DEF run
<1> QED BY <1>1, <1>2, <1>3, <1>4, <1>5 DEF run

\* build_statement makes a statement, of that time and tier.
LEMMA StatementType ==
    ASSUME NEW scope \in SoA, NEW index \in EvidenceIndex,
           NEW upstream \in [Controls -> Lookup], NEW t \in Times
    PROVE  LET s == BuildStatement(Evaluate(scope, index, upstream, t))
           IN  s \in ConformanceStatement /\ s.issued_at = t /\ s.tier = scope.tier
<1> DEFINE run == Evaluate(scope, index, upstream, t)
<1>1. run.evaluated_at = t /\ run.tier = scope.tier
  BY DEF Evaluate
<1>2. run.tier \in Tiers /\ StaleAfter(run) \in Nat
  BY StaleAfterIsSoonest
<1>3. Grace[run.tier] \in Nat
  BY <1>2, GraceAssumption
<1>4. Conformant(run) \in BOOLEAN /\ BlockingControls(run) \in SUBSET Controls
  BY DEF Conformant, BlockingControls
<1> HIDE DEF run
<1> QED BY <1>1, <1>2, <1>3, <1>4 DEF BuildStatement, ConformanceStatement, run
===============================================================================
