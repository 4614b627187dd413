------------------------------ MODULE LeaseProofs -----------------------------
(* Type correctness of Lease, and the soundness of badges, for every catalog,  *)
(* scope, evidence and number of publishers.                                   *)
EXTENDS Lease, StatementProofs

\* A snapshot's parts are what evaluate takes, and so are the assertions.
LEMMA SnapshotType ==
    ASSUME NEW b \in Snapshot
    PROVE  b.soa \in SoA /\ b.evidence \in EvidenceIndex
           /\ Asserted \in [Controls -> Lookup]
BY DEF Snapshot, Asserted, Lookup, Tiers

\* Between two checks of one snapshot only age moves: its deadline, obligation
\* and disqualification stay, and its status can only go from pass to stale.
LEMMA ResultLater ==
    ASSUME NEW b \in Snapshot, NEW c \in Controls,
           NEW t \in Times, NEW u \in Times, t <= u
    PROVE  LET r == CheckAt(b, t).results[c]
               q == CheckAt(b, u).results[c]
           IN  /\ q.obligation = r.obligation
               /\ q.disqualifying = r.disqualifying
               /\ q.status = r.status \/ (r.status = PASS /\ q.status = STALE)
               /\ q.window = r.window /\ (q.age = None <=> r.age = None)
               /\ q.window # None /\ q.age # None =>
                     u + (q.window - q.age) = t + (r.window - r.age)
               /\ PositiveWindows /\ q.status = STALE =>
                     q.window # None /\ q.age # None /\ q.age > q.window
<1> DEFINE r == CheckAt(b, t).results[c]
           q == CheckAt(b, u).results[c]
<1>1. /\ r = EvaluateControl(b.soa, b.evidence, Asserted, t, c)
      /\ q = EvaluateControl(b.soa, b.evidence, Asserted, u, c)
  BY DEF CheckAt, Evaluate
<1>2. PICK base \in Bases, obligation \in Obligations, disqualifying \in BOOLEAN,
           oldest \in Times \cup {None}, limit \in Nat \cup {None} :
           ResultForm(b.soa, b.evidence, Asserted, c,
                      base, obligation, disqualifying, oldest, limit)
  BY SnapshotType, ControlForm DEF HasResultForm
<1>3. /\ r = Dated(base, obligation, disqualifying, oldest, limit, t)
      /\ q = Dated(base, obligation, disqualifying, oldest, limit, u)
      /\ base = PASS => oldest # None
      /\ PositiveWindows => limit # 0
      /\ base # STALE
  BY <1>1, <1>2 DEF ResultForm, Asserted
<1>4. /\ r.obligation = obligation /\ r.disqualifying = disqualifying
      /\ r.age = IF oldest = None THEN None ELSE t - oldest
      /\ r.window = IF limit \in {None, 0} THEN None ELSE limit
      /\ r.status = IF base = PASS /\ limit # None /\ t - oldest > limit
                    THEN STALE ELSE base
  BY <1>3 DEF Dated, ControlResult
<1>5. /\ q.obligation = obligation /\ q.disqualifying = disqualifying
      /\ q.age = IF oldest = None THEN None ELSE u - oldest
      /\ q.window = IF limit \in {None, 0} THEN None ELSE limit
      /\ q.status = IF base = PASS /\ limit # None /\ u - oldest > limit
                    THEN STALE ELSE base
  BY <1>3 DEF Dated, ControlResult
<1>6. /\ t \in Nat /\ u \in Nat /\ oldest \in Nat \cup {None} /\ None \notin Int
  BY HorizonAssumption, NoneAssumption DEF Times
<1> HIDE DEF r, q
<1>7. q.status = r.status \/ (r.status = PASS /\ q.status = STALE)
  <2>1. CASE base = PASS /\ limit # None
    <3>1. t - oldest > limit => u - oldest > limit
      BY <1>2, <1>3, <1>6, <2>1
    <3> QED BY <1>4, <1>5, <2>1, <3>1
  <2>2. CASE ~(base = PASS /\ limit # None)
    BY <1>4, <1>5, <2>2
  <2> QED BY <2>1, <2>2
<1>8. PositiveWindows /\ q.status = STALE =>
        q.window # None /\ q.age # None /\ q.age > q.window
  BY <1>2, <1>3, <1>5, <1>6
<1>9. q.window = r.window /\ (q.age = None <=> r.age = None)
       /\ (q.window # None /\ q.age # None =>
              u + (q.window - q.age) = t + (r.window - r.age))
  BY <1>2, <1>4, <1>5, <1>6
<1> QED BY <1>4, <1>5, <1>7, <1>8, <1>9 DEF r, q

-------------------------------------------------------------------------------
(* Statements.                                                                 *)

\* The heart of it: what state_at says of a statement at any later time is never
\* better than what a check of the same evidence would find at that time.
LEMMA StatementSound ==
    ASSUME PositiveWindows,
           NEW b \in Snapshot, NEW t \in Times, NEW u \in Times, t <= u
    PROVE  LET shown == StateAt(BuildStatement(CheckAt(b, t)), u)
               again == CheckAt(b, u)
           IN  /\ Severity(LeaseState(again)) <= Severity(shown)
               /\ shown = VALID => Conformant(again)
<1> DEFINE run == CheckAt(b, t)
           again == CheckAt(b, u)
           s == BuildStatement(run)
           shown == StateAt(s, u)
<1>1. /\ run.tier \in Tiers /\ again.tier = run.tier
      /\ run.evaluated_at = t /\ again.evaluated_at = u
      /\ t \in Nat /\ u \in Nat /\ Grace[run.tier] \in Nat
  BY HorizonAssumption, GraceAssumption DEF CheckAt, Evaluate, Snapshot, SoA, Times
<1>2. StaleAfter(run) \in Nat /\ \A d \in ControlDeadlines(run) : StaleAfter(run) <= d
  BY SnapshotType, StaleAfterIsSoonest DEF CheckAt
<1>3. /\ s.conformant = Conformant(run) /\ s.stale_after = StaleAfter(run)
      /\ s.expires_at = StaleAfter(run) + Grace[run.tier]
  BY DEF BuildStatement
<1> HIDE DEF run, again, s
<1>4. \A state : Severity(state) \in {0, 1, 2}
  BY DEF Severity
<1>5. CASE ~Conformant(run)
  <2>1. shown \in {REVOKED, EXPIRED}
    BY <1>3, <1>5 DEF StateAt
  <2>2. Severity(shown) = 2 /\ shown # VALID
    BY <2>1 DEF Severity, REVOKED, EXPIRED, VALID, LEASE_STALE
  <2> QED BY <1>4, <2>2 DEF run, again, s
<1>6. CASE Conformant(run) /\ u >= s.expires_at
  <2>1. shown = EXPIRED
    BY <1>3, <1>6 DEF StateAt
  <2>2. Severity(shown) = 2 /\ shown # VALID
    BY <2>1 DEF Severity, EXPIRED, VALID, LEASE_STALE
  <2> QED BY <1>4, <2>2 DEF run, again, s
<1>7. CASE Conformant(run) /\ u < s.expires_at
  <2>1. \A c \in Controls : ~Blocks(run.results[c])
    BY <1>7 DEF Conformant, BlockingControls
  <2>2. ASSUME NEW c \in Controls
        PROVE  ~again.results[c].disqualifying
    <3>1. ~run.results[c].disqualifying
      BY <2>1 DEF Blocks
    <3> QED BY <3>1, ResultLater DEF run, again
  <2>3. ASSUME NEW c \in BlockingControls(again)
        PROVE  /\ again.results[c].status = STALE
               /\ again.results[c].window # None /\ again.results[c].age # None
               /\ again.results[c].age - again.results[c].window \in Int
               /\ again.results[c].age - again.results[c].window > 0
               /\ again.results[c].age - again.results[c].window
                    <= u - StaleAfter(run)
    <3> DEFINE r == run.results[c]
               q == again.results[c]
    <3>1. c \in Controls /\ Blocks(q) /\ ~Blocks(r) /\ ~q.disqualifying
      BY <2>1, <2>2 DEF BlockingControls
    <3>2. /\ q.obligation = r.obligation
          /\ q.status = r.status \/ (r.status = PASS /\ q.status = STALE)
          /\ q.window = r.window /\ (q.age = None <=> r.age = None)
          /\ q.window # None /\ q.age # None =>
                u + (q.window - q.age) = t + (r.window - r.age)
          /\ q.status = STALE => q.window # None /\ q.age # None /\ q.age > q.window
      BY <3>1, ResultLater DEF run, again
    <3>3. q.obligation = "required" /\ q.status = STALE
      BY <3>1, <3>2 DEF Blocks
    <3>4. q.age \in Int \cup {None} /\ q.window \in Nat \cup {None}
      BY <3>1, SnapshotType, ResultFacts DEF again, CheckAt
    <3>5. t + (r.window - r.age) \in ControlDeadlines(run)
      BY <1>1, <3>1, <3>2, <3>3 DEF ControlDeadlines
    <3>6. StaleAfter(run) <= u + (q.window - q.age)
      BY <1>2, <3>2, <3>3, <3>5
    <3> HIDE DEF q, r
    <3>7. q.age \in Int /\ q.window \in Int /\ q.age > q.window
      BY <3>2, <3>3, <3>4
    <3>8. q.age - q.window <= u - StaleAfter(run)
      BY <1>1, <1>2, <3>6, <3>7
    <3> QED BY <3>2, <3>3, <3>7, <3>8 DEF q
  <2>4. LeaseState(again)
        = IF \E o \in Overruns(again) : o > Grace[run.tier] THEN EXPIRED
          ELSE IF \E o \in Overruns(again) : o > 0 THEN LEASE_STALE ELSE VALID
    <3>1. ~\E c \in Controls : again.results[c].disqualifying
      BY <2>2
    <3>2. ~\E c \in BlockingControls(again) :
             again.results[c].status \in {FAIL, MANUAL}
      BY <2>3 DEF STALE, FAIL, MANUAL
    <3> QED BY <1>1, <3>1, <3>2 DEF LeaseState
  <2>5. \A o \in Overruns(again) : o \in Int /\ o <= u - StaleAfter(run)
    BY <2>3 DEF Overruns
  <2>6. CASE u < StaleAfter(run)
    <3>1. BlockingControls(again) = {}
      BY <1>1, <1>2, <2>3, <2>6
    <3>2. LeaseState(again) = VALID
      BY <2>4, <3>1 DEF Overruns
    <3>3. Severity(VALID) = 0
      BY DEF Severity, VALID, LEASE_STALE
    <3>4. Conformant(again) BY <3>1 DEF Conformant
    <3> QED BY <1>4, <3>2, <3>3, <3>4 DEF run, again, s
  <2>7. CASE u >= StaleAfter(run)
    <3>1. shown = LEASE_STALE
      BY <1>1, <1>2, <1>3, <1>7, <2>7 DEF StateAt
    <3>2. u - StaleAfter(run) < Grace[run.tier]
      BY <1>1, <1>2, <1>3, <1>7
    <3>3. LeaseState(again) \in {VALID, LEASE_STALE}
      BY <1>1, <1>2, <2>4, <2>5, <3>2
    <3>4. Severity(shown) = 1 /\ shown # VALID /\ Severity(LeaseState(again)) <= 1
      BY <3>1, <3>3 DEF Severity, VALID, LEASE_STALE
    <3> QED BY <3>4 DEF run, again, s
  <2> QED BY <1>1, <1>2, <2>6, <2>7
<1> QED BY <1>1, <1>2, <1>3, <1>5, <1>6, <1>7

-------------------------------------------------------------------------------
(* The specification.                                                          *)

\* A record a producer may write is a record.
LEMMA EmittedType ==
    ASSUME TypeOK, NEW c \in Controls, NEW plane \in Planes, NEW lag \in Lags[c][plane],
           NEW body \in Emissions[c][plane], Emit(c, plane, body, lag)
    PROVE  evidence' \in EvidenceIndex
<1> DEFINE record == [window_to |-> now - lag, scheme |-> body.scheme,
                      verified |-> body.verified, enabled |-> body.enabled,
                      traffic |-> body.traffic, decisions |-> body.decisions]
           files == evidence[c][plane]
<1>1. record \in EvidenceRecord
  BY EmissionsAssumption DEF Emit
<1>2. evidence \in [Controls -> [Planes -> Seq(EvidenceRecord)]]
  BY DEF TypeOK, EvidenceIndex
<1>3. files \in Seq(EvidenceRecord)
  BY <1>2
<1> HIDE DEF record
<1>4. CASE evidence' = [evidence EXCEPT ![c][plane] = Append(files, record)]
  <2>1. Append(files, record) \in Seq(EvidenceRecord)
    BY <1>1, <1>3
  <2> HIDE DEF files
  <2> QED BY <1>2, <1>4, <2>1 DEF EvidenceIndex
<1>5. CASE \E i \in DOMAIN files :
              evidence' = [evidence EXCEPT ![c][plane][i] = record]
  <2>1. PICK i \in DOMAIN files :
               evidence' = [evidence EXCEPT ![c][plane][i] = record]
    BY <1>5
  <2>2. [files EXCEPT ![i] = record] \in Seq(EvidenceRecord)
    BY <1>1, <1>3
  <2>3. evidence' = [evidence EXCEPT ![c][plane] = [files EXCEPT ![i] = record]]
    BY <2>1
  <2> HIDE DEF files
  <2> QED BY <1>2, <2>2, <2>3 DEF EvidenceIndex
<1> QED BY <1>4, <1>5 DEF Emit, record

\* The state always has its types: type correctness of every step the model of
\* publishing takes.
THEOREM TypeCorrect == Spec => []TypeOK
<1>1. Init => TypeOK
  <2> SUFFICES ASSUME Init PROVE TypeOK OBVIOUS
  <2>1. now \in Times BY HorizonAssumption DEF Init, Times
  <2>2. evidence \in EvidenceIndex BY DEF Init, EvidenceIndex
  <2>3. pub \in [Publishers -> PublisherState] BY DEF Init, PublisherState
  <2> QED BY <2>1, <2>2, <2>3 DEF Init, TypeOK
<1>2. TypeOK /\ [Next]_vars => TypeOK'
  <2> SUFFICES ASSUME TypeOK, [Next]_vars PROVE TypeOK' OBVIOUS
  <2>1. CASE Tick
    BY <2>1, HorizonAssumption DEF Tick, TypeOK, Times
  <2>2. ASSUME NEW c \in Controls, NEW plane \in Planes, NEW lag \in Lags[c][plane],
               NEW body \in Emissions[c][plane], Emit(c, plane, body, lag)
        PROVE  TypeOK'
    <3>1. evidence' \in EvidenceIndex BY <2>2, EmittedType
    <3> QED BY <2>2, <3>1 DEF Emit, TypeOK
  <2>3. CASE Rescope
    BY <2>3 DEF Rescope, TypeOK
  <2>4. ASSUME NEW p \in Publishers, NEW key \in SigningKeys, Load(p, key) PROVE TypeOK'
    <3>1. [soa |-> soa, evidence |-> evidence, key |-> key] \in Snapshot
      BY ScopesAssumption DEF TypeOK, Snapshot
    <3>2. [step |-> "loaded",
           snapshot |-> [soa |-> soa, evidence |-> evidence, key |-> key]]
          \in PublisherState
      BY <3>1 DEF PublisherState
    <3> QED BY <2>4, <3>2 DEF Load, TypeOK
  <2>5. ASSUME NEW p \in Publishers, EvaluateAndSign(p) PROVE TypeOK'
    <3>1. pub[p] \in PublisherState /\ pub[p].step = "loaded"
      BY <2>5 DEF EvaluateAndSign, TypeOK
    <3>2. pub[p].snapshot \in Snapshot
      BY <3>1 DEF PublisherState, Idle
    <3>3. BuildStatement(CheckAt(pub[p].snapshot, now)) \in ConformanceStatement
      BY <3>2, SnapshotType, StatementType DEF TypeOK, CheckAt
    <3>4. [step |-> "signed", snapshot |-> pub[p].snapshot,
           statement |-> BuildStatement(CheckAt(pub[p].snapshot, now))]
          \in PublisherState
      BY <3>2, <3>3 DEF PublisherState
    <3>5. Idle \in PublisherState BY DEF PublisherState
    <3>6. pub' \in [Publishers -> PublisherState]
      BY <2>5, <3>4, <3>5 DEF EvaluateAndSign, TypeOK
    <3> QED BY <2>5, <3>6 DEF EvaluateAndSign, TypeOK
  <2>6. ASSUME NEW p \in Publishers, Publish(p) PROVE TypeOK'
    <3>1. pub[p] \in PublisherState /\ pub[p].step = "signed"
      BY <2>6 DEF Publish, TypeOK
    <3>2. pub[p].snapshot \in Snapshot /\ pub[p].statement \in ConformanceStatement
      BY <3>1 DEF PublisherState, Idle
    <3>3. log' \in Seq(ConformanceStatement) /\ basis' \in Seq(Snapshot)
          /\ Len(basis') = Len(log')
      BY <2>6, <3>2 DEF Publish, TypeOK
    <3>4. pub' \in [Publishers -> PublisherState]
      BY <2>6 DEF Publish, TypeOK, PublisherState
    <3> QED BY <2>6, <3>3, <3>4 DEF Publish, TypeOK
  <2>7. ASSUME NEW p \in Publishers, Abandon(p) PROVE TypeOK'
    <3>1. pub' \in [Publishers -> PublisherState]
      BY <2>7 DEF Abandon, TypeOK, PublisherState
    <3> QED BY <2>7, <3>1 DEF Abandon, TypeOK
  <2>8. CASE UNCHANGED vars
    BY <2>8 DEF vars, TypeOK
  <2> QED BY <2>1, <2>2, <2>3, <2>4, <2>5, <2>6, <2>7, <2>8 DEF Next
<1> QED BY <1>1, <1>2, PTL DEF Spec

\* A statement is what its own snapshot gave at the time it says, and that time is
\* past.
IssuedFrom(statement, snapshot) ==
    /\ statement.issued_at <= now
    /\ statement = BuildStatement(CheckAt(snapshot, statement.issued_at))

\* What makes soundness inductive: every statement, published or still held by a
\* publisher, was issued from the snapshot kept beside it.
Provenance ==
    /\ \A i \in DOMAIN log : IssuedFrom(log[i], basis[i])
    /\ \A p \in Publishers :
          pub[p].step = "signed" => IssuedFrom(pub[p].statement, pub[p].snapshot)

\* Appending reaches the new position and leaves the others alone.
LEMMA AppendAt ==
    ASSUME NEW S, NEW s \in Seq(S), NEW e \in S, NEW i \in DOMAIN Append(s, e)
    PROVE  \/ i \in DOMAIN s /\ Append(s, e)[i] = s[i]
           \/ i = Len(s) + 1 /\ Append(s, e)[i] = e
  OBVIOUS

\* Every step keeps every statement accounted for.
LEMMA ProvenanceInductive ==
    ASSUME TypeOK, Provenance, [Next]_vars
    PROVE  Provenance'
<1>1. now \in Nat /\ \A i \in DOMAIN log : log[i].issued_at \in Nat
  <2>1. \A i \in DOMAIN log : log[i] \in ConformanceStatement
    BY DEF TypeOK
  <2>2. Times \subseteq Nat BY HorizonAssumption DEF Times
  <2> QED BY <2>1, <2>2 DEF TypeOK, ConformanceStatement
<1>2. ASSUME NEW p \in Publishers, pub[p].step = "signed"
      PROVE  /\ pub[p].statement \in ConformanceStatement
             /\ pub[p].statement.issued_at \in Nat
             /\ pub[p].snapshot \in Snapshot
  <2>1. pub[p] \in PublisherState BY DEF TypeOK
  <2> QED BY <1>2, <2>1, HorizonAssumption
          DEF PublisherState, Idle, ConformanceStatement, Times
<1>3. ASSUME UNCHANGED <<log, basis, pub>>, now' \in Nat, now <= now'
      PROVE  Provenance'
  <2>1. \A i \in DOMAIN log : IssuedFrom(log[i], basis[i])'
    BY <1>1, <1>3 DEF Provenance, IssuedFrom
  <2>2. \A p \in Publishers :
          pub[p].step = "signed" => IssuedFrom(pub[p].statement, pub[p].snapshot)'
    BY <1>1, <1>2, <1>3 DEF Provenance, IssuedFrom
  <2> QED BY <1>3, <2>1, <2>2 DEF Provenance
<1>4. CASE Tick
  BY <1>1, <1>3, <1>4 DEF Tick
<1>5. ASSUME UNCHANGED <<now, log, basis, pub>> PROVE Provenance'
  BY <1>1, <1>3, <1>5
<1>6. ASSUME NEW p \in Publishers, UNCHANGED <<now, log, basis>>,
             \A q \in Publishers \ {p} : pub'[q] = pub[q],
             pub'[p].step = "signed" => IssuedFrom(pub'[p].statement, pub'[p].snapshot)
      PROVE  Provenance'
  BY <1>6 DEF Provenance, IssuedFrom
<1>7. ASSUME NEW p \in Publishers, NEW key \in SigningKeys, Load(p, key) PROVE Provenance'
  BY <1>6, <1>7 DEF Load, TypeOK
<1>8. ASSUME NEW p \in Publishers, EvaluateAndSign(p) PROVE Provenance'
  <2> DEFINE statement == BuildStatement(CheckAt(pub[p].snapshot, now))
  <2>1. pub[p] \in PublisherState /\ pub[p].step = "loaded"
    BY <1>8 DEF EvaluateAndSign, TypeOK
  <2>2. pub[p].snapshot \in Snapshot
    BY <2>1 DEF PublisherState, Idle
  <2>3. statement.issued_at = now
    BY <2>2, SnapshotType, StatementType DEF TypeOK, CheckAt
  <2>4. IssuedFrom(statement, pub[p].snapshot)
    BY <1>1, <2>3 DEF IssuedFrom
  <2>5. \/ pub'[p] = Idle
        \/ pub'[p] = [step |-> "signed", snapshot |-> pub[p].snapshot,
                      statement |-> statement]
    BY <1>8 DEF EvaluateAndSign, TypeOK
  <2> HIDE DEF statement
  <2>6. pub'[p].step = "signed" => IssuedFrom(pub'[p].statement, pub'[p].snapshot)
    BY <2>4, <2>5 DEF Idle
  <2> QED BY <1>6, <1>8, <2>6 DEF EvaluateAndSign, TypeOK
<1>9. ASSUME NEW p \in Publishers, Publish(p) PROVE Provenance'
  <2>1. pub[p].step = "signed" /\ IssuedFrom(pub[p].statement, pub[p].snapshot)
    BY <1>9 DEF Publish, Provenance
  <2>2. pub[p].statement \in ConformanceStatement /\ pub[p].snapshot \in Snapshot
    BY <1>2, <2>1
  <2>3. \A i \in DOMAIN log' : IssuedFrom(log'[i], basis'[i])
    <3> SUFFICES ASSUME NEW i \in DOMAIN log' PROVE IssuedFrom(log'[i], basis'[i])
      OBVIOUS
    <3>1. /\ log \in Seq(ConformanceStatement) /\ basis \in Seq(Snapshot)
          /\ Len(basis) = Len(log)
          /\ log' = Append(log, pub[p].statement)
          /\ basis' = Append(basis, pub[p].snapshot)
      BY <1>9 DEF Publish, TypeOK
    <3>2. \/ i \in DOMAIN log /\ log'[i] = log[i] /\ basis'[i] = basis[i]
          \/ log'[i] = pub[p].statement /\ basis'[i] = pub[p].snapshot
      BY <2>2, <3>1
    <3> QED BY <2>1, <3>2 DEF Provenance
  <2>4. \A q \in Publishers : pub'[q].step = "signed" => pub'[q] = pub[q]
    BY <1>9 DEF Publish, TypeOK, Idle
  <2> QED BY <1>9, <2>3, <2>4 DEF Publish, Provenance, IssuedFrom
<1>10. ASSUME NEW p \in Publishers, Abandon(p) PROVE Provenance'
  BY <1>6, <1>10 DEF Abandon, TypeOK, Idle
<1>11. CASE Rescope
  BY <1>5, <1>11 DEF Rescope
<1>12. ASSUME NEW c \in Controls, NEW plane \in Planes, NEW lag \in Lags[c][plane],
              NEW body \in Emissions[c][plane], Emit(c, plane, body, lag)
       PROVE  Provenance'
  BY <1>5, <1>12 DEF Emit
<1>13. CASE UNCHANGED vars
  BY <1>5, <1>13 DEF vars
<1> QED BY <1>4, <1>7, <1>8, <1>9, <1>10, <1>11, <1>12, <1>13 DEF Next

\* Every statement is accounted for, always.
THEOREM ProvenanceHolds == Spec => []Provenance
<1>1. Init => Provenance
  BY DEF Init, Provenance, Idle
<1>2. TypeOK /\ Provenance /\ [Next]_vars => Provenance'
  BY ProvenanceInductive
<1> QED BY <1>1, <1>2, TypeCorrect, PTL DEF Spec

\* No reader is ever told something better than a fresh check would say: for
\* every catalog of positive windows, scope, evidence, tier and interleaving.
THEOREM BadgesSound ==
    ASSUME PositiveWindows
    PROVE  Spec => []BadgeSound
<1>1. TypeOK /\ Provenance => BadgeSound
  <2> SUFFICES ASSUME TypeOK, Provenance, NEW i \in DOMAIN log
               PROVE  /\ Severity(LeaseState(CheckAt(basis[i], now)))
                            <= Severity(BadgeAt(i, now))
                      /\ BadgeAt(i, now) = VALID => Conformant(CheckAt(basis[i], now))
    BY DEF BadgeSound
  <2>1. basis[i] \in Snapshot /\ log[i] \in ConformanceStatement
    BY DEF TypeOK
  <2>2. log[i].issued_at \in Times /\ now \in Times /\ log[i].issued_at <= now
    BY <2>1 DEF TypeOK, Provenance, IssuedFrom, ConformanceStatement
  <2>3. log[i] = BuildStatement(CheckAt(basis[i], log[i].issued_at))
    BY DEF Provenance, IssuedFrom
  <2>4. BadgeAt(i, now)
        = StateAt(BuildStatement(CheckAt(basis[i], log[i].issued_at)), now)
    BY <2>3 DEF BadgeAt
  <2> QED BY <2>1, <2>2, <2>4, StatementSound
<1> QED BY <1>1, TypeCorrect, ProvenanceHolds, PTL

\* A statement's state worsens with a reason: once stale_after is d behind, the
\* ceiling is, or a required control's age has passed its window by d.
LEMMA StatementPrompt ==
    ASSUME NEW b \in Snapshot, NEW t \in Times, NEW u \in Times, t <= u,
           NEW d \in Nat, u >= StaleAfter(CheckAt(b, t)) + d
    PROVE  LateBy(BuildStatement(CheckAt(b, t)), CheckAt(b, u), u, d)
<1> DEFINE run == CheckAt(b, t)
           again == CheckAt(b, u)
           s == BuildStatement(run)
<1>1. run.evaluated_at = t /\ s.issued_at = t /\ s.tier = run.tier
  BY DEF CheckAt, Evaluate, BuildStatement
<1>2. t \in Nat /\ u \in Nat
  BY HorizonAssumption DEF Times
<1>3. CASE StaleAfter(run) = t + MaxLease[run.tier]
  <2>1. u >= s.issued_at + MaxLease[s.tier] + d
    BY <1>1, <1>3
  <2> QED BY <2>1 DEF LateBy
<1>4. CASE StaleAfter(run) \in ControlDeadlines(run)
  <2>1. PICK c \in Controls :
          /\ run.results[c].obligation = "required"
          /\ run.results[c].window # None /\ run.results[c].age # None
          /\ StaleAfter(run) = t + (run.results[c].window - run.results[c].age)
    BY <1>1, <1>4 DEF ControlDeadlines
  <2> DEFINE r == run.results[c]
             q == again.results[c]
  <2>2. /\ q.obligation = r.obligation
        /\ q.window = r.window /\ (q.age = None <=> r.age = None)
        /\ q.window # None /\ q.age # None =>
              u + (q.window - q.age) = t + (r.window - r.age)
    BY ResultLater
  <2>3. q.age \in Int \cup {None} /\ q.window \in Nat \cup {None}
    BY SnapshotType, ResultFacts DEF CheckAt
  <2>4. u >= t + (r.window - r.age) + d
    BY <2>1
  <2> HIDE DEF q, r
  <2>5. q.window # None /\ q.age # None /\ q.obligation = "required"
    BY <2>1, <2>2 DEF r
  <2>6. u >= u + (q.window - q.age) + d
    BY <2>2, <2>4, <2>5
  <2>7. q.age >= q.window + d
    BY <1>2, <2>3, <2>5, <2>6
  <2> QED BY <2>5, <2>7 DEF LateBy, q
<1> QED BY <1>3, <1>4, SnapshotType, StaleAfterIsSoonest DEF CheckAt

\* No reader is told something worse without a reason either: VALID ends when
\* evidence reaches its window or the tier's ceiling is reached, and EXPIRED
\* begins a whole grace period after that.
THEOREM BadgesPrompt == Spec => []BadgePrompt
<1>1. TypeOK /\ Provenance => BadgePrompt
  <2> SUFFICES ASSUME TypeOK, Provenance, NEW i \in DOMAIN log, log[i].conformant
               PROVE  LET again == CheckAt(basis[i], now) IN
                      /\ BadgeAt(i, now) # VALID => LateBy(log[i], again, now, 0)
                      /\ BadgeAt(i, now) = EXPIRED =>
                            LateBy(log[i], again, now, Grace[log[i].tier])
    BY DEF BadgePrompt
  <2> DEFINE run == CheckAt(basis[i], log[i].issued_at)
             grace == Grace[log[i].tier]
  <2>1. basis[i] \in Snapshot /\ log[i] \in ConformanceStatement
    BY DEF TypeOK
  <2>2. /\ log[i].issued_at \in Times /\ now \in Times
        /\ log[i].issued_at <= now /\ grace \in Nat
    BY <2>1, GraceAssumption DEF TypeOK, Provenance, IssuedFrom, ConformanceStatement
  <2>3. log[i] = BuildStatement(run)
    BY DEF Provenance, IssuedFrom
  <2>4. StaleAfter(run) \in Nat /\ now \in Nat
    BY <2>1, <2>2, SnapshotType, StaleAfterIsSoonest, HorizonAssumption
       DEF Times, CheckAt
  <2>5. \A d \in Nat : now >= StaleAfter(run) + d =>
            LateBy(log[i], CheckAt(basis[i], now), now, d)
    BY <2>1, <2>2, <2>3, StatementPrompt
  <2>6. /\ log[i].stale_after = StaleAfter(run)
        /\ log[i].expires_at = StaleAfter(run) + grace
    BY <2>3 DEF BuildStatement
  <2> HIDE DEF run, grace
  <2>7. /\ BadgeAt(i, now) # VALID => now >= StaleAfter(run) + 0
        /\ BadgeAt(i, now) = EXPIRED => now >= StaleAfter(run) + grace
    BY <2>2, <2>4, <2>6 DEF BadgeAt, StateAt, VALID, LEASE_STALE, EXPIRED
  <2> QED BY <2>2, <2>5, <2>7 DEF grace
<1> QED BY <1>1, TypeCorrect, ProvenanceHolds, PTL

\* The ceiling, and the window of any required control, is d behind only if
\* stale_after is: the deadline in the statement is the soonest of them, and from
\* one check of the same evidence to a later one it stays where it was.
LEMMA StatementNotOverdue ==
    ASSUME NEW b \in Snapshot, NEW t \in Times, NEW u \in Times, t <= u,
           NEW d \in Nat,
           LateBy(BuildStatement(CheckAt(b, t)), CheckAt(b, u), u, d)
    PROVE  u >= StaleAfter(CheckAt(b, t)) + d
<1> DEFINE run == CheckAt(b, t)
           again == CheckAt(b, u)
           s == BuildStatement(run)
           stale == StaleAfter(run)
<1>1. run.evaluated_at = t /\ s.issued_at = t /\ s.tier = run.tier
  BY DEF CheckAt, Evaluate, BuildStatement
<1>2. /\ t \in Nat /\ u \in Nat /\ stale \in Nat
      /\ run.tier \in Tiers /\ stale <= t + MaxLease[run.tier]
      /\ \A e \in ControlDeadlines(run) : stale <= e
  BY SnapshotType, StaleAfterIsSoonest, HorizonAssumption DEF Times, CheckAt
<1>3. CASE u >= s.issued_at + MaxLease[s.tier] + d
  <2>1. MaxLease[run.tier] \in Nat
    BY <1>2, MaxLeaseAssumption
  <2>2. u >= t + MaxLease[run.tier] + d
    BY <1>1, <1>3
  <2> HIDE DEF stale, run
  <2>3. u >= stale + d
    BY <1>2, <2>1, <2>2
  <2> QED BY <2>3 DEF stale, run
<1>4. ASSUME NEW c \in Controls,
             again.results[c].obligation = "required",
             again.results[c].window # None, again.results[c].age # None,
             again.results[c].age >= again.results[c].window + d
      PROVE  u >= stale + d
  <2> DEFINE r == run.results[c]
             q == again.results[c]
  <2>1. /\ q.obligation = r.obligation
        /\ q.window = r.window /\ (q.age = None <=> r.age = None)
        /\ q.window # None /\ q.age # None =>
              u + (q.window - q.age) = t + (r.window - r.age)
    BY ResultLater
  <2>2. q.age \in Int \cup {None} /\ q.window \in Nat \cup {None}
    BY SnapshotType, ResultFacts DEF CheckAt
  <2>3. t + (r.window - r.age) \in ControlDeadlines(run)
    BY <1>1, <1>4, <2>1 DEF ControlDeadlines
  <2>4. stale <= u + (q.window - q.age)
    BY <1>2, <1>4, <2>1, <2>3
  <2>5. q.age \in Int /\ q.window \in Nat /\ q.age >= q.window + d
    BY <1>4, <2>2
  <2> HIDE DEF q, r, stale
  <2> QED BY <1>2, <2>4, <2>5
<1> QED BY <1>3, <1>4 DEF LateBy

\* No badge outlives what it rests on, for every catalog, scope, evidence and
\* number of publishers: neither the tier's ceiling nor any required control's
\* window.
THEOREM BadgesNotOverdue == Spec => []NoBadgeOverdue
<1>1. TypeOK /\ Provenance => NoBadgeOverdue
  <2> SUFFICES ASSUME TypeOK, Provenance, NEW i \in DOMAIN log
               PROVE  LET again == CheckAt(basis[i], now) IN
                      /\ LateBy(log[i], again, now, 0) => BadgeAt(i, now) # VALID
                      /\ LateBy(log[i], again, now, Grace[log[i].tier]) =>
                            BadgeAt(i, now) \in {EXPIRED, REVOKED}
    BY DEF NoBadgeOverdue
  <2> DEFINE run == CheckAt(basis[i], log[i].issued_at)
             again == CheckAt(basis[i], now)
             grace == Grace[log[i].tier]
             late(d) == LateBy(log[i], again, now, d)
  <2>1. basis[i] \in Snapshot /\ log[i] \in ConformanceStatement
    BY DEF TypeOK
  <2>2. /\ log[i].issued_at \in Times /\ now \in Times
        /\ log[i].issued_at <= now /\ grace \in Nat
    BY <2>1, GraceAssumption DEF TypeOK, Provenance, IssuedFrom, ConformanceStatement
  <2>3. log[i] = BuildStatement(run)
    BY DEF Provenance, IssuedFrom
  <2>4. StaleAfter(run) \in Nat /\ now \in Nat
    BY <2>1, <2>2, SnapshotType, StaleAfterIsSoonest, HorizonAssumption
       DEF Times, CheckAt
  <2>5. \A d \in Nat : late(d) => now >= StaleAfter(run) + d
    BY <2>1, <2>2, <2>3, StatementNotOverdue
  <2>6. /\ log[i].stale_after = StaleAfter(run)
        /\ log[i].expires_at = StaleAfter(run) + grace
    BY <2>3 DEF BuildStatement
  <2> HIDE DEF run, grace, late
  <2>7. 0 \in Nat /\ grace \in Nat
    BY <2>2
  <2>8. /\ late(0) => now >= log[i].stale_after
        /\ late(grace) => now >= log[i].expires_at
    BY <2>4, <2>5, <2>6, <2>7
  <2>9. /\ late(0) => BadgeAt(i, now) # VALID
        /\ late(grace) => BadgeAt(i, now) \in {EXPIRED, REVOKED}
    BY <2>8 DEF BadgeAt, StateAt, VALID, LEASE_STALE, EXPIRED, REVOKED
  <2> QED BY <2>9 DEF late, grace
<1> QED BY <1>1, TypeCorrect, ProvenanceHolds, PTL

\* As time passes a statement shows what it showed, or something worse.
LEMMA StateOnlyDecays ==
    ASSUME NEW s \in ConformanceStatement, NEW t \in Int, NEW u \in Int, t <= u
    PROVE  /\ StateAt(s, t) \in Badges!States
           /\ StateAt(s, u) \in {StateAt(s, t)} \cup Badges!Worse(StateAt(s, t))
<1>1. s.stale_after \in Int /\ s.expires_at \in Int
  BY DEF ConformanceStatement
<1>2. CASE ~s.conformant
  BY <1>2 DEF StateAt, Badges!States
<1>3. CASE s.conformant
  <2>1. /\ StateAt(s, t) = IF t >= s.expires_at THEN EXPIRED
                           ELSE IF t >= s.stale_after THEN LEASE_STALE ELSE VALID
        /\ StateAt(s, u) = IF u >= s.expires_at THEN EXPIRED
                           ELSE IF u >= s.stale_after THEN LEASE_STALE ELSE VALID
    BY <1>3 DEF StateAt
  <2>2. /\ Badges!Worse(VALID) = {LEASE_STALE, EXPIRED}
        /\ Badges!Worse(LEASE_STALE) = {EXPIRED}
    BY DEF Badges!Worse, VALID, LEASE_STALE, EXPIRED
  <2> QED BY <1>1, <2>1, <2>2 DEF Badges!States
<1> QED BY <1>2, <1>3

\* What is published only ever decays: the detailed system implements BadgeDecay.
THEOREM BadgesImplementDecay == Spec => BadgesOnlyDecay
<1> DEFINE shown == [i \in DOMAIN log |-> BadgeAt(i, now)]
<1>1. Init => Badges!Init
  BY DEF Init, Badges!Init
<1>2. TypeOK /\ TypeOK' /\ [Next]_vars => [Badges!Next]_shown
  <2> SUFFICES ASSUME TypeOK, TypeOK', [Next]_vars
               PROVE  Badges!Next \/ shown' = shown
    OBVIOUS
  <2>1. /\ log \in Seq(ConformanceStatement)
        /\ \A i \in DOMAIN log : log[i] \in ConformanceStatement
        /\ now \in Int
    BY HorizonAssumption DEF TypeOK, Times
  <2>2. ASSUME UNCHANGED <<now, log>> PROVE shown' = shown
    BY <2>2 DEF BadgeAt
  <2>3. CASE Tick
    <3>1. log' = log /\ now' \in Int /\ now <= now'
      BY <2>1, <2>3 DEF Tick
    <3>2. DOMAIN shown' = DOMAIN shown /\ Len(shown') = Len(shown)
      BY <2>1, <3>1
    <3>3. \A i \in DOMAIN shown :
            shown'[i] \in {shown[i]} \cup Badges!Worse(shown[i])
      BY <2>1, <3>1, StateOnlyDecays DEF BadgeAt
    <3> QED BY <3>2, <3>3 DEF Badges!Next, Badges!Decay
  <2>4. ASSUME NEW p \in Publishers, Publish(p) PROVE Badges!Next
    <3> DEFINE s == pub[p].statement
    <3>1. pub[p] \in PublisherState /\ pub[p].step = "signed"
      BY <2>4 DEF Publish, TypeOK
    <3>2. s \in ConformanceStatement
      BY <3>1 DEF PublisherState, Idle
    <3>3. log' = Append(log, s) /\ now' = now
      BY <2>4 DEF Publish
    <3>4. StateAt(s, now) \in Badges!States
      BY <2>1, <3>2, StateOnlyDecays
    <3> HIDE DEF s
    <3>5. shown' = Append(shown, StateAt(s, now))
      BY <2>1, <3>2, <3>3 DEF BadgeAt
    <3> QED BY <3>4, <3>5 DEF Badges!Next, Badges!Issue
  <2>5. /\ \A p \in Publishers, key \in SigningKeys :
              Load(p, key) => UNCHANGED <<now, log>>
        /\ \A p \in Publishers :
              EvaluateAndSign(p) \/ Abandon(p) => UNCHANGED <<now, log>>
    BY DEF Load, EvaluateAndSign, Abandon
  <2>6. ASSUME NEW c \in Controls, NEW plane \in Planes, NEW lag \in Lags[c][plane],
               NEW body \in Emissions[c][plane], Emit(c, plane, body, lag)
        PROVE  UNCHANGED <<now, log>>
    BY <2>6 DEF Emit
  <2>7. CASE Rescope
    BY <2>2, <2>7 DEF Rescope
  <2>8. CASE UNCHANGED vars
    BY <2>2, <2>8 DEF vars
  <2> HIDE DEF shown
  <2> QED BY <2>2, <2>3, <2>4, <2>5, <2>6, <2>7, <2>8 DEF Next
<1> QED BY <1>1, <1>2, TypeCorrect, PTL DEF Spec, BadgesOnlyDecay, Badges!Spec

-------------------------------------------------------------------------------
(* Fabrication.                                                                *)

\* Whatever planes a control requires, records that contradict each other are a
\* disqualifying failure at any time: no required plane is missing, and age is
\* not asked.
LEMMA JudgeContradiction ==
    ASSUME NEW c, NEW required \in SUBSET Planes, NEW obligation, NEW tier,
           NEW planes, NEW t,
           Contradiction(Newest(planes[CONTROL_PLANE], tier),
                         Newest(planes[DATA_PLANE], tier))
    PROVE  Judge(c, required, obligation, tier, planes, t).disqualifying
<1> DEFINE record == [p \in Planes |-> Newest(planes[p], tier)]
           present == {p \in required : record[p] # None}
<1>1. /\ record[CONTROL_PLANE] = Newest(planes[CONTROL_PLANE], tier)
      /\ record[DATA_PLANE] = Newest(planes[DATA_PLANE], tier)
  BY DEF Planes
<1>2. record[CONTROL_PLANE] # None /\ record[DATA_PLANE] # None
  BY <1>1 DEF Contradiction
<1>3. present = required
  BY <1>2 DEF Planes
<1>4. Contradiction(record[CONTROL_PLANE], record[DATA_PLANE])
  BY <1>1
<1> QED BY <1>3, <1>4 DEF Judge, ControlResult

\* Evidence that contradicts itself never becomes a badge a reader can use: from
\* the disqualifying result to the control that blocks, to a statement that is
\* not conformant, to REVOKED at any later time.
THEOREM FabricationIsRevoked == Spec => []FabricationNeverBadges
<1>1. TypeOK /\ Provenance => FabricationNeverBadges
  <2> SUFFICES
        ASSUME TypeOK, Provenance, NEW i \in DOMAIN log, NEW c \in Controls,
               basis[i].soa.entries[c].verdict = APPLIES,
               Catalog[c].method # "assessed",
               Contradiction(
                   Newest(basis[i].evidence[c][CONTROL_PLANE], basis[i].soa.tier),
                   Newest(basis[i].evidence[c][DATA_PLANE], basis[i].soa.tier))
        PROVE  BadgeAt(i, now) = REVOKED
    BY DEF FabricationNeverBadges
  <2> DEFINE run == CheckAt(basis[i], log[i].issued_at)
             entry == basis[i].soa.entries[c]
             judged(required) == Judge(c, required, entry.obligation,
                                       basis[i].soa.tier, basis[i].evidence[c],
                                       log[i].issued_at)
  <2>1. log[i] = BuildStatement(run)
    BY DEF Provenance, IssuedFrom
  <2>2. Catalog[c].method \in {"emitted", "asserted", "attested"}
        /\ Catalog[c].planes \in SUBSET Planes
    BY CatalogAssumption DEF Verification, Methods
  <2>3. \A required \in SUBSET Planes : judged(required).disqualifying
    BY JudgeContradiction
  <2>4. run.results[c] = judged(Catalog[c].planes)
        \/ run.results[c] = judged({CONTROL_PLANE})
    BY <2>2 DEF CheckAt, Evaluate, EvaluateControl, EvaluateEmitted,
                EvaluateDeclared, APPLIES, NOT_APPLICABLE, EXCLUDED, INHERITED
  <2>5. {CONTROL_PLANE} \in SUBSET Planes
    BY DEF Planes
  <2> HIDE DEF judged
  <2>6. run.results[c].disqualifying
    BY <2>2, <2>3, <2>4, <2>5
  <2> HIDE DEF run
  <2>7. c \in BlockingControls(run)
    BY <2>6 DEF BlockingControls, Blocks
  <2>8. BuildStatement(run).conformant = Conformant(run)
        /\ BuildStatement(run).blocking = BlockingControls(run)
    BY DEF BuildStatement
  <2>9. ~log[i].conformant /\ log[i].blocking # {}
    BY <2>1, <2>7, <2>8 DEF Conformant
  <2> QED BY <2>9 DEF BadgeAt, StateAt
<1> QED BY <1>1, TypeCorrect, ProvenanceHolds, PTL

-------------------------------------------------------------------------------
(* What a subject's silence comes to.                                          *)

\* Every statement, published or still held, was evaluated before the silence.
EvaluatedInTime ==
    /\ \A i \in DOMAIN log : log[i].issued_at < SilentFrom
    /\ \A p \in Publishers :
          pub[p].step = "signed" => pub[p].statement.issued_at < SilentFrom

\* A ceiling and a grace period after the last evaluation every badge is lapsed,
\* an entry that a publisher appends later still among them.
LapsedInTime ==
    \A i \in DOMAIN log :
        now >= (SilentFrom - 1) + MaxLease[log[i].tier] + Grace[log[i].tier]
        => BadgeAt(i, now) \in {EXPIRED, REVOKED}

LEMMA EvaluatedInTimeInductive ==
    ASSUME TypeOK, EvaluatedInTime, [Next]_vars
    PROVE  EvaluatedInTime'
<1>1. ASSUME UNCHANGED <<log, pub>> PROVE EvaluatedInTime'
  BY <1>1 DEF EvaluatedInTime
<1>2. ASSUME NEW p \in Publishers, log' = log,
             \A q \in Publishers \ {p} : pub'[q] = pub[q],
             pub'[p].step = "signed" => pub'[p].statement.issued_at < SilentFrom
      PROVE  EvaluatedInTime'
  BY <1>2 DEF EvaluatedInTime
<1>3. ASSUME NEW p \in Publishers, NEW key \in SigningKeys, Load(p, key)
      PROVE  EvaluatedInTime'
  BY <1>2, <1>3 DEF Load, TypeOK
<1>4. ASSUME NEW p \in Publishers, EvaluateAndSign(p) PROVE EvaluatedInTime'
  <2> DEFINE statement == BuildStatement(CheckAt(pub[p].snapshot, now))
  <2>1. statement.issued_at = now /\ now < SilentFrom
    BY <1>4 DEF EvaluateAndSign, BuildStatement, CheckAt, Evaluate
  <2>2. \/ pub'[p] = Idle
        \/ pub'[p] = [step |-> "signed", snapshot |-> pub[p].snapshot,
                      statement |-> statement]
    BY <1>4 DEF EvaluateAndSign, TypeOK
  <2> HIDE DEF statement
  <2>3. pub'[p].step = "signed" => pub'[p].statement.issued_at < SilentFrom
    BY <2>1, <2>2 DEF Idle
  <2> QED BY <1>2, <1>4, <2>3 DEF EvaluateAndSign, TypeOK
<1>5. ASSUME NEW p \in Publishers, Publish(p) PROVE EvaluatedInTime'
  <2>1. pub[p].step = "signed" /\ pub[p].statement.issued_at < SilentFrom
    BY <1>5 DEF Publish, EvaluatedInTime
  <2>2. \A i \in DOMAIN log' : log'[i].issued_at < SilentFrom
    <3> SUFFICES ASSUME NEW i \in DOMAIN log' PROVE log'[i].issued_at < SilentFrom
      OBVIOUS
    <3>1. pub[p].statement \in ConformanceStatement
      BY <2>1 DEF TypeOK, PublisherState, Idle
    <3>2. log \in Seq(ConformanceStatement) /\ log' = Append(log, pub[p].statement)
      BY <1>5 DEF Publish, TypeOK
    <3>3. \/ i \in DOMAIN log /\ log'[i] = log[i]
          \/ log'[i] = pub[p].statement
      BY <3>1, <3>2, AppendAt
    <3> QED BY <2>1, <3>3 DEF EvaluatedInTime
  <2>3. \A q \in Publishers : pub'[q].step = "signed" => pub'[q] = pub[q]
    BY <1>5 DEF Publish, TypeOK, Idle
  <2> QED BY <2>2, <2>3 DEF EvaluatedInTime
<1>6. ASSUME NEW p \in Publishers, Abandon(p) PROVE EvaluatedInTime'
  BY <1>2, <1>6 DEF Abandon, TypeOK, Idle
<1>7. ASSUME NEW c \in Controls, NEW plane \in Planes, NEW lag \in Lags[c][plane],
             NEW body \in Emissions[c][plane], Emit(c, plane, body, lag)
      PROVE  EvaluatedInTime'
  BY <1>1, <1>7 DEF Emit
<1>8. CASE Tick \/ Rescope \/ UNCHANGED vars
  BY <1>1, <1>8 DEF Tick, Rescope, vars
<1> QED BY <1>3, <1>4, <1>5, <1>6, <1>7, <1>8 DEF Next

\* A subject that stops evaluating has lost every badge a ceiling and a grace
\* period later: state_at needs no step of anybody's for it, and a publisher that
\* was slow to append cannot put it off (the safety half of SilenceLapses).
THEOREM SilenceEndsBadges == Spec => []LapsedInTime
<1>1. Init => EvaluatedInTime
  BY DEF Init, EvaluatedInTime, Idle
<1>2. TypeOK /\ EvaluatedInTime /\ [Next]_vars => EvaluatedInTime'
  BY EvaluatedInTimeInductive
<1>3. TypeOK /\ Provenance /\ EvaluatedInTime => LapsedInTime
  <2> SUFFICES
        ASSUME TypeOK, Provenance, EvaluatedInTime, NEW i \in DOMAIN log,
               now >= (SilentFrom - 1) + MaxLease[log[i].tier] + Grace[log[i].tier]
        PROVE  BadgeAt(i, now) \in {EXPIRED, REVOKED}
    BY DEF LapsedInTime
  <2> DEFINE run == CheckAt(basis[i], log[i].issued_at)
             ceiling == MaxLease[log[i].tier]
             grace == Grace[log[i].tier]
  <2>1. basis[i] \in Snapshot /\ log[i] \in ConformanceStatement
    BY DEF TypeOK
  <2>2. log[i].issued_at \in Times /\ log[i].issued_at < SilentFrom
    BY <2>1 DEF EvaluatedInTime, ConformanceStatement
  <2>3. log[i] = BuildStatement(run)
    BY DEF Provenance, IssuedFrom
  <2>4. /\ log[i].tier = run.tier
        /\ log[i].expires_at = StaleAfter(run) + Grace[run.tier]
    BY <2>3 DEF BuildStatement
  <2>5. /\ StaleAfter(run) \in Nat
        /\ StaleAfter(run) <= log[i].issued_at + MaxLease[run.tier]
    BY <2>1, <2>2, SnapshotType, StaleAfterIsSoonest DEF CheckAt
  <2>6. /\ ceiling \in Nat /\ grace \in Nat /\ now \in Nat
        /\ log[i].issued_at \in Nat /\ SilentFrom \in Nat
    BY <2>1, <2>2, GraceAssumption, MaxLeaseAssumption, HorizonAssumption,
       BoundsAssumption DEF TypeOK, Times, ConformanceStatement
  <2>7. log[i].expires_at = StaleAfter(run) + grace
        /\ StaleAfter(run) <= log[i].issued_at + ceiling
    BY <2>4, <2>5
  <2> HIDE DEF run
  <2>8. now >= (SilentFrom - 1) + ceiling + grace
    OBVIOUS
  <2> HIDE DEF ceiling, grace
  <2>9. now >= log[i].expires_at
    BY <2>2, <2>5, <2>6, <2>7, <2>8
  <2> QED BY <2>9 DEF BadgeAt, StateAt
<1> QED BY <1>1, <1>2, <1>3, TypeCorrect, ProvenanceHolds, PTL DEF Spec
===============================================================================
