--------------------------- MODULE InheritanceProofs --------------------------
(* Type correctness of Inheritance, that assurance is not laundered upward,    *)
(* and that an upstream's lapse reaches its dependents: for every set of       *)
(* systems, scoping files and publications, in a cycle of references too.      *)
EXTENDS Inheritance, StatementProofs, FiniteSetTheorems

\* What looking an upstream up finds has one of the four forms.
LEMMA LookUpType ==
    ASSUME TypeOK, NEW s \in Systems, NEW c \in Controls
    PROVE  LookUp(s, c) \in Lookup
<1> DEFINE u == scoping[s].upstream[c]
<1>1. u \in Systems \cup {None}
  BY DEF TypeOK, Scoping
<1>2. CASE u = None
  BY <1>2 DEF LookUp, Lookup, Tiers
<1>3. CASE u # None /\ ~intact[u]
  BY <1>3 DEF LookUp, Lookup, Tiers
<1>4. CASE u # None /\ intact[u] /\ latest[u] = None
  BY <1>4 DEF LookUp, Lookup, Tiers
<1>5. CASE u # None /\ intact[u] /\ latest[u] # None
  <2>1. latest[u] \in Entry
    BY <1>1, <1>5 DEF TypeOK
  <2>2. latest[u].statement.tier \in Tiers
    BY <2>1 DEF Entry, ConformanceStatement
  <2>3. StateAt(latest[u].statement, now) \in {VALID, LEASE_STALE, EXPIRED, REVOKED}
    BY DEF StateAt
  <2>4. LookUp(s, c) = [found |-> "statement", tier |-> latest[u].statement.tier,
                        state |-> StateAt(latest[u].statement, now)]
    BY <1>5 DEF LookUp
  <2> QED BY <2>2, <2>3, <2>4 DEF Lookup
<1> QED BY <1>2, <1>3, <1>4, <1>5

\* What a publish process holds between evaluating and appending is an entry.
LEMMA EntryType ==
    ASSUME TypeOK, NEW s \in Systems, EvaluateAndSign(s)
    PROVE  /\ running'[s] \in Entry
           /\ running' = [running EXCEPT ![s] = running'[s]]
           /\ running'[s].statement = BuildStatement(CheckNow(s))
           /\ running'[s].soa = scoping[s].soa
           /\ \A c \in Controls :
                 running'[s].rests_on[c] =
                    LET u == scoping[s].upstream[c] IN
                    IF u = None THEN None
                    ELSE IF latest[u] = None THEN None ELSE latest[u].statement
<1> DEFINE Rest(c) == LET u == scoping[s].upstream[c] IN
                      IF u = None THEN None
                      ELSE IF latest[u] = None THEN None ELSE latest[u].statement
           entry == [statement |-> BuildStatement(CheckNow(s)),
                     soa |-> scoping[s].soa,
                     rests_on |-> [c \in Controls |-> Rest(c)]]
<1>1. running' = [running EXCEPT ![s] = entry] /\ running'[s] = entry
  BY DEF EvaluateAndSign, TypeOK
<1>2. scoping[s].soa \in SoA /\ evidence[s] \in EvidenceIndex /\ now \in Times
  BY DEF TypeOK, Scoping
<1>3. [c \in Controls |-> LookUp(s, c)] \in [Controls -> Lookup]
  BY LookUpType
<1>4. BuildStatement(CheckNow(s)) \in ConformanceStatement
  BY <1>2, <1>3, StatementType DEF CheckNow
<1>5. ASSUME NEW c \in Controls PROVE Rest(c) \in ConformanceStatement \cup {None}
  <2>1. scoping[s].upstream[c] \in Systems \cup {None}
    BY DEF TypeOK, Scoping
  <2>2. \A u \in Systems : latest[u] # None =>
            latest[u].statement \in ConformanceStatement
    BY DEF TypeOK, Entry
  <2> QED BY <2>1, <2>2
<1> HIDE DEF Rest
<1>6. entry \in Entry
  BY <1>2, <1>4, <1>5 DEF Entry
<1>7. /\ entry.rests_on = [c \in Controls |-> Rest(c)]
      /\ entry.statement = BuildStatement(CheckNow(s)) /\ entry.soa = scoping[s].soa
  OBVIOUS
<1> HIDE DEF entry
<1>8. \A c \in Controls : running'[s].rests_on[c] = Rest(c)
  BY <1>1, <1>7
<1>9. /\ running'[s] \in Entry /\ running' = [running EXCEPT ![s] = running'[s]]
      /\ running'[s].statement = BuildStatement(CheckNow(s))
      /\ running'[s].soa = scoping[s].soa
  BY <1>1, <1>6, <1>7
<1> QED BY <1>8, <1>9 DEF Rest

\* The state of Inheritance always has its types.
THEOREM InheritanceTypeCorrect == Spec => []TypeOK
<1>1. Init => TypeOK
  <2> SUFFICES ASSUME Init PROVE TypeOK OBVIOUS
  <2>1. now \in Times BY HorizonAssumption DEF Init, Times
  <2>2. evidence \in [Systems -> EvidenceIndex] BY DEF Init, EvidenceIndex
  <2>3. \A s \in Systems : scoping[s] \in Scopings[s] BY DEF Init
  <2>4. scoping \in [Systems -> Scoping]
    BY <2>3, ScopingsAssumption DEF Init
  <2> QED BY <2>1, <2>2, <2>3, <2>4 DEF Init, TypeOK
<1>2. TypeOK /\ [Next]_vars => TypeOK'
  <2> SUFFICES ASSUME TypeOK, [Next]_vars PROVE TypeOK' OBVIOUS
  <2>1. CASE Tick
    BY <2>1, HorizonAssumption DEF Tick, TypeOK, Times
  <2>2. ASSUME NEW s \in Systems, NEW c \in Controls, Declare(s, c) PROVE TypeOK'
    <3> DEFINE record == [window_to |-> now, scheme |-> "ed25519", verified |-> TRUE,
                          enabled |-> "true", traffic |-> "missing",
                          decisions |-> "missing"]
    <3>1. record \in EvidenceRecord
      BY DEF TypeOK, EvidenceRecord, Schemes, Volumes
    <3>2. evidence' = [evidence EXCEPT ![s][c][CONTROL_PLANE] = <<record>>]
      BY <2>2 DEF Declare
    <3>3. evidence \in [Systems -> [Controls -> [Planes -> Seq(EvidenceRecord)]]]
      BY DEF TypeOK, EvidenceIndex
    <3>4. <<record>> \in Seq(EvidenceRecord)
      BY <3>1
    <3> HIDE DEF record
    <3>5. evidence' = [evidence EXCEPT ![s] = [evidence[s] EXCEPT ![c] =
                          [evidence[s][c] EXCEPT ![CONTROL_PLANE] = <<record>>]]]
      BY <3>2, <3>3
    <3>6. [evidence[s][c] EXCEPT ![CONTROL_PLANE] = <<record>>]
          \in [Planes -> Seq(EvidenceRecord)]
      BY <3>3, <3>4
    <3>7. evidence' \in [Systems -> EvidenceIndex]
      BY <3>3, <3>5, <3>6 DEF EvidenceIndex
    <3> QED BY <2>2, <3>7 DEF Declare, TypeOK
  <2>3. ASSUME NEW s \in Systems, Rescope(s) PROVE TypeOK'
    <3>1. PICK f \in Scopings[s] : scoping' = [scoping EXCEPT ![s] = f]
      BY <2>3 DEF Rescope
    <3>2. f \in Scoping BY ScopingsAssumption
    <3>3. /\ scoping' \in [Systems -> Scoping]
          /\ \A r \in Systems : scoping'[r] \in Scopings[r]
      BY <3>1, <3>2 DEF TypeOK
    <3> QED BY <2>3, <3>3 DEF Rescope, TypeOK
  <2>4. ASSUME NEW s \in Systems, DamageOrRepair(s) PROVE TypeOK'
    <3>1. intact' \in [Systems -> BOOLEAN]
      BY <2>4 DEF DamageOrRepair, TypeOK
    <3> QED BY <2>4, <3>1 DEF DamageOrRepair, TypeOK
  <2>5. ASSUME NEW s \in Systems, EvaluateAndSign(s) PROVE TypeOK'
    <3>1. running' \in [Systems -> Entry \cup {None}]
      BY <2>5, EntryType DEF TypeOK
    <3> QED BY <2>5, <3>1 DEF EvaluateAndSign, TypeOK
  <2>6. ASSUME NEW s \in Systems, Publish(s) PROVE TypeOK'
    <3>1. running[s] \in Entry
      BY <2>6 DEF Publish, TypeOK
    <3>2. running[s].soa.tier \in Tiers
      BY <3>1 DEF Entry, SoA
    <3>3. proved' \subseteq (Controls \X Tiers)
      BY <2>6, <3>2 DEF Publish, TypeOK
    <3>4. /\ latest' \in [Systems -> Entry \cup {None}]
          /\ running' \in [Systems -> Entry \cup {None}]
      BY <2>6, <3>1 DEF Publish, TypeOK
    <3> QED BY <2>6, <3>3, <3>4 DEF Publish, TypeOK
  <2>7. CASE UNCHANGED vars
    BY <2>7 DEF vars, TypeOK
  <2> QED BY <2>1, <2>2, <2>3, <2>4, <2>5, <2>6, <2>7 DEF Next
<1> QED BY <1>1, <1>2, PTL DEF Spec

-------------------------------------------------------------------------------
(* What a conformant run rests on.                                             *)

\* A run that conforms found a valid statement, of its own tier or above, for
\* every control it has to inherit from a log.
LEMMA InheritedFromValid ==
    ASSUME TypeOK, NEW s \in Systems, Conformant(CheckNow(s)),
           NEW c \in Controls, Inherits(scoping[s].soa, c),
           scoping[s].upstream[c] # None \/ scoping[s].soa.tier \in {"T3", "T4"}
    PROVE  LET u == scoping[s].upstream[c]
               basis == latest[u].statement
           IN  /\ u # None /\ latest[u] # None
               /\ u \in Systems /\ latest[u] \in Entry
               /\ basis.conformant /\ now < basis.stale_after
               /\ ~(TierRank(basis.tier) < TierRank(scoping[s].soa.tier))
<1> DEFINE u == scoping[s].upstream[c]
           tier == scoping[s].soa.tier
           up == LookUp(s, c)
           r == CheckNow(s).results[c]
<1>1. r = EvaluateInherited("required", tier, up)
  <2> DEFINE found == [d \in Controls |-> LookUp(s, d)]
  <2>1. r = EvaluateControl(scoping[s].soa, evidence[s], found, now, c)
    BY DEF CheckNow, Evaluate
  <2>2. found[c] = up
    OBVIOUS
  <2>3. /\ scoping[s].soa.entries[c].verdict = INHERITED
        /\ scoping[s].soa.entries[c].obligation = "required"
    BY DEF Inherits
  <2> HIDE DEF found, r
  <2> QED BY <2>1, <2>2, <2>3 DEF EvaluateControl, INHERITED, NOT_APPLICABLE, EXCLUDED
<1>2. ~Blocks(r)
  BY DEF Conformant, BlockingControls
<1>3. r.obligation = "required"
  BY <1>1 DEF EvaluateInherited, ControlResult
<1>4. r.status \notin BLOCKING
  BY <1>2, <1>3 DEF Blocks
<1>5. ~Refused(tier, up) /\ Proven(up)
  BY <1>1, <1>4 DEF EvaluateInherited, ControlResult, BLOCKING, FAIL, STALE, MANUAL
<1>6. u \in Systems \cup {None}
  BY DEF TypeOK, Scoping
<1>7. u # None
  <2>1. u = None => up.found = "asserted"
    BY DEF LookUp
  <2> QED BY <1>5, <2>1 DEF Refused
<1>8. intact[u] /\ latest[u] # None
  <2>1. ~intact[u] => up.found = "broken"
    BY <1>7 DEF LookUp
  <2>2. intact[u] /\ latest[u] = None => up.found = "absent"
    BY <1>7 DEF LookUp
  <2> QED BY <1>5, <2>1, <2>2 DEF Refused
<1>9. up = [found |-> "statement", tier |-> latest[u].statement.tier,
            state |-> StateAt(latest[u].statement, now)]
  BY <1>7, <1>8 DEF LookUp
<1>10. /\ StateAt(latest[u].statement, now) = VALID
       /\ ~(TierRank(latest[u].statement.tier) < TierRank(tier))
  BY <1>5, <1>9 DEF Proven, Refused
<1>11. latest[u] \in Entry
  BY <1>6, <1>7, <1>8 DEF TypeOK
<1>12. latest[u].statement.stale_after \in Int /\ now \in Int
  BY <1>11, HorizonAssumption DEF Entry, ConformanceStatement, TypeOK, Times
<1>13. latest[u].statement.conformant /\ now < latest[u].statement.stale_after
  BY <1>10, <1>12 DEF StateAt, VALID, LEASE_STALE, EXPIRED, REVOKED
<1> QED BY <1>6, <1>7, <1>8, <1>10, <1>11, <1>13

-------------------------------------------------------------------------------
(* No tier is gained.                                                          *)

\* The tiers are ranked from 1 to 4.
LEMMA TierRanks ==
    /\ TierRank("T1") = 1 /\ TierRank("T2") = 2
    /\ TierRank("T3") = 3 /\ TierRank("T4") = 4
<1>1. TierOrder[1] = "T1" /\ TierOrder[2] = "T2"
      /\ TierOrder[3] = "T3" /\ TierOrder[4] = "T4"
  BY DEF TierOrder
<1>2. 1..4 = {1, 2, 3, 4}
  OBVIOUS
<1>3. \A i \in 1..4 : /\ TierOrder[i] = "T1" <=> i = 1
                      /\ TierOrder[i] = "T2" <=> i = 2
                      /\ TierOrder[i] = "T3" <=> i = 3
                      /\ TierOrder[i] = "T4" <=> i = 4
  BY <1>1, <1>2
<1> HIDE DEF TierOrder
<1>4. \A t : \A k \in 1..4 :
         (\A i \in 1..4 : TierOrder[i] = t <=> i = k) => TierRank(t) = k
  BY DEF TierRank
<1> QED BY <1>2, <1>3, <1>4

\* Which controls a statement proves it does not say (D17-C01 leaves that to an
\* assessment): where a scoping file names an upstream for a control, the
\* upstream proves that control in each of its own scoping files, or inherits it.
UpstreamsHold ==
    \A s \in Systems : \A f \in Scopings[s], c \in Controls :
        Inherits(f.soa, c) /\ f.upstream[c] # None
            => \A g \in Scopings[f.upstream[c]] :
                  Proves(g.soa, c) \/ Inherits(g.soa, c)

\* Somebody proved the control at this tier or above.
Backed(c, tier) ==
    \E t \in Tiers : TierRank(t) >= TierRank(tier) /\ <<c, t>> \in proved

\* An entry made by system s comes from one of its scoping files, and if it is
\* conformant from T3 up, what it inherits was proved by somebody.
EntryGrounded(s, e) ==
    /\ \E f \in Scopings[s] : f.soa = e.soa
    /\ e.statement.tier = e.soa.tier
    /\ e.statement.conformant /\ e.soa.tier \in {"T3", "T4"}
       => \A c \in Controls : Inherits(e.soa, c) => Backed(c, e.soa.tier)

\* What makes NoLaundering inductive: the same of entries on their way to a log,
\* and that an entry that is out counts as a proof of what it proves itself.
Grounded ==
    \A s \in Systems :
        /\ running[s] # None => EntryGrounded(s, running[s])
        /\ latest[s] # None =>
              /\ EntryGrounded(s, latest[s])
              /\ latest[s].statement.conformant =>
                    \A c \in Controls : Proves(latest[s].soa, c)
                        => <<c, latest[s].soa.tier>> \in proved

\* A system that evaluates as conformant on an inherited control from T3 up rests
\* on an upstream that was itself grounded.
LEMMA EvaluatedIsGrounded ==
    ASSUME UpstreamsHold, TypeOK, Grounded, NEW s \in Systems, EvaluateAndSign(s)
    PROVE  EntryGrounded(s, running'[s])
<1> DEFINE soa == scoping[s].soa
           e == running'[s]
<1>1. /\ e.statement = BuildStatement(CheckNow(s)) /\ e.soa = soa
      /\ scoping[s] \in Scopings[s] /\ scoping[s] \in Scoping
  BY EntryType DEF TypeOK
<1>2. /\ BuildStatement(CheckNow(s)).tier = soa.tier
      /\ BuildStatement(CheckNow(s)).conformant = Conformant(CheckNow(s))
  BY DEF BuildStatement, CheckNow, Evaluate
<1>3. ASSUME Conformant(CheckNow(s)), soa.tier \in {"T3", "T4"},
             NEW c \in Controls, Inherits(soa, c)
      PROVE  Backed(c, soa.tier)
  <2> DEFINE u == scoping[s].upstream[c]
             basis == latest[u].statement
  <2>1. /\ u \in Systems /\ latest[u] \in Entry /\ basis.conformant
        /\ ~(TierRank(basis.tier) < TierRank(soa.tier))
    BY <1>3, InheritedFromValid
  <2>2. u # None /\ latest[u] # None
    BY <1>3, <2>1, InheritedFromValid
  <2>3. basis.tier \in Tiers /\ basis.tier = latest[u].soa.tier
        /\ EntryGrounded(u, latest[u])
    BY <2>1, <2>2 DEF Grounded, EntryGrounded, Entry, ConformanceStatement
  <2>4. TierRank(basis.tier) >= TierRank(soa.tier) /\ basis.tier \in {"T3", "T4"}
    BY <1>3, <2>1, <2>3, TierRanks DEF Tiers
  <2>5. PICK g \in Scopings[u] : g.soa = latest[u].soa
    BY <2>3 DEF EntryGrounded
  <2>6. Proves(latest[u].soa, c) \/ Inherits(latest[u].soa, c)
    BY <1>1, <1>3, <2>2, <2>5 DEF UpstreamsHold
  <2>7. CASE Proves(latest[u].soa, c)
    <3>1. <<c, basis.tier>> \in proved
      BY <2>1, <2>2, <2>3, <2>7 DEF Grounded
    <3> QED BY <2>3, <2>4, <3>1 DEF Backed
  <2>8. CASE Inherits(latest[u].soa, c)
    <3>1. Backed(c, basis.tier)
      BY <2>1, <2>3, <2>4, <2>8 DEF EntryGrounded
    <3>2. PICK t \in Tiers : TierRank(t) >= TierRank(basis.tier) /\ <<c, t>> \in proved
      BY <3>1 DEF Backed
    <3>3. TierRank(t) >= TierRank(soa.tier)
      BY <1>3, <2>3, <2>4, <3>2, TierRanks DEF Tiers
    <3> QED BY <3>2, <3>3 DEF Backed
  <2> QED BY <2>6, <2>7, <2>8
<1> HIDE DEF e, soa
<1>4. e.statement.conformant /\ e.soa.tier \in {"T3", "T4"}
      => \A c \in Controls : Inherits(e.soa, c) => Backed(c, e.soa.tier)
  BY <1>1, <1>2, <1>3
<1> QED BY <1>1, <1>2, <1>4 DEF EntryGrounded, e, soa

\* A claim once proved stays proved: what was grounded remains so.
LEMMA GroundedStays ==
    ASSUME proved \subseteq proved', NEW s, NEW e, EntryGrounded(s, e)
    PROVE  EntryGrounded(s, e)'
<1>1. ASSUME NEW c \in Controls, NEW tier, Backed(c, tier) PROVE Backed(c, tier)'
  BY <1>1 DEF Backed
<1> QED BY <1>1 DEF EntryGrounded

\* Every step keeps every entry grounded.
LEMMA GroundedInductive ==
    ASSUME UpstreamsHold, TypeOK, Grounded, [Next]_vars
    PROVE  Grounded'
<1>1. ASSUME UNCHANGED <<running, latest, proved>> PROVE Grounded'
  BY <1>1 DEF Grounded, EntryGrounded, Backed
<1>2. ASSUME NEW s \in Systems, EvaluateAndSign(s) PROVE Grounded'
  <2>1. proved' = proved /\ latest' = latest
    BY <1>2 DEF EvaluateAndSign
  <2>2. \A r \in Systems \ {s} : running'[r] = running[r]
    BY <1>2, EntryType DEF TypeOK
  <2>3. \A r, e : EntryGrounded(r, e) => EntryGrounded(r, e)'
    BY <2>1, GroundedStays
  <2>4. EntryGrounded(s, running'[s])
    BY <1>2, EvaluatedIsGrounded
  <2>5. \A r \in Systems : running'[r] # None => EntryGrounded(r, running'[r])
    BY <2>2, <2>4 DEF Grounded
  <2>6. \A r \in Systems : running'[r] # None => EntryGrounded(r, running[r])'
    BY <2>1, <2>5 DEF EntryGrounded, Backed
  <2>7. \A r \in Systems :
           latest'[r] # None =>
              /\ EntryGrounded(r, latest[r])'
              /\ latest'[r].statement.conformant =>
                    \A c \in Controls : Proves(latest'[r].soa, c)
                        => <<c, latest'[r].soa.tier>> \in proved'
    BY <2>1 DEF Grounded, EntryGrounded, Backed
  <2> QED BY <2>6, <2>7 DEF Grounded
<1>3. ASSUME NEW s \in Systems, Publish(s) PROVE Grounded'
  <2> DEFINE e == running[s]
  <2>1. /\ e # None /\ EntryGrounded(s, e)
        /\ latest' = [latest EXCEPT ![s] = e]
        /\ running' = [running EXCEPT ![s] = None]
    BY <1>3 DEF Publish, Grounded
  <2>2. proved \subseteq proved'
    BY <1>3 DEF Publish
  <2>3. e.statement.conformant =>
           \A c \in Controls : Proves(e.soa, c) => <<c, e.soa.tier>> \in proved'
    BY <1>3 DEF Publish
  <2>4. \A r, x : EntryGrounded(r, x) => EntryGrounded(r, x)'
    BY <2>2, GroundedStays
  <2> HIDE DEF e
  <2>5. latest'[s] = e /\ running'[s] = None
    BY <2>1 DEF TypeOK
  <2>6. \A r \in Systems \ {s} : latest'[r] = latest[r] /\ running'[r] = running[r]
    BY <2>1 DEF TypeOK
  <2>7. \A r \in Systems : \A x :
           \/ x = running'[r] /\ x # None
           \/ x = latest'[r] /\ x # None
           => EntryGrounded(r, x)'
    BY <2>1, <2>4, <2>5, <2>6 DEF Grounded
  <2>8. \A r \in Systems :
           latest'[r] # None /\ latest'[r].statement.conformant =>
              \A c \in Controls : Proves(latest'[r].soa, c)
                  => <<c, latest'[r].soa.tier>> \in proved'
    BY <2>2, <2>3, <2>5, <2>6 DEF Grounded
  <2>9. \A r \in Systems :
           /\ running'[r] # None => EntryGrounded(r, running[r])'
           /\ latest'[r] # None => EntryGrounded(r, latest[r])'
    BY <2>7 DEF EntryGrounded, Backed
  <2> QED BY <2>8, <2>9 DEF Grounded
<1>4. CASE Tick
  BY <1>1, <1>4 DEF Tick
<1>5. ASSUME NEW s \in Systems, NEW c \in Controls, Declare(s, c) PROVE Grounded'
  BY <1>1, <1>5 DEF Declare
<1>6. ASSUME NEW s \in Systems, Rescope(s) PROVE Grounded'
  BY <1>1, <1>6 DEF Rescope
<1>7. ASSUME NEW s \in Systems, DamageOrRepair(s) PROVE Grounded'
  BY <1>1, <1>7 DEF DamageOrRepair
<1>8. CASE UNCHANGED vars
  BY <1>1, <1>8 DEF vars
<1> QED BY <1>2, <1>3, <1>4, <1>5, <1>6, <1>7, <1>8 DEF Next

\* Assurance cannot be laundered upward: for any number of systems, scoping files
\* and overlapping publications, references in a cycle included, whoever is
\* conformant from T3 up on an inherited control, somebody was conformant on it
\* with evidence of its own at that tier or above.
THEOREM NothingIsLaundered ==
    ASSUME UpstreamsHold
    PROVE  Spec => []NoLaundering
<1>1. Init => Grounded
  BY DEF Init, Grounded
<1>2. TypeOK /\ Grounded /\ [Next]_vars => Grounded'
  BY GroundedInductive
<1>3. Grounded => NoLaundering
  BY DEF Grounded, EntryGrounded, Backed, NoLaundering
<1> QED BY <1>1, <1>2, <1>3, InheritanceTypeCorrect, PTL DEF Spec

-------------------------------------------------------------------------------
(* An upstream's lapse reaches its dependents.                                 *)

\* No record's window ends after the present.
NoForwardDating ==
    \A s \in Systems, c \in Controls, p \in Planes :
        \A i \in DOMAIN evidence[s][c][p] : evidence[s][c][p][i].window_to <= now

\* What a conformant entry's own deadline is no later than, and that what it
\* rests on was valid when it was made.
EntryBounded(e) ==
    LET s == e.statement
        window(c) == Catalog[c].freshness[e.soa.tier]
    IN  s.conformant =>
          /\ s.stale_after <= s.issued_at + MaxLease[e.soa.tier]
          /\ \A c \in Controls :
                /\ Proves(e.soa, c) /\ window(c) \notin {None, 0}
                      => s.stale_after <= s.issued_at + window(c)
                /\ Inherits(e.soa, c) /\ e.rests_on[c] # None
                      => s.issued_at < e.rests_on[c].stale_after

\* What makes DecayPropagates inductive.
Bounded ==
    /\ NoForwardDating
    /\ \A s \in Systems : /\ running[s] # None => EntryBounded(running[s])
                          /\ latest[s] # None => EntryBounded(latest[s])

\* A control that a conformant run proves sets a deadline: a window after the end
\* of one of its own records.
LEMMA OwnDeadline ==
    ASSUME TypeOK, NEW s \in Systems, Conformant(CheckNow(s)),
           NEW c \in Controls, Proves(scoping[s].soa, c),
           Catalog[c].freshness[scoping[s].soa.tier] \notin {None, 0}
    PROVE  \E p \in Planes : \E i \in DOMAIN evidence[s][c][p] :
              /\ evidence[s][c][p][i].window_to \in Nat
              /\ evidence[s][c][p][i].window_to
                    + Catalog[c].freshness[scoping[s].soa.tier]
                 \in ControlDeadlines(CheckNow(s))
<1> DEFINE tier == scoping[s].soa.tier
           planes == evidence[s][c]
           method == Catalog[c].method
           limit == Catalog[c].freshness[tier]
           r == CheckNow(s).results[c]
           found == [d \in Controls |-> LookUp(s, d)]
           judged(required) == Judge(c, required, "required", tier, planes, now)
<1>1. /\ tier \in Tiers /\ planes \in [Planes -> Seq(EvidenceRecord)]
      /\ Catalog[c] \in Verification /\ now \in Times /\ now \in Nat
  BY CatalogAssumption, HorizonAssumption
     DEF TypeOK, Scoping, SoA, EvidenceIndex, Times
<1>2. /\ limit \in Nat \ {0} /\ method \in Methods /\ limit # None
      /\ Catalog[c].planes \in SUBSET Planes /\ Catalog[c].planes # {}
  BY <1>1 DEF Verification
<1>3. r = EvaluateControl(scoping[s].soa, evidence[s], found, now, c)
  BY DEF CheckNow, Evaluate
<1>4. /\ scoping[s].soa.entries[c].verdict = APPLIES
      /\ scoping[s].soa.entries[c].obligation = "required"
  BY DEF Proves
<1> HIDE DEF found
<1>5. \/ r = judged(Catalog[c].planes) \/ r = judged({CONTROL_PLANE})
      \/ r = ControlResult(MANUAL, "required", FALSE, None, None)
  <2> HIDE DEF r
  <2> QED BY <1>3, <1>4 DEF EvaluateControl, EvaluateEmitted, EvaluateDeclared,
                  APPLIES, NOT_APPLICABLE, EXCLUDED, INHERITED
<1>6. ~Blocks(r)
  BY DEF Conformant, BlockingControls
<1>7. r # ControlResult(MANUAL, "required", FALSE, None, None)
  BY <1>6 DEF ControlResult, Blocks, BLOCKING
<1>8. PICK required \in SUBSET Planes : required # {} /\ r = judged(required)
  <2>1. {CONTROL_PLANE} \in SUBSET Planes /\ {CONTROL_PLANE} # {}
    BY DEF Planes
  <2> HIDE DEF r, judged
  <2> QED BY <1>2, <1>5, <1>7, <2>1
<1>9. PICK base \in {PASS, FAIL}, disqualifying \in BOOLEAN,
           oldest \in Times \cup {None} :
        /\ base = PASS => oldest # None
        /\ oldest # None => \E p \in Planes : \E i \in DOMAIN planes[p] :
                               oldest = planes[p][i].window_to
        /\ r = Dated(base, "required", disqualifying, oldest, limit, now)
  <2>1. JudgeHasForm(c, required, "required", tier, planes)
    <3> HIDE DEF planes, tier
    <3> QED BY <1>1, <1>8, JudgeForm
  <2> HIDE DEF planes, r, limit
  <2> QED BY <1>1, <1>8, <2>1 DEF JudgeHasForm, limit
<1>10. /\ r.obligation = "required"
       /\ r.status = IF base = PASS /\ limit # None /\ now - oldest > limit
                     THEN STALE ELSE base
       /\ r.age = IF oldest = None THEN None ELSE now - oldest
       /\ r.window = IF limit \in {None, 0} THEN None ELSE limit
  <2> HIDE DEF r
  <2> QED BY <1>9 DEF Dated, ControlResult
<1>11. base = PASS
  BY <1>6, <1>9, <1>10 DEF Blocks, BLOCKING, FAIL, STALE
<1>12. oldest \in Nat
  <2>1. oldest # None /\ oldest \in Times BY <1>9, <1>11
  <2> QED BY <2>1, HorizonAssumption DEF Times
<1>13. r.age = now - oldest /\ r.window = limit /\ r.age # None /\ r.window # None
  <2>1. now - oldest \in Int BY <1>1, <1>12
  <2>2. None \notin Int BY NoneAssumption
  <2> HIDE DEF r, limit
  <2> QED BY <1>2, <1>10, <1>12, <2>1, <2>2
<1>14. now + (r.window - r.age) \in ControlDeadlines(CheckNow(s))
  <2>1. CheckNow(s).evaluated_at = now
    BY DEF CheckNow, Evaluate
  <2> QED BY <1>10, <1>13, <2>1 DEF ControlDeadlines
<1>15. now + (r.window - r.age) = oldest + limit
  <2> HIDE DEF r, limit
  <2> QED BY <1>1, <1>2, <1>12, <1>13
<1>16. PICK p \in Planes : \E i \in DOMAIN planes[p] : oldest = planes[p][i].window_to
  BY <1>9, <1>11
<1> HIDE DEF r
<1> QED BY <1>12, <1>14, <1>15, <1>16

\* What a system evaluates is bounded in this way.
LEMMA EvaluatedIsBounded ==
    ASSUME TypeOK, NoForwardDating, NEW s \in Systems, EvaluateAndSign(s)
    PROVE  EntryBounded(running'[s])
<1> DEFINE soa == scoping[s].soa
           run == CheckNow(s)
           e == running'[s]
           window(c) == Catalog[c].freshness[soa.tier]
<1>1. /\ e.statement = BuildStatement(run) /\ e.soa = soa
      /\ \A c \in Controls :
            e.rests_on[c] = LET u == scoping[s].upstream[c] IN
                            IF u = None THEN None
                            ELSE IF latest[u] = None THEN None
                            ELSE latest[u].statement
  BY EntryType
<1>2. /\ e.statement.issued_at = now /\ e.statement.stale_after = StaleAfter(run)
      /\ e.statement.conformant = Conformant(run) /\ run.tier = soa.tier
  BY <1>1 DEF BuildStatement, CheckNow, Evaluate
<1>3. now \in Nat /\ now \in Times
  BY HorizonAssumption DEF TypeOK, Times
<1>4. /\ StaleAfter(run) \in Nat /\ StaleAfter(run) <= now + MaxLease[soa.tier]
      /\ \A d \in ControlDeadlines(run) : StaleAfter(run) <= d
  <2>1. soa \in SoA /\ evidence[s] \in EvidenceIndex
    BY DEF TypeOK, Scoping
  <2>2. [c \in Controls |-> LookUp(s, c)] \in [Controls -> Lookup]
    BY LookUpType
  <2> QED BY <1>2, <1>3, <2>1, <2>2, StaleAfterIsSoonest DEF CheckNow
<1>5. ASSUME Conformant(run), NEW c \in Controls, Proves(soa, c),
             window(c) \notin {None, 0}
      PROVE  StaleAfter(run) <= now + window(c)
  <2>1. window(c) \in Nat
    <3>1. soa.tier \in Tiers
      BY DEF TypeOK, Scoping, SoA
    <3> QED BY <1>5, <3>1, CatalogAssumption DEF Verification
  <2>2. PICK p \in Planes : \E i \in DOMAIN evidence[s][c][p] :
           /\ evidence[s][c][p][i].window_to \in Nat
           /\ evidence[s][c][p][i].window_to + window(c) \in ControlDeadlines(run)
    BY <1>5, OwnDeadline
  <2>3. PICK i \in DOMAIN evidence[s][c][p] :
           /\ evidence[s][c][p][i].window_to \in Nat
           /\ evidence[s][c][p][i].window_to + window(c) \in ControlDeadlines(run)
    BY <2>2
  <2>4. evidence[s][c][p][i].window_to <= now
    BY <2>3 DEF NoForwardDating
  <2> HIDE DEF window, run
  <2> QED BY <1>3, <1>4, <2>1, <2>3, <2>4
<1>6. ASSUME Conformant(run), NEW c \in Controls, Inherits(soa, c),
             e.rests_on[c] # None
      PROVE  now < e.rests_on[c].stale_after
  <2>1. scoping[s].upstream[c] # None
        /\ e.rests_on[c] = latest[scoping[s].upstream[c]].statement
    BY <1>1, <1>6
  <2> QED BY <1>6, <2>1, InheritedFromValid
<1> HIDE DEF run, soa
<1>7. ASSUME e.statement.conformant
      PROVE  /\ e.statement.stale_after <= e.statement.issued_at + MaxLease[e.soa.tier]
             /\ \A c \in Controls :
                   /\ Proves(e.soa, c) /\ window(c) \notin {None, 0}
                         => e.statement.stale_after
                            <= e.statement.issued_at + window(c)
                   /\ Inherits(e.soa, c) /\ e.rests_on[c] # None
                         => e.statement.issued_at < e.rests_on[c].stale_after
  <2> HIDE DEF e, window
  <2> QED BY <1>1, <1>2, <1>4, <1>5, <1>6, <1>7
<1>8. e.soa = soa
  BY <1>1
<1> HIDE DEF e
<1>9. EntryBounded(e)
  BY <1>7, <1>8 DEF EntryBounded
<1> QED BY <1>9 DEF e

\* Every step keeps every entry bounded.
LEMMA BoundedInductive ==
    ASSUME TypeOK, Bounded, [Next]_vars
    PROVE  Bounded'
<1>1. ASSUME UNCHANGED <<evidence, running, latest>>, now' \in Nat, now <= now'
      PROVE  Bounded'
  <2>1. NoForwardDating'
    <3>1. \A s \in Systems, c \in Controls, p \in Planes :
             evidence[s][c][p] \in Seq(EvidenceRecord)
      BY DEF TypeOK, EvidenceIndex
    <3>2. \A s \in Systems, c \in Controls, p \in Planes :
             \A i \in DOMAIN evidence[s][c][p] :
                evidence[s][c][p][i].window_to \in Nat
      <4>1. \A record \in EvidenceRecord : record.window_to \in Nat
        BY HorizonAssumption DEF EvidenceRecord, Times
      <4>2. \A files \in Seq(EvidenceRecord) :
               \A i \in DOMAIN files : files[i] \in EvidenceRecord
        OBVIOUS
      <4> QED BY <3>1, <4>1, <4>2
    <3>3. now \in Nat
      BY HorizonAssumption DEF TypeOK, Times
    <3> QED BY <1>1, <3>2, <3>3 DEF Bounded, NoForwardDating
  <2> QED BY <1>1, <2>1 DEF Bounded, EntryBounded
<1>2. now \in Nat
  BY HorizonAssumption DEF TypeOK, Times
<1>3. ASSUME UNCHANGED <<now, evidence, running, latest>> PROVE Bounded'
  BY <1>1, <1>2, <1>3
<1>4. CASE Tick
  BY <1>1, <1>2, <1>4 DEF Tick
<1>5. ASSUME NEW s \in Systems, NEW c \in Controls, Declare(s, c) PROVE Bounded'
  <2>1. NoForwardDating'
    <3> SUFFICES ASSUME NEW r \in Systems, NEW d \in Controls, NEW p \in Planes,
                        NEW i \in DOMAIN evidence'[r][d][p]
                 PROVE  evidence'[r][d][p][i].window_to <= now'
      BY DEF NoForwardDating
    <3>1. evidence \in [Systems -> [Controls -> [Planes -> Seq(EvidenceRecord)]]]
          /\ CONTROL_PLANE \in Planes /\ now' = now
      BY <1>5 DEF TypeOK, EvidenceIndex, Planes, Declare
    <3>2. CASE r = s /\ d = c /\ p = CONTROL_PLANE
      <4>1. evidence'[r][d][p] =
               <<[window_to |-> now, scheme |-> "ed25519", verified |-> TRUE,
                  enabled |-> "true", traffic |-> "missing",
                  decisions |-> "missing"]>>
        BY <1>5, <3>1, <3>2 DEF Declare
      <4>2. i = 1 BY <4>1
      <4> QED BY <1>2, <3>1, <4>1, <4>2
    <3>3. CASE ~(r = s /\ d = c /\ p = CONTROL_PLANE)
      <4>1. evidence'[r][d][p] = evidence[r][d][p]
        BY <1>5, <3>1, <3>3 DEF Declare
      <4> QED BY <3>1, <4>1 DEF Bounded, NoForwardDating
    <3> QED BY <3>2, <3>3
  <2> QED BY <1>5, <2>1 DEF Declare, Bounded, EntryBounded
<1>6. ASSUME NEW s \in Systems, EvaluateAndSign(s) PROVE Bounded'
  <2>1. UNCHANGED <<now, evidence, latest>>
    BY <1>6 DEF EvaluateAndSign
  <2>2. EntryBounded(running'[s])
    BY <1>6, EvaluatedIsBounded DEF Bounded
  <2>3. \A r \in Systems \ {s} : running'[r] = running[r]
    BY <1>6, EntryType DEF TypeOK
  <2>4. \A r \in Systems : running'[r] # None => EntryBounded(running'[r])
    BY <2>2, <2>3 DEF Bounded
  <2> QED BY <2>1, <2>4 DEF Bounded, NoForwardDating, EntryBounded
<1>7. ASSUME NEW s \in Systems, Publish(s) PROVE Bounded'
  <2>1. /\ UNCHANGED <<now, evidence>> /\ running[s] # None
        /\ latest' = [latest EXCEPT ![s] = running[s]]
        /\ running' = [running EXCEPT ![s] = None]
    BY <1>7 DEF Publish
  <2>2. \A r \in Systems : /\ running'[r] # None => EntryBounded(running'[r])
                           /\ latest'[r] # None => EntryBounded(latest'[r])
    BY <2>1 DEF Bounded, TypeOK
  <2> QED BY <2>1, <2>2 DEF Bounded, NoForwardDating, EntryBounded
<1>8. ASSUME NEW s \in Systems, Rescope(s) PROVE Bounded'
  BY <1>3, <1>8 DEF Rescope
<1>9. ASSUME NEW s \in Systems, DamageOrRepair(s) PROVE Bounded'
  BY <1>3, <1>9 DEF DamageOrRepair
<1>10. CASE UNCHANGED vars
  BY <1>3, <1>10 DEF vars
<1> QED BY <1>4, <1>5, <1>6, <1>7, <1>8, <1>9, <1>10 DEF Next

\* D17-C02: when the upstream's lease lapses, the dependent's degrades within one
\* window of any control it proves itself, and at the tier's ceiling at the
\* latest: for every set of systems and of scoping files.
THEOREM LapsesPropagate == Spec => []DecayPropagates
<1>1. Init => Bounded
  BY DEF Init, Bounded, NoForwardDating
<1>2. TypeOK /\ Bounded /\ [Next]_vars => Bounded'
  BY BoundedInductive
<1>3. TypeOK /\ Bounded => DecayPropagates
  <2> SUFFICES ASSUME TypeOK, Bounded, NEW s \in Systems, NEW c \in Controls,
                      latest[s] # None, Badge(s) = VALID,
                      Inherits(latest[s].soa, c), latest[s].rests_on[c] # None
               PROVE  LET soa == latest[s].soa
                          lapse == latest[s].rests_on[c].stale_after
                      IN  /\ now < lapse + MaxLease[soa.tier]
                          /\ \A own \in Controls :
                               /\ Proves(soa, own)
                               /\ Catalog[own].freshness[soa.tier] \notin {None, 0}
                               => now < lapse + Catalog[own].freshness[soa.tier]
    BY DEF DecayPropagates
  <2> DEFINE e == latest[s]
             st == e.statement
             tier == e.soa.tier
             lapse == e.rests_on[c].stale_after
  <2>1. e \in Entry
    BY DEF TypeOK
  <2>2. /\ st.stale_after \in Int /\ st.issued_at \in Int /\ now \in Int
        /\ st.expires_at \in Int /\ lapse \in Int /\ tier \in Tiers
    <3>1. st \in ConformanceStatement /\ e.soa \in SoA
          /\ e.rests_on[c] \in ConformanceStatement
      BY <2>1 DEF Entry
    <3> QED BY <3>1, HorizonAssumption DEF ConformanceStatement, SoA, TypeOK, Times
  <2>3. st.conformant /\ now < st.stale_after
    BY <2>2 DEF Badge, StateAt, VALID, LEASE_STALE, EXPIRED, REVOKED
  <2>4. EntryBounded(e)
    BY DEF Bounded
  <2>5. MaxLease[tier] \in Nat
        /\ \A own \in Controls : Catalog[own].freshness[tier] \in Nat \cup {None}
    BY <2>2, MaxLeaseAssumption, CatalogAssumption DEF Verification
  <2>6. st.issued_at < lapse /\ st.stale_after <= st.issued_at + MaxLease[tier]
    BY <2>3, <2>4 DEF EntryBounded
  <2>7. now < lapse + MaxLease[tier]
    BY <2>2, <2>3, <2>5, <2>6
  <2>8. ASSUME NEW own \in Controls, Proves(e.soa, own),
               Catalog[own].freshness[tier] \notin {None, 0}
        PROVE  now < lapse + Catalog[own].freshness[tier]
    <3>1. st.stale_after <= st.issued_at + Catalog[own].freshness[tier]
      BY <2>3, <2>4, <2>8 DEF EntryBounded
    <3>2. Catalog[own].freshness[tier] \in Int
      BY <2>5, <2>8
    <3> QED BY <2>2, <2>3, <2>6, <3>1, <3>2
  <2> QED BY <2>7, <2>8
<1> QED BY <1>1, <1>2, <1>3, InheritanceTypeCorrect, PTL DEF Spec

-------------------------------------------------------------------------------
(* Without evidence, no badge.                                                 *)

\* Two integers have an upper bound.
LEMMA TwoAreBounded ==
    ASSUME NEW a \in Int, NEW b \in Int
    PROVE  \E m \in Int : a <= m /\ b <= m
<1>1. CASE a <= b BY <1>1
<1>2. CASE b <= a BY <1>2
<1> QED BY <1>1, <1>2

\* The values of a function on a finite set have an upper bound.
LEMMA FiniteIsBounded ==
    ASSUME NEW S, IsFiniteSet(S), NEW f \in [S -> Int]
    PROVE  \E b \in Int : \A x \in S : f[x] <= b
<1> DEFINE Unbounded == {n \in Nat : \E h \in [1..n -> Int] :
                            \A b \in Int : \E i \in 1..n : ~(h[i] <= b)}
<1>1. Unbounded = {}
  <2> SUFFICES ASSUME Unbounded # {} PROVE FALSE OBVIOUS
  <2> DEFINE n == Min(Unbounded)
  <2>1. n \in Unbounded /\ \A m \in Unbounded : n <= m
    BY MinOfNaturals
  <2> HIDE DEF n
  <2>2. PICK h \in [1..n -> Int] : \A b \in Int : \E i \in 1..n : ~(h[i] <= b)
    BY <2>1
  <2>3. n \in Nat BY <2>1
  <2>4. n # 0 BY <2>2, 0 \in Int
  <2>5. n - 1 \in Nat /\ n - 1 \notin Unbounded
    <3>1. n - 1 \in Nat /\ ~(n <= n - 1) BY <2>3, <2>4
    <3> QED BY <2>1, <3>1
  <2> DEFINE g == [i \in 1..(n - 1) |-> h[i]]
  <2>6. g \in [1..(n - 1) -> Int]
    BY <2>2, <2>3
  <2>7. PICK b \in Int : \A i \in 1..(n - 1) : g[i] <= b
    BY <2>5, <2>6
  <2>8. h[n] \in Int BY <2>2, <2>3, <2>4
  <2>9. PICK top \in Int : b <= top /\ h[n] <= top
    BY <2>8, TwoAreBounded
  <2>10. ASSUME NEW i \in 1..n PROVE h[i] <= top
    <3>1. CASE i = n BY <2>9, <3>1
    <3>2. CASE i # n
      <4>1. i \in 1..(n - 1) BY <2>3, <3>2
      <4>2. g[i] = h[i] /\ h[i] \in Int BY <2>2, <4>1
      <4>3. h[i] <= b BY <2>7, <4>1, <4>2
      <4> QED BY <2>7, <2>9, <4>2, <4>3
    <3> QED BY <3>1, <3>2
  <2> QED BY <2>2, <2>9, <2>10
<1> DEFINE N == Cardinality(S)
<1>2. N \in Nat /\ ExistsBijection(1..N, S)
  BY FS_CardinalityType
<1> HIDE DEF N
<1>3. PICK e \in [1..N -> S] : \A x \in S : \E i \in 1..N : e[i] = x
  BY <1>2 DEF ExistsBijection, Bijection, Surjection
<1> DEFINE h == [i \in 1..N |-> f[e[i]]]
<1>4. h \in [1..N -> Int]
  BY <1>3
<1>5. PICK b \in Int : \A i \in 1..N : h[i] <= b
  <2> HIDE DEF h
  <2>1. N \notin Unbounded BY <1>1
  <2> QED BY <1>2, <1>4, <2>1
<1>6. \A x \in S : f[x] <= b
  BY <1>3, <1>5
<1> QED BY <1>6

\* The references lead somewhere: in every scoping file, some required control
\* is proved with a window, or is inherited from the log of a system of lower
\* rank. Systems that only inherit from each other, in a circle, are not so
\* ranked, and can renew on each other's statements for ever.
Ranks(rank) ==
    /\ rank \in [Systems -> 0..(Cardinality(Systems) - 1)]
    /\ \A s \in Systems : \A f \in Scopings[s] : \E c \in Controls :
          \/ Proves(f.soa, c) /\ Catalog[c].freshness[f.soa.tier] \notin {None, 0}
          \/ /\ Inherits(f.soa, c) /\ f.upstream[c] # None
             /\ rank[f.upstream[c]] < rank[s]

Anchored == \E rank : Ranks(rank)

\* What a system of this rank holds lasts no longer than this.
Outlast(rank, s) == QuietFrom - 1 + WidestWindow + rank[s] * HighestCeiling

\* What makes NoEvidenceNoBadge inductive: no evidence is younger than the quiet,
\* and each hop adds no more than a ceiling.
Waning(rank) ==
    /\ \A s \in Systems, c \in Controls, p \in Planes :
          \A i \in DOMAIN evidence[s][c][p] :
             evidence[s][c][p][i].window_to <= QuietFrom - 1
    /\ \A s \in Systems :
          /\ running[s] # None /\ running[s].statement.conformant
                => running[s].statement.stale_after <= Outlast(rank, s)
          /\ latest[s] # None /\ latest[s].statement.conformant
                => latest[s].statement.stale_after <= Outlast(rank, s)

\* The ceilings have a highest one, and no tier in use goes beyond it.
LEMMA CeilingBounds ==
    ASSUME NEW s \in Systems, NEW f \in Scopings[s]
    PROVE  HighestCeiling \in Nat /\ MaxLease[f.soa.tier] <= HighestCeiling
<1> DEFINE S == {MaxLease[t] : t \in TiersInUse}
           top == MaxLease["T1"] + MaxLease["T2"] + MaxLease["T3"] + MaxLease["T4"]
<1>1. TiersInUse \subseteq Tiers
  BY ScopingsAssumption DEF TiersInUse, Scoping, SoA
<1>2. \A t \in Tiers : MaxLease[t] \in Nat
  BY MaxLeaseAssumption
<1>3. top \in Int /\ \A t \in Tiers : MaxLease[t] <= top
  BY <1>2 DEF Tiers
<1>4. f.soa.tier \in TiersInUse
  BY DEF TiersInUse
<1>5. S \in SUBSET Int /\ S \subseteq Nat /\ MaxLease[f.soa.tier] \in S
      /\ \A y \in S : y <= top
  BY <1>1, <1>2, <1>3, <1>4
<1> HIDE DEF S, top
<1>6. Max(S) \in S /\ \A y \in S : y <= Max(S)
  BY <1>3, <1>5, MaxOfBounded, Zenon
<1>7. HighestCeiling = Max(S)
  BY DEF HighestCeiling, S
<1> QED BY <1>5, <1>6, <1>7

\* Where some file proves a control with a window there is a widest window, and
\* no window in use goes beyond it.
LEMMA WindowBounds ==
    ASSUME IsFiniteSet(Controls), Anchored, Systems # {},
           \A s \in Systems : Scopings[s] # {}
    PROVE  /\ WidestWindow \in Int
           /\ \A s \in Systems : \A f \in Scopings[s], c \in Controls :
                 LET window == Catalog[c].freshness[f.soa.tier]
                 IN  window # None => window \in Nat /\ window <= WidestWindow
<1> DEFINE window(c, t) == Catalog[c].freshness[t]
           S == {window(c, t) : c \in Controls, t \in TiersInUse} \ {None}
<1>1. \A c \in Controls, t \in Tiers : window(c, t) \in Nat \cup {None}
  BY CatalogAssumption DEF Verification
<1>2. TiersInUse \subseteq Tiers
      /\ \A s \in Systems : \A f \in Scopings[s] : f.soa.tier \in TiersInUse
  BY ScopingsAssumption DEF TiersInUse, Scoping, SoA
<1>3. ASSUME NEW t \in Tiers
      PROVE  \E b \in Int : \A c \in Controls : window(c, t) # None => window(c, t) <= b
  <2> DEFINE h == [c \in Controls |-> IF window(c, t) = None THEN 0 ELSE window(c, t)]
  <2>1. h \in [Controls -> Int]
    <3> HIDE DEF window
    <3> QED BY <1>1
  <2> HIDE DEF h
  <2>2. PICK b \in Int : \A c \in Controls : h[c] <= b
    BY <2>1, FiniteIsBounded
  <2>3. \A c \in Controls : window(c, t) # None => h[c] = window(c, t)
    BY DEF h
  <2> HIDE DEF window
  <2> QED BY <2>2, <2>3
<1>4. \E b \in Int : \A c \in Controls, t \in Tiers :
                        window(c, t) # None => window(c, t) <= b
  <2> HIDE DEF window
  <2> DEFINE Bound(b, t) ==
               b \in Int /\ \A c \in Controls : window(c, t) # None => window(c, t) <= b
  <2>1. "T1" \in Tiers /\ "T2" \in Tiers /\ "T3" \in Tiers /\ "T4" \in Tiers
    BY DEF Tiers
  <2>2. PICK b1 : Bound(b1, "T1") BY <1>3, <2>1
  <2>3. PICK b2 : Bound(b2, "T2") BY <1>3, <2>1
  <2>4. PICK b3 : Bound(b3, "T3") BY <1>3, <2>1
  <2>5. PICK b4 : Bound(b4, "T4") BY <1>3, <2>1
  <2>7. PICK x \in Int : b1 <= x /\ b2 <= x BY <2>2, <2>3, TwoAreBounded
  <2>8. PICK y \in Int : b3 <= y /\ b4 <= y BY <2>4, <2>5, TwoAreBounded
  <2>9. PICK z \in Int : x <= z /\ y <= z BY TwoAreBounded
  <2>10. ASSUME NEW c \in Controls, NEW t \in Tiers, window(c, t) # None
         PROVE  window(c, t) <= z
    <3>1. window(c, t) \in Int BY <1>1, <2>10
    <3>2. CASE t = "T1" BY <2>2, <2>7, <2>9, <2>10, <3>1, <3>2
    <3>3. CASE t = "T2" BY <2>3, <2>7, <2>9, <2>10, <3>1, <3>3
    <3>4. CASE t = "T3" BY <2>4, <2>8, <2>9, <2>10, <3>1, <3>4
    <3>5. CASE t = "T4" BY <2>5, <2>8, <2>9, <2>10, <3>1, <3>5
    <3> QED BY <3>2, <3>3, <3>4, <3>5 DEF Tiers
  <2> QED BY <2>10
<1>5. PICK top \in Int : \A c \in Controls, t \in Tiers :
                            window(c, t) # None => window(c, t) <= top
  BY <1>4
<1>6. S # {}
  <2> PICK rank : Ranks(rank) BY DEF Anchored
  <2> DEFINE R == {rank[s] : s \in Systems}
  <2>1. \A s \in Systems : rank[s] \in Nat
    BY DEF Ranks
  <2>2. R \in SUBSET Nat /\ R # {}
    BY <2>1
  <2>3. Min(R) \in R /\ \A y \in R : Min(R) <= y
    <3> HIDE DEF R
    <3> QED BY <2>2, MinOfNaturals
  <2>4. PICK s \in Systems : rank[s] = Min(R)
    BY <2>3
  <2>5. \A u \in Systems : ~(rank[u] < rank[s])
    <3>1. \A u \in Systems : rank[u] \in R OBVIOUS
    <3> HIDE DEF R
    <3> QED BY <2>1, <2>3, <2>4, <3>1
  <2>6. PICK f \in Scopings[s] : TRUE
    OBVIOUS
  <2>7. PICK c \in Controls :
           \/ Proves(f.soa, c) /\ Catalog[c].freshness[f.soa.tier] \notin {None, 0}
           \/ /\ Inherits(f.soa, c) /\ f.upstream[c] # None
              /\ rank[f.upstream[c]] < rank[s]
    BY DEF Ranks
  <2>8. f.upstream[c] \in Systems \cup {None}
    BY ScopingsAssumption DEF Scoping
  <2>9. window(c, f.soa.tier) # None /\ f.soa.tier \in TiersInUse
    BY <1>2, <2>5, <2>7, <2>8
  <2>10. window(c, f.soa.tier) \in S
    BY <2>9
  <2> HIDE DEF S
  <2> QED BY <2>10
<1>7. /\ S \in SUBSET Int
      /\ \A y \in S : y \in Nat /\ y <= top
  <2> HIDE DEF window
  <2> QED BY <1>1, <1>2, <1>5
<1>8. Max(S) \in S /\ \A y \in S : y <= Max(S)
  <2> HIDE DEF S
  <2> QED BY <1>6, <1>7, MaxOfBounded, Zenon
<1>9. WidestWindow = Max(S)
  BY DEF WidestWindow
<1>10. ASSUME NEW s \in Systems, NEW f \in Scopings[s], NEW c \in Controls,
              window(c, f.soa.tier) # None
       PROVE  window(c, f.soa.tier) \in Nat /\ window(c, f.soa.tier) <= WidestWindow
  <2>1. window(c, f.soa.tier) \in S
    BY <1>2, <1>10
  <2> HIDE DEF S, window
  <2> QED BY <1>7, <1>8, <1>9, <2>1
<1>11. WidestWindow \in Int
  <2> HIDE DEF S
  <2> QED BY <1>7, <1>8, <1>9
<1> QED BY <1>10, <1>11

\* A hop to a lower rank leaves room for one ceiling.
LEMMA OneHop ==
    ASSUME NEW a \in Nat, NEW b \in Nat, NEW h \in Nat, a < b
    PROVE  a * h + h <= b * h
<1>1. PICK d \in Nat : b = a + 1 + d
  <2>1. b - a - 1 \in Nat /\ b = a + 1 + (b - a - 1) OBVIOUS
  <2> QED BY <2>1
<1>2. b * h = a * h + h + d * h
  BY <1>1
<1>3. d * h \in Nat /\ a * h \in Nat
  OBVIOUS
<1> QED BY <1>2, <1>3

\* What a conformant run holds lasts no longer than its rank allows.
LEMMA EvaluatedIsWaning ==
    ASSUME TypeOK, IsFiniteSet(Controls), NEW rank, Ranks(rank), Waning(rank),
           NEW s \in Systems, Conformant(CheckNow(s))
    PROVE  StaleAfter(CheckNow(s)) <= Outlast(rank, s)
<1> DEFINE f == scoping[s]
           run == CheckNow(s)
           hop == rank[s] * HighestCeiling
<1>1. /\ f \in Scopings[s] /\ f \in Scoping /\ f.soa \in SoA
      /\ evidence[s] \in EvidenceIndex /\ now \in Times /\ now \in Nat
  BY HorizonAssumption DEF TypeOK, Scoping, Times
<1>2. HighestCeiling \in Nat /\ MaxLease[f.soa.tier] <= HighestCeiling
      /\ MaxLease[f.soa.tier] \in Nat
  BY <1>1, CeilingBounds, MaxLeaseAssumption DEF SoA
<1>3. /\ WidestWindow \in Int
      /\ \A c \in Controls :
            LET window == Catalog[c].freshness[f.soa.tier]
            IN  window # None => window \in Nat /\ window <= WidestWindow
  <2>1. \A r \in Systems : Scopings[r] # {} BY DEF TypeOK
  <2>2. Anchored BY DEF Anchored
  <2> QED BY <1>1, <2>1, <2>2, WindowBounds
<1>4. \A r \in Systems : rank[r] \in Nat
  BY DEF Ranks
<1>5. /\ StaleAfter(run) \in Nat /\ StaleAfter(run) <= now + MaxLease[f.soa.tier]
      /\ \A d \in ControlDeadlines(run) : StaleAfter(run) <= d
  <2>1. [c \in Controls |-> LookUp(s, c)] \in [Controls -> Lookup]
    BY LookUpType
  <2>2. run.tier = f.soa.tier
    BY DEF CheckNow, Evaluate
  <2> QED BY <1>1, <2>1, <2>2, StaleAfterIsSoonest DEF CheckNow
<1>6. PICK c \in Controls :
         \/ Proves(f.soa, c) /\ Catalog[c].freshness[f.soa.tier] \notin {None, 0}
         \/ /\ Inherits(f.soa, c) /\ f.upstream[c] # None
            /\ rank[f.upstream[c]] < rank[s]
  BY <1>1 DEF Ranks
<1>7. hop \in Nat /\ Outlast(rank, s) = QuietFrom - 1 + WidestWindow + hop
  BY <1>2, <1>4 DEF Outlast
<1>8. ASSUME Proves(f.soa, c), Catalog[c].freshness[f.soa.tier] \notin {None, 0}
      PROVE  StaleAfter(run) <= Outlast(rank, s)
  <2> DEFINE window == Catalog[c].freshness[f.soa.tier]
  <2>1. PICK p \in Planes : \E i \in DOMAIN evidence[s][c][p] :
           /\ evidence[s][c][p][i].window_to \in Nat
           /\ evidence[s][c][p][i].window_to + window \in ControlDeadlines(run)
    BY <1>8, OwnDeadline
  <2>2. PICK i \in DOMAIN evidence[s][c][p] :
           /\ evidence[s][c][p][i].window_to \in Nat
           /\ evidence[s][c][p][i].window_to + window \in ControlDeadlines(run)
    BY <2>1
  <2>3. evidence[s][c][p][i].window_to <= QuietFrom - 1
    BY <2>2 DEF Waning
  <2>4. window \in Nat /\ window <= WidestWindow
    BY <1>3, <1>8
  <2>5. StaleAfter(run) <= evidence[s][c][p][i].window_to + window
    BY <1>5, <2>2
  <2> HIDE DEF run, hop, window
  <2> QED BY <1>3, <1>5, <1>7, <2>2, <2>3, <2>4, <2>5, QuietFromAssumption
<1>9. ASSUME Inherits(f.soa, c), f.upstream[c] # None,
             rank[f.upstream[c]] < rank[s]
      PROVE  StaleAfter(run) <= Outlast(rank, s)
  <2> DEFINE u == f.upstream[c]
             before == rank[u] * HighestCeiling
  <2>1. /\ u \in Systems /\ latest[u] # None /\ latest[u] \in Entry
        /\ latest[u].statement.conformant /\ now < latest[u].statement.stale_after
    BY <1>9, InheritedFromValid
  <2>2. latest[u].statement.stale_after \in Int
    BY <2>1 DEF Entry, ConformanceStatement
  <2>3. latest[u].statement.stale_after <= QuietFrom - 1 + WidestWindow + before
    BY <2>1 DEF Waning, Outlast
  <2>4. before + HighestCeiling <= hop /\ before \in Nat
    <3>1. rank[u] \in Nat /\ rank[s] \in Nat /\ rank[u] < rank[s]
      BY <1>4, <1>9, <2>1
    <3> HIDE DEF u
    <3>2. before \in Nat
      BY <1>2, <3>1
    <3> QED BY <1>2, <3>1, <3>2, OneHop
  <2> HIDE DEF run, hop, before, u
  <2> QED BY <1>1, <1>2, <1>3, <1>5, <1>7, <2>1, <2>2, <2>3, <2>4, QuietFromAssumption
<1> QED BY <1>6, <1>8, <1>9

\* Every step keeps what is held within its bound.
LEMMA WaningInductive ==
    ASSUME TypeOK, IsFiniteSet(Controls), NEW CONSTANT rank, Ranks(rank), Waning(rank),
           [Next]_vars
    PROVE  Waning(rank)'
<1>1. ASSUME UNCHANGED <<evidence, running, latest>> PROVE Waning(rank)'
  BY <1>1 DEF Waning, Outlast
<1>2. ASSUME NEW s \in Systems, NEW c \in Controls, Declare(s, c) PROVE Waning(rank)'
  <2>1. ASSUME NEW r \in Systems, NEW d \in Controls, NEW p \in Planes,
               NEW i \in DOMAIN evidence'[r][d][p]
        PROVE  evidence'[r][d][p][i].window_to <= QuietFrom - 1
    <3>1. evidence \in [Systems -> [Controls -> [Planes -> Seq(EvidenceRecord)]]]
          /\ CONTROL_PLANE \in Planes
      BY DEF TypeOK, EvidenceIndex, Planes
    <3>2. CASE r = s /\ d = c /\ p = CONTROL_PLANE
      <4>1. evidence'[r][d][p] =
               <<[window_to |-> now, scheme |-> "ed25519", verified |-> TRUE,
                  enabled |-> "true", traffic |-> "missing",
                  decisions |-> "missing"]>>
        BY <1>2, <3>1, <3>2 DEF Declare
      <4>2. i = 1 BY <2>1, <4>1
      <4>3. now < QuietFrom /\ now \in Nat
        BY <1>2, HorizonAssumption DEF Declare, TypeOK, Times
      <4> QED BY <4>1, <4>2, <4>3, QuietFromAssumption
    <3>3. CASE ~(r = s /\ d = c /\ p = CONTROL_PLANE)
      <4>1. evidence'[r][d][p] = evidence[r][d][p]
        BY <1>2, <3>1, <3>3 DEF Declare
      <4> QED BY <2>1, <4>1 DEF Waning
    <3> QED BY <3>2, <3>3
  <2>2. UNCHANGED <<running, latest>>
    BY <1>2 DEF Declare
  <2> QED BY <2>1, <2>2 DEF Waning, Outlast
<1>3. ASSUME NEW s \in Systems, EvaluateAndSign(s) PROVE Waning(rank)'
  <2>1. UNCHANGED <<evidence, latest>>
    BY <1>3 DEF EvaluateAndSign
  <2>2. running'[s].statement.conformant
           => running'[s].statement.stale_after <= Outlast(rank, s)
    <3>1. /\ running'[s].statement.conformant = Conformant(CheckNow(s))
          /\ running'[s].statement.stale_after = StaleAfter(CheckNow(s))
      <4>1. running'[s].statement = BuildStatement(CheckNow(s))
        BY <1>3, EntryType
      <4>2. /\ BuildStatement(CheckNow(s)).conformant = Conformant(CheckNow(s))
            /\ BuildStatement(CheckNow(s)).stale_after = StaleAfter(CheckNow(s))
        BY DEF BuildStatement
      <4> QED BY <4>1, <4>2
    <3> QED BY <3>1, EvaluatedIsWaning
  <2>3. \A r \in Systems \ {s} : running'[r] = running[r]
    BY <1>3, EntryType DEF TypeOK
  <2>4. \A r \in Systems : running'[r] # None /\ running'[r].statement.conformant
           => running'[r].statement.stale_after <= Outlast(rank, r)
    BY <2>2, <2>3 DEF Waning
  <2> QED BY <2>1, <2>4 DEF Waning, Outlast
<1>4. ASSUME NEW s \in Systems, Publish(s) PROVE Waning(rank)'
  <2>1. /\ evidence' = evidence /\ running[s] # None
        /\ latest' = [latest EXCEPT ![s] = running[s]]
        /\ running' = [running EXCEPT ![s] = None]
    BY <1>4 DEF Publish
  <2>2. \A r \in Systems :
           /\ running'[r] # None /\ running'[r].statement.conformant
                 => running'[r].statement.stale_after <= Outlast(rank, r)
           /\ latest'[r] # None /\ latest'[r].statement.conformant
                 => latest'[r].statement.stale_after <= Outlast(rank, r)
    BY <2>1 DEF Waning, TypeOK
  <2> QED BY <2>1, <2>2 DEF Waning, Outlast
<1>5. CASE Tick
  BY <1>1, <1>5 DEF Tick
<1>6. ASSUME NEW s \in Systems, Rescope(s) PROVE Waning(rank)'
  BY <1>1, <1>6 DEF Rescope
<1>7. ASSUME NEW s \in Systems, DamageOrRepair(s) PROVE Waning(rank)'
  BY <1>1, <1>7 DEF DamageOrRepair
<1>8. CASE UNCHANGED vars
  BY <1>1, <1>8 DEF vars
<1> QED BY <1>2, <1>3, <1>4, <1>5, <1>6, <1>7, <1>8 DEF Next

\* README.md:56: stop producing evidence and the badge goes stale, then expires:
\* for any number of systems that renew on each other's statements along
\* references that are anchored, the last VALID badge is gone when the widest
\* window and a ceiling for each hop have passed.
THEOREM EvidenceIsNeeded ==
    ASSUME IsFiniteSet(Controls), IsFiniteSet(Systems), Anchored
    PROVE  Spec => []NoEvidenceNoBadge
<1>1. PICK rank : Ranks(rank)
  BY DEF Anchored
<1>2. Init => Waning(rank)
  BY DEF Init, Waning
<1>3. TypeOK /\ Waning(rank) /\ [Next]_vars => Waning(rank)'
  BY <1>1, WaningInductive
<1>4. TypeOK /\ Waning(rank) => NoEvidenceNoBadge
  <2> DEFINE hops == (Cardinality(Systems) - 1) * HighestCeiling
  <2> SUFFICES ASSUME TypeOK, Waning(rank), NEW s \in Systems, latest[s] # None,
                      now >= QuietFrom - 1 + WidestWindow + hops
               PROVE  Badge(s) # VALID
    BY DEF NoEvidenceNoBadge
  <2> DEFINE st == latest[s].statement
             mine == rank[s] * HighestCeiling
  <2>1. latest[s] \in Entry /\ scoping[s] \in Scopings[s]
        /\ \A r \in Systems : Scopings[r] # {}
    BY DEF TypeOK
  <2>2. st.stale_after \in Int /\ now \in Int
    BY <2>1, HorizonAssumption DEF Entry, ConformanceStatement, TypeOK, Times
  <2>3. HighestCeiling \in Nat /\ WidestWindow \in Int
    BY <2>1, CeilingBounds, WindowBounds
  <2>4. mine <= hops /\ mine \in Int /\ hops \in Int
    <3>1. rank[s] \in Nat /\ Cardinality(Systems) \in Nat /\ rank[s] < Cardinality(Systems)
      BY <1>1, FS_CardinalityType DEF Ranks
    <3>2. mine + HighestCeiling <= Cardinality(Systems) * HighestCeiling
      BY <2>3, <3>1, OneHop
    <3>3. hops = Cardinality(Systems) * HighestCeiling - HighestCeiling
      BY <2>3, <3>1
    <3>4. mine \in Int /\ Cardinality(Systems) * HighestCeiling \in Int
      BY <2>3, <3>1
    <3> HIDE DEF mine, hops
    <3> QED BY <2>3, <3>2, <3>3, <3>4
  <2>5. st.conformant => st.stale_after <= QuietFrom - 1 + WidestWindow + mine
    BY DEF Waning, Outlast
  <2>6. st.conformant => now >= st.stale_after
    <3> HIDE DEF mine, hops, st
    <3> QED BY <2>2, <2>3, <2>4, <2>5, QuietFromAssumption
  <2>7. Badge(s) = StateAt(st, now)
    BY DEF Badge
  <2> QED BY <2>6, <2>7 DEF StateAt, VALID, LEASE_STALE, EXPIRED, REVOKED
<1> QED BY <1>2, <1>3, <1>4, InheritanceTypeCorrect, PTL DEF Spec
===============================================================================
