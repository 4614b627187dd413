-------------------------------- MODULE Check ---------------------------------
(* check.py: decide whether a system is conformant and what state its lease is *)
(* in, from the catalog, its Statement of Applicability, its evidence and the  *)
(* time of evaluation. Everything here is a function of those arguments.       *)
EXTENDS Vocabulary, FiniteSetsExt

CONSTANT Catalog       \* control -> its verification block

ASSUME CatalogAssumption == Catalog \in [Controls -> Verification]

SIGNING_REQUIRED_FROM == {"T3", "T4"}

\* A record no verdict may use: from T3 up, anything but a checked signature of
\* a scheme that establishes its author.
Inadmissible(record, tier) ==
    /\ tier \in SIGNING_REQUIRED_FROM
    /\ ~(record.scheme = "ed25519" /\ record.verified)

\* The positions of the records that count at this tier.
Usable(records, tier) ==
    {i \in DOMAIN records : ~Inadmissible(records[i], tier)}

\* The newest admissible record: the latest window, and of equals the file that
\* was read first (index_evidence's sort is stable).
Newest(records, tier) ==
    LET usable == Usable(records, tier)
        latest == {i \in usable :
                     \A j \in usable : records[j].window_to <= records[i].window_to}
    IN  IF usable = {} THEN None ELSE records[Min(latest)]

\* D19-C03: a policy declared enabled that decided nothing under traffic, or
\* decided something without any.
Contradiction(control_record, data_record) ==
    /\ control_record # None /\ data_record # None
    /\ control_record.enabled = "true"
    /\ \/ data_record.traffic = "some" /\ data_record.decisions = "zero"
       \/ data_record.traffic = "zero" /\ data_record.decisions = "some"

ControlResult(status, obligation, disqualifying, age, window) ==
    [status |-> status, obligation |-> obligation,
     disqualifying |-> disqualifying, age |-> age, window |-> window]

\* Slip: age is asked about before contradiction.
JudgeAgeFirst(control, required, obligation, tier, planes, now) ==
    LET record == [p \in Planes |-> Newest(planes[p], tier)]
        ages == {now - record[p].window_to : p \in {q \in required : record[q] # None}}
        window == Catalog[control].freshness[tier]
        Result(status, disqualifying) ==
            ControlResult(status, obligation, disqualifying,
                          IF ages = {} THEN None ELSE Max(ages),
                          IF window \in {None, 0} THEN None ELSE window)
    IN  IF \E p \in required : record[p] = None THEN Result(FAIL, FALSE)
        ELSE IF window # None /\ \E age \in ages : age > window
        THEN Result(STALE, FALSE)
        ELSE IF Contradiction(record[CONTROL_PLANE], record[DATA_PLANE])
        THEN Result(FAIL, TRUE)
        ELSE Result(PASS, FALSE)

\* What emitted and declared controls have in common: a record missing on a
\* required plane fails, then a contradiction disqualifies, then age decides.
\* A window of zero is falsy, so it is tested against but not reported.
Judge(control, required, obligation, tier, planes, now) ==
    LET record == [p \in Planes |-> Newest(planes[p], tier)]
        present == {p \in required : record[p] # None}
        ages == {now - record[p].window_to : p \in present}
        window == Catalog[control].freshness[tier]
        Result(status, disqualifying) ==
            ControlResult(status, obligation, disqualifying,
                          IF ages = {} THEN None ELSE Max(ages),
                          IF window \in {None, 0} THEN None ELSE window)
    IN  CASE present # required -> Result(FAIL, FALSE)
          [] present = required
             /\ Contradiction(record[CONTROL_PLANE], record[DATA_PLANE]) ->
                Result(FAIL, TRUE)
          [] OTHER ->
                IF window # None /\ \E age \in ages : age > window
                THEN Result(STALE, FALSE)
                ELSE Result(PASS, FALSE)

EvaluateEmitted(control, obligation, tier, planes, now) ==
    Judge(control, Catalog[control].planes, obligation, tier, planes, now)

\* An attestation is the control plane's record alone; the data plane can still
\* contradict it.
EvaluateDeclared(control, obligation, tier, planes, now) ==
    Judge(control, {CONTROL_PLANE}, obligation, tier, planes, now)

(* What looking an upstream up can find: no reference to look up ("asserted"), *)
(* a log whose chain does not verify, no statement for the upstream, or its    *)
(* latest statement's tier and state on the dependent's clock.                 *)
Lookup ==
    [found : {"asserted", "broken", "absent", "statement"},
     tier  : Tiers,
     state : {VALID, LEASE_STALE, EXPIRED, REVOKED}]

\* Slip: the upstream's tier is never compared.
RefusedAtAnyTier(tier, upstream) ==
    \/ upstream.found = "asserted" /\ tier \in {"T3", "T4"}
    \/ upstream.found \in {"broken", "absent"}

\* Nothing a dependent at this tier can inherit on.
Refused(tier, upstream) ==
    \/ upstream.found = "asserted" /\ tier \in {"T3", "T4"}
    \/ upstream.found \in {"broken", "absent"}
    \/ upstream.found = "statement" /\ TierRank(upstream.tier) < TierRank(tier)

\* Slips: a stale upstream will do; or any that was not revoked.
ProvenWhileStale(upstream) ==
    upstream.found = "asserted" \/ upstream.state \in {VALID, LEASE_STALE}
ProvenUnlessRevoked(upstream) ==
    upstream.found = "asserted" \/ upstream.state # REVOKED

\* The upstream's word for the control stands at the moment.
Proven(upstream) == upstream.found = "asserted" \/ upstream.state = VALID

EvaluateInherited(obligation, tier, upstream) ==
    LET Result(status, disqualifying) ==
            ControlResult(status, obligation, disqualifying, None, None)
    IN  CASE Refused(tier, upstream) -> Result(FAIL, FALSE)
          [] ~Refused(tier, upstream) /\ Proven(upstream) ->
                Result(INHERITED_OK, FALSE)
          [] OTHER -> IF upstream.state = LEASE_STALE
                      THEN Result(STALE, FALSE)
                      ELSE Result(FAIL, upstream.state = REVOKED)

\* One control's result; upstream[c] is what looking up its upstream found.
EvaluateControl(soa, evidence, upstream, now, c) ==
    LET entry == soa.entries[c]
        method == Catalog[c].method
        Flat(status, obligation) ==
            ControlResult(status, obligation, FALSE, None, None)
    IN  CASE entry.verdict = NOT_APPLICABLE -> Flat(NA, None)
          [] entry.verdict = EXCLUDED -> Flat(EXCLUDED_OK, entry.obligation)
          [] entry.verdict = INHERITED ->
                EvaluateInherited(entry.obligation, soa.tier, upstream[c])
          [] OTHER ->
                CASE method = "emitted" ->
                        EvaluateEmitted(c, entry.obligation, soa.tier,
                                        evidence[c], now)
                  [] method \in {"asserted", "attested"} ->
                        EvaluateDeclared(c, entry.obligation, soa.tier,
                                         evidence[c], now)
                  [] OTHER -> Flat(MANUAL, entry.obligation)

\* evaluate(): a conformance run.
Evaluate(soa, evidence, upstream, now) ==
    [tier |-> soa.tier,
     evaluated_at |-> now,
     results |-> [c \in Controls |->
                    EvaluateControl(soa, evidence, upstream, now, c)]]

\* ControlResult.blocks: a disqualifying failure blocks whatever its obligation.
Blocks(result) ==
    \/ result.disqualifying
    \/ result.obligation = "required" /\ result.status \in BLOCKING

\* ConformanceRun.blocking, as the controls that block.
BlockingControls(run) == {c \in Controls : Blocks(run.results[c])}

Conformant(run) == BlockingControls(run) = {}

\* How far past its window a blocking stale result is; results that do not carry
\* both an age and a window are skipped.
Overruns(run) ==
    {run.results[c].age - run.results[c].window :
        c \in {d \in BlockingControls(run) :
                 /\ run.results[d].status = STALE
                 /\ run.results[d].age # None /\ run.results[d].window # None}}

\* ConformanceRun.lease_state: revoked, failing, expired, stale, valid.
LeaseState(run) ==
    CASE \E c \in Controls : run.results[c].disqualifying -> REVOKED
      [] OTHER ->
         CASE \E c \in BlockingControls(run) :
                 run.results[c].status \in {FAIL, MANUAL} -> FAILING
           [] OTHER ->
              IF \E o \in Overruns(run) : o > Grace[run.tier] THEN EXPIRED
              ELSE IF \E o \in Overruns(run) : o > 0 THEN LEASE_STALE
              ELSE VALID
===============================================================================
