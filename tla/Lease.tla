-------------------------------- MODULE Lease ---------------------------------
(* One subject, its evidence, and the badges it publishes.                     *)
(*                                                                             *)
(* Producers write evidence records, the subject edits its scoping file, and   *)
(* any number of `openaisf publish` processes (cron jobs, CI runs, a person)   *)
(* load, evaluate, sign and append, each step of one interleaving with the     *)
(* steps of the others and with the clock. Readers are not processes: a badge  *)
(* is StateAt applied to the reader's clock.                                   *)
EXTENDS Statement

CONSTANTS
    Publishers,     \* publish processes that may run at the same time
    Scopes,         \* the Statements of Applicability the scoping file yields
    Emissions,      \* control -> plane -> what may be recorded, window_to apart
    Lags,           \* control -> plane -> how long before its writing a record's
                    \* window may end
    MaxRecords,     \* bound: files kept for one control and plane
    MaxEntries,     \* bound: entries published
    QuietFrom,      \* bound: no record and no scope changes from this instant on
    SilentFrom,     \* bound: nothing is evaluated from this instant on
    SigningKeys     \* schemes of the keys a publisher may be started with

ASSUME ScopesAssumption == Scopes \subseteq SoA
ASSUME EmissionsAssumption ==
    \A c \in Controls, p \in Planes : \A body \in Emissions[c][p], t \in Times :
        [window_to |-> t, scheme |-> body.scheme, verified |-> body.verified,
         enabled |-> body.enabled, traffic |-> body.traffic,
         decisions |-> body.decisions] \in EvidenceRecord
ASSUME KeysAssumption == SigningKeys \subseteq {"ed25519", "sha256-digest"}
ASSUME BoundsAssumption ==
    MaxRecords \in Nat /\ MaxEntries \in Nat /\ SilentFrom \in Nat

VARIABLES
    now,            \* the clock every process and reader shares
    soa,            \* what the scoping file resolves to
    evidence,       \* the evidence directory, indexed
    pub,            \* where each publish process is, and what it holds
    log,            \* statements published, in the order of the log file
    basis           \* history: what each of them was evaluated on

vars == <<now, soa, evidence, pub, log, basis>>

\* What a publish process read, and the scheme of the key it was given.
Snapshot == [soa : SoA, evidence : EvidenceIndex, key : SigningKeys]

\* No inherited control here names a log: every lookup is an assertion.
Asserted ==
    [c \in Controls |-> [found |-> "asserted", tier |-> "T1", state |-> VALID]]

\* `openaisf check` at time t on what a snapshot holds.
CheckAt(snapshot, t) == Evaluate(snapshot.soa, snapshot.evidence, Asserted, t)

-------------------------------------------------------------------------------
Idle == [step |-> "idle"]

Init ==
    /\ now = 0
    /\ soa \in Scopes
    /\ evidence = [c \in Controls |-> [p \in Planes |-> <<>>]]
    /\ pub = [p \in Publishers |-> Idle]
    /\ log = <<>>
    /\ basis = <<>>

Tick ==
    /\ now < Horizon
    /\ now' = now + 1
    /\ UNCHANGED <<soa, evidence, pub, log, basis>>

\* A producer writes a record: a file of its own, read after the files there
\* are, or in place of one of them, as the gateway adapter does.
Emit(c, plane, body, lag) ==
    /\ now < QuietFrom /\ Len(log) < MaxEntries
    /\ now - lag \in Times
    /\ LET record == [window_to |-> now - lag, scheme |-> body.scheme,
                      verified |-> body.verified, enabled |-> body.enabled,
                      traffic |-> body.traffic, decisions |-> body.decisions]
           files == evidence[c][plane]
       IN  \/ /\ Len(files) < MaxRecords
              /\ evidence' = [evidence EXCEPT ![c][plane] = Append(files, record)]
           \/ \E i \in DOMAIN files :
                evidence' = [evidence EXCEPT ![c][plane][i] = record]
    /\ UNCHANGED <<now, soa, pub, log, basis>>

\* The subject edits the scoping file, or publishes at another tier.
Rescope ==
    /\ now < QuietFrom /\ Len(log) < MaxEntries
    /\ soa' \in Scopes \ {soa}
    /\ UNCHANGED <<now, evidence, pub, log, basis>>

\* _cmd_publish up to load_evidence: scope and evidence are read.
Load(p, key) ==
    /\ pub[p].step = "idle"
    /\ now < SilentFrom
    /\ pub' = [pub EXCEPT ![p] =
                 [step |-> "loaded",
                  snapshot |-> [soa |-> soa, evidence |-> evidence, key |-> key]]]
    /\ UNCHANGED <<now, soa, evidence, log, basis>>

\* evaluate takes the time; build_statement and sign_statement follow. A tier
\* that wants authenticity refuses a digest, and the command ends with code 2.
EvaluateAndSign(p) ==
    /\ pub[p].step = "loaded"
    /\ now < SilentFrom
    /\ pub' = [pub EXCEPT ![p] =
                 IF pub[p].snapshot.key \in SigningSchemes(pub[p].snapshot.soa.tier)
                 THEN [step |-> "signed", snapshot |-> pub[p].snapshot,
                       statement |-> BuildStatement(CheckAt(pub[p].snapshot, now))]
                 ELSE Idle]
    /\ UNCHANGED <<now, soa, evidence, log, basis>>

\* Slip: in place of the entry before it.
PublishInPlace(p) ==
    /\ pub[p].step = "signed"
    /\ log' = <<pub[p].statement>>
    /\ basis' = <<pub[p].snapshot>>
    /\ pub' = [pub EXCEPT ![p] = Idle]
    /\ UNCHANGED <<now, soa, evidence>>

\* The append, however late. TransparencyLog looks inside it.
Publish(p) ==
    /\ pub[p].step = "signed"
    /\ Len(log) < MaxEntries
    /\ log' = Append(log, pub[p].statement)
    /\ basis' = Append(basis, pub[p].snapshot)
    /\ pub' = [pub EXCEPT ![p] = Idle]
    /\ UNCHANGED <<now, soa, evidence>>

\* A publish process is killed; nothing it held was persisted.
Abandon(p) ==
    /\ pub[p].step # "idle"
    /\ pub' = [pub EXCEPT ![p] = Idle]
    /\ UNCHANGED <<now, soa, evidence, log, basis>>

Next ==
    \/ Tick
    \/ \E c \in Controls, plane \in Planes :
         \E body \in Emissions[c][plane], lag \in Lags[c][plane] :
            Emit(c, plane, body, lag)
    \/ Rescope
    \/ \E p \in Publishers, key \in SigningKeys : Load(p, key)
    \/ \E p \in Publishers : EvaluateAndSign(p)
    \/ \E p \in Publishers : Publish(p)
    \/ \E p \in Publishers : Abandon(p)

Spec == Init /\ [][Next]_vars

\* Clocks advance; nothing else is owed.
LiveSpec == Spec /\ WF_vars(Tick)

-------------------------------------------------------------------------------
\* What a reader of entry i sees at time t.
BadgeAt(i, t) == StateAt(log[i], t)

PublisherState ==
    {Idle}
    \cup [step : {"loaded"}, snapshot : Snapshot]
    \cup [step : {"signed"}, snapshot : Snapshot, statement : ConformanceStatement]

\* The state is made of what the code's types allow, and every entry has a basis.
TypeOK ==
    /\ now \in Times
    /\ soa \in Scopes
    /\ evidence \in EvidenceIndex
    /\ pub \in [Publishers -> PublisherState]
    /\ log \in Seq(ConformanceStatement)
    /\ basis \in Seq(Snapshot)
    /\ Len(basis) = Len(log)

\* How bad a lease state is, for comparing a badge with a fresh check.
Severity(state) ==
    CASE state = VALID -> 0
      [] state = LEASE_STALE -> 1
      [] OTHER -> 2

\* A badge is sound: a reader with nothing but the statement and a clock is
\* never told something better than `openaisf check` would say at that moment on
\* the evidence the statement was issued on. (state_at against lease_state.)
BadgeSound ==
    \A i \in DOMAIN log :
        LET run == CheckAt(basis[i], now) IN
        /\ Severity(LeaseState(run)) <= Severity(BadgeAt(i, now))
        /\ BadgeAt(i, now) = VALID => Conformant(run)

\* A reason for statement s to have got worse: at time t its ceiling is d behind,
\* or a required control's age in a check at t has passed its window by d.
LateBy(s, run, t, d) ==
    \/ t >= s.issued_at + MaxLease[s.tier] + d
    \/ \E c \in Controls :
         LET r == run.results[c] IN
         /\ r.obligation = "required" /\ r.window # None /\ r.age # None
         /\ r.age >= r.window + d

\* A badge is prompt, not just cautious: a conformant statement leaves VALID
\* only because a required control's evidence has reached its window or the
\* tier's ceiling is reached, and expires only a whole grace period after that.
BadgePrompt ==
    \A i \in DOMAIN log :
        LET s == log[i]
            run == CheckAt(basis[i], now)
        IN  s.conformant =>
              /\ BadgeAt(i, now) # VALID => LateBy(s, run, now, 0)
              /\ BadgeAt(i, now) = EXPIRED => LateBy(s, run, now, Grace[s.tier])

\* And no badge is overdue: once the tier's ceiling is behind, or evidence of a
\* required control has reached its window, nobody is told VALID, and a grace
\* period later nobody is told anything that could be used. A control that is
\* required without a window lives to the ceiling, not for ever. (statement.py:30,
\* RFC-OpenAISF-v1.0.md:201: no lease outlives its tier ceiling.)
NoBadgeOverdue ==
    \A i \in DOMAIN log :
        LET s == log[i]
            run == CheckAt(basis[i], now)
        IN  /\ LateBy(s, run, now, 0) => BadgeAt(i, now) # VALID
            /\ LateBy(s, run, now, Grace[s.tier]) =>
                  BadgeAt(i, now) \in {EXPIRED, REVOKED}

\* D19-C03: evidence that contradicts itself on any control evaluated, however
\* old and whatever the control's obligation, never yields a badge a reader can
\* use, now or later.
FabricationNeverBadges ==
    \A i \in DOMAIN log : \A c \in Controls :
        LET scope == basis[i].soa
            Record(plane) == Newest(basis[i].evidence[c][plane], scope.tier)
        IN  /\ scope.entries[c].verdict = APPLIES
            /\ Catalog[c].method # "assessed"
            /\ Contradiction(Record(CONTROL_PLANE), Record(DATA_PLANE))
            => BadgeAt(i, now) = REVOKED

\* A renewal is a new entry; an entry already published only decays.
Badges == INSTANCE BadgeDecay
            WITH VALID <- VALID, STALE <- LEASE_STALE, EXPIRED <- EXPIRED,
                 REVOKED <- REVOKED,
                 shown <- [i \in DOMAIN log |-> BadgeAt(i, now)]

\* state_at and build_statement implement that contract: no step of any process
\* improves a badge somebody already holds.
BadgesOnlyDecay == Badges!Spec

\* A subject that stops evaluating loses every badge it has, for good.
SilenceLapses ==
    <>[](\A i \in DOMAIN log : BadgeAt(i, now) \in {EXPIRED, REVOKED})
===============================================================================
