------------------------------ MODULE Inheritance -----------------------------
(* Systems that prove some controls on evidence of their own and inherit       *)
(* others. A dependent resolves an inherited control by reading the upstream's *)
(* transparency log when it evaluates, and never again: from then on its badge *)
(* is a function of the reader's clock alone, whatever becomes of the upstream.*)
EXTENDS Statement

CONSTANTS
    Systems,       \* the systems that publish statements
    Scopings,      \* system -> the scoping files it may use
    QuietFrom,     \* bound: no record, no scoping changes from this instant on
    Fragile,       \* systems whose log may be damaged and repaired
    MaxRunning     \* bound: publish processes between evaluating and appending

\* A scoping file resolved at a tier, with the upstream_ref of each inherited
\* control (None: the inheritance is asserted and names no log).
Scoping == [soa : SoA, upstream : [Controls -> Systems \cup {None}]]

ASSUME ScopingsAssumption == \A s \in Systems : Scopings[s] \subseteq Scoping
ASSUME QuietFromAssumption == QuietFrom \in Nat

VARIABLES
    now,           \* the clock all systems and readers share
    scoping,       \* the scoping file each system uses
    evidence,      \* each system's evidence directory, indexed
    intact,        \* whether each system's log verifies
    running,       \* the statement each publish process has yet to append
    latest,        \* the last entry of each system's log, and what it rests on
    proved         \* history: controls somebody proved on evidence, by tier

vars == <<now, scoping, evidence, intact, running, latest, proved>>

-------------------------------------------------------------------------------
\* _evaluate_inherited's look at the upstream: its log, then its latest entry.
LookUp(s, c) ==
    LET u == scoping[s].upstream[c]
        Found(found) == [found |-> found, tier |-> "T1", state |-> VALID]
    IN  CASE u = None -> Found("asserted")
          [] OTHER ->
             CASE ~intact[u] -> Found("broken")
               [] intact[u] /\ latest[u] = None -> Found("absent")
               [] OTHER -> [found |-> "statement",
                            tier |-> latest[u].statement.tier,
                            state |-> StateAt(latest[u].statement, now)]

\* What `openaisf check` finds for a system at this moment.
CheckNow(s) ==
    Evaluate(scoping[s].soa, evidence[s], [c \in Controls |-> LookUp(s, c)], now)

Inherits(soa, c) ==
    soa.entries[c] = [verdict |-> INHERITED, obligation |-> "required"]

Proves(soa, c) ==
    soa.entries[c] = [verdict |-> APPLIES, obligation |-> "required"]

Init ==
    /\ now = 0
    /\ scoping \in {f \in [Systems -> UNION {Scopings[s] : s \in Systems}] :
                        \A s \in Systems : f[s] \in Scopings[s]}
    /\ evidence = [s \in Systems |-> [c \in Controls |-> [p \in Planes |-> <<>>]]]
    /\ intact = [s \in Systems |-> TRUE]
    /\ running = [s \in Systems |-> None]
    /\ latest = [s \in Systems |-> None]
    /\ proved = {}

Tick ==
    /\ now < Horizon
    /\ now' = now + 1
    /\ UNCHANGED <<scoping, evidence, intact, running, latest, proved>>

\* A signed declaration that contradicts nothing, in place of the one before it,
\* of a control that some scoping file of the system has it prove.
Declare(s, c) ==
    /\ now < QuietFrom
    /\ \E f \in Scopings[s] : Proves(f.soa, c)
    /\ evidence' = [evidence EXCEPT ![s][c][CONTROL_PLANE] =
          <<[window_to |-> now, scheme |-> "ed25519", verified |-> TRUE,
             enabled |-> "true", traffic |-> "missing", decisions |-> "missing"]>>]
    /\ UNCHANGED <<now, scoping, intact, running, latest, proved>>

Rescope(s) ==
    /\ now < QuietFrom
    /\ \E f \in Scopings[s] \ {scoping[s]} : scoping' = [scoping EXCEPT ![s] = f]
    /\ UNCHANGED <<now, evidence, intact, running, latest, proved>>

\* An entry of a log is altered, or put back: it can still be read and appended
\* to, but its chain does not verify.
DamageOrRepair(s) ==
    /\ s \in Fragile /\ now < QuietFrom
    /\ intact' = [intact EXCEPT ![s] = ~@]
    /\ UNCHANGED <<now, scoping, evidence, running, latest, proved>>

\* _cmd_publish up to the append: the upstreams are looked up on the way.
EvaluateAndSign(s) ==
    /\ running[s] = None
    /\ Cardinality({u \in Systems : running[u] # None}) < MaxRunning
    /\ running' = [running EXCEPT ![s] =
          [statement |-> BuildStatement(CheckNow(s)),
            soa |-> scoping[s].soa,
           rests_on |-> [c \in Controls |->
                LET u == scoping[s].upstream[c] IN
                IF u = None THEN None
                ELSE IF latest[u] = None THEN None ELSE latest[u].statement]]]
    /\ UNCHANGED <<now, scoping, evidence, intact, latest, proved>>

\* The append, to a log that may be damaged: append() does not verify it.
Publish(s) ==
    /\ running[s] # None
    /\ latest' = [latest EXCEPT ![s] = running[s]]
    /\ running' = [running EXCEPT ![s] = None]
    /\ proved' = proved \cup
          {<<c, running[s].soa.tier>> : c \in
              {d \in Controls : /\ running[s].statement.conformant
                                /\ Proves(running[s].soa, d)}}
    /\ UNCHANGED <<now, scoping, evidence, intact>>

Next ==
    \/ Tick
    \/ \E s \in Systems, c \in Controls : Declare(s, c)
    \/ \E s \in Systems : Rescope(s)
    \/ \E s \in Systems : DamageOrRepair(s)
    \/ \E s \in Systems : EvaluateAndSign(s)
    \/ \E s \in Systems : Publish(s)

Spec == Init /\ [][Next]_vars

-------------------------------------------------------------------------------
\* What a reader of the system's latest entry sees.
Badge(s) == StateAt(latest[s].statement, now)

Entry ==
    [statement : ConformanceStatement,
     soa : SoA, rests_on : [Controls -> ConformanceStatement \cup {None}]]

\* The state is made of what the code's types allow.
TypeOK ==
    /\ now \in Times
    /\ scoping \in [Systems -> Scoping]
    /\ \A s \in Systems : scoping[s] \in Scopings[s]
    /\ evidence \in [Systems -> EvidenceIndex]
    /\ intact \in [Systems -> BOOLEAN]
    /\ running \in [Systems -> Entry \cup {None}]
    /\ latest \in [Systems -> Entry \cup {None}]
    /\ proved \subseteq (Controls \X Tiers)

\* Assurance cannot be laundered upward, through any number of systems and any
\* sequence of edits to their scoping files: from T3 up, whoever is conformant
\* on an inherited control, somebody was conformant on it with evidence of its
\* own at that tier or above. Systems that inherit from each other cannot lift
\* themselves. (RFC 8; check.py: the tier comparison in _evaluate_inherited.)
NoLaundering ==
    \A s \in Systems, c \in Controls :
        /\ latest[s] # None /\ latest[s].statement.conformant
        /\ latest[s].soa.tier \in {"T3", "T4"}
        /\ Inherits(latest[s].soa, c)
        => \E t \in Tiers : /\ TierRank(t) >= TierRank(latest[s].soa.tier)
                            /\ <<c, t>> \in proved

\* D17-C02: where the upstream's lease lapses, the dependent's degrades within
\* one freshness window, of any required control that it proves itself, and at
\* the tier's ceiling at the latest, though nobody tells it and though a reader
\* sees nothing but its statement.
DecayPropagates ==
    \A s \in Systems, c \in Controls :
        /\ latest[s] # None /\ Badge(s) = VALID
        /\ Inherits(latest[s].soa, c) /\ latest[s].rests_on[c] # None
        => LET soa == latest[s].soa
               lapse == latest[s].rests_on[c].stale_after
           IN  /\ now < lapse + MaxLease[soa.tier]
               /\ \A own \in Controls :
                    Proves(soa, own) /\ Catalog[own].freshness[soa.tier] \notin {None, 0}
                        => now < lapse + Catalog[own].freshness[soa.tier]

\* The widest window and the highest ceiling of the tiers anybody uses.
TiersInUse == {f.soa.tier : f \in UNION {Scopings[s] : s \in Systems}}
WidestWindow ==
    Max({Catalog[c].freshness[t] : c \in Controls, t \in TiersInUse} \ {None})
HighestCeiling == Max({MaxLease[t] : t \in TiersInUse})

\* README.md:56: stop producing evidence and the badge goes stale, then expires.
\* However many systems renew on each other's statements, once no evidence is
\* produced anywhere the last VALID badge is gone when a window and a ceiling
\* for each hop have passed.
NoEvidenceNoBadge ==
    now >= QuietFrom - 1 + WidestWindow + (Cardinality(Systems) - 1) * HighestCeiling
        => \A s \in Systems : latest[s] # None => Badge(s) # VALID

\* RFC 8: stale upstream, stale dependent. A system that inherits a required
\* control from a stale upstream is not reported as holding a valid lease.
StaleUpstreamStaleDependent ==
    \A s \in Systems, c \in Controls :
        Inherits(scoping[s].soa, c) /\ LookUp(s, c).state = LEASE_STALE
            => LeaseState(CheckNow(s)) # VALID
===============================================================================
