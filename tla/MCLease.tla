------------------------------- MODULE MCLease --------------------------------
(* Small instances of Lease: a guardrail that must emit on both planes, a      *)
(* policy attested on the control plane, and an audit only a certifier settles.*)
EXTENDS Lease

MCControls == {"guardrail", "policy", "audit"}

\* Stand-ins for GRACE and MAX_LEASE, a few ticks each.
MCGrace == [t \in Tiers |-> IF t \in {"T1", "T2"} THEN 1 ELSE 2]
MCMaxLease == [t \in Tiers |-> IF t \in {"T1", "T2"} THEN 3 ELSE 2]

NoWindow == [t \in Tiers |-> None]

\* The guardrail's window outlasts the ceiling at T2, as P365D does at T4, and
\* ends before it at T4; at T1 and T3 it has none.
MCCatalog ==
    [c \in MCControls |->
        CASE c = "guardrail" ->
                [method |-> "emitted", planes |-> Planes,
                 freshness |-> [NoWindow EXCEPT !["T2"] = 4, !["T4"] = 1]]
          [] c = "policy" ->
                [method |-> "attested", planes |-> {CONTROL_PLANE},
                 freshness |-> [t \in Tiers |-> 1]]
          [] OTHER ->
                [method |-> "assessed", planes |-> {CONTROL_PLANE},
                 freshness |-> NoWindow]]

Entry(verdict, obligation) == [verdict |-> verdict, obligation |-> obligation]
Required == Entry(APPLIES, "required")
Recommended == Entry(APPLIES, "recommended")
OutOfScope == Entry(NOT_APPLICABLE, None)

Scope(tier, guardrail, policy, audit) ==
    [tier |-> tier, entries |-> [c \in MCControls |->
        CASE c = "guardrail" -> guardrail
          [] c = "policy" -> policy
          [] OTHER -> audit]]

\* Every verdict, across the tier from which only verified signatures count, an
\* asserted inheritance is refused and a digest is no signature.
MCScopes ==
    {Scope("T2", Required, Required, Recommended),
     Scope("T2", Required, Recommended, Entry(INHERITED, "required")),
     Scope("T4", Recommended, Required, OutOfScope),
     Scope("T3", Entry(EXCLUDED, "required"), Required, Entry(INHERITED, "recommended"))}

MCScopesPolicy == {Scope("T2", OutOfScope, Required, OutOfScope)}

Body(scheme, verified, enabled, traffic, decisions) ==
    [scheme |-> scheme, verified |-> verified, enabled |-> enabled,
     traffic |-> traffic, decisions |-> decisions]

\* Declarations of the guardrail signed or not, a data plane that fires or never
\* does, and attestations of the policy.
MCEmissions ==
    [c \in MCControls |-> [p \in Planes |->
        CASE c = "guardrail" /\ p = CONTROL_PLANE ->
                {Body("unsigned", FALSE, "true", "missing", "missing"),
                 Body("ed25519", TRUE, "true", "missing", "missing")}
          [] c = "guardrail" /\ p = DATA_PLANE ->
                {Body("ed25519", TRUE, "missing", "some", d) : d \in {"some", "zero"}}
          [] c = "policy" /\ p = CONTROL_PLANE ->
                {Body("ed25519", TRUE, "true", "missing", "missing")}
          [] OTHER -> {}]]

\* Unsigned records that contradict nothing; and the policy's alone.
MCEmissionsPlain ==
    [c \in MCControls |-> [p \in Planes |->
        CASE c = "guardrail" /\ p = DATA_PLANE ->
                {Body("unsigned", FALSE, "missing", "some", "some")}
          [] c # "audit" /\ p = CONTROL_PLANE ->
                {Body("unsigned", FALSE, "true", "missing", "missing")}
          [] OTHER -> {}]]
MCEmissionsPolicy ==
    [MCEmissionsPlain EXCEPT !["guardrail"] = [p \in Planes |-> {}]]

\* A record's window may end after it is written: load_evidence
\* does not refuse it.
MCLags == [c \in MCControls |-> [p \in Planes |-> {-1, 0}]]
MCLagsPolicy ==
    [c \in MCControls |-> [p \in Planes |-> IF c = "policy" THEN {-1, 0} ELSE {0}]]
MCLagsBadges == [MCLagsPolicy EXCEPT !["guardrail"][DATA_PLANE] = {-1}]
===============================================================================
