------------------------------ MODULE Statement -------------------------------
(* statement.py: the claim that travels. It carries its own two deadlines, so  *)
(* a reader needs the statement and a clock, and nothing else.                 *)
EXTENDS Check

\* What a statement is made of, without its digests and counts.
ConformanceStatement ==
    [tier : Tiers, issued_at : Times, stale_after : Int, expires_at : Int,
     conformant : BOOLEAN, blocking : SUBSET Controls]

\* Slip: recommended controls count too.
DeadlinesOfAll(run) ==
    {run.evaluated_at + (run.results[c].window - run.results[c].age) :
        c \in {d \in Controls :
                 run.results[d].window # None /\ run.results[d].age # None}}

\* The instants at which the required controls that carry a window reach it.
ControlDeadlines(run) ==
    {run.evaluated_at + (run.results[c].window - run.results[c].age) :
        c \in {d \in Controls :
                 /\ run.results[d].obligation = "required"
                 /\ run.results[d].window # None /\ run.results[d].age # None}}

\* Slip: the last of the deadlines instead of the soonest.
StaleAfterLast(run) ==
    Max(ControlDeadlines(run) \cup {run.evaluated_at + MaxLease[run.tier]})

\* Slip: the ceiling is for runs without a deadline of their own.
StaleAfterOfEvidence(run) ==
    IF ControlDeadlines(run) = {} THEN run.evaluated_at + MaxLease[run.tier]
    ELSE Min(ControlDeadlines(run))

\* _deadlines: the soonest of those instants and of the tier's ceiling.
StaleAfter(run) ==
    Min(ControlDeadlines(run) \cup {run.evaluated_at + MaxLease[run.tier]})

\* Slip: a statement that does not conform is given no expiry.
StatementWithoutExpiry(run) ==
    [tier |-> run.tier, issued_at |-> run.evaluated_at, stale_after |-> StaleAfter(run),
     expires_at |-> IF Conformant(run) THEN StaleAfter(run) + Grace[run.tier] ELSE None,
     conformant |-> Conformant(run), blocking |-> BlockingControls(run)]

BuildStatement(run) ==
    [tier |-> run.tier,
     issued_at |-> run.evaluated_at,
     stale_after |-> StaleAfter(run),
     expires_at |-> StaleAfter(run) + Grace[run.tier],
     conformant |-> Conformant(run),
     blocking |-> BlockingControls(run)]

\* Slips: no grace; and a badge that never expires.
StateWithoutGrace(statement, now) ==
    CASE ~statement.conformant ->
            IF statement.blocking # {} THEN REVOKED ELSE EXPIRED
      [] OTHER -> IF now >= statement.stale_after THEN EXPIRED ELSE VALID
StateWithoutExpiry(statement, now) ==
    CASE ~statement.conformant ->
            IF statement.blocking # {} THEN REVOKED ELSE EXPIRED
      [] OTHER -> IF now >= statement.stale_after THEN LEASE_STALE ELSE VALID

\* state_at: what the badge shows to a reader whose clock says now.
StateAt(statement, now) ==
    CASE ~statement.conformant ->
            IF statement.blocking # {} THEN REVOKED ELSE EXPIRED
      [] OTHER -> IF now >= statement.expires_at THEN EXPIRED
                  ELSE IF now >= statement.stale_after THEN LEASE_STALE
                  ELSE VALID

\* require_authenticity: the schemes a statement of this tier may be signed with.
SigningSchemes(tier) ==
    IF tier \in SIGNING_REQUIRED_FROM THEN {"ed25519"}
    ELSE {"ed25519", "sha256-digest"}
===============================================================================
