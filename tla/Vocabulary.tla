------------------------------ MODULE Vocabulary ------------------------------
(* The words the whole of OpenAISF shares: assurance tiers, obligations, the   *)
(* statuses of a control, the states of a lease, and the shapes of the records *)
(* that travel between the modules. Time is an integer; datetime's own bounds  *)
(* (datetime.max) are the constant Horizon.                                    *)
EXTENDS Integers, Sequences, FiniteSets

CONSTANTS
    Controls,      \* identifiers of the controls in the catalog
    Horizon,       \* the last instant a clock can show
    Grace,         \* GRACE: tier -> time a lease stays stale before it expires
    MaxLease,      \* MAX_LEASE: tier -> the ceiling on a statement's life
    None           \* Python's None

Tiers == {"T1", "T2", "T3", "T4"}
TierOrder == <<"T1", "T2", "T3", "T4">>
TierRank(t) == CHOOSE i \in 1..4 : TierOrder[i] = t

Times == 0..Horizon

ASSUME HorizonAssumption == Horizon \in Nat
ASSUME GraceAssumption == Grace \in [Tiers -> Nat \ {0}]
ASSUME MaxLeaseAssumption == MaxLease \in [Tiers -> Nat \ {0}]
ASSUME NoneAssumption == None \notin Int /\ None \notin STRING

\* Planes of evidence, and how a control says it is verified.
CONTROL_PLANE == "control"
DATA_PLANE == "data"
Planes == {CONTROL_PLANE, DATA_PLANE}
Methods == {"emitted", "asserted", "attested", "assessed"}

\* Verdicts of a Statement of Applicability.
NOT_APPLICABLE == "not_applicable"
APPLIES == "applies"
INHERITED == "inherited"
EXCLUDED == "excluded"

\* Statuses of one control.
PASS == "pass"
FAIL == "fail"
STALE == "stale"
MANUAL == "manual"
INHERITED_OK == "inherited"
EXCLUDED_OK == "excluded"
NA == "not_applicable"
BLOCKING == {FAIL, STALE, MANUAL}

\* States of a lease. LEASE_STALE is the same word as STALE, as in the code.
VALID == "valid"
LEASE_STALE == "stale"
EXPIRED == "expired"
FAILING == "failing"
REVOKED == "revoked"

-------------------------------------------------------------------------------
(* An evidence record. Only what a verdict depends on is kept: whether the     *)
(* signature names its producer and was checked, and of the two counters only  *)
(* whether they are missing, zero or positive.                                 *)
Schemes == {"unsigned", "sha256-digest", "ed25519"}
Volumes == {"missing", "zero", "some"}

EvidenceRecord ==
    [window_to : Times,
     scheme    : Schemes,
     verified  : BOOLEAN,
     enabled   : {"true", "false", "missing"},
     traffic   : Volumes,
     decisions : Volumes]

\* index_evidence's result: the records of each control and plane, in the order
\* load_evidence read their files.
EvidenceIndex == [Controls -> [Planes -> Seq(EvidenceRecord)]]

\* A catalog entry's verification block. planes is never empty: an absent list
\* means the control plane alone.
Verification ==
    [method    : Methods,
     planes    : (SUBSET Planes) \ {{}},
     freshness : [Tiers -> Nat \cup {None}]]

SoAEntry ==
    [verdict    : {NOT_APPLICABLE, APPLIES, INHERITED, EXCLUDED},
     obligation : {"required", "recommended", None}]

SoA == [tier : Tiers, entries : [Controls -> SoAEntry]]
===============================================================================
