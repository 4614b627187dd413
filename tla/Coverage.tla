------------------------------- MODULE Coverage -------------------------------
(* coverage.py over what loader.py loads: whether every requirement of every   *)
(* external regime is covered by a control or excluded with a reason, and      *)
(* which controls no regime requires. The repository's files are the state;    *)
(* its authors edit them, one entry of one file at a time.                     *)
EXTENDS Integers, SequencesExt

CONSTANTS
    Regimes,       \* the regimes that have an inventory
    Refs,          \* references to requirements
    Identifiers,   \* identifiers of controls
    Published,     \* regime -> the requirements it really has
    Kinds,         \* regime -> regime_kind: requirement or threat
    Mappings,      \* what an author may write into a crosswalk
    Exclusions,    \* regime -> what an author may write into its exclusions
    Totals,        \* bound: regime -> totals its inventory may declare
    MaxRows,       \* bound: regime -> rows of its inventory
    MaxMappings,   \* bound: mappings of one control
    None           \* Python's None

FULL == "full"
PARTIAL == "partial"

Exclusion == [ref : Refs, reasoned : BOOLEAN]
Mapping == [regime : Regimes, ref : Refs, declared : {None, FULL, PARTIAL}]

ADOPTED == "adopted"
DERIVED == "derived"
ORIGINAL == "OpenAISF-original"
Provenances == {ADOPTED, DERIVED, ORIGINAL}

ASSUME PublishedAssumption == Published \in [Regimes -> SUBSET Refs]
ASSUME PublishedIsFinite == \A r \in Regimes : IsFiniteSet(Published[r])
ASSUME KindsAssumption == Kinds \in [Regimes -> {"requirement", "threat"}]
ASSUME MappingsAssumption == Mappings \subseteq Mapping
ASSUME TotalsAssumption == Totals \in [Regimes -> SUBSET Nat]
ASSUME ExclusionsAssumption == Exclusions \in [Regimes -> SUBSET Exclusion]
ASSUME NoneAssumption == None \notin Int
ASSUME IdentifiersAssumption == "failed" \notin Identifiers

VARIABLES
    catalog,       \* control -> its crosswalk and the provenance it declares
    wellformed,    \* whether load_catalog takes the catalog's files
    inventories,   \* regime -> its requirements as transcribed
    exclusions     \* regime -> references excluded, with or without a reason

files == <<catalog, wellformed, inventories, exclusions>>

Catalog ==
    [Identifiers -> [crosswalk : Seq(Mapping), provenance : Provenances \cup {None}]]
Inventory == [rows : Seq(Refs), declared_total : Nat \cup {None}]

-------------------------------------------------------------------------------
(* The functions of coverage.py and loader.py, of what the files hold.         *)

\* Slips: the published total is not compared; or a reference may come twice.
LoadsUncounted(inventory) ==
    inventory.rows # <<>> /\ \A i, j \in DOMAIN inventory.rows :
        inventory.rows[i] = inventory.rows[j] => i = j
LoadsTwice(inventory) == inventory.declared_total \in {None, Len(inventory.rows)}

\* load_inventories takes an inventory (minItems, duplicates, declared_total).
Loads(inventory) ==
    /\ inventory.rows # <<>>
    /\ \A i, j \in DOMAIN inventory.rows :
         inventory.rows[i] = inventory.rows[j] => i = j
    /\ inventory.declared_total \in {None, Len(inventory.rows)}

Requirements(inventory) == Range(inventory.rows)

Threats == {r \in Regimes : Kinds[r] = "threat"}

\* Slip: a mapping into a threat catalogue is full unless declared otherwise.
StrengthAsWritten(mapping) ==
    IF mapping.declared = None THEN FULL ELSE mapping.declared

\* normalise_crosswalk: a bare reference is full, except to a threat.
Strength(mapping) ==
    IF mapping.regime \in Threats THEN PARTIAL
    ELSE IF mapping.declared = None THEN FULL ELSE mapping.declared

\* compute_provenance for one control: by the number of full mappings.
Provenance(control) ==
    LET full == {i \in DOMAIN control.crosswalk :
                    Strength(control.crosswalk[i]) = FULL}
    IN  IF full = {} THEN ORIGINAL
        ELSE IF \A i, j \in full : i = j THEN DERIVED ELSE ADOPTED

\* _index_controls: the controls that name a requirement.
MappedBy(controls, regime, ref) ==
    {c \in DOMAIN controls : \E i \in DOMAIN controls[c].crosswalk :
        /\ controls[c].crosswalk[i].regime = regime
        /\ controls[c].crosswalk[i].ref = ref}

ExcludedRefs(excluded) == {e.ref : e \in excluded}

\* compute_coverage: a requirement with neither a control nor a reason.
Uncovered(controls, inventory, excluded, regime) ==
    {ref \in Requirements(inventory) :
        MappedBy(controls, regime, ref) = {} /\ ref \notin ExcludedRefs(excluded)}

\* What makes compute_coverage and compute_provenance raise.
CrosswalkRaises(controls, given) ==
    \E c \in DOMAIN controls : \E i \in DOMAIN controls[c].crosswalk :
        LET m == controls[c].crosswalk[i] IN
        \/ m.ref \notin Requirements(given[m.regime])
        \/ m.regime \in Threats /\ m.declared = FULL
ExclusionsRaise(controls, given, excluded) ==
    \E r \in Regimes :
        \/ \E e \in excluded[r] : ~e.reasoned
        \/ \E ref \in Requirements(given[r]) :
             ref \in ExcludedRefs(excluded[r]) /\ MappedBy(controls, r, ref) # {}
ProvenanceRaises(controls) ==
    \E c \in DOMAIN controls :
        controls[c].provenance \notin {None, Provenance(controls[c])}

Failed == [failed |-> TRUE]

\* What `openaisf coverage` reports of a catalog, inventories and exclusions.
Report(controls, given, excluded) ==
    IF \/ \E r \in Regimes : ~Loads(given[r])
       \/ CrosswalkRaises(controls, given)
       \/ ExclusionsRaise(controls, given, excluded)
       \/ ProvenanceRaises(controls)
    THEN Failed
    ELSE [uncovered |-> [r \in Regimes |->
                            Uncovered(controls, given[r], excluded[r], r)],
          originals |-> {c \in DOMAIN controls :
                            Provenance(controls[c]) = ORIGINAL}]

Complete(report) ==
    report # Failed /\ \A r \in Regimes : report.uncovered[r] = {}

\* The command: load_catalog comes first.
CoverageNow ==
    IF wellformed THEN Report(catalog, inventories, exclusions) ELSE Failed

-------------------------------------------------------------------------------
(* Edits of the files.                                                         *)

FilesInit ==
    /\ catalog = [c \in Identifiers |-> [crosswalk |-> <<>>, provenance |-> None]]
    /\ wellformed = TRUE
    /\ inventories = [r \in Regimes |->
                        [rows |-> SetToSeq(Published[r]), declared_total |-> None]]
    /\ exclusions = [r \in Regimes |-> {}]

AddMapping(c, m) ==
    /\ Len(catalog[c].crosswalk) < MaxMappings
    /\ catalog' = [catalog EXCEPT ![c].crosswalk = Append(@, m)]
    /\ UNCHANGED <<wellformed, inventories, exclusions>>

RemoveMapping(c, i) ==
    /\ catalog' = [catalog EXCEPT ![c].crosswalk = RemoveAt(@, i)]
    /\ UNCHANGED <<wellformed, inventories, exclusions>>

DeclareProvenance(c, p) ==
    /\ catalog' = [catalog EXCEPT ![c].provenance = p]
    /\ UNCHANGED <<wellformed, inventories, exclusions>>

\* Somewhere in the catalog's files a rule of load_catalog is broken, or is kept
\* again.
BreakOrMend ==
    /\ wellformed' = ~wellformed
    /\ UNCHANGED <<catalog, inventories, exclusions>>

AddRow(r, ref) ==
    /\ Len(inventories[r].rows) < MaxRows[r]
    /\ inventories' = [inventories EXCEPT ![r].rows = Append(@, ref)]
    /\ UNCHANGED <<catalog, wellformed, exclusions>>

RemoveRow(r, i) ==
    /\ inventories' = [inventories EXCEPT ![r].rows = RemoveAt(@, i)]
    /\ UNCHANGED <<catalog, wellformed, exclusions>>

DeclareTotal(r, total) ==
    /\ inventories' = [inventories EXCEPT ![r].declared_total = total]
    /\ UNCHANGED <<catalog, wellformed, exclusions>>

AddExclusion(r, e) ==
    /\ exclusions' = [exclusions EXCEPT ![r] = @ \cup {e}]
    /\ UNCHANGED <<catalog, wellformed, inventories>>

RemoveExclusion(r, e) ==
    /\ exclusions' = [exclusions EXCEPT ![r] = @ \ {e}]
    /\ UNCHANGED <<catalog, wellformed, inventories>>

Edit ==
    \/ \E c \in Identifiers :
         \/ \E m \in Mappings : AddMapping(c, m)
         \/ \E i \in DOMAIN catalog[c].crosswalk : RemoveMapping(c, i)
         \/ \E p \in {None, ORIGINAL} : DeclareProvenance(c, p)
    \/ BreakOrMend
    \/ \E r \in Regimes :
         \/ \E ref \in Published[r] : AddRow(r, ref)
         \/ \E i \in DOMAIN inventories[r].rows : RemoveRow(r, i)
         \/ \E total \in Totals[r] \cup {None} : DeclareTotal(r, total)
         \/ \E e \in Exclusions[r] : AddExclusion(r, e)
         \/ \E e \in exclusions[r] : RemoveExclusion(r, e)

-------------------------------------------------------------------------------
\* The files hold what the schemas let them hold.
FilesOK ==
    /\ catalog \in Catalog
    /\ wellformed \in BOOLEAN
    /\ inventories \in [Regimes -> Inventory]
    /\ exclusions \in [Regimes -> SUBSET Exclusion]

\* A complete report is complete of the regimes and not just of the files:
\* where each inventory declares the total the regime publishes and invents no
\* requirement, whatever else was dropped, written twice, mapped or excluded,
\* every published requirement has a control or a reason, and not both.
\* (load_inventories: "the only cheap defence against a silently incomplete
\* inventory producing a falsely complete coverage report".)
NoFalseCompleteness ==
    /\ Complete(CoverageNow)
    /\ \A r \in Regimes :
         /\ inventories[r].declared_total = Cardinality(Published[r])
         /\ Requirements(inventories[r]) \subseteq Published[r]
    => \A r \in Regimes : \A ref \in Published[r] :
         (MappedBy(catalog, r, ref) # {})
            # (\E e \in exclusions[r] : e.ref = ref /\ e.reasoned)

\* What a control has to do with requirements: all of its mappings but threats.
Required(c) == {m \in Range(catalog[c].crosswalk) : m.regime \notin Threats}

OriginalsKept ==
    /\ \A c \in Identifiers : Required(c)' = Required(c)
    /\ CoverageNow # Failed /\ CoverageNow' # Failed
    => CoverageNow'.originals = CoverageNow.originals

\* The originality figure is moved by what regimes require and by nothing else:
\* mapping a control to threats, or taking such a mapping back, leaves it as it
\* was. (compute_provenance: threats impose no obligations.)
ThreatsRequireNothing == [][OriginalsKept]_files
===============================================================================
