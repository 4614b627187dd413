--------------------------------- MODULE Scope --------------------------------
(* applicability.py and soa.py: which controls a system owes at a tier, and    *)
(* what its scoping file declares about them. The subject edits that file at   *)
(* any time; `openaisf scope` resolves it into a Statement of Applicability.   *)
EXTENDS Check, SequencesExt

CONSTANTS
    Strangers,     \* identifiers a scoping file may name that no control has
    Facts,         \* key -> the values a system may declare for it
    Scoped,        \* control -> its roles, applies_when and tiers
    OffLadder,     \* autonomy levels that are not on the ladder
    Files,         \* scoping files the subject may start from
    MaxEdits       \* bound: edits of the file, the choice of a tier among them

AUTONOMY_LADDER == <<"none", "tool_use", "planning", "self_directed", "multi_agent">>

\* The keys a control and a system are matched on: its roles, and SET_KEYS.
Keys == {"roles", "system_class", "data_class", "eu_risk"}

\* An expression whose level is not on the ladder, or that does not parse, is
\* one whose level is OffLadder: the schema lets any string through.
Expression ==
    [operator : {">=", ">", "=="}, level : Range(AUTONOMY_LADDER) \cup OffLadder]

\* Of a control, what decides whether it applies. An absent list is empty.
Predicate ==
    [wanted : {w \in [Keys -> SUBSET UNION {Facts[k] : k \in Keys}] :
                 \A k \in Keys : w[k] \subseteq Facts[k]},
     autonomy : Seq(Expression),
     tiers : [Tiers -> {"required", "recommended", "not_applicable", None}]]

\* What a scoping file says of a control it inherits: nothing, no upstream,
\* an upstream's name, that and half a reference to its log, or all of it.
Inheritances == {None, "blank", "asserted", "half", "log"}
Exclusions == {None, "blank", "reason"}

ScopingFile ==
    [readable : BOOLEAN,
     facts : [Keys -> SUBSET UNION {Facts[k] : k \in Keys}],
     autonomy : Range(AUTONOMY_LADDER) \cup OffLadder,
     inherits : [Controls \cup Strangers -> Inheritances],
     exclusions : [Controls \cup Strangers -> Exclusions]]

ASSUME StrangersAssumption == Strangers \cap Controls = {}
ASSUME OffLadderAssumption == OffLadder \cap Range(AUTONOMY_LADDER) = {}
ASSUME ScopedAssumption == \A c \in Controls : Scoped[c] \in Predicate
ASSUME FilesAssumption == Files \subseteq ScopingFile
ASSUME MaxEditsAssumption == MaxEdits \in Nat

VARIABLES
    file,          \* the scoping file
    tier,          \* the tier the subject asks for
    document,      \* the last Statement of Applicability, and what it resolved
    edits          \* how many edits there were

vars == <<file, tier, document, edits>>

-------------------------------------------------------------------------------
AutonomyRank(level) ==
    CHOOSE i \in DOMAIN AUTONOMY_LADDER : AUTONOMY_LADDER[i] = level

Malformed(e) == e.level \in OffLadder

\* Slip: an operator is only stripped off, as if the match were always exact.
AutonomyMatchesExactly(e, actual) == AutonomyRank(actual) = AutonomyRank(e.level)

\* _autonomy_matches, of an expression that is not malformed.
AutonomyMatches(e, actual) ==
    \/ e.operator = ">=" /\ AutonomyRank(actual) >= AutonomyRank(e.level)
    \/ e.operator = ">" /\ AutonomyRank(actual) > AutonomyRank(e.level)
    \/ e.operator = "==" /\ AutonomyRank(actual) = AutonomyRank(e.level)

\* Slip: whatever the catalog says at the tier.
ObligationVerbatim(c, t) == Scoped[c].tiers[t]

\* obligation_at_tier; in_scope_at_tier is whether there is one.
Obligation(c, t) ==
    IF Scoped[c].tiers[t] \in {"required", "recommended"}
    THEN Scoped[c].tiers[t] ELSE None

\* The gates before autonomy: an obligation at the tier, a role, and every set
\* key the control names.
PassesSets(c, f, t) ==
    /\ Obligation(c, t) # None
    /\ \A k \in Keys :
         Scoped[c].wanted[k] = {} \/ Scoped[c].wanted[k] \cap f.facts[k] # {}

\* The expressions that end any(): one that matches, or one that raises.
Decisive(c, f) ==
    {i \in DOMAIN Scoped[c].autonomy :
        \/ Malformed(Scoped[c].autonomy[i])
        \/ AutonomyMatches(Scoped[c].autonomy[i], f.autonomy)}

\* applies_to raises: the first expression that decides is malformed. A system
\* that another gate turns away, or an earlier expression lets in, is not told.
Raises(c, f, t) ==
    /\ PassesSets(c, f, t)
    /\ \E i \in Decisive(c, f) :
         /\ \A j \in Decisive(c, f) : i <= j
         /\ Malformed(Scoped[c].autonomy[i])

\* applies_to, where it does not raise.
AppliesTo(c, f, t) ==
    /\ PassesSets(c, f, t)
    /\ Scoped[c].autonomy = <<>> \/ Decisive(c, f) # {}

Declared(c, f) == f.inherits[c] # None \/ f.exclusions[c] # None

\* Slip: an exclusion or inheritance of what does not apply is passed over.
ResolvesLeftovers(f, t) ==
    /\ f.readable /\ f.autonomy \notin OffLadder
    /\ \A c \in Strangers : ~Declared(c, f)
    /\ \A c \in Controls :
         /\ ~(f.inherits[c] # None /\ f.exclusions[c] # None)
         /\ ~Raises(c, f, t)
         /\ f.inherits[c] \notin {"blank", "half"} /\ f.exclusions[c] # "blank"

\* load_context and resolve_soa return, rather than raise.
Resolves(f, t) ==
    /\ f.readable /\ f.autonomy \notin OffLadder
    /\ \A c \in Strangers : ~Declared(c, f)
    /\ \A c \in Controls :
         /\ ~(f.inherits[c] # None /\ f.exclusions[c] # None)
         /\ ~Raises(c, f, t)
         /\ Declared(c, f) => AppliesTo(c, f, t)
         /\ f.inherits[c] \notin {"blank", "half"} /\ f.exclusions[c] # "blank"

\* Slip: what applies is entered without its obligation.
ResolveWithoutObligation(f, t) ==
    [tier |-> t, entries |-> [c \in Controls |->
        [verdict |-> IF ~AppliesTo(c, f, t) THEN NOT_APPLICABLE
                     ELSE IF f.inherits[c] # None THEN INHERITED
                     ELSE IF f.exclusions[c] # None THEN EXCLUDED ELSE APPLIES,
         obligation |-> None]]]

\* The entries resolve_soa makes, control by control.
ResolveSoA(f, t) ==
    [tier |-> t, entries |-> [c \in Controls |->
        IF ~AppliesTo(c, f, t) THEN [verdict |-> NOT_APPLICABLE, obligation |-> None]
        ELSE [verdict |-> IF f.inherits[c] # None THEN INHERITED
                          ELSE IF f.exclusions[c] # None THEN EXCLUDED ELSE APPLIES,
              obligation |-> Obligation(c, t)]]]

-------------------------------------------------------------------------------
Init ==
    /\ file \in Files
    /\ tier \in Tiers
    /\ document = None
    /\ edits = 0

Edit(edited) ==
    /\ edits < MaxEdits
    /\ edited # file
    /\ file' = edited
    /\ edits' = edits + 1
    /\ UNCHANGED <<tier, document>>

\* A fact is declared, or withdrawn.
StateFact(k, value) ==
    \/ Edit([file EXCEPT !.facts[k] = @ \cup {value}])
    \/ Edit([file EXCEPT !.facts[k] = @ \ {value}])

StateAutonomy(level) == Edit([file EXCEPT !.autonomy = level])

\* A control is declared inherited or excluded, or no longer is.
Inherit(c, how) == Edit([file EXCEPT !.inherits[c] = how])
Exclude(c, how) == Edit([file EXCEPT !.exclusions[c] = how])

\* A key load_context does not know is added, or system_id lost; or put right.
MangleOrMend == Edit([file EXCEPT !.readable = ~@])

\* --tier, on the command line.
AskFor(t) ==
    /\ edits < MaxEdits
    /\ t # tier
    /\ tier' = t
    /\ edits' = edits + 1
    /\ UNCHANGED <<file, document>>

\* _cmd_scope: the document is written once all of it has been resolved.
WriteSoA ==
    /\ Resolves(file, tier)
    /\ document' = [file |-> file, tier |-> tier, soa |-> ResolveSoA(file, tier)]
    /\ UNCHANGED <<file, tier, edits>>

Next ==
    \/ \E k \in Keys : \E value \in Facts[k] : StateFact(k, value)
    \/ \E level \in Range(AUTONOMY_LADDER) \cup OffLadder : StateAutonomy(level)
    \/ \E c \in Controls \cup Strangers, how \in Inheritances : Inherit(c, how)
    \/ \E c \in Controls \cup Strangers, how \in Exclusions : Exclude(c, how)
    \/ MangleOrMend
    \/ \E t \in Tiers : AskFor(t)
    \/ WriteSoA

Spec == Init /\ [][Next]_vars

-------------------------------------------------------------------------------
Document == [file : ScopingFile, tier : Tiers, soa : SoA]

\* What is edited is a scoping file, and what is written a Statement of
\* Applicability that evaluate() can take.
TypeOK ==
    /\ file \in ScopingFile
    /\ tier \in Tiers
    /\ document \in Document \cup {None}
    /\ edits \in 0..MaxEdits

\* One file says all that another says of the system, and no less autonomy.
SaysNoLess(f, g) ==
    /\ \A k \in Keys : g.facts[k] \subseteq f.facts[k]
    /\ AutonomyRank(f.autonomy) >= AutonomyRank(g.autonomy)

Thresholds(c) == \A i \in DOMAIN Scoped[c].autonomy :
                    Scoped[c].autonomy[i].operator # "=="

\* applicability.py:18: autonomy is a ladder, and each rung inherits the
\* obligations below it. However the file was edited since a document was
\* written, if it still says all it said then of the system, which may have
\* climbed the ladder, no control has dropped out of scope at that tier (one
\* that asks for an exact rung apart).
NothingIsShed ==
    /\ document # None
    /\ tier = document.tier /\ Resolves(file, tier) /\ SaysNoLess(file, document.file)
    => \A c \in Controls :
         /\ Thresholds(c)
         /\ document.soa.entries[c].verdict # NOT_APPLICABLE
         => ResolveSoA(file, tier).entries[c].verdict # NOT_APPLICABLE

\* soa.py:133: a stale exclusion is a defect, not a harmless leftover. Whatever
\* was edited around it, a declaration either has its effect on the document
\* that is written or keeps it from being written.
NoDeclarationIgnored ==
    document # None =>
        \A c \in Controls :
            Declared(c, document.file) =>
                document.soa.entries[c].verdict \in {INHERITED, EXCLUDED}

\* What `openaisf check` makes of a document where there is no evidence, and
\* where the logs that inheritances refer to hold nothing.
CheckOnNothing(d) ==
    Evaluate(d.soa, [c \in Controls |-> [p \in Planes |-> <<>>]],
             [c \in Controls |->
                [found |-> IF d.file.inherits[c] = "log" THEN "absent" ELSE "asserted",
                 tier |-> d.tier, state |-> VALID]], 0)

\* MANUAL.md:179: an exclusion is not a way to quietly skip work. Without any
\* evidence the only conformant system is one that, for each control it is
\* required to satisfy, gave a reason not to or named an upstream below T3.
NothingForNothing ==
    document # None /\ Conformant(CheckOnNothing(document)) =>
        \A c \in Controls :
            /\ AppliesTo(c, document.file, document.tier)
            /\ Obligation(c, document.tier) = "required"
            => \/ document.file.exclusions[c] = "reason"
               \/ document.file.inherits[c] = "asserted" /\ document.tier \in {"T1", "T2"}
===============================================================================
