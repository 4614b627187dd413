----------------------------- MODULE MCInheritance ----------------------------
(* Small instances of Inheritance: a model provider, an application built on   *)
(* it, and a product built on the application.                                 *)
EXTENDS Inheritance, TLC

CONSTANTS provider, application, product

MCControls == {"model", "own"}
MCGrace == [t \in Tiers |-> 2]
MCMaxLease == [t \in Tiers |-> 3]
MCMaxLeaseShort == [t \in Tiers |-> 2]

\* The window of the control that everybody proves is narrower than the ceiling.
MCCatalog ==
    [c \in MCControls |->
        [method |-> "attested", planes |-> {CONTROL_PLANE},
         freshness |-> [t \in Tiers |-> IF c = "own" THEN 1 ELSE 2]]]

Applies == [verdict |-> APPLIES, obligation |-> "required"]
Inherited == [verdict |-> INHERITED, obligation |-> "required"]
OutOfScope == [verdict |-> NOT_APPLICABLE, obligation |-> None]

\* The model control proved here, or inherited from upstream (None: asserted).
Own(tier, own) ==
    [soa |-> [tier |-> tier, entries |->
                [c \in MCControls |-> IF c = "model" THEN Applies ELSE own]],
     upstream |-> [c \in MCControls |-> None]]
From(upstream, tier, own) ==
    [soa |-> [tier |-> tier, entries |->
                [c \in MCControls |-> IF c = "model" THEN Inherited ELSE own]],
     upstream |-> [c \in MCControls |-> IF c = "model" THEN upstream ELSE None]]

\* Two of them.
MCPair == {provider, application}
MCScopingsPair ==
    (provider :> {Own("T3", OutOfScope)})
    @@ (application :> {From(provider, "T3", Applies)})

\* Three in a row, of which the middle one proves a control of its own besides.
MCChain == {provider, application, product}
MCScopingsChain ==
    (provider :> {Own("T3", OutOfScope)})
    @@ (application :> {From(provider, "T3", Applies)})
    @@ (product :> {From(application, "T3", OutOfScope)})

\* Tiers that do not match, asserted inheritances and mutual ones.
MCScopingsLadder ==
    (provider :> {Own("T2", OutOfScope), From(None, "T2", OutOfScope)})
    @@ (application :> {From(provider, t, OutOfScope) : t \in {"T2", "T3"}}
                       \cup {From(product, "T3", OutOfScope), Own("T3", OutOfScope)})
    @@ (product :> {From(application, "T3", OutOfScope)})
===============================================================================
