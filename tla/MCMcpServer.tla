------------------------------ MODULE MCMcpServer -----------------------------
(* A small instance of McpServer: a regime of two requirements, a catalogue of *)
(* one threat, one control, and one request of every kind the code tells apart.*)
EXTENDS McpServer

MCPublished == [r \in Regimes |-> IF r = "iso" THEN {"a", "b"} ELSE {"t"}]
MCKinds == [r \in Regimes |-> IF r = "iso" THEN "requirement" ELSE "threat"]

Maps(regime, ref, declared) == [regime |-> regime, ref |-> ref, declared |-> declared]
MCMappings ==
    {Maps("iso", "a", None), Maps("iso", "b", None), Maps("iso", "a", PARTIAL),
     Maps("atlas", "t", None), Maps("atlas", "t", FULL)}

Excludes(ref, reasoned) == [ref |-> ref, reasoned |-> reasoned]
MCExclusions ==
    [r \in Regimes |-> IF r = "iso" THEN {Excludes("b", TRUE), Excludes("b", FALSE)}
                       ELSE {Excludes("t", TRUE)}]
MCTotals == [r \in Regimes |-> {Cardinality(MCPublished[r])}]
MCMaxRows == [r \in Regimes |-> Cardinality(MCPublished[r])]

\* Only the regime of requirements has gaps to report when the server starts.
Started(crosswalk, wellformed_) ==
    [catalog |-> [c \in Identifiers |->
                    [crosswalk |-> crosswalk, provenance |-> None]],
     wellformed |-> wellformed_,
     inventories |-> [r \in Regimes |->
                        [rows |-> SetToSeq(MCPublished[r]), declared_total |-> None]],
     exclusions |-> [r \in Regimes |-> {}]]
MCDeployed ==
    {Started(<<Maps("iso", "a", None), Maps("atlas", "t", None)>>, TRUE),
     Started(<<Maps("iso", "a", None), Maps("atlas", "t", None)>>, FALSE)}

Asks(id, method, meta, target, arguments) ==
    [id |-> id, method |-> method, meta |-> meta, target |-> target,
     arguments |-> arguments]
Calls(tool, arguments) == Asks("1", "tools/call", "supported", tool, arguments)
MCRequests ==
    {Asks(None, "notifications/initialized", "supported", "other", "good"),
     Asks("2", None, "supported", "other", "good"),
     Asks("2", "unforeseen", "supported", "other", "good"),
     Asks("2", "tools/list", "unsupported", "other", "good"),
     Asks("2", "tools/list", "unforeseen", "other", "good"),
     Asks("2", "tools/list", "supported", "other", "good"),
     Asks("2", "other", "supported", "other", "good"),
     Asks("2", "prompts/get", "supported", "openaisf_incident_triage", "good"),
     Asks("2", "resources/read", "supported", "openaisf://principles", "good"),
     Asks("2", "resources/read", "supported", "openaisf://catalog", "good"),
     Calls("other", "good"),
     Calls("openaisf_verify_badge", "unknown"),
     Calls("openaisf_check", "invalid"),
     Calls("openaisf_check", "refused"),
     Calls("openaisf_scope", "unserialisable"),
     Calls("openaisf_coverage", "good")}
===============================================================================
