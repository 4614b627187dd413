----------------------------- MODULE MCCollection -----------------------------
(* Small instances of Collection: one control that both planes must prove and  *)
(* one that is recommended, whose data plane is looked at when there is one.   *)
EXTENDS Collection, TLC

CONSTANTS assistant, billing

MCControls == {"firewall", "logging"}
MCOrder == <<"firewall", "logging">>
MCGrace == [t \in Tiers |-> 1]
MCMaxLease == [t \in Tiers |-> 2]
MCCatalog ==
    ("firewall" :> [method |-> "emitted", planes |-> Planes,
                    freshness |-> [t \in Tiers |-> 1]])
    @@ ("logging" :> [method |-> "emitted", planes |-> {CONTROL_PLANE},
                      freshness |-> [t \in Tiers |-> None]])
MCScope ==
    [tier |-> "T2", entries |->
        ("firewall" :> [verdict |-> APPLIES, obligation |-> "required"])
        @@ ("logging" :> [verdict |-> APPLIES, obligation |-> "recommended"])]

Reported(enabled, traffic, decisions) ==
    [enabled |-> enabled, traffic |-> traffic, decisions |-> decisions]

Enforcing == Reported("true", "some", "some")
SwitchedOff == Reported("false", "some", "zero")
NeverFires == Reported("true", "some", "zero")
FiresOnNothing == Reported("true", "zero", "some")
NoCounters == Reported("true", "missing", "missing")
Configured == NoCounters
NotReported == Reported("missing", "missing", "missing")

MCObservations ==
    ("firewall" :> {Enforcing, SwitchedOff, NeverFires, FiresOnNothing, NoCounters})
    @@ ("logging" :> {Configured, NotReported})
===============================================================================
