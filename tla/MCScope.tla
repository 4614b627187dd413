-------------------------------- MODULE MCScope -------------------------------
(* A small instance of Scope: a control every deployer owes, one for agents    *)
(* that use tools, one that grows out of a recommendation as tiers rise, and   *)
(* one whose last expression nobody ever tried.                                *)
EXTENDS Scope

MCControls == {"policy", "tools", "people", "planner"}
MCGrace == [t \in Tiers |-> 1]
MCMaxLease == [t \in Tiers |-> 1]
MCFacts ==
    [k \in Keys |->
        CASE k = "roles" -> {"provider", "deployer"}
          [] k = "system_class" -> {"agentic"}
          [] k = "data_class" -> {"personal"}
          [] OTHER -> {}]

MCCatalog ==
    [c \in MCControls |->
        [method |-> "attested", planes |-> {CONTROL_PLANE},
         freshness |-> [t \in Tiers |-> 1]]]

Wants(roles, classes, data) ==
    [k \in Keys |-> CASE k = "roles" -> roles
                      [] k = "system_class" -> classes
                      [] k = "data_class" -> data
                      [] OTHER -> {}]
Is(operator, level) == [operator |-> operator, level |-> level]
At(t1, t2, t3, t4) ==
    [t \in Tiers |-> CASE t = "T1" -> t1 [] t = "T2" -> t2 [] t = "T3" -> t3 [] t = "T4" -> t4]

MCScoped ==
    [c \in MCControls |->
        CASE c = "policy" ->
                [wanted |-> Wants({"deployer"}, {}, {}), autonomy |-> <<>>,
                 tiers |-> At("required", "required", "required", "required")]
          [] c = "tools" ->
                [wanted |-> Wants({"deployer"}, {"agentic"}, {}),
                 autonomy |-> <<Is(">=", "tool_use")>>,
                 tiers |-> At("not_applicable", "recommended", "required", "required")]
          [] c = "people" ->
                [wanted |-> Wants({"provider", "deployer"}, {}, {"personal"}),
                 autonomy |-> <<>>,
                 tiers |-> At(None, "recommended", "required", "required")]
          [] OTHER ->
                [wanted |-> Wants({"provider"}, {}, {}),
                 autonomy |-> <<Is(">", "planning"), Is("==", "none"), Is(">=", "auto")>>,
                 tiers |-> At(None, "required", "required", "required")]]

File(roles, classes, data, autonomy) ==
    [readable |-> TRUE, facts |-> Wants(roles, classes, data), autonomy |-> autonomy,
     inherits |-> [c \in MCControls \cup Strangers |-> None],
     exclusions |-> [c \in MCControls \cup Strangers |-> None]]

\* A chat assistant, an agent that handles personal data, and a file that says
\* nothing yet.
MCFiles ==
    {File({"deployer"}, {}, {}, "none"),
     File({"deployer", "provider"}, {"agentic"}, {"personal"}, "planning"),
     File({}, {}, {}, "none")}
===============================================================================
