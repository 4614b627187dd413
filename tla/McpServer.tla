------------------------------- MODULE McpServer ------------------------------
(* mcp.py: the server an agent talks to, one JSON line in and at most one out. *)
(* It loads the catalog when a request first needs it and never again, while   *)
(* it reads inventories and exclusions afresh for every report; and the files  *)
(* under it are edited meanwhile, not least by the agent it serves.            *)
EXTENDS Coverage

CONSTANTS
    Ids,           \* ids that clients give their requests
    Requests,      \* bound: the requests a client may make
    Deployed,      \* bound: the files that a server is started on
    MaxEdits       \* bound: edits of the files under one server

VARIABLES
    server,        \* "down", "serving", or "crashed"
    cache,         \* _CACHE: the catalog, once it was loaded
    said,          \* the last line read, and the message written for it
    edits          \* edits of the files since the server started

serverVars == <<server, cache, said, edits>>
vars == <<files, serverVars>>

\* Requests as handle() tells them apart. A method or target may be of a type
\* the code does not expect ("unforeseen"), and so may the protocol metadata.
Listings == {"server/discover", "initialize", "tools/list", "resources/list",
             "prompts/list"}
Methods == Listings \cup {"tools/call", "resources/read", "prompts/get",
                          "notifications/initialized", "other", "unforeseen", None}

CatalogTools == {"openaisf_explain_control", "openaisf_find_controls",
                 "openaisf_scope", "openaisf_check", "openaisf_coverage"}
Tools == CatalogTools \cup {"openaisf_verify_badge"}
CatalogResources == {"openaisf://catalog", "openaisf://catalog/domains"}
Resources == CatalogResources \cup {"openaisf://principles"}
Prompts == {"openaisf_scope_interview", "openaisf_remediate_control",
            "openaisf_incident_triage"}

\* What a tool makes of its arguments: before it asks for the catalog it may
\* find them invalid, or trip over them; afterwards it may not find what they
\* name, raise a SpecError, or return what json cannot encode (a scoping file
\* whose system_id YAML reads as a date).
Arguments == {"good", "invalid", "unforeseen", "unknown", "refused",
              "unserialisable"}
ArgumentsFor(tool) ==
    CASE tool = "openaisf_explain_control" -> {"good", "unforeseen", "unknown"}
      [] tool = "openaisf_find_controls"   -> {"good", "unforeseen"}
      [] tool = "openaisf_coverage"        -> {"good"}
      [] tool = "openaisf_scope"           -> Arguments \ {"unknown"}
      [] tool = "openaisf_check"           -> Arguments \ {"unserialisable"}
      [] tool = "openaisf_verify_badge"    -> Arguments \ {"unserialisable"}

Request ==
    [id : Ids \cup {None}, method : Methods,
     meta : {"supported", "unsupported", "unforeseen"},
     target : Tools \cup Resources \cup Prompts \cup {"other", "unforeseen"},
     arguments : Arguments]

ASSUME RequestsAssumption ==
    /\ Requests \subseteq Request
    /\ \A r \in Requests : r.method = "tools/call" /\ r.target \in Tools
                              => r.arguments \in ArgumentsFor(r.target)

ASSUME MaxEditsAssumption == MaxEdits \in Nat

\* Lines that are no requests: nothing but space, no JSON, and JSON that is no
\* object.
Blank == [noise |-> "blank"]
Garbage == [noise |-> "garbage"]
NoObject == [noise |-> "no object"]
Noise == {Blank, Garbage, NoObject}
\* And bytes that are no text, where stdin is decoded strictly.
Undecodable == [noise |-> "undecodable"]

Message == [id : Ids \cup {None}, answer : {"result", "isError", "PARSE_ERROR",
                "INVALID_REQUEST", "METHOD_NOT_FOUND", "INVALID_PARAMS",
                "INTERNAL_ERROR", "UNSUPPORTED_PROTOCOL_VERSION"}]

\* Of what was said: for which line, in which messages, and whether a coverage
\* report among them said complete.
Nothing == [line |-> None, messages |-> <<>>, complete |-> FALSE]

-------------------------------------------------------------------------------
Init ==
    /\ FilesInit
    /\ server = "down"
    /\ cache = None
    /\ said = Nothing
    /\ edits = 0

Start ==
    /\ server = "down"
    /\ [catalog |-> catalog, wellformed |-> wellformed,
        inventories |-> inventories, exclusions |-> exclusions] \in Deployed
    /\ server' = "serving"
    /\ UNCHANGED <<files, cache, said, edits>>

\* stdin ends, or what a crash left behind is cleared away.
Stop ==
    /\ server # "down"
    /\ server' = "down"
    /\ cache' = None
    /\ said' = Nothing
    /\ edits' = 0
    /\ UNCHANGED files

EditUnderServer ==
    /\ server = "down" \/ edits < MaxEdits
    /\ Edit
    /\ edits' = IF server = "down" THEN 0 ELSE edits + 1
    /\ UNCHANGED <<server, cache, said>>

\* serve() writes a message for a line, or goes on to the next without.
Say(line, message) ==
    /\ server = "serving"
    /\ said' = [Nothing EXCEPT !.line = line, !.messages = <<message>>]
    /\ UNCHANGED <<files, server, edits>>
Answer(request, answer) == Say(request, [id |-> request.id, answer |-> answer])
SayNothing(line) ==
    /\ server = "serving"
    /\ said' = [Nothing EXCEPT !.line = line]
    /\ UNCHANGED <<files, server, edits>>

\* Slip: a line that is no object is answered under the id of the one before.
MisreadWithOldId(line) ==
    /\ CASE line = Blank    -> SayNothing(line)
         [] line = Garbage  -> Say(line, [id |-> None, answer |-> "PARSE_ERROR"])
         [] line = NoObject ->
               Say(line, [id |-> IF said.messages = <<>> THEN None
                                 ELSE said.messages[1].id,
                          answer |-> "INTERNAL_ERROR"])
    /\ UNCHANGED cache
\* A line that is no request: the id of an earlier request is not remembered.
Misread(line) ==
    /\ CASE line = Blank    -> SayNothing(line)
         [] line = Garbage  -> Say(line, [id |-> None, answer |-> "PARSE_ERROR"])
         [] line = NoObject -> Say(line, [id |-> None, answer |-> "INTERNAL_ERROR"])
    /\ UNCHANGED cache

\* The loop asks stdin for its next line outside the try, and serve() ends.
ReadAndCrash ==
    /\ server = "serving"
    /\ server' = "crashed"
    /\ said' = [Nothing EXCEPT !.line = Undecodable]
    /\ UNCHANGED <<files, cache, edits>>

\* handle() before it looks at which method it is.
Screened(request) ==
    /\ request.method \in {None, "unforeseen", "notifications/initialized"}
          \/ request.meta # "supported"
    /\ CASE request.method = None -> Answer(request, "INVALID_REQUEST")
         [] request.method = "unforeseen" -> Answer(request, "INTERNAL_ERROR")
         [] request.method = "notifications/initialized" -> SayNothing(request)
         [] OTHER -> Answer(request, IF request.meta = "unsupported"
                                     THEN "UNSUPPORTED_PROTOCOL_VERSION"
                                     ELSE "INTERNAL_ERROR")
    /\ UNCHANGED cache

Passes(request, method) == request.method = method /\ request.meta = "supported"

ListSomething(request) ==
    /\ \E method \in Listings : Passes(request, method)
    /\ Answer(request, "result")
    /\ UNCHANGED cache

GetPrompt(request) ==
    /\ Passes(request, "prompts/get")
    /\ Answer(request,
          CASE request.target = "unforeseen" -> "INTERNAL_ERROR"
            [] request.target \in Prompts ->
                  IF request.arguments = "unforeseen" THEN "INTERNAL_ERROR" ELSE "result"
            [] OTHER -> "INVALID_PARAMS")
    /\ UNCHANGED cache

UnknownMethod(request) ==
    /\ Passes(request, "other")
    /\ Answer(request, "METHOD_NOT_FOUND")
    /\ UNCHANGED cache

\* _catalog(): what is remembered or else what load_catalog makes of the files.
Loaded == IF cache # None THEN cache ELSE IF wellformed THEN catalog ELSE Failed
\* Slip: what is remembered is what came of loading, a failure too.
RememberOutcome == cache' = Loaded
Remember == cache' = IF Loaded = Failed THEN None ELSE Loaded

\* A request that comes as far as asking for a catalog that will not load. A tool
\* says so in its result, a resource cannot be read.
WithoutCatalog(request) ==
    /\ Loaded = Failed
    /\ \/ /\ Passes(request, "tools/call") /\ request.target \in CatalogTools
          /\ request.arguments \notin {"invalid", "unforeseen"}
       \/ /\ Passes(request, "resources/read") /\ request.target \in CatalogResources
    /\ Answer(request,
          IF request.method = "tools/call" THEN "isError" ELSE "INTERNAL_ERROR")
    /\ Remember

ReadResource(request) ==
    /\ Passes(request, "resources/read")
    /\ request.target \in CatalogResources => Loaded # Failed
    /\ Answer(request,
          CASE request.target = "unforeseen" -> "INTERNAL_ERROR"
            [] request.target \in Resources -> "result"
            [] OTHER -> "INVALID_PARAMS")
    /\ IF request.target \in CatalogResources THEN Remember ELSE UNCHANGED cache

\* No such tool, or arguments that a tool fails on before it does anything.
CallInVain(request) ==
    /\ Passes(request, "tools/call")
    /\ request.target \notin Tools \/ request.arguments \in {"invalid", "unforeseen"}
    /\ Answer(request, IF "unforeseen" = IF request.target \in Tools
                                         THEN request.arguments ELSE request.target
                       THEN "INTERNAL_ERROR" ELSE "INVALID_PARAMS")
    /\ UNCHANGED cache

CallTool(request) ==
    /\ Passes(request, "tools/call")
    /\ request.target \in Tools \ {"openaisf_coverage"}
    /\ request.arguments \in {"good", "unknown", "refused"}
    /\ request.target \in CatalogTools => Loaded # Failed
    /\ Answer(request, CASE request.arguments = "good"    -> "result"
                         [] request.arguments = "unknown" -> "INVALID_PARAMS"
                         [] request.arguments = "refused" -> "isError")
    /\ IF request.target \in CatalogTools THEN Remember ELSE UNCHANGED cache

\* The answer is made, but json.dumps raises outside the try, and serve() ends.
CallAndCrash(request) ==
    /\ server = "serving"
    /\ Passes(request, "tools/call")
    /\ request.target = "openaisf_scope" /\ request.arguments = "unserialisable"
    /\ Loaded # Failed
    /\ server' = "crashed"
    /\ said' = [Nothing EXCEPT !.line = request]
    /\ Remember
    /\ UNCHANGED <<files, edits>>

\* Slip: a report is complete when some regime is.
SaysCompleteOfAny(report) ==
    report # Failed /\ \E r \in Regimes : report.uncovered[r] = {}
\* The tool's own `complete`.
SaysComplete(report) ==
    report # Failed /\ \A r \in Regimes : report.uncovered[r] = {}

\* openaisf_coverage: the catalog as remembered, the other files as they are.
CallCoverage(request) ==
    /\ server = "serving"
    /\ Passes(request, "tools/call") /\ request.target = "openaisf_coverage"
    /\ Loaded # Failed
    /\ LET report == Report(Loaded, inventories, exclusions) IN
         said' = [line |-> request, complete |-> SaysComplete(report),
                  messages |-> <<[id |-> request.id,
                                  answer |-> IF report = Failed THEN "isError"
                                             ELSE "result"]>>]
    /\ Remember
    /\ UNCHANGED <<files, server, edits>>

Next ==
    \/ EditUnderServer
    \/ Start
    \/ Stop
    \/ \E line \in Noise : Misread(line)
    \/ ReadAndCrash
    \/ \E request \in Requests :
         \/ Screened(request)
         \/ ListSomething(request)
         \/ GetPrompt(request)
         \/ UnknownMethod(request)
         \/ WithoutCatalog(request)
         \/ ReadResource(request)
         \/ CallInVain(request)
         \/ CallTool(request)
         \/ CallAndCrash(request)
         \/ CallCoverage(request)

Spec == Init /\ [][Next]_vars

-------------------------------------------------------------------------------
\* The files and the server's state have their types.
TypeOK ==
    /\ FilesOK
    /\ server \in {"down", "serving", "crashed"}
    /\ cache \in Catalog \cup {None}
    /\ said \in [line : Requests \cup Noise \cup {Undecodable, None},
                 messages : Seq(Message), complete : BOOLEAN]
    /\ edits \in 0..MaxEdits

\* The ids of the answers that a line is owed.
Awaited(line) ==
    CASE line \in Noise -> IF line = Blank THEN <<>> ELSE <<None>>
      [] line \notin Noise -> IF line.method = "notifications/initialized" THEN <<>>
                              ELSE <<line.id>>

\* Every line that asks for something is answered once, under its own id and no
\* other request's, whatever went wrong with it, and a notification never is. The
\* exceptions: the loop does not survive an answer that json cannot encode, nor
\* a line that stdin cannot decode. (mcp.py:691: the loop must survive.)
EveryRequestIsAnswered ==
    said.line # None =>
        \/ /\ server = "serving"
           /\ [i \in DOMAIN said.messages |-> said.messages[i].id] = Awaited(said.line)
        \/ /\ server = "crashed" /\ said.messages = <<>>
           /\ \/ said.line = Undecodable
              \/ said.line \in Requests /\ said.line.arguments = "unserialisable"

\* A stale catalog does not make a report complete too early: where the server
\* says complete and `openaisf coverage` has a gap to report, somebody took a
\* mapping back since the server loaded the catalog. Requirements added to an
\* inventory and exclusions withdrawn are seen at once. (mcp.py:16: every tool
\* here is a pure function of inputs the agent already has.)
CompleteUnlessTakenBack ==
    [][\A request \in Requests :
         /\ CallCoverage(request) /\ said'.complete
         /\ CoverageNow # Failed /\ ~Complete(CoverageNow)
         => \E c \in Identifiers :
              ~(Range(cache'[c].crosswalk) \subseteq Range(catalog[c].crosswalk))]_vars

\* A catalog that could not be loaded is loaded again: only while it is broken is
\* anybody told that it is. (mcp.py:143)
FailureIsNotRemembered ==
    [][\A request \in Requests : WithoutCatalog(request) => ~wellformed]_vars
===============================================================================
