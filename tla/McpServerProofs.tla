---------------------------- MODULE McpServerProofs ---------------------------
(* Theorems about McpServer and the Coverage it answers from, for every set of *)
(* regimes, catalog of any size, clients, and order of edits and requests.     *)
EXTENDS McpServer, FiniteSetTheorems, SequenceTheorems, TLAPS

\* A published regime is transcribed as a sequence of its requirements.
LEMMA TranscriptType ==
    ASSUME NEW S, IsFiniteSet(S)
    PROVE  SetToSeq(S) \in Seq(S)
<1>1. Cardinality(S) \in Nat /\ ExistsBijection(1..Cardinality(S), S)
  BY FS_CardinalityType
<1>2. PICK f \in Bijection(1..Cardinality(S), S) : TRUE
  BY <1>1 DEF ExistsBijection
<1>3. f \in [1..Cardinality(S) -> S] /\ IsInjective(f)
  BY <1>2 DEF Bijection, Injection, IsInjective
<1>4. SetToSeq(S) \in [1..Cardinality(S) -> S]
  BY <1>3 DEF SetToSeq
<1> QED BY <1>1, <1>4

\* Removing an element leaves a sequence over the same set.
LEMMA RemovalType ==
    ASSUME NEW S, NEW s \in Seq(S), NEW i \in DOMAIN s
    PROVE  RemoveAt(s, i) \in Seq(S)
<1>1. Len(s) \in Nat /\ DOMAIN s = 1..Len(s) /\ \A j \in 1..Len(s) : s[j] \in S
  BY LenProperties, ElementOfSeq
<1>2. SubSeq(s, 1, i - 1) \in Seq(S)
  BY <1>1, SubSeqProperties
<1>3. SubSeq(s, i + 1, Len(s)) \in Seq(S)
  BY <1>1, SubSeqProperties
<1> QED BY <1>2, <1>3, ConcatProperties DEF RemoveAt

\* The repository as a server finds it has its type.
LEMMA FilesStart ==
    ASSUME FilesInit
    PROVE  FilesOK
<1>1. catalog \in Catalog
  BY EmptySeq DEF FilesInit, Catalog
<1>2. inventories \in [Regimes -> Inventory]
  <2>1. \A r \in Regimes : SetToSeq(Published[r]) \in Seq(Refs)
    BY PublishedAssumption, PublishedIsFinite, TranscriptType, SeqMonotonic
  <2> QED BY <2>1 DEF FilesInit, Inventory
<1> QED BY <1>1, <1>2 DEF FilesInit, FilesOK

\* No edit takes the files out of their types.
LEMMA EditKeepsFiles ==
    ASSUME FilesOK, Edit
    PROVE  FilesOK'
<1>1. CASE \E c \in Identifiers : \E m \in Mappings : AddMapping(c, m)
  <2> PICK c \in Identifiers : \E m \in Mappings : AddMapping(c, m)
    BY <1>1
  <2> PICK m \in Mappings : AddMapping(c, m)
    OBVIOUS
  <2>1. Append(catalog[c].crosswalk, m) \in Seq(Mapping)
    BY MappingsAssumption, AppendProperties DEF FilesOK, Catalog
  <2> QED BY <2>1 DEF AddMapping, FilesOK, Catalog
<1>2. CASE \E c \in Identifiers : \E i \in DOMAIN catalog[c].crosswalk :
               RemoveMapping(c, i)
  <2> PICK c \in Identifiers : \E i \in DOMAIN catalog[c].crosswalk :
               RemoveMapping(c, i)
    BY <1>2
  <2> PICK i \in DOMAIN catalog[c].crosswalk : RemoveMapping(c, i)
    OBVIOUS
  <2>1. RemoveAt(catalog[c].crosswalk, i) \in Seq(Mapping)
    BY RemovalType DEF FilesOK, Catalog
  <2> QED BY <2>1 DEF RemoveMapping, FilesOK, Catalog
<1>3. CASE \E c \in Identifiers : \E p \in {None, ORIGINAL} : DeclareProvenance(c, p)
  BY <1>3 DEF DeclareProvenance, FilesOK, Catalog, Provenances
<1>4. CASE BreakOrMend
  BY <1>4 DEF BreakOrMend, FilesOK
<1>5. CASE \E r \in Regimes : \E ref \in Published[r] : AddRow(r, ref)
  <2> PICK r \in Regimes : \E ref \in Published[r] : AddRow(r, ref)
    BY <1>5
  <2> PICK ref \in Published[r] : AddRow(r, ref)
    OBVIOUS
  <2>1. Append(inventories[r].rows, ref) \in Seq(Refs)
    BY PublishedAssumption, AppendProperties DEF FilesOK, Inventory
  <2> QED BY <2>1 DEF AddRow, FilesOK, Inventory
<1>6. CASE \E r \in Regimes : \E i \in DOMAIN inventories[r].rows : RemoveRow(r, i)
  <2> PICK r \in Regimes : \E i \in DOMAIN inventories[r].rows : RemoveRow(r, i)
    BY <1>6
  <2> PICK i \in DOMAIN inventories[r].rows : RemoveRow(r, i)
    OBVIOUS
  <2>1. RemoveAt(inventories[r].rows, i) \in Seq(Refs)
    BY RemovalType DEF FilesOK, Inventory
  <2> QED BY <2>1 DEF RemoveRow, FilesOK, Inventory
<1>7. CASE \E r \in Regimes : \E total \in Totals[r] \cup {None} : DeclareTotal(r, total)
  <2> PICK r \in Regimes : \E total \in Totals[r] \cup {None} : DeclareTotal(r, total)
    BY <1>7
  <2> PICK total \in Totals[r] \cup {None} : DeclareTotal(r, total)
    OBVIOUS
  <2>1. total \in Nat \cup {None}
    BY TotalsAssumption
  <2> QED BY <2>1 DEF DeclareTotal, FilesOK, Inventory
<1>8. CASE \E r \in Regimes : \E e \in Exclusions[r] : AddExclusion(r, e)
  <2> PICK r \in Regimes : \E e \in Exclusions[r] : AddExclusion(r, e)
    BY <1>8
  <2> PICK e \in Exclusions[r] : AddExclusion(r, e)
    OBVIOUS
  <2>1. e \in Exclusion
    BY ExclusionsAssumption
  <2> QED BY <2>1 DEF AddExclusion, FilesOK
<1>9. CASE \E r \in Regimes : \E e \in exclusions[r] : RemoveExclusion(r, e)
  BY <1>9 DEF RemoveExclusion, FilesOK
<1> QED BY <1>1, <1>2, <1>3, <1>4, <1>5, <1>6, <1>7, <1>8, <1>9 DEF Edit

-------------------------------------------------------------------------------
\* A catalog is not mistaken for a failure to load one.
LEMMA CatalogIsNoFailure ==
    ASSUME NEW c \in Catalog
    PROVE  c # Failed
<1>1. DOMAIN c = Identifiers /\ DOMAIN Failed = {"failed"}
  BY DEF Catalog, Failed
<1> QED BY <1>1, IdentifiersAssumption

\* What a server holds or loads is a catalog, or it is told that it failed.
LEMMA LoadedType ==
    ASSUME TypeOK
    PROVE  /\ Loaded \in Catalog \cup {Failed}
           /\ Remember => cache' \in Catalog \cup {None}
BY DEF TypeOK, FilesOK, Loaded, Remember

\* A request is not taken for a line that is none.
LEMMA RequestIsNoNoise ==
    ASSUME NEW request \in Requests
    PROVE  request \notin Noise /\ request \in Request
<1>1. request \in Request
  BY RequestsAssumption
<1>2. "id" \in DOMAIN request
  BY <1>1 DEF Request
<1>3. \A line \in Noise : DOMAIN line = {"noise"}
  BY DEF Noise, Blank, Garbage, NoObject
<1> QED BY <1>1, <1>2, <1>3

\* The invariant: what was said to the last line is what that line is owed, and
\* a server that is down has said nothing.
AnswersOwed == TypeOK /\ EveryRequestIsAnswered /\ (server = "down" => said = Nothing)

\* Writing the one message that is owed keeps the invariant.
LEMMA SayIsOwed ==
    ASSUME AnswersOwed, NEW line \in Requests \cup Noise, NEW id \in Ids \cup {None},
           NEW answer, [id |-> id, answer |-> answer] \in Message,
           Awaited(line) = <<id>>, Say(line, [id |-> id, answer |-> answer]),
           cache' \in Catalog \cup {None}
    PROVE  AnswersOwed'
<1> DEFINE message == [id |-> id, answer |-> answer]
<1>1. said' = [line |-> line, messages |-> <<message>>, complete |-> FALSE]
  BY DEF Say, Nothing
<1>2. server = "serving" /\ server' = "serving" /\ UNCHANGED <<files, edits>>
  BY DEF Say
<1>3. <<message>> \in Seq(Message)
  OBVIOUS
<1>4. TypeOK'
  BY <1>1, <1>2, <1>3 DEF AnswersOwed, TypeOK, FilesOK, files
<1>5. [i \in DOMAIN <<message>> |-> <<message>>[i].id] = <<id>>
  OBVIOUS
<1>6. EveryRequestIsAnswered'
  BY <1>1, <1>2, <1>5 DEF EveryRequestIsAnswered
<1> QED BY <1>2, <1>4, <1>6 DEF AnswersOwed

\* So does going on to the next line where nothing is owed.
LEMMA SilenceIsOwed ==
    ASSUME AnswersOwed, NEW line \in Requests \cup Noise,
           Awaited(line) = <<>>, SayNothing(line), UNCHANGED cache
    PROVE  AnswersOwed'
<1>1. said' = [line |-> line, messages |-> <<>>, complete |-> FALSE]
  BY DEF SayNothing, Nothing
<1>2. server = "serving" /\ server' = "serving" /\ UNCHANGED <<files, edits>>
  BY DEF SayNothing
<1>3. TypeOK'
  BY <1>1, <1>2, EmptySeq DEF AnswersOwed, TypeOK, FilesOK, files
<1>4. [i \in DOMAIN <<>> |-> <<>>[i].id] = <<>>
  OBVIOUS
<1>5. EveryRequestIsAnswered'
  BY <1>1, <1>2, <1>4 DEF EveryRequestIsAnswered
<1> QED BY <1>2, <1>3, <1>5 DEF AnswersOwed

\* A request that is no notification is owed one answer, under its id.
LEMMA RequestIsOwed ==
    ASSUME NEW request \in Requests
    PROVE  Awaited(request) = IF request.method = "notifications/initialized"
                              THEN <<>> ELSE <<request.id>>
BY RequestIsNoNoise DEF Awaited

LEMMA AnswerIsOwed ==
    ASSUME AnswersOwed, NEW request \in Requests, NEW answer,
           answer \in {"result", "isError", "INVALID_REQUEST", "METHOD_NOT_FOUND",
                       "INVALID_PARAMS", "INTERNAL_ERROR",
                       "UNSUPPORTED_PROTOCOL_VERSION"},
           request.method # "notifications/initialized",
           Answer(request, answer), cache' \in Catalog \cup {None}
    PROVE  AnswersOwed'
<1>1. request.id \in Ids \cup {None}
  BY RequestIsNoNoise DEF Request
<1>2. [id |-> request.id, answer |-> answer] \in Message
  BY <1>1 DEF Message
<1>3. Awaited(request) = <<request.id>>
  BY RequestIsOwed
<1>4. Say(request, [id |-> request.id, answer |-> answer])
  BY DEF Answer
<1> QED BY <1>1, <1>2, <1>3, <1>4, SayIsOwed

-------------------------------------------------------------------------------
\* Each step keeps the invariant.
LEMMA StepKeepsAnswersOwed ==
    ASSUME AnswersOwed, [Next]_vars
    PROVE  AnswersOwed'
<1>1. TypeOK /\ cache \in Catalog \cup {None}
  BY DEF AnswersOwed, TypeOK
<1>2. UNCHANGED cache => cache' \in Catalog \cup {None}
  BY <1>1
<1>3. Remember => cache' \in Catalog \cup {None}
  BY <1>1, LoadedType
<1>a. CASE EditUnderServer
  <2>1. FilesOK'
    BY <1>a, <1>1, EditKeepsFiles DEF EditUnderServer, TypeOK
  <2>2. edits' \in 0..MaxEdits
    BY <1>a, <1>1, MaxEditsAssumption DEF EditUnderServer, TypeOK
  <2> QED BY <1>a, <2>1, <2>2
         DEF EditUnderServer, AnswersOwed, TypeOK, EveryRequestIsAnswered
<1>b. CASE Start
  BY <1>b DEF Start, AnswersOwed, TypeOK, FilesOK, files, EveryRequestIsAnswered, Nothing
<1>c. CASE Stop
  <2>1. Nothing \in [line : Requests \cup Noise \cup {Undecodable, None},
                     messages : Seq(Message), complete : BOOLEAN]
    BY EmptySeq DEF Nothing
  <2>2. TypeOK'
    BY <1>c, <1>1, <2>1, MaxEditsAssumption DEF Stop, TypeOK, FilesOK, files
  <2> QED BY <1>c, <2>2 DEF Stop, AnswersOwed, EveryRequestIsAnswered, Nothing
<1>d. ASSUME NEW line \in Noise, Misread(line)
      PROVE  AnswersOwed'
  <2>1. cache' \in Catalog \cup {None}
    BY <1>d, <1>2 DEF Misread
  <2>2. Blank # Garbage /\ Blank # NoObject /\ Garbage # NoObject
    BY DEF Blank, Garbage, NoObject
  <2>3. CASE line = Blank
    BY <1>d, <2>2, <2>3, SilenceIsOwed DEF Misread, Awaited, Noise
  <2>4. CASE line = Garbage
    <3>1. Say(line, [id |-> None, answer |-> "PARSE_ERROR"])
      BY <1>d, <2>2, <2>4 DEF Misread
    <3>2. [id |-> None, answer |-> "PARSE_ERROR"] \in Message
      BY DEF Message
    <3> QED BY <2>1, <2>2, <2>4, <3>1, <3>2, SayIsOwed DEF Awaited, Noise
  <2>5. CASE line = NoObject
    <3>1. Say(line, [id |-> None, answer |-> "INTERNAL_ERROR"])
      BY <1>d, <2>2, <2>5 DEF Misread
    <3>2. [id |-> None, answer |-> "INTERNAL_ERROR"] \in Message
      BY DEF Message
    <3> QED BY <2>1, <2>2, <2>5, <3>1, <3>2, SayIsOwed DEF Awaited, Noise
  <2> QED BY <2>3, <2>4, <2>5 DEF Noise
<1>e. ASSUME NEW request \in Requests, Screened(request)
      PROVE  AnswersOwed'
  <2>1. CASE request.method = "notifications/initialized"
    <3>1. SayNothing(request) /\ UNCHANGED cache
      BY <1>e, <2>1, RequestIsNoNoise DEF Screened
    <3> QED BY <2>1, <3>1, RequestIsOwed, SilenceIsOwed
  <2>2. CASE request.method # "notifications/initialized"
    BY <1>e, <1>2, <2>2, AnswerIsOwed DEF Screened
  <2> QED BY <2>1, <2>2
<1>f. ASSUME NEW request \in Requests, ListSomething(request)
      PROVE  AnswersOwed'
  BY <1>f, <1>2, AnswerIsOwed DEF ListSomething, Passes, Listings
<1>g. ASSUME NEW request \in Requests, GetPrompt(request)
      PROVE  AnswersOwed'
  BY <1>g, <1>2, AnswerIsOwed DEF GetPrompt, Passes
<1>h. ASSUME NEW request \in Requests, UnknownMethod(request)
      PROVE  AnswersOwed'
  BY <1>h, <1>2, AnswerIsOwed DEF UnknownMethod, Passes
<1>i. ASSUME NEW request \in Requests, WithoutCatalog(request)
      PROVE  AnswersOwed'
  BY <1>i, <1>3, AnswerIsOwed DEF WithoutCatalog, Passes
<1>j. ASSUME NEW request \in Requests, ReadResource(request)
      PROVE  AnswersOwed'
  BY <1>j, <1>2, <1>3, AnswerIsOwed DEF ReadResource, Passes
<1>k. ASSUME NEW request \in Requests, CallInVain(request)
      PROVE  AnswersOwed'
  BY <1>k, <1>2, AnswerIsOwed DEF CallInVain, Passes
<1>l. ASSUME NEW request \in Requests, CallTool(request)
      PROVE  AnswersOwed'
  <2>1. cache' \in Catalog \cup {None}
    BY <1>l, <1>2, <1>3 DEF CallTool
  <2> QED BY <1>l, <2>1, AnswerIsOwed DEF CallTool, Passes
<1>m. ASSUME NEW request \in Requests, CallAndCrash(request)
      PROVE  AnswersOwed'
  <2>1. said' = [line |-> request, messages |-> <<>>, complete |-> FALSE]
    BY <1>m DEF CallAndCrash, Nothing
  <2>2. server' = "crashed" /\ request.arguments = "unserialisable"
    BY <1>m DEF CallAndCrash
  <2>3. UNCHANGED <<files, edits>> /\ cache' \in Catalog \cup {None}
    BY <1>m, <1>3 DEF CallAndCrash
  <2>4. TypeOK'
    BY <1>1, <2>1, <2>2, <2>3, EmptySeq DEF TypeOK, FilesOK, files
  <2>5. EveryRequestIsAnswered'
    BY <2>1, <2>2 DEF EveryRequestIsAnswered
  <2> QED BY <2>2, <2>4, <2>5 DEF AnswersOwed
<1>p. CASE ReadAndCrash
  <2>1. said' = [line |-> Undecodable, messages |-> <<>>, complete |-> FALSE]
    BY <1>p DEF ReadAndCrash, Nothing
  <2>2. server' = "crashed" /\ UNCHANGED <<files, cache, edits>>
    BY <1>p DEF ReadAndCrash
  <2>3. TypeOK'
    BY <1>1, <2>1, <2>2, EmptySeq DEF TypeOK, FilesOK, files
  <2>4. EveryRequestIsAnswered'
    BY <2>1, <2>2 DEF EveryRequestIsAnswered
  <2> QED BY <2>2, <2>3, <2>4 DEF AnswersOwed
<1>n. ASSUME NEW request \in Requests, CallCoverage(request)
      PROVE  AnswersOwed'
  <2> DEFINE report == Report(Loaded, inventories, exclusions)
             message == [id |-> request.id,
                         answer |-> IF report = Failed THEN "isError" ELSE "result"]
  <2>1. said' = [line |-> request, complete |-> SaysComplete(report),
                 messages |-> <<message>>]
    BY <1>n DEF CallCoverage
  <2>2. server' = "serving" /\ UNCHANGED <<files, edits>> /\ cache' \in Catalog \cup {None}
    BY <1>n, <1>3 DEF CallCoverage
  <2>3. SaysComplete(report) \in BOOLEAN
    BY DEF SaysComplete
  <2>4. message \in Message
    BY RequestIsNoNoise DEF Message, Request
  <2>5. message.id = request.id
    OBVIOUS
  <2> HIDE DEF message, report
  <2>6. TypeOK'
    BY <1>1, <2>1, <2>2, <2>3, <2>4 DEF TypeOK, FilesOK, files
  <2>7. Awaited(request) = <<request.id>>
    BY <1>n, RequestIsOwed DEF CallCoverage, Passes
  <2>8. [i \in DOMAIN <<message>> |-> <<message>>[i].id] = <<request.id>>
    BY <2>5
  <2>9. EveryRequestIsAnswered'
    BY <2>1, <2>2, <2>7, <2>8 DEF EveryRequestIsAnswered
  <2> QED BY <2>2, <2>6, <2>9 DEF AnswersOwed
<1>o. CASE UNCHANGED vars
  BY <1>o DEF vars, serverVars, files, AnswersOwed, TypeOK, FilesOK,
              EveryRequestIsAnswered
<1> QED BY <1>a, <1>b, <1>c, <1>d, <1>e, <1>f, <1>g, <1>h, <1>i, <1>j, <1>k, <1>l,
           <1>m, <1>n, <1>o, <1>p DEF Next

\* The invariant holds at every moment.
THEOREM AnswersAreOwed == Spec => []AnswersOwed
<1>1. Init => AnswersOwed
  <2> SUFFICES ASSUME Init PROVE AnswersOwed
    OBVIOUS
  <2>1. Nothing \in [line : Requests \cup Noise \cup {Undecodable, None},
                     messages : Seq(Message), complete : BOOLEAN]
    BY EmptySeq DEF Nothing
  <2>2. TypeOK
    BY <2>1, FilesStart, MaxEditsAssumption DEF Init, TypeOK
  <2> QED BY <2>2 DEF Init, AnswersOwed, EveryRequestIsAnswered, Nothing
<1> QED BY <1>1, StepKeepsAnswersOwed, PTL DEF Spec

\* Files and server keep their types, whatever is edited and whatever is asked.
THEOREM ServerTypeCorrect == Spec => []TypeOK
BY AnswersAreOwed, PTL DEF AnswersOwed

\* Every request has one answer, under its own id, but for those that the loop
\* does not survive.
THEOREM RequestsAreAnswered == Spec => []EveryRequestIsAnswered
BY AnswersAreOwed, PTL DEF AnswersOwed

-------------------------------------------------------------------------------
\* An inventory that names no requirement twice and as many as there are names
\* them all: the pigeonhole behind declared_total.
LEMMA InventoryIsWhole ==
    ASSUME NEW given \in Inventory, NEW required, IsFiniteSet(required),
           Loads(given), given.declared_total = Cardinality(required),
           Requirements(given) \subseteq required
    PROVE  Requirements(given) = required
<1> DEFINE n == Len(given.rows)
<1>1. n \in Nat /\ DOMAIN given.rows = 1..n /\ given.rows \in [1..n -> Refs]
  BY LenProperties DEF Inventory
<1>2. Cardinality(required) \in Nat
  BY FS_CardinalityType
<1>3. n = Cardinality(required)
  BY <1>2, NoneAssumption DEF Loads
<1>4. given.rows \in Injection(1..n, required)
  <2>1. \A i \in 1..n : given.rows[i] \in required
    BY <1>1 DEF Requirements, Range
  <2> QED BY <1>1, <2>1 DEF Loads, Injection, IsInjective
<1>5. given.rows \in [1..n -> required]
  BY <1>4 DEF Injection
<1>6. Cardinality(1..n) = n
  <2>1. ExistsBijection(1..n, 1..n)
    <3>1. [i \in 1..n |-> i] \in Bijection(1..n, 1..n)
      BY DEF Bijection, Injection, Surjection, IsInjective
    <3> QED BY <3>1 DEF ExistsBijection
  <2> QED BY <1>1, <2>1, FS_CountingElements
<1>7. given.rows \in Surjection(1..n, required)
  BY <1>3, <1>4, <1>6, FS_Injection
<1>8. \A ref \in required : \E i \in 1..n : given.rows[i] = ref
  BY <1>7 DEF Surjection
<1> QED BY <1>1, <1>8 DEF Requirements, Range

\* What a report that is no failure says.
LEMMA ReportSays ==
    ASSUME NEW controls, NEW given, NEW excluded,
           Report(controls, given, excluded) # Failed
    PROVE  /\ \A r \in Regimes : Loads(given[r])
           /\ ~ExclusionsRaise(controls, given, excluded)
           /\ \A r \in Regimes : Report(controls, given, excluded).uncovered[r]
                                   = Uncovered(controls, given[r], excluded[r], r)
BY DEF Report

\* A complete report is complete of the regimes, wherever an inventory declares
\* the total its regime publishes and invents nothing.
THEOREM ReportsAreComplete == Spec => []NoFalseCompleteness
<1>1. TypeOK => NoFalseCompleteness
  <2> SUFFICES
        ASSUME TypeOK, Complete(CoverageNow),
               \A r \in Regimes :
                 /\ inventories[r].declared_total = Cardinality(Published[r])
                 /\ Requirements(inventories[r]) \subseteq Published[r],
               NEW r \in Regimes, NEW ref \in Published[r]
        PROVE  (MappedBy(catalog, r, ref) # {})
                  # (\E e \in exclusions[r] : e.ref = ref /\ e.reasoned)
    BY DEF NoFalseCompleteness
  <2>1. /\ wellformed /\ Report(catalog, inventories, exclusions) # Failed
        /\ CoverageNow = Report(catalog, inventories, exclusions)
    BY DEF Complete, CoverageNow
  <2>2. /\ Loads(inventories[r])
        /\ ~ExclusionsRaise(catalog, inventories, exclusions)
        /\ Uncovered(catalog, inventories[r], exclusions[r], r) = {}
    BY <2>1, ReportSays DEF Complete
  <2>3. inventories[r] \in Inventory /\ IsFiniteSet(Published[r])
    BY PublishedIsFinite DEF TypeOK, FilesOK
  <2>4. ref \in Requirements(inventories[r])
    BY <2>2, <2>3, InventoryIsWhole
  <2>5. MappedBy(catalog, r, ref) # {} \/ ref \in ExcludedRefs(exclusions[r])
    BY <2>2, <2>4 DEF Uncovered
  <2>6. ~(MappedBy(catalog, r, ref) # {} /\ ref \in ExcludedRefs(exclusions[r]))
    BY <2>2, <2>4 DEF ExclusionsRaise
  <2>7. \A e \in exclusions[r] : e.reasoned
    BY <2>2 DEF ExclusionsRaise
  <2> QED BY <2>5, <2>6, <2>7 DEF ExcludedRefs
<1> QED BY <1>1, ServerTypeCorrect, PTL

\* Nobody is told of a broken catalog once it is mended.
THEOREM FailuresAreForgotten == Spec => FailureIsNotRemembered
<1>1. TypeOK => \A request \in Requests : WithoutCatalog(request) => ~wellformed
  <2> SUFFICES ASSUME TypeOK, Loaded = Failed PROVE ~wellformed
    BY DEF WithoutCatalog
  <2> QED BY CatalogIsNoFailure DEF TypeOK, FilesOK, Loaded
<1> QED BY <1>1, ServerTypeCorrect, PTL DEF FailureIsNotRemembered

\* What the server's report says too early, it says for a mapping taken back.
THEOREM StaleReportsAreExcused == Spec => CompleteUnlessTakenBack
<1> DEFINE Excused ==
      \A request \in Requests :
         /\ CallCoverage(request) /\ said'.complete
         /\ CoverageNow # Failed /\ ~Complete(CoverageNow)
         => \E c \in Identifiers :
              ~(Range(cache'[c].crosswalk) \subseteq Range(catalog[c].crosswalk))
<1>1. TypeOK => Excused
  <2> SUFFICES
        ASSUME TypeOK, NEW request \in Requests,
               CallCoverage(request), said'.complete,
               CoverageNow # Failed, ~Complete(CoverageNow),
               \A c \in Identifiers :
                 Range(cache'[c].crosswalk) \subseteq Range(catalog[c].crosswalk)
        PROVE  FALSE
    BY DEF Excused
  <2>1. Loaded # Failed /\ cache' = Loaded /\ cache' \in Catalog /\ catalog \in Catalog
    BY LoadedType DEF CallCoverage, Remember, TypeOK, FilesOK
  <2>2. SaysComplete(Report(cache', inventories, exclusions))
    BY <2>1 DEF CallCoverage
  <2>3. \A r \in Regimes : Uncovered(cache', inventories[r], exclusions[r], r) = {}
    BY <2>2, ReportSays DEF SaysComplete
  <2>4. PICK r \in Regimes : Uncovered(catalog, inventories[r], exclusions[r], r) # {}
    BY ReportSays DEF CoverageNow, Complete
  <2>5. PICK ref \in Requirements(inventories[r]) :
          MappedBy(catalog, r, ref) = {} /\ ref \notin ExcludedRefs(exclusions[r])
    BY <2>4 DEF Uncovered
  <2>6. PICK c \in MappedBy(cache', r, ref) : TRUE
    BY <2>3, <2>5 DEF Uncovered
  <2>7. c \in Identifiers
    BY <2>1, <2>6 DEF MappedBy, Catalog
  <2>8. PICK i \in DOMAIN cache'[c].crosswalk :
          cache'[c].crosswalk[i].regime = r /\ cache'[c].crosswalk[i].ref = ref
    BY <2>6 DEF MappedBy
  <2>9. PICK j \in DOMAIN catalog[c].crosswalk :
          catalog[c].crosswalk[j] = cache'[c].crosswalk[i]
    BY <2>7, <2>8 DEF Range
  <2>10. c \in MappedBy(catalog, r, ref)
    BY <2>1, <2>7, <2>8, <2>9 DEF MappedBy, Catalog
  <2> QED BY <2>5, <2>10
<1>2. TypeOK /\ [Next]_vars => [Excused]_vars
  BY <1>1
<1> QED BY <1>1, <1>2, ServerTypeCorrect, PTL DEF CompleteUnlessTakenBack

-------------------------------------------------------------------------------
\* A control is original unless a requirement it maps to is met in full: its
\* mappings to threats do not come into it.
LEMMA OriginalByRequirements ==
    ASSUME NEW control
    PROVE  Provenance(control) = ORIGINAL
             <=> \A m \in {n \in Range(control.crosswalk) : n.regime \notin Threats} :
                    Strength(m) # FULL
<1>1. Provenance(control) = ORIGINAL
        <=> \A i \in DOMAIN control.crosswalk : Strength(control.crosswalk[i]) # FULL
  BY DEF Provenance, ORIGINAL, DERIVED, ADOPTED
<1>2. \A m : m.regime \in Threats => Strength(m) # FULL
  BY DEF Strength, PARTIAL, FULL
<1> QED BY <1>1, <1>2 DEF Range

\* Threats impose no obligations: whatever is done to the mappings into threat
\* catalogues, the controls counted as original stay the same.
THEOREM ThreatsChangeNothing == Spec => ThreatsRequireNothing
<1> DEFINE Originals == {c \in Identifiers : \A m \in Required(c) : Strength(m) # FULL}
<1>1. TypeOK => (CoverageNow # Failed => CoverageNow.originals = Originals)
  <2> SUFFICES ASSUME TypeOK, CoverageNow # Failed
               PROVE  CoverageNow.originals = Originals
    OBVIOUS
  <2>1. CoverageNow.originals =
           {c \in DOMAIN catalog : Provenance(catalog[c]) = ORIGINAL}
    BY DEF CoverageNow, Report
  <2>2. DOMAIN catalog = Identifiers
    BY DEF TypeOK, FilesOK, Catalog
  <2>3. \A c : Provenance(catalog[c]) = ORIGINAL
                 <=> \A m \in Required(c) : Strength(m) # FULL
    BY OriginalByRequirements DEF Required
  <2> QED BY <2>1, <2>2, <2>3
<1>2. TypeOK' => (CoverageNow' # Failed => CoverageNow'.originals = Originals')
  <2>1. (TypeOK => (CoverageNow # Failed => CoverageNow.originals = Originals))'
    BY <1>1, PTL
  <2> QED BY <2>1
<1>3. (\A c \in Identifiers : Required(c)' = Required(c)) => Originals' = Originals
  OBVIOUS
<1>4. TypeOK /\ TypeOK' => OriginalsKept
  BY <1>1, <1>2, <1>3 DEF OriginalsKept
<1> QED BY <1>4, ServerTypeCorrect, PTL DEF ThreatsRequireNothing
===============================================================================
