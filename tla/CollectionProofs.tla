---------------------------- MODULE CollectionProofs ---------------------------
(* Type correctness of Collection, and what its two safety properties rest on: *)
(* what the directory holds of the pass that wrote it, and what every file     *)
(* anybody reads holds of the gateways that were ever asked. For every set of  *)
(* controls, order, number of passes and point at which the adapter dies.      *)
EXTENDS Collection, StatementProofs

\* What the adapter writes is the content of a file.
LEMMA RecordType ==
    ASSUME NEW system \in Sources, NEW summary \in Summaries, NEW n \in Files,
           NEW time \in Times
    PROVE  /\ Record(system, summary[n[1]], n[2], time) \in Written
           /\ Record(system, summary[n[1]], n[2], time) \notin {None, Malformed}
<1>1. n[1] \in Controls /\ n[2] \in Planes
  BY DEF Files
<1>2. summary[n[1]] \in Observation
  BY <1>1, ObservationsAssumption DEF Summaries
<1>3. Record(system, summary[n[1]], n[2], time).record \in EvidenceRecord
  BY <1>2, SchemeAssumption
     DEF Record, Observation, EvidenceRecord, Schemes, Volumes
<1>4. Record(system, summary[n[1]], n[2], time) \in Written
  BY <1>3 DEF Record, Written
<1>5. Malformed \notin Written
  BY DEF Malformed, Written
<1> QED BY <1>4, <1>5, NoneIsNothing

\* Passes are counted within the range of a clock.
LEMMA PassesAreTimes == ASSUME TypeOK PROVE passes \in Times /\ passes \in Nat
  BY MaxPassesAssumption, HorizonAssumption DEF TypeOK, Times

\* The directory, the adapter, the commands and the histories have their types.
THEOREM CollectionTypeCorrect == Spec => []TypeOK
<1>1. Init => TypeOK
  BY MaxPassesAssumption DEF Init, TypeOK, Content, Idle
<1>2. TypeOK /\ [Next]_vars => TypeOK'
  <2> SUFFICES ASSUME TypeOK, [Next]_vars PROVE TypeOK' OBVIOUS
  <2>1. ASSUME NEW system \in Sources, NEW summary \in Summaries,
               StartPass(system, summary)
        PROVE  TypeOK'
    <3>1. Writes(summary) \in SUBSET Files
      BY DEF Writes
    <3>2. pass' \in Passes /\ pass'.todo = Writes(pass'.summary)
          /\ pass'.step = "next"
      BY <2>1, <3>1 DEF StartPass, Passes
    <3>3. passes' \in 0..MaxPasses
      BY <2>1, MaxPassesAssumption DEF StartPass, TypeOK
    <3>4. vouched' \subseteq Controls
      BY <2>1 DEF StartPass, TypeOK
    <3> QED BY <2>1, <3>2, <3>3, <3>4 DEF StartPass, TypeOK
  <2>2. CASE Truncate
    <3>1. PICK n \in Files : /\ ComesNext(n)
                             /\ files' = [files EXCEPT ![n] = Malformed]
                             /\ pass' = [pass EXCEPT !.step = "open", !.file = n]
      BY <2>2 DEF Truncate
    <3>2. pass # Idle /\ pass \in Passes /\ n \in pass.todo
      BY <2>2, <3>1 DEF Truncate, TypeOK, ComesNext
    <3>3. /\ pass' \in Passes /\ pass'.todo = pass.todo /\ pass'.file = n
          /\ pass'.summary = pass.summary
      BY <3>1, <3>2 DEF Passes
    <3>4. files' \in [Files -> Content]
      BY <3>1 DEF TypeOK, Content
    <3> QED BY <2>2, <3>2, <3>3, <3>4 DEF Truncate, TypeOK
  <2>3. CASE Fill
    <3> DEFINE n == pass.file
               content == Record(pass.system, pass.summary[n[1]], n[2], passes)
    <3>1. /\ files' = [files EXCEPT ![n] = content]
          /\ pass' = [pass EXCEPT !.step = "next", !.todo = @ \ {n}]
      BY <2>3 DEF Fill
    <3>2. pass \in Passes /\ n \in pass.todo /\ pass.todo \subseteq Writes(pass.summary)
      BY <2>3 DEF Fill, TypeOK
    <3>3. n \in Files /\ content \in Written
      BY <3>2, RecordType, PassesAreTimes DEF Passes
    <3>4. files' \in [Files -> Content]
      BY <3>1, <3>3 DEF TypeOK, Content
    <3>5. /\ pass' \in Passes /\ pass'.todo \subseteq Writes(pass'.summary)
          /\ pass'.step = "next"
      BY <3>1, <3>2 DEF Passes
    <3> QED BY <2>3, <3>4, <3>5 DEF Fill, TypeOK
  <2>4. CASE EndPass
    BY <2>4 DEF EndPass, TypeOK, Passes
  <2>5. CASE Crash
    BY <2>5 DEF Crash, TypeOK
  <2>6. CASE List
    <3>1. reader' \in Readings
      BY <2>6 DEF List, Readings
    <3> QED BY <2>6, <3>1 DEF List, TypeOK
  <2>7. CASE ReadFile
    <3>1. PICK n \in reader.left :
             IF files[n] = Malformed
             THEN exit' = 2 /\ reader' = Idle
             ELSE /\ reader' = [reader EXCEPT !.left = @ \ {n}, !.read[n] = files[n]]
                  /\ UNCHANGED exit
      BY <2>7 DEF ReadFile
    <3>2. reader \in Readings
      BY <2>7 DEF ReadFile, TypeOK
    <3>3. CASE files[n] = Malformed
      BY <2>7, <3>1, <3>3 DEF ReadFile, TypeOK
    <3>4. CASE files[n] # Malformed
      <4>1. n \in Files /\ files[n] \in Written \cup {None}
        BY <3>2, <3>4 DEF TypeOK, Content, Readings
      <4>2. /\ reader' = [reader EXCEPT !.left = @ \ {n}, !.read[n] = files[n]]
            /\ UNCHANGED exit
        BY <3>1, <3>4
      <4>3. reader' \in Readings
        BY <3>2, <4>1, <4>2 DEF Readings
      <4> QED BY <2>7, <4>2, <4>3 DEF ReadFile, TypeOK
    <3> QED BY <3>3, <3>4
  <2>8. ASSUME NEW command \in Commands, Finish(command) PROVE TypeOK'
    <3>1. reader.read \in [Files -> Written \cup {None}]
      BY <2>8 DEF Finish, TypeOK, Readings
    <3>2. exit' \in {0, 1, 2}
      BY <2>8 DEF Finish
    <3>3. Conformant(RunOf(reader.read)) \in BOOLEAN
      BY DEF Conformant
    <3>4. published' \in Entries \cup {None}
      BY <2>8, <3>1, <3>3 DEF Finish, TypeOK, Entries
    <3> QED BY <2>8, <3>2, <3>4 DEF Finish, TypeOK
  <2>9. CASE UNCHANGED vars
    BY <2>9 DEF vars, TypeOK
  <2> QED BY <2>1, <2>2, <2>3, <2>4, <2>5, <2>6, <2>7, <2>8, <2>9 DEF Next, Write, Read
<1> QED BY <1>1, <1>2, PTL DEF Spec

-------------------------------------------------------------------------------
(* What the directory holds of the pass that wrote it.                         *)

\* The file tells what was observed: signed with the adapter's key, and with the
\* values of its plane.
Tells(content, plane, observation) ==
    /\ content \in Written
    /\ content.record.scheme = Scheme /\ content.record.verified
    /\ plane = CONTROL_PLANE => content.record.enabled = observation.enabled
    /\ plane = DATA_PLANE => /\ content.record.traffic = observation.traffic
                             /\ content.record.decisions = observation.decisions

\* What makes SettledDirectoryIsTheGateway inductive: while a pass runs, of the
\* files that are behind it each tells what it observed, and no settled summary
\* is remembered beside it.
Settled ==
    /\ pass # Idle =>
         /\ last = None
         /\ \A n \in Writes(pass.summary) \ pass.todo :
               Tells(files[n], n[2], pass.summary[n[1]])
    /\ last # None => \A n \in Writes(last) : Tells(files[n], n[2], last[n[1]])

\* Every step keeps the directory settled.
LEMMA SettledInductive ==
    ASSUME TypeOK, Settled, [Next]_vars
    PROVE  Settled'
<1>1. ASSUME UNCHANGED <<files, pass, last>> PROVE Settled'
  BY <1>1 DEF Settled
<1>2. ASSUME NEW system \in Sources, NEW summary \in Summaries,
             StartPass(system, summary)
      PROVE  Settled'
  <2>1. last' = None /\ pass'.todo = Writes(summary) /\ pass'.summary = summary
    BY <1>2 DEF StartPass
  <2> QED BY <2>1 DEF Settled
<1>3. CASE Truncate
  <2>1. PICK n \in Files : /\ ComesNext(n)
                           /\ files' = [files EXCEPT ![n] = Malformed]
                           /\ pass' = [pass EXCEPT !.step = "open", !.file = n]
    BY <1>3 DEF Truncate
  <2>2. pass # Idle /\ pass \in Passes /\ n \in pass.todo /\ last = None /\ last' = None
    BY <1>3, <2>1 DEF Truncate, TypeOK, ComesNext, Settled
  <2>3. pass'.todo = pass.todo /\ pass'.summary = pass.summary
    BY <2>1, <2>2 DEF Passes
  <2>4. \A m \in Writes(pass.summary) \ pass.todo : files'[m] = files[m]
    BY <2>1, <2>2 DEF TypeOK
  <2> QED BY <2>2, <2>3, <2>4 DEF Settled, Writes
<1>4. CASE Fill
  <2> DEFINE n == pass.file
             content == Record(pass.system, pass.summary[n[1]], n[2], passes)
  <2>1. /\ files' = [files EXCEPT ![n] = content]
        /\ pass' = [pass EXCEPT !.step = "next", !.todo = @ \ {n}]
    BY <1>4 DEF Fill
  <2>2. /\ pass # Idle /\ pass \in Passes /\ last = None /\ last' = None
        /\ n \in Files /\ n \in pass.todo
    BY <1>4 DEF Fill, TypeOK, Passes, Settled
  <2>3. pass'.todo = pass.todo \ {n} /\ pass'.summary = pass.summary
    BY <2>1, <2>2 DEF Passes
  <2>4. Tells(content, n[2], pass.summary[n[1]])
    <3>1. content \in Written
      BY <2>2, RecordType, PassesAreTimes DEF Passes
    <3>2. CONTROL_PLANE # DATA_PLANE
      BY DEF CONTROL_PLANE, DATA_PLANE
    <3> QED BY <3>1, <3>2 DEF Tells, Record
  <2>5. files'[n] = content /\ \A m \in Files \ {n} : files'[m] = files[m]
    BY <2>1, <2>2 DEF TypeOK
  <2>6. ASSUME NEW m \in Writes(pass.summary) \ pass'.todo
        PROVE  Tells(files'[m], m[2], pass.summary[m[1]])
    <3> HIDE DEF content
    <3>1. CASE m = n
      BY <2>4, <2>5, <3>1
    <3>2. CASE m # n
      BY <2>2, <2>3, <2>5, <3>2 DEF Settled, Writes
    <3> QED BY <3>1, <3>2
  <2> QED BY <2>2, <2>3, <2>6 DEF Settled, Writes
<1>5. CASE EndPass
  <2>1. /\ pass # Idle /\ pass.todo = {} /\ last' = pass.summary
        /\ pass' = Idle /\ files' = files
    BY <1>5 DEF EndPass
  <2> QED BY <2>1 DEF Settled, Writes
<1>6. CASE Crash
  BY <1>6 DEF Crash, Settled
<1>7. CASE List
  BY <1>1, <1>7 DEF List
<1>8. CASE ReadFile
  BY <1>1, <1>8 DEF ReadFile
<1>9. ASSUME NEW command \in Commands, Finish(command) PROVE Settled'
  BY <1>1, <1>9 DEF Finish
<1>10. CASE UNCHANGED vars
  BY <1>1, <1>10 DEF vars
<1> QED BY <1>2, <1>3, <1>4, <1>5, <1>6, <1>7, <1>8, <1>9, <1>10 DEF Next, Write, Read

-------------------------------------------------------------------------------
(* From files to verdicts.                                                     *)

\* Of one record, the newest admissible one is that record or none.
LEMMA NewestOfOne ==
    ASSUME NEW record \in EvidenceRecord, NEW tier
    PROVE  Newest(<<record>>, tier) = IF Inadmissible(record, tier) THEN None ELSE record
<1> DEFINE usable == Usable(<<record>>, tier)
<1>1. \A i \in DOMAIN <<record>> : <<record>>[i] = record /\ i = 1
  OBVIOUS
<1>2. CASE Inadmissible(record, tier)
  BY <1>1, <1>2 DEF Newest, Usable
<1>3. CASE ~Inadmissible(record, tier)
  <2>1. usable = {1}
    BY <1>3 DEF Usable
  <2>2. record.window_to <= record.window_to
    BY HorizonAssumption DEF EvidenceRecord, Times
  <2>3. {i \in usable : \A j \in usable :
            <<record>>[j].window_to <= <<record>>[i].window_to} = {1}
    BY <2>1, <2>2
  <2>4. Min({1}) \in {1}
    BY MinOfNaturals
  <2> QED BY <1>3, <2>1, <2>3, <2>4 DEF Newest
<1> QED BY <1>2, <1>3

\* Of none, none.
LEMMA NewestOfNone == ASSUME NEW tier PROVE Newest(<<>>, tier) = None
  BY DEF Newest, Usable

\* Judge disqualifies exactly where every plane it requires has a record and the
\* two planes contradict each other.
LEMMA JudgeDisqualifies ==
    ASSUME NEW c, NEW required \in SUBSET Planes, NEW obligation, NEW tier,
           NEW planes, NEW t
    PROVE  Judge(c, required, obligation, tier, planes, t).disqualifying
           <=> /\ \A p \in required : Newest(planes[p], tier) # None
               /\ Contradiction(Newest(planes[CONTROL_PLANE], tier),
                                Newest(planes[DATA_PLANE], tier))
<1> DEFINE record == [p \in Planes |-> Newest(planes[p], tier)]
           present == {p \in required : record[p] # None}
           contradicted == Contradiction(record[CONTROL_PLANE], record[DATA_PLANE])
<1>1. /\ record[CONTROL_PLANE] = Newest(planes[CONTROL_PLANE], tier)
      /\ record[DATA_PLANE] = Newest(planes[DATA_PLANE], tier)
  BY DEF Planes
<1>2. present = required <=> \A p \in required : Newest(planes[p], tier) # None
  OBVIOUS
<1>3. contradicted \in BOOLEAN
  BY DEF Contradiction
<1>4. Judge(c, required, obligation, tier, planes, t).disqualifying
      <=> present = required /\ contradicted
  BY DEF Judge, ControlResult
<1> QED BY <1>1, <1>2, <1>4

\* What a verdict finds of one file: its record, unless the file is not there or
\* its signature does not count at this tier.
LEMMA NewestOfFile ==
    ASSUME NEW read, NEW c \in Controls, NEW p \in Planes, NEW tier,
           read[<<c, p>>] \in Content
    PROVE  Newest(Index(read)[c][p], tier)
           = IF \/ read[<<c, p>>] \in {None, Malformed}
                \/ Inadmissible(read[<<c, p>>].record, tier)
             THEN None ELSE read[<<c, p>>].record
<1> DEFINE content == read[<<c, p>>]
<1>1. Index(read)[c][p] =
         IF content \in {None, Malformed} THEN <<>> ELSE <<content.record>>
  BY DEF Index
<1>2. CASE content \in {None, Malformed}
  BY <1>1, <1>2, NewestOfNone
<1>3. CASE content \notin {None, Malformed}
  <2>1. content.record \in EvidenceRecord
    BY <1>3 DEF Content, Written
  <2>2. Index(read)[c][p] = <<content.record>>
    BY <1>1, <1>3
  <2> HIDE DEF content
  <2>3. Newest(<<content.record>>, tier)
        = IF Inadmissible(content.record, tier) THEN None ELSE content.record
    BY <2>1, NewestOfOne
  <2> QED BY <1>3, <2>2, <2>3 DEF content
<1> QED BY <1>2, <1>3

\* The result of a control that applies and that records are evidence of.
LEMMA ResultIsJudged ==
    ASSUME NEW read, NEW c \in Controls,
           Scope.entries[c].verdict = APPLIES, Catalog[c].method # "assessed"
    PROVE  \E required \in SUBSET Planes :
              /\ Catalog[c].method = "emitted" => required = Catalog[c].planes
              /\ RunOf(read).results[c] =
                    Judge(c, required, Scope.entries[c].obligation, Scope.tier,
                          Index(read)[c], passes)
<1> DEFINE entry == Scope.entries[c]
           judged(required) == Judge(c, required, entry.obligation, Scope.tier,
                                     Index(read)[c], passes)
           r == RunOf(read).results[c]
<1>1. Catalog[c].method \in Methods /\ Catalog[c].planes \in SUBSET Planes
  BY CatalogAssumption DEF Verification
<1>2. r = EvaluateControl(Scope, Index(read), Asserted, passes, c)
  BY DEF RunOf, Evaluate
<1>3. {CONTROL_PLANE} \in SUBSET Planes
  BY DEF Planes
<1>4. CASE Catalog[c].method = "emitted"
  <2>1. r = judged(Catalog[c].planes)
    <3> HIDE DEF r
    <3> QED BY <1>2, <1>4 DEF EvaluateControl, EvaluateEmitted, APPLIES,
                 NOT_APPLICABLE, EXCLUDED, INHERITED
  <2> QED BY <1>1, <2>1
<1>5. CASE Catalog[c].method \in {"asserted", "attested"}
  <2>1. r = judged({CONTROL_PLANE})
    <3> HIDE DEF r
    <3> QED BY <1>2, <1>5 DEF EvaluateControl, EvaluateDeclared, APPLIES,
                 NOT_APPLICABLE, EXCLUDED, INHERITED
  <2> QED BY <1>3, <1>5, <2>1
<1> QED BY <1>1, <1>4, <1>5 DEF Methods

\* The adapter signs with a key whose signatures count at the tier of the scope.
\* (check.py:155: from T3 up a digest establishes no author.)
KeyIsAdmitted == Scope.tier \in SIGNING_REQUIRED_FROM => Scheme = "ed25519"

\* Between passes the directory convicts a control exactly of what the gateway
\* last said of it: for every catalog and scope, however many passes were cut
\* off before, and whatever the commands did meanwhile.
THEOREM SettledIsTheGateway ==
    ASSUME KeyIsAdmitted
    PROVE  Spec => []SettledDirectoryIsTheGateway
<1>1. Init => Settled
  BY DEF Init, Settled
<1>2. TypeOK /\ Settled /\ [Next]_vars => Settled'
  BY SettledInductive
<1>3. TypeOK /\ Settled => SettledDirectoryIsTheGateway
  <2> SUFFICES ASSUME TypeOK, Settled, last # None, NEW c \in Controls,
                      Scope.entries[c].verdict = APPLIES,
                      Catalog[c].method # "assessed",
                      \A p \in Planes : Reports(last[c], p)
               PROVE  RunOf(files).results[c].disqualifying <=> Lies(last[c])
    BY DEF SettledDirectoryIsTheGateway
  <2> DEFINE content(p) == files[<<c, p>>]
             newest(p) == Newest(Index(files)[c][p], Scope.tier)
  <2>1. ASSUME NEW p \in Planes
        PROVE  /\ newest(p) = content(p).record /\ newest(p) # None
               /\ Tells(content(p), p, last[c])
    <3>1. <<c, p>> \in Writes(last)
      BY DEF Writes, Files
    <3>2. Tells(content(p), p, last[c])
      BY <3>1 DEF Settled
    <3>3. content(p) \in Written /\ content(p) \notin {None, Malformed}
      BY <3>2, NoneIsNothing DEF Tells, Written, Malformed
    <3>4. content(p).record \in EvidenceRecord /\ content(p).record # None
      BY <3>3, NoneIsNothing DEF Written
    <3>5. ~Inadmissible(content(p).record, Scope.tier)
      BY <3>2 DEF Tells, Inadmissible, KeyIsAdmitted
    <3> QED BY <3>2, <3>3, <3>4, <3>5, NewestOfFile DEF Content
  <2>2. Contradiction(newest(CONTROL_PLANE), newest(DATA_PLANE)) <=> Lies(last[c])
    <3>1. CONTROL_PLANE \in Planes /\ DATA_PLANE \in Planes
          /\ CONTROL_PLANE # DATA_PLANE
      BY DEF Planes, CONTROL_PLANE, DATA_PLANE
    <3> HIDE DEF newest, content
    <3> QED BY <2>1, <3>1 DEF Contradiction, Lies, Tells
  <2>3. PICK required \in SUBSET Planes :
           RunOf(files).results[c] =
              Judge(c, required, Scope.entries[c].obligation, Scope.tier,
                    Index(files)[c], passes)
    BY ResultIsJudged
  <2> HIDE DEF content
  <2> QED BY <2>1, <2>2, <2>3, JudgeDisqualifies
<1> QED BY <1>1, <1>2, <1>3, CollectionTypeCorrect, PTL DEF Spec

-------------------------------------------------------------------------------
(* What every file anybody reads holds of the gateways that were asked.        *)

\* One plane's half of a story that contradicts itself.
HalfALie(record, plane) ==
    /\ plane = CONTROL_PLANE => record.enabled = "true"
    /\ plane = DATA_PLANE =>
          \/ record.traffic = "some" /\ record.decisions = "zero"
          \/ record.traffic = "zero" /\ record.decisions = "some"

\* Of a control that nobody ever told a sound story of, a file is half a lie.
Unvouched(n, content) ==
    content \in Written /\ n[1] \notin vouched => HalfALie(content.record, n[2])

\* What makes LiesCaughtInAnyMixture inductive: it is so of every file in the
\* directory and of every file that was read, and whoever was asked lied.
Sworn ==
    /\ \A n \in Files : Unvouched(n, files[n])
    /\ reader # Idle => \A n \in Files : Unvouched(n, reader.read[n])
    /\ pass # Idle => \A c \in Controls \ vouched : Lies(pass.summary[c])

\* A control once vouched for stays so.
LEMMA VouchedStays ==
    ASSUME TypeOK, [Next]_vars
    PROVE  vouched \subseteq vouched'
<1>1. ASSUME NEW system \in Sources, NEW summary \in Summaries,
             StartPass(system, summary)
      PROVE  vouched \subseteq vouched'
  BY <1>1 DEF StartPass
<1>2. CASE vouched' = vouched
  BY <1>2
<1> QED BY <1>1, <1>2 DEF Next, Write, Read, Truncate, Fill, EndPass, Crash, List,
             ReadFile, Finish, vars

\* Every step keeps every file sworn to.
LEMMA SwornInductive ==
    ASSUME TypeOK, Sworn, [Next]_vars
    PROVE  Sworn'
<1>0. vouched \subseteq vouched'
  BY VouchedStays
<1>1. ASSUME NEW n, NEW content, Unvouched(n, content) PROVE Unvouched(n, content)'
  BY <1>0, <1>1 DEF Unvouched
<1>2. ASSUME UNCHANGED files PROVE \A n \in Files : Unvouched(n, files[n])'
  BY <1>1, <1>2 DEF Sworn
<1>3. ASSUME UNCHANGED reader
      PROVE  reader' # Idle => \A n \in Files : Unvouched(n, reader.read[n])'
  BY <1>1, <1>3 DEF Sworn
<1>4. ASSUME UNCHANGED pass
      PROVE  pass' # Idle => \A c \in Controls \ vouched' : Lies(pass'.summary[c])
  BY <1>0, <1>4 DEF Sworn
<1>5. ASSUME NEW system \in Sources, NEW summary \in Summaries,
             StartPass(system, summary)
      PROVE  Sworn'
  <2>1. /\ pass'.summary = summary
        /\ vouched' = vouched \cup {c \in Controls : ~Lies(summary[c])}
        /\ UNCHANGED <<files, reader>>
    BY <1>5 DEF StartPass
  <2>2. \A c \in Controls \ vouched' : Lies(pass'.summary[c])
    BY <2>1
  <2> QED BY <1>2, <1>3, <2>1, <2>2 DEF Sworn
<1>6. CASE Truncate
  <2>1. PICK n \in Files : /\ ComesNext(n)
                           /\ files' = [files EXCEPT ![n] = Malformed]
                           /\ pass' = [pass EXCEPT !.step = "open", !.file = n]
    BY <1>6 DEF Truncate
  <2>2. pass # Idle /\ pass \in Passes /\ pass'.summary = pass.summary
    BY <1>6, <2>1 DEF Truncate, TypeOK, Passes
  <2>3. Malformed \notin Written
    BY DEF Malformed, Written
  <2>4. \A m \in Files : Unvouched(m, files[m])'
    BY <1>1, <2>1, <2>3 DEF Sworn, Unvouched, TypeOK
  <2>5. \A c \in Controls \ vouched' : Lies(pass'.summary[c])
    BY <1>0, <2>2 DEF Sworn
  <2> QED BY <1>3, <1>6, <2>4, <2>5 DEF Truncate, Sworn
<1>7. CASE Fill
  <2> DEFINE n == pass.file
             content == Record(pass.system, pass.summary[n[1]], n[2], passes)
  <2>1. /\ files' = [files EXCEPT ![n] = content]
        /\ pass' = [pass EXCEPT !.step = "next", !.todo = @ \ {n}]
        /\ UNCHANGED <<reader, vouched>> /\ pass # Idle
    BY <1>7 DEF Fill
  <2>2. pass \in Passes /\ n \in Files /\ pass'.summary = pass.summary
    BY <1>7, <2>1 DEF Fill, TypeOK, Passes
  <2>3. Unvouched(n, content)
    <3> SUFFICES ASSUME n[1] \notin vouched PROVE HalfALie(content.record, n[2])
      BY DEF Unvouched
    <3>1. Lies(pass.summary[n[1]])
      BY <2>1, <2>2 DEF Sworn, Files
    <3>2. CONTROL_PLANE # DATA_PLANE
      BY DEF CONTROL_PLANE, DATA_PLANE
    <3> QED BY <3>1, <3>2 DEF HalfALie, Lies, Record
  <2>4. files'[n] = content /\ \A m \in Files \ {n} : files'[m] = files[m]
    BY <2>1, <2>2 DEF TypeOK
  <2> HIDE DEF content
  <2>5. \A m \in Files : Unvouched(m, files[m])'
    BY <1>1, <2>3, <2>4 DEF Sworn
  <2>6. \A c \in Controls \ vouched' : Lies(pass'.summary[c])
    BY <1>0, <2>1, <2>2 DEF Sworn
  <2> QED BY <1>3, <2>1, <2>5, <2>6 DEF Sworn
<1>8. CASE EndPass
  BY <1>2, <1>3, <1>8 DEF EndPass, Sworn
<1>9. CASE Crash
  BY <1>2, <1>3, <1>9 DEF Crash, Sworn
<1>10. CASE List
  <2>1. reader'.read = [n \in Files |-> None] /\ UNCHANGED <<files, pass, vouched>>
    BY <1>10 DEF List
  <2>2. \A n \in Files : Unvouched(n, reader.read[n])'
    BY <2>1, NoneIsNothing DEF Unvouched
  <2> QED BY <1>2, <1>4, <2>1, <2>2 DEF Sworn
<1>11. CASE ReadFile
  <2>1. PICK n \in reader.left :
           \/ reader' = Idle
           \/ reader' = [reader EXCEPT !.left = @ \ {n}, !.read[n] = files[n]]
    BY <1>11 DEF ReadFile
  <2>2. reader # Idle /\ reader \in Readings /\ n \in Files
        /\ UNCHANGED <<files, pass, vouched>>
    BY <1>11 DEF ReadFile, TypeOK, Readings
  <2>3. ASSUME reader' # Idle, NEW m \in Files
        PROVE  Unvouched(m, reader.read[m])'
    <3>1. reader' = [reader EXCEPT !.left = @ \ {n}, !.read[n] = files[n]]
      BY <2>1, <2>3
    <3>2. reader'.read[m] = files[m] \/ reader'.read[m] = reader.read[m]
      BY <2>2, <3>1 DEF Readings
    <3> QED BY <1>1, <2>2, <3>2 DEF Sworn
  <2> QED BY <1>2, <1>4, <2>2, <2>3 DEF Sworn
<1>12. ASSUME NEW command \in Commands, Finish(command) PROVE Sworn'
  BY <1>2, <1>4, <1>12 DEF Finish, Sworn
<1>13. CASE UNCHANGED vars
  BY <1>2, <1>3, <1>4, <1>13 DEF vars, Sworn
<1> QED BY <1>5, <1>6, <1>7, <1>8, <1>9, <1>10, <1>11, <1>12, <1>13 DEF Next, Write, Read

\* A command that ends with code 0 read no control that both planes must prove
\* and of which every story lied.
LEMMA ConformantIsVouched ==
    ASSUME TypeOK, Sworn, reader # Idle, Conformant(RunOf(reader.read)),
           NEW c \in Controls,
           Scope.entries[c] = [verdict |-> APPLIES, obligation |-> "required"],
           Catalog[c].method = "emitted", Catalog[c].planes = Planes
    PROVE  c \in vouched
<1> DEFINE read == reader.read
           r == RunOf(read).results[c]
           newest(p) == Newest(Index(read)[c][p], Scope.tier)
<1>1. /\ Scope.entries[c].verdict = APPLIES
      /\ Scope.entries[c].obligation = "required"
  OBVIOUS
<1>2. r = Judge(c, Planes, "required", Scope.tier, Index(read)[c], passes)
  BY <1>1, ResultIsJudged
<1>3. ~Blocks(r)
  BY DEF Conformant, BlockingControls
<1>4. ~r.disqualifying /\ r.status # FAIL
  <2>1. r.obligation = "required"
    <3> HIDE DEF r
    <3> QED BY <1>2 DEF Judge, ControlResult
  <2> QED BY <1>3, <2>1 DEF Blocks, BLOCKING
<1>5. \A p \in Planes : newest(p) # None
  <2> HIDE DEF r
  <2> QED BY <1>2, <1>4 DEF Judge, ControlResult
<1>6. ~Contradiction(newest(CONTROL_PLANE), newest(DATA_PLANE))
  <2> HIDE DEF r, newest
  <2>1. Planes \in SUBSET Planes OBVIOUS
  <2> QED BY <1>2, <1>4, <1>5, <2>1, JudgeDisqualifies DEF newest
<1>7. ASSUME NEW p \in Planes
      PROVE  read[<<c, p>>] \in Written /\ newest(p) = read[<<c, p>>].record
  <2>1. read[<<c, p>>] \in Written \cup {None}
    BY DEF TypeOK, Readings, Files
  <2> QED BY <1>5, <2>1, NewestOfFile DEF Content
<1>8. SUFFICES ASSUME c \notin vouched PROVE FALSE
  OBVIOUS
<1>9. \A p \in Planes : HalfALie(newest(p), p)
  <2>1. \A p \in Planes : <<c, p>> \in Files /\ Unvouched(<<c, p>>, read[<<c, p>>])
    BY DEF Sworn, Files
  <2> QED BY <1>7, <1>8, <2>1 DEF Unvouched
<1>10. CONTROL_PLANE \in Planes /\ DATA_PLANE \in Planes
  BY DEF Planes
<1> QED BY <1>5, <1>6, <1>9, <1>10 DEF HalfALie, Contradiction

\* Whatever mixture of old and new files a command reads, and however the writes
\* and the reads of any number of passes interleave, no required control that
\* both planes must prove passes if its gateway never told a sound story of it.
THEOREM LiesAreCaught == Spec => []LiesCaughtInAnyMixture
<1>1. Init => Sworn /\ LiesCaughtInAnyMixture
  <2>1. None # 0 BY NoneAssumption
  <2> QED BY <2>1, NoneIsNothing DEF Init, Sworn, Unvouched, LiesCaughtInAnyMixture
<1>2. TypeOK /\ Sworn /\ [Next]_vars => Sworn'
  BY SwornInductive
<1>3. TypeOK /\ Sworn /\ LiesCaughtInAnyMixture /\ [Next]_vars
      => LiesCaughtInAnyMixture'
  <2> SUFFICES ASSUME TypeOK, Sworn, LiesCaughtInAnyMixture, [Next]_vars
               PROVE  LiesCaughtInAnyMixture'
    OBVIOUS
  <2>1. vouched \subseteq vouched'
    BY VouchedStays
  <2>2. CASE exit' = exit
    BY <2>1, <2>2 DEF LiesCaughtInAnyMixture
  <2>3. CASE ReadFile
    BY <2>2, <2>3 DEF ReadFile, LiesCaughtInAnyMixture
  <2>4. ASSUME NEW command \in Commands, Finish(command)
        PROVE  LiesCaughtInAnyMixture'
    <3>1. reader # Idle /\ vouched' = vouched
      BY <2>4 DEF Finish
    <3>2. exit' = 0 => Conformant(RunOf(reader.read))
      BY <2>4 DEF Finish
    <3> QED BY <3>1, <3>2, ConformantIsVouched DEF LiesCaughtInAnyMixture
  <2> QED BY <2>2, <2>3, <2>4 DEF Next, Write, Read, StartPass, Truncate, Fill,
                 EndPass, Crash, List, vars
<1> QED BY <1>1, <1>2, <1>3, CollectionTypeCorrect, PTL DEF Spec

-------------------------------------------------------------------------------
(* The halves of PublishedCatchesUp that are safety: what a last whole pass    *)
(* makes of a directory, and that a badge that has caught up with it stays so. *)

\* The last pass has come to its end.
Calm == passes = MaxPasses /\ pass = Idle

\* After a pass that was whole, no file is torn, whatever passes died before it.
Repaired == Calm => \A n \in Files : files[n] # Malformed

\* What makes Repaired inductive: no file is there that the gateway could not
\* report, and the last pass leaves out nothing that it can.
Foreseen ==
    /\ \A n \in Files : files[n] # None =>
          \E o \in Observations[n[1]] : Reports(o, n[2])
    /\ passes = MaxPasses =>
          IF pass = Idle THEN last # None /\ Whole(last) ELSE Whole(pass.summary)

\* Every step keeps the files foreseen.
LEMMA ForeseenInductive ==
    ASSUME TypeOK, Foreseen, [Next]_vars
    PROVE  Foreseen'
<1>1. ASSUME UNCHANGED <<files, pass, passes, last>> PROVE Foreseen'
  BY <1>1 DEF Foreseen
<1>2. ASSUME NEW n \in Files, pass # Idle, n \in pass.todo
      PROVE  \E o \in Observations[n[1]] : Reports(o, n[2])
  <2>1. n \in Writes(pass.summary) /\ pass.summary \in Summaries /\ n[1] \in Controls
    BY <1>2 DEF TypeOK, Passes, Files
  <2> QED BY <2>1 DEF Writes, Summaries
<1>3. ASSUME NEW system \in Sources, NEW summary \in Summaries,
             StartPass(system, summary)
      PROVE  Foreseen'
  <2>1. /\ files' = files /\ passes' = passes + 1
        /\ passes + 1 = MaxPasses => Whole(summary)
        /\ pass' # Idle /\ pass'.summary = summary
    BY <1>3 DEF StartPass, Idle
  <2> QED BY <2>1 DEF Foreseen
<1>4. CASE Truncate
  <2>1. PICK n \in Files : /\ ComesNext(n)
                           /\ files' = [files EXCEPT ![n] = Malformed]
                           /\ pass' = [pass EXCEPT !.step = "open", !.file = n]
    BY <1>4 DEF Truncate
  <2>2. pass # Idle /\ pass \in Passes /\ n \in pass.todo
    BY <1>4, <2>1 DEF Truncate, TypeOK, ComesNext
  <2>3. \E o \in Observations[n[1]] : Reports(o, n[2])
    BY <1>2, <2>2
  <2>4. \A m \in Files \ {n} : files'[m] = files[m]
    BY <2>1 DEF TypeOK
  <2>5. pass' # Idle /\ pass'.summary = pass.summary /\ passes' = passes
    BY <1>4, <2>1, <2>2 DEF Truncate, Passes, Idle
  <2> QED BY <2>2, <2>3, <2>4, <2>5 DEF Foreseen
<1>5. CASE Fill
  <2> DEFINE n == pass.file
  <2>1. /\ pass # Idle /\ pass \in Passes /\ n \in Files /\ n \in pass.todo
        /\ passes' = passes
    BY <1>5 DEF Fill, TypeOK, Passes
  <2>2. /\ pass' = [pass EXCEPT !.step = "next", !.todo = @ \ {n}]
        /\ \A m \in Files \ {n} : files'[m] = files[m]
    BY <1>5, <2>1 DEF Fill, TypeOK
  <2>3. pass' # Idle /\ pass'.summary = pass.summary
    BY <2>1, <2>2 DEF Passes, Idle
  <2>4. \E o \in Observations[n[1]] : Reports(o, n[2])
    BY <1>2, <2>1
  <2> HIDE DEF n
  <2> QED BY <2>1, <2>2, <2>3, <2>4 DEF Foreseen
<1>6. CASE EndPass
  <2>1. /\ pass # Idle /\ pass \in Passes /\ last' = pass.summary
        /\ pass' = Idle /\ files' = files /\ passes' = passes
    BY <1>6 DEF EndPass, TypeOK
  <2>2. pass.summary # None
    BY <2>1, NoneIsNothing DEF Passes
  <2> QED BY <2>1, <2>2 DEF Foreseen
<1>7. CASE Crash
  <2>1. passes # MaxPasses /\ passes' = passes /\ files' = files
    BY <1>7, MaxPassesAssumption, PassesAreTimes DEF Crash
  <2> QED BY <2>1 DEF Foreseen
<1>8. CASE List
  BY <1>1, <1>8 DEF List
<1>9. CASE ReadFile
  BY <1>1, <1>9 DEF ReadFile
<1>10. ASSUME NEW command \in Commands, Finish(command) PROVE Foreseen'
  BY <1>1, <1>10 DEF Finish
<1>11. CASE UNCHANGED vars
  BY <1>1, <1>11 DEF vars
<1> QED BY <1>3, <1>4, <1>5, <1>6, <1>7, <1>8, <1>9, <1>10, <1>11 DEF Next, Write, Read

\* A pass that leaves nothing out and comes to its end repairs the directory:
\* every file that is there can be read, whatever earlier passes left of it.
THEOREM DirectoryIsRepaired == Spec => []Repaired
<1>1. Init => Settled /\ Foreseen
  <2>1. Init => passes # MaxPasses
    BY MaxPassesAssumption DEF Init
  <2> QED BY <2>1 DEF Init, Settled, Foreseen
<1>2. TypeOK /\ Settled /\ Foreseen /\ [Next]_vars => Settled' /\ Foreseen'
  BY SettledInductive, ForeseenInductive
<1>3. TypeOK /\ Settled /\ Foreseen => Repaired
  <2> SUFFICES ASSUME TypeOK, Settled, Foreseen, Calm,
                      NEW n \in Files, files[n] # None
               PROVE  files[n] # Malformed
    BY NoneIsNothing DEF Repaired
  <2>1. last # None /\ Whole(last) /\ n[1] \in Controls /\ n[2] \in Planes
    BY DEF Foreseen, Calm, Files
  <2>2. n \in Writes(last)
    BY <2>1 DEF Foreseen, Whole, Writes
  <2>3. files[n] \in Written
    BY <2>1, <2>2 DEF Settled, Tells
  <2> QED BY <2>3 DEF Written, Malformed
<1> QED BY <1>1, <1>2, <1>3, CollectionTypeCorrect, PTL DEF Spec

\* The badge rests on the files that are there, no pass will change them, and
\* what a command has read so far of them is what they say.
CaughtUp ==
    /\ Calm
    /\ published # None /\ published.basis = files
    /\ reader # Idle =>
         \A n \in Files : n \notin reader.left => reader.read[n] = files[n]

\* Once the published badge has caught up with the directory it stays so,
\* whatever commands run and whichever of them publish.
THEOREM CaughtUpStays == Spec => [][CaughtUp => CaughtUp']_vars
<1>1. TypeOK /\ CaughtUp /\ [Next]_vars => CaughtUp'
  <2> SUFFICES ASSUME TypeOK, CaughtUp, [Next]_vars PROVE CaughtUp'
    OBVIOUS
  <2>0. pass = Idle /\ passes = MaxPasses
    BY DEF CaughtUp, Calm
  <2>1. ASSUME NEW system \in Sources, NEW summary \in Summaries,
               StartPass(system, summary)
        PROVE  FALSE
    BY <2>0, <2>1, PassesAreTimes, MaxPassesAssumption DEF StartPass
  <2>2. ASSUME Truncate \/ Fill \/ EndPass \/ Crash PROVE FALSE
    BY <2>0, <2>2 DEF Truncate, Fill, EndPass, Crash
  <2>3. CASE List
    <3>1. /\ UNCHANGED <<files, pass, passes, published>>
          /\ \A n \in Files : n \notin reader'.left => files[n] = None
          /\ \A n \in Files : reader'.read[n] = None
      BY <2>3 DEF List
    <3> QED BY <3>1 DEF CaughtUp, Calm
  <2>4. CASE ReadFile
    <3>1. UNCHANGED <<files, pass, passes, published>> /\ reader # Idle
      BY <2>4 DEF ReadFile
    <3>2. PICK n \in reader.left :
             \/ reader' = Idle
             \/ reader' = [reader EXCEPT !.left = @ \ {n}, !.read[n] = files[n]]
      BY <2>4 DEF ReadFile
    <3>3. CASE reader' = Idle
      BY <3>1, <3>3 DEF CaughtUp, Calm
    <3>4. CASE reader' = [reader EXCEPT !.left = @ \ {n}, !.read[n] = files[n]]
      <4>1. reader \in Readings /\ n \in Files
        BY <3>1, <3>2 DEF TypeOK, Readings
      <4>2. /\ reader'.left = reader.left \ {n}
            /\ reader'.read = [reader.read EXCEPT ![n] = files[n]]
        BY <3>4, <4>1 DEF Readings
      <4>3. \A m \in Files : m \notin reader'.left => reader'.read[m] = files[m]
        BY <3>1, <4>1, <4>2 DEF CaughtUp, Readings
      <4> QED BY <3>1, <4>3 DEF CaughtUp, Calm
    <3> QED BY <3>2, <3>3, <3>4
  <2>5. ASSUME NEW command \in Commands, Finish(command) PROVE CaughtUp'
    <3>1. /\ UNCHANGED <<files, pass, passes>> /\ reader' = Idle
          /\ reader # Idle /\ reader.left = {}
          /\ published' = published
                \/ published' = [conformant |-> Conformant(RunOf(reader.read)),
                                 basis |-> reader.read]
      BY <2>5 DEF Finish
    <3>2. reader.read = files
      <4>1. reader.read \in [Files -> Written \cup {None}] /\ files \in [Files -> Content]
        BY <3>1 DEF TypeOK, Readings
      <4>2. \A n \in Files : reader.read[n] = files[n]
        BY <3>1 DEF CaughtUp
      <4> QED BY <4>1, <4>2
    <3>3. published' # None /\ published'.basis = files
      <4>1. published' # published
               => published' = [conformant |-> Conformant(RunOf(reader.read)),
                                basis |-> reader.read]
        BY <3>1
      <4>2. /\ Conformant(RunOf(reader.read)) \in BOOLEAN
            /\ reader.read \in [Files -> Written \cup {None}]
        BY <3>1 DEF Conformant, TypeOK, Readings
      <4> QED BY <3>2, <4>1, <4>2, NoneIsNothing DEF CaughtUp, Entries
    <3> QED BY <3>1, <3>3 DEF CaughtUp, Calm
  <2>6. CASE UNCHANGED vars
    BY <2>6 DEF vars, CaughtUp, Calm
  <2> QED BY <2>1, <2>2, <2>3, <2>4, <2>5, <2>6 DEF Next, Write, Read
<1> QED BY <1>1, CollectionTypeCorrect, PTL DEF Spec
===============================================================================
