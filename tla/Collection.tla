------------------------------ MODULE Collection ------------------------------
(* How evidence gets from a gateway into a verdict. The gateway adapter writes *)
(* two files for each control, one after the other, and truncates each before  *)
(* it fills it; it may die at any point. The commands list the directory and   *)
(* read it file by file at the same time. Nothing locks anything.              *)
(*                                                                             *)
(* Time is counted in passes of the adapter: a record's window ends with the   *)
(* pass that wrote it. Badges that age between passes are Lease's subject.     *)
EXTENDS Check

CONSTANTS
    Subject,       \* the system whose directory and scoping file this is
    Sources,       \* the systems whose adapter writes here, Subject among them
    Scope,         \* the Statement of Applicability of Subject
    Order,         \* the controls, each once, in the order of their identifiers
    Observations,  \* control -> what a gateway may come to report of it
    Scheme,        \* the scheme of the adapter's key, which the keyring holds
    MaxPasses      \* bound: passes of the adapter

\* What a gateway's summary says of one control. A value is "missing" when the
\* source did not report it.
Observation ==
    [enabled : {"true", "false", "missing"}, traffic : Volumes, decisions : Volumes]

ASSUME ScopeAssumption == Scope \in SoA
ASSUME ObservationsAssumption ==
    \A c \in Controls : Observations[c] \subseteq Observation
ASSUME SchemeAssumption == Scheme \in {"ed25519", "sha256-digest"}
ASSUME OrderAssumption ==
    /\ Order \in Seq(Controls) /\ Len(Order) = Cardinality(Controls)
    /\ \A c \in Controls : \E i \in DOMAIN Order : Order[i] = c
ASSUME MaxPassesAssumption == MaxPasses \in 1..Horizon

VARIABLES
    files,         \* the evidence directory
    pass,          \* what the adapter that is running has yet to write
    passes,        \* passes begun
    reader,        \* what the command that is running has read
    exit,          \* the exit code of the last command that ended
    published,     \* the last entry of the log, and the files it rests on
    last,          \* history: the summary the last pass wrote to its end
    vouched        \* history: controls the gateway told a sound story of once

vars == <<files, pass, passes, reader, exit, published, last, vouched>>

-------------------------------------------------------------------------------
\* The names of the files, and the order that sorted() gives them.
Files == Controls \X Planes

Sorted(n, m) ==
    \/ n[1] = m[1] /\ (n[2] = CONTROL_PLANE \/ n = m)
    \/ \E i, j \in DOMAIN Order : Order[i] = n[1] /\ Order[j] = m[1] /\ i < j

\* A file that json.loads refuses: truncated, or written in part.
Malformed == [malformed |-> TRUE]

\* What a file of the directory holds, if it is there.
Written == [system : Sources, record : EvidenceRecord]
Content == Written \cup {None, Malformed}

\* The adapter never infers one plane from the other, and omits a record when
\* the source cannot answer.
Reports(observation, plane) ==
    IF plane = CONTROL_PLANE THEN observation.enabled # "missing"
    ELSE observation.traffic # "missing" /\ observation.decisions # "missing"

\* What the gateway itself says contradicts itself.
Lies(observation) ==
    /\ observation.enabled = "true"
    /\ \/ observation.traffic = "some" /\ observation.decisions = "zero"
       \/ observation.traffic = "zero" /\ observation.decisions = "some"

Record(system, observation, plane, time) ==
    [system |-> system,
     record |-> [window_to |-> time, scheme |-> Scheme, verified |-> TRUE,
        enabled   |-> IF plane = CONTROL_PLANE THEN observation.enabled ELSE "missing",
        traffic   |-> IF plane = DATA_PLANE THEN observation.traffic ELSE "missing",
        decisions |-> IF plane = DATA_PLANE THEN observation.decisions ELSE "missing"]]

\* Slip: a counter that stands at zero is taken for one that was not reported.
WritesOfCounts(summary) ==
    {n \in Files : /\ Reports(summary[n[1]], n[2])
                   /\ n[2] = DATA_PLANE => summary[n[1]].traffic # "zero"}

\* The files that one pass writes.
Writes(summary) == {n \in Files : Reports(summary[n[1]], n[2])}

Idle == [step |-> "idle"]

Init ==
    /\ files = [n \in Files |-> None]
    /\ pass = Idle
    /\ passes = 0
    /\ reader = Idle
    /\ exit = None
    /\ published = None
    /\ last = None
    /\ vouched = {}

-------------------------------------------------------------------------------
(* The adapter.                                                                *)

Summaries ==
    {s \in [Controls -> UNION {Observations[c] : c \in Controls}] :
        \A c \in Controls : s[c] \in Observations[c]}

\* All that this gateway can report, it reports.
Whole(summary) ==
    \A c \in Controls, p \in Planes :
        (\E o \in Observations[c] : Reports(o, p)) => Reports(summary[c], p)

\* main() up to the loop. The last pass is whole (a bound: whatever other passes
\* left out, one that leaves nothing out comes after them).
StartPass(system, summary) ==
    /\ pass = Idle /\ passes < MaxPasses
    /\ passes + 1 = MaxPasses => Whole(summary)
    /\ passes' = passes + 1
    /\ pass' = [step |-> "next", system |-> system, summary |-> summary,
                todo |-> Writes(summary), file |-> None]
    /\ last' = None
    /\ vouched' = vouched \cup {c \in Controls : ~Lies(summary[c])}
    /\ UNCHANGED <<files, reader, exit, published>>

\* The file that main() comes to next: the loop takes the controls as the summary
\* lists them, in any order, and the two planes of each in this one.
ComesNext(n) ==
    /\ n \in pass.todo
    /\ n[2] = DATA_PLANE => <<n[1], CONTROL_PLANE>> \notin pass.todo
    /\ pass.file # None =>
         n[1] = pass.file[1] \/ \A p \in Planes : <<pass.file[1], p>> \notin pass.todo

\* Slip: a file that is there already is left alone.
TruncateIfAbsent ==
    /\ pass # Idle /\ pass.step = "next"
    /\ \E n \in Files :
         /\ ComesNext(n)
         /\ IF files[n] = None
            THEN /\ files' = [files EXCEPT ![n] = Malformed]
                 /\ pass' = [pass EXCEPT !.step = "open", !.file = n]
            ELSE /\ pass' = [pass EXCEPT !.file = n, !.todo = @ \ {n}]
                 /\ UNCHANGED files
    /\ UNCHANGED <<passes, reader, exit, published, last, vouched>>

\* write_text opens the file, which empties it, ...
Truncate ==
    /\ pass # Idle /\ pass.step = "next"
    /\ \E n \in Files :
         /\ ComesNext(n)
         /\ files' = [files EXCEPT ![n] = Malformed]
         /\ pass' = [pass EXCEPT !.step = "open", !.file = n]
    /\ UNCHANGED <<passes, reader, exit, published, last, vouched>>

\* ... and then fills and closes it.
Fill ==
    /\ pass # Idle /\ pass.step = "open"
    /\ LET n == pass.file IN
         /\ files' = [files EXCEPT
                        ![n] = Record(pass.system, pass.summary[n[1]], n[2], passes)]
         /\ pass' = [pass EXCEPT !.step = "next", !.todo = @ \ {n}]
    /\ UNCHANGED <<passes, reader, exit, published, last, vouched>>

EndPass ==
    /\ pass # Idle /\ pass.step = "next" /\ pass.todo = {}
    /\ last' = pass.summary
    /\ pass' = Idle
    /\ UNCHANGED <<files, passes, reader, exit, published, vouched>>

\* The adapter dies, and leaves the directory as it is. The last pass does not.
Crash ==
    /\ pass # Idle /\ passes < MaxPasses
    /\ pass' = Idle
    /\ UNCHANGED <<files, passes, reader, exit, published, last, vouched>>

-------------------------------------------------------------------------------
(* The commands.                                                               *)

Commands == {"check", "publish", "export"}

\* load_evidence lists the directory before it reads any of it. All commands
\* load alike, so which of them it is need not be said before Finish.
List ==
    /\ reader = Idle
    /\ reader' = [step |-> "reading",
                  left |-> {n \in Files : files[n] # None},
                  read |-> [n \in Files |-> None]]
    /\ UNCHANGED <<files, pass, passes, exit, published, last, vouched>>

\* Slip: a file that is malformed is passed over.
ReadFilePastMalformed ==
    /\ reader # Idle
    /\ \E n \in reader.left :
         /\ \A m \in reader.left : Sorted(n, m)
         /\ reader' = [reader EXCEPT !.left = @ \ {n}, !.read[n] = files[n]]
    /\ UNCHANGED <<files, pass, passes, exit, published, last, vouched>>

\* The next file. One that is malformed raises, and main() ends with code 2.
ReadFile ==
    /\ reader # Idle
    /\ \E n \in reader.left :
         /\ \A m \in reader.left : Sorted(n, m)
         /\ IF files[n] = Malformed
            THEN /\ exit' = 2
                 /\ reader' = Idle
            ELSE /\ reader' = [reader EXCEPT !.left = @ \ {n}, !.read[n] = files[n]]
                 /\ UNCHANGED exit
    /\ UNCHANGED <<files, pass, passes, published, last, vouched>>

\* index_evidence of what was read: control and plane, but not the system.
Index(read) ==
    [c \in Controls |-> [p \in Planes |->
        IF read[<<c, p>>] \in {None, Malformed} THEN <<>>
        ELSE <<read[<<c, p>>].record>>]]

Foreign(read) == {n \in Files : read[n] # None /\ read[n].system # Subject}

\* Slip: the two planes are held against each other only if they are as old.
SynchronousOnly(read) ==
    [n \in Files |->
        IF /\ n[2] = DATA_PLANE
           /\ read[n] # None /\ read[<<n[1], CONTROL_PLANE>>] # None
           /\ read[n].record.window_to
                # read[<<n[1], CONTROL_PLANE>>].record.window_to
        THEN [read[n] EXCEPT !.record.traffic = "missing"] ELSE read[n]]

\* No inherited control here names a log: every lookup is an assertion.
Asserted ==
    [c \in Controls |-> [found |-> "asserted", tier |-> "T1", state |-> VALID]]

\* Slip: the evaluation passes over a pair whose windows differ.
RunOfSynchronous(read) == Evaluate(Scope, Index(SynchronousOnly(read)), Asserted, passes)

RunOf(read) == Evaluate(Scope, Index(read), Asserted, passes)

\* Everything is read: check refuses evidence of other systems, publish and
\* export do not. Then evaluate, and for publish build, sign and append.
Finish(command) ==
    /\ reader # Idle /\ reader.left = {}
    /\ reader' = Idle
    /\ LET run == RunOf(reader.read)
           refused == command = "check" /\ Foreign(reader.read) # {}
       IN  /\ exit' = IF refused THEN 2 ELSE IF Conformant(run) THEN 0 ELSE 1
           /\ published' = IF command = "publish"
                           THEN [conformant |-> Conformant(run), basis |-> reader.read]
                           ELSE published
    /\ UNCHANGED <<files, pass, passes, last, vouched>>

\* What the adapter and the commands do of their own accord.
Write ==
    \/ \E system \in Sources, summary \in Summaries : StartPass(system, summary)
    \/ Truncate
    \/ Fill
    \/ EndPass
Read == List \/ ReadFile

Next ==
    \/ Write
    \/ Crash
    \/ Read
    \/ \E command \in Commands : Finish(command)

Spec == Init /\ [][Next]_vars

\* A command ends, and what it read is what the log's last entry rests on.
Publishes ==
    /\ reader # Idle /\ reader.left = {}
    /\ reader' = Idle
    /\ \E verdict \in BOOLEAN :
         published' = [conformant |-> verdict, basis |-> reader.read]

\* Schedules: the adapter is started again and again and, unless it dies, goes
\* on to its end; commands are run and end too, publish among them.
LiveSpec == Spec /\ WF_vars(Write) /\ WF_vars(Read) /\ SF_<<reader, published>>(Publishes)

-------------------------------------------------------------------------------
Passes == [step : {"next", "open"}, system : Sources, summary : Summaries,
           todo : SUBSET Files, file : Files \cup {None}]
Readings == [step : {"reading"}, left : SUBSET Files,
             read : [Files -> Written \cup {None}]]
Entries == [conformant : BOOLEAN, basis : [Files -> Written \cup {None}]]

ASSUME NoneIsNothing ==
    None \notin {Malformed} \cup Written \cup EvidenceRecord \cup Summaries \cup Entries

\* The state is made of what the code's types allow.
TypeOK ==
    /\ files \in [Files -> Content]
    /\ passes \in 0..MaxPasses
    /\ pass \in Passes \cup {Idle}
    /\ pass # Idle => /\ pass.todo \subseteq Writes(pass.summary)
                      /\ pass.step = "open" => pass.file \in pass.todo
    /\ reader \in Readings \cup {Idle}
    /\ exit \in {None, 0, 1, 2}
    /\ published \in Entries \cup {None}
    /\ last \in Summaries \cup {None}
    /\ vouched \subseteq Controls

\* Between passes the directory says of a control what the gateway last said:
\* an honest gateway is never disqualified by what earlier passes, whole or cut
\* off, left behind, and a dishonest one always is. It holds of the controls
\* that the last pass reported on both planes, whatever was reported before.
\* (gateway_adapter.py: both files of a control are written anew by each pass.)
SettledDirectoryIsTheGateway ==
    last # None =>
        \A c \in Controls :
            /\ Scope.entries[c].verdict = APPLIES
            /\ Catalog[c].method # "assessed"
            /\ \A p \in Planes : Reports(last[c], p)
            => RunOf(files).results[c].disqualifying <=> Lies(last[c])

\* D19-C03 survives the races: whatever mixture of old and new files a command
\* reads, it ends with code 0 only if for each required control that both planes
\* must prove the gateway once told a story that does not contradict itself.
LiesCaughtInAnyMixture ==
    exit = 0 =>
        \A c \in Controls :
            /\ Scope.entries[c] = [verdict |-> APPLIES, obligation |-> "required"]
            /\ Catalog[c].method = "emitted" /\ Catalog[c].planes = Planes
            => c \in vouched

\* A crash that tears a file, or a command that read half of a pass and published
\* a badge that is revoked, is made good by schedule alone: the badge published
\* comes to rest on the files that are there, all of them readable.
PublishedCatchesUp == <>[](published # None /\ published.basis = files)

\* cli.py:146: evidence is scoped to one subject. No badge rests on evidence of
\* another system.
ScopedToOneSubject == published # None => Foreign(published.basis) = {}
===============================================================================
