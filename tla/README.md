# OpenAISF, modelled and checked

OpenAISF decides whether an AI system is conformant with a catalog of controls,
from evidence the system's own tooling emits, and publishes the result as a
*conformance statement*: a badge that nobody has to maintain, because what it
shows is a function of the reader's clock. This directory holds TLA+ models of
that machinery, the TLC runs that check them on small instances, and proofs,
checked by TLAPS, of what matters most for every instance.

All paths below are relative to the repository (`src/` in `PROJECT.json`).

## The system

| Component | Code | State it keeps | Operations | What is hard |
|---|---|---|---|---|
| Check engine | `src/openaisf/check.py` | none: a function of catalog, scope, evidence, time | `evaluate`, `lease_state` | precedence of failure, contradiction and age; boundaries; what a result carries for others to compute with |
| Conformance statement | `statement.py` | the statement: two deadlines, a verdict | `build_statement`, `sign_statement`, `state_at` | a value computed once and read for months |
| Transparency log | `log.py` | one file of chained lines | `append`, `entries`, `verify_chain`, `latest_for` | no lock between reading the head and writing; torn writes; edits by other means |
| Inheritance | `check.py`, `soa.py` | the upstreams' logs | `_evaluate_inherited` | several systems, each with its own clock of renewals, looking at each other |
| Evidence | `evidence.py` | a directory of JSON records | `load_evidence`, `index_evidence` | records replaced while they are read; order |
| Signing | `signing.py` | keys | `sign`, `verify`, `require_authenticity` | which tier accepts what |
| Scope | `soa.py`, `applicability.py` | the scoping file | `load_context`, `resolve_soa`, `applies_to` | edited at any time; three verdicts that exclude each other |
| Command line | `cli.py` | none | `check`, `publish`, `verify`, `badge`, `export`, `coverage`, `scope`, `mcp` | commands that ought to agree; exit codes |
| Adapter | `tools/adapters/gateway_adapter.py` | two files for each control | one pass over a gateway's summary | dies between two files or inside one; read meanwhile; what is no longer reported stays |
| Catalog loader | `loader.py`, `duration.py` | none | `load_catalog`, `check_invariants`, `parse_duration` | invariants no schema expresses |
| Coverage | `coverage.py` | none | `compute_coverage`, `compute_provenance`, `normalise_crosswalk` | three kinds of file, edited apart, that must add up to what a regime publishes |
| MCP server | `mcp.py` | a catalog cached for its lifetime | one line in, at most one out: listings, prompts, resources, six tools | errors that must not end the loop; one stale file beside fresh ones |
| OSCAL export | `oscal.py` | none | a change of format | nothing decided |

How they interact. Producers write evidence files whenever they like. `publish`
(a cron job, a CI run, a person, any number of them at a time) reads the scoping
file, then the evidence, takes the time, evaluates, looks inherited controls up
in *other* systems' logs, signs, and appends to a log file. `verify` and `badge`
read the log, at any time, on their own clock. There are no locks, no server and
no messages: files and clocks are all that the parties share.

What makes it correct, in a sentence each:

- a badge never claims more than a check of its evidence would, at any later time;
- it does not claim less either, until a deadline has really passed, nor more
  once one has;
- it only ever decays, and it does decay when its subject goes quiet;
- evidence that contradicts itself never yields a badge;
- a log that verifies holds genuine entries in their order, unless somebody
  recomputed its hashes, and then a hash kept elsewhere tells; its last entry on a
  system is the last word on it; a writer that dies spoils no more than one entry;
- assurance that lapses upstream lapses downstream, and no tier is gained by
  passing through other systems;
- whatever mixture of old and new files is read while an adapter writes, a
  gateway that contradicts itself is caught, and one that does not is not blamed
  once its pass has ended;
- a coverage report that says complete is complete of the regimes, and not just
  of the files;
- the MCP server answers every request that it can read, and whose answer it can
  write, once and under its own id, and what it
  remembers makes nothing look better than it is, unless somebody took a mapping
  back meanwhile.

## Modules

| Module | What it models |
|---|---|
| `Vocabulary` | constants and record shapes: tiers, statuses, lease states, evidence, scope |
| `Check` | `check.py`, as operators |
| `Statement` | `statement.py` and the signing gate, as operators |
| `BadgeDecay` | the abstract promise of `statement.py`: a badge only decays |
| `Lease` | one subject: producers, scope edits, publishers and the clock, on top of `Statement` |
| `LeaseProofs` | theorems about `Lease` and their proofs |
| `AppendOnlyLog` | the abstract promise of `log.py` |
| `TransparencyLog` | the log file, its writers and verifiers |
| `Inheritance` | several subjects that inherit from each other, on top of `Statement` |
| `Scope` | the scoping file and its resolution into a Statement of Applicability, on top of `Check` |
| `ScopeProofs` | theorems about `Scope` and their proofs |
| `Collection` | the gateway adapter and the commands over one evidence directory, file by file, on top of `Check` |
| `Coverage` | `coverage.py` over what `loader.py` loads, and the edits of those files |
| `McpServer` | `mcp.py`: the loop, the cache and `openaisf_coverage`, on top of `Coverage` |
| `StatementProofs` | what `evaluate` and `build_statement` return, whatever they are given: the lemmas that the proofs about `Lease`, `Inheritance` and `Collection` share |
| `InheritanceProofs`, `TransparencyLogProofs`, `CollectionProofs`, `McpServerProofs` | theorems about these modules and their proofs |
| `MCLease`, `MCTransparencyLog`, `MCInheritance`, `MCScope`, `MCCollection`, `MCMcpServer` | the small instances TLC runs |

`Lease` abstracts the log to a sequence of statements and looks no upstream up
(inherited controls are asserted ones); `TransparencyLog` looks inside an append,
`Inheritance` at upstreams, and `Collection` inside the writing and the reading of
the evidence that `Lease` reads in one step. Each keeps the others' interest out
of its state.
The definitions whose comments begin with *Slip* are deliberate mistakes, one
for each property; nothing uses them unless `PROJECT.json` `mutants` puts one in
the place of the definition below it, where TLC must find the property violated.

### Lease

A publisher takes three steps, as the code does: `Load` (scope and evidence are
read, by a process with a key of a certain scheme; `_cmd_publish` up to
`load_evidence`), `EvaluateAndSign` (the time is taken; `evaluate`,
`build_statement`, `sign_statement`, which may refuse) and `Publish` (the
append), with any other step in between, or `Abandon` when it is killed. Reading the
scoping file and the evidence directory is one step: a record replaced between the two reads is the same as one replaced before or
after both, since neither depends on the other. `Emit` adds a record or replaces
one; the window of a record may end before the moment it is written, or after.
Readers take no steps: `BadgeAt(i, t)` is what a reader of entry `i` sees at `t`.
`basis` is a history variable, the snapshot behind every entry.

A record keeps what a verdict depends on: when its window ends, its signature's
scheme and whether it was verified, `enabled`, and whether the two counters are
missing, zero or positive. A statement keeps the fields that `state_at` and the
dependents read. Signatures that establish an author are the scheme `ed25519`;
whether a record was verified is an input.

### TransparencyLog

A file is a sequence of lines and whether the last one is terminated. `append()`
is `ReadHead` then `Write`. `Crash` kills a writer before its write, in the
middle of it, or after everything but the newline; whatever is appended to an
unterminated line becomes one malformed line with it. `entries()` raises on a
malformed line, so `Readable` guards every reader. `verify` is `VerifyChain`
then `ShowLatest`, two reads of the file; it prints the hash of the entry it shows,
so what it showed, and the file as that read saw it, is kept (`shown`). SHA-256 is
taken to be collision-free: a digest is represented by what was digested.

The file is changed by other means in two ways. `Edit` leaves hashes as they are: an
entry's statement altered, a line removed, two exchanged, an old copy put back.
`Rewrite` makes one line anew, with any statement, chained to the line before it
under the hash that `verify_chain` will compute; several in a row make anew all that
followed. The hashes are public, unkeyed and unanchored, so what comes out verifies,
and no property of the file alone can say otherwise: `IntactMeansGenuine` speaks of
files none of whose hashes were recomputed (`rewritten` is FALSE), which is what the
chain itself vouches for. What holds against everybody is `KeptHashFixesThePast`: a
hash that `verify` once showed of an intact log fixes its entry's past, line by line,
in every log that verifies later. `appended`, `acknowledged`, `edits` and `rewritten`
are histories.

`AppendOnlyLog` promises a list of statements that grows at its end (`Publish`). A
writer that dies leaves the last line open (`Die`), and the next one runs into it and
spoils that line (`RunInto`); no step touches anything before the last line.

### Inheritance

Each system has a scoping file (it may change it), evidence, a log of which only
the latest entry matters to `latest_for`, and at most one publish process
between evaluating and appending. `LookUp` is `_evaluate_inherited`'s look at an
upstream: an asserted inheritance, a log that does not verify, no statement, or
the latest statement's tier and state on the dependent's clock. The two reads of
the upstream's log are one here (`TransparencyLog` separates them). Records are
signed, verified and never contradict themselves. `latest[s]` also keeps, as
history, the scope and the upstream statements it rests on; `proved` is the
history of what anybody proved on evidence of its own.

### Scope

`file` is the scoping file, `tier` the tier asked for on the command line. Each
edit changes one thing in the file: a fact, the autonomy level, a declaration,
or its form (an unknown key, no `system_id`). `AppliesTo` is `applies_to` with
its three gates; `Raises` keeps that `any()` stops at the first expression that
decides, so a malformed one raises only for a system that gets that far.
`Resolves` is whether `load_context` and `resolve_soa` return; `WriteSoA` is
`openaisf scope`, which writes nothing unless all of it resolved. `document`
keeps the file and tier it was made from, for the properties. Roles are one of
the `Keys`: they are matched by intersection, as the set keys are. `OffLadder`
are the strings that are no autonomy level, in a file (the file is refused) or
in an expression (it is malformed). `NothingForNothing` runs `Check` on what
`Scope` produced.

### Collection

One evidence directory of one system. The adapter runs in passes over what its
gateway reports (`StartPass`); for each file of the pass `write_text` is two
steps, `Truncate` and `Fill`, with a malformed file between them; `Crash` ends a
pass anywhere. The loop takes the controls in the order in which the summary lists
them, which may be any, and of each the control plane before the data plane
(`ComesNext`). What the source cannot answer is
not written (`Reports`), and nothing removes the file an earlier pass wrote. A
command lists the directory (`List`), reads it file by file in the order of the
file names (`Sorted`; `ReadFile` ends with code 2 at a file that does not parse), and then evaluates what it has
read (`Finish`): `check` refuses evidence of another system first, `publish` and
`export` do not; `publish` replaces the last entry of the log. What is left to write, and to read, is a set of files. Every record is
newer than the one it replaces and has a checked signature. Time is counted in
passes, since ages are `Lease`'s subject. `last` and `vouched` are histories.

A command that reads in the middle of a pass may pair a new claim with old counters
and convict a gateway that never contradicted itself. That is what the code does; the
properties say that it never acquits one that always contradicts itself, and that
between passes a verdict is the gateway's own doing. Of a control that the last pass
did not report on both planes, whose files may be of different ages, they say nothing.

### Coverage and McpServer

The state of `Coverage` is what four kinds of file hold: the catalog's crosswalks,
whether `load_catalog` takes the catalog at all, the inventories with the total
they declare, and the exclusions with or without a reason. `Edit` changes one
entry of one file. `Report` is `openaisf coverage`: the operators above it are
`load_inventories`, `normalise_crosswalk`, `compute_coverage` and
`compute_provenance`, with every condition under which they raise.

`McpServer` reads one line a step. `Misread` is a line that is blank, no JSON or no
object; the actions after it are the ways through `handle()`, each with the answer
that leaves it. `serve()`'s loop ends, apart from the end of stdin, in two ways, both
of them outside its `try`: `ReadAndCrash` (bytes that stdin, where it is strict,
cannot decode) and `CallAndCrash` (an answer that json cannot encode), the latter with
a catalog in the cache, loaded by that request or an earlier one. `Loaded`
is `_catalog()`: remembered if it loaded once, otherwise what the files give now.
`CallCoverage` reports from the remembered catalog and the other files as they
are; the other tools compute what `Check`, `Scope` and `Statement` model, and here
they answer, refuse or fail. `EditUnderServer` is anybody who edits the files
while the server runs. `said` is the answer to the last line.

## Runs

All but `mcp_coverage` let the system stop (`CHECK_DEADLOCK FALSE`): time ends at
`Horizon`, publishing, passes and edits of the scoping file at their bounds. The
MCP server can always be sent another line or be started again.

| Run | Checks | Shows |
|---|---|---|
| `lease_badges` | `TypeOK`, `BadgeSound`, `BadgePrompt`, `NoBadgeOverdue`, `FabricationNeverBadges` | every verdict, three tiers, signed and unsigned evidence that may contradict itself, in time or too late, scope edited while a statement is made: a badge is neither better than a check nor worse without a reason, never valid past a required deadline or the ceiling, and revoked where evidence contradicts itself, stale or not |
| `lease_renewal` | `BadgeSound`, `BadgePrompt`, `BadgesOnlyDecay`, `SilenceLapses` | two publishers, competing files, windows that end in the future: refinement of `BadgeDecay`; liveness: a subject that stops evaluating loses its badges for good |
| `log_shared` | `HalfLineCostsOneEntry`, `AppendsOnly`, `ShowsLatestPublished` | three writers that race and die, at one file, implement `AppendOnlyLog`: each line that cannot be read costs at most one published entry, and a verified lookup shows the newest one published |
| `log_hostile` | `TypeOK`, `IntactMeansGenuine`, `KeptHashFixesThePast`, `IntactMeansComplete`, `ReadableMeansIntact` | a writer that dies and a file that is edited, with or without recomputing hashes: what verifies is genuine and in order until a hash is recomputed, a hash kept elsewhere tells of the past even then, and what verifies is all that was written if nobody edited it; then `badge`, which does not verify, shows nothing that `verify` would refuse |
| `inherit_chain` | `TypeOK`, `DecayPropagates`, `NoEvidenceNoBadge` | three systems renewing on each other: an upstream's lapse reaches the dependent in one window, or the ceiling; bounded afterlife once evidence stops |
| `scope_edits` | `TypeOK`, `NothingIsShed`, `NoDeclarationIgnored`, `NothingForNothing` | a scoping file edited between two resolutions: a system that says no less of itself sheds no obligation, no declaration goes without effect, and conformance without evidence costs a declaration for each required control |
| `inherit_ladder` | `NoLaundering` | no tier is gained over several hops, edits, mutual references and overlapping publications |
| `collection` | `TypeOK`, `SettledDirectoryIsTheGateway`, `LiesCaughtInAnyMixture`, `PublishedCatchesUp` | an adapter that dies anywhere, commands that read while it writes: between passes a verdict is the gateway's own doing, in between no mixture hides a control that always contradicts itself, and after a crash the schedule alone repairs the badge |
| `mcp_coverage` | `TypeOK`, `NoFalseCompleteness`, `ThreatsRequireNothing`, `EveryRequestIsAnswered`, `CompleteUnlessTakenBack`, `FailureIsNotRemembered` | authors who edit catalog, inventories and exclusions entry by entry, under a server that remembers the catalog: a complete report is complete of what the regimes publish, and every line has the answer it is owed |

Three more runs each check one statement of the repository's documents, comments
or messages that the code does not keep; `PROJECT.json` `findings` quotes the
line and says what the run shows.

| Run | Statement | What the code does |
|---|---|---|
| `log_fork` | each entry carries the hash of the one before it | two publishers fork the chain |
| `inherit_stale` | stale upstream, stale dependent | the dependent's lease reads valid |
| `publish_foreign` | evidence is scoped to one subject | `check` refuses another system's evidence, `publish` signs a badge from it |

Further disagreements were met while modelling. They are recorded as hazards in
`PROJECT.json` and have no run of their own:

- a statement issued just after its evidence ran out reads revoked, where
  `MANUAL.md:560` says expired (`statement.py:111`: a statement that was not
  conformant when issued, and names what blocked it, is revoked for ever);
- whoever can write to the log can forge it: an entry altered and chained anew, with
  every hash after it (the last entry takes one), passes `verify_chain`, for the hashes
  are public, unkeyed and anchored nowhere (`log.py:132`). `log.py:5` and `log.py:18`
  say that nobody has to be trusted to operate the log honestly and that a captured
  operator "cannot forge a past entry", `RFC-OpenAISF-v1.0.md:205` that rewriting a past
  entry breaks every hash after it, `MANUAL.md:408` that trying would be obvious. That
  takes a hash kept elsewhere and somebody who compares it, which no command does
  (`KeptHashFixesThePast`; `IntactMeansGenuine` supposes that nobody recomputes a
  hash). Statements that are signed are protected by their signatures, which `verify`
  checks apart from the chain;
- half a line, left by a publisher that died, makes the whole log unreadable, and
  with it entries that were reported published; an append to it runs into the half
  line (`log.py:128`). `HalfLineCostsOneEntry` says what is lost for good;
- two systems that inherit a control from each other renew each other's badge
  without evidence for as long as both publish, where `README.md:56` says that
  without evidence a badge goes stale and then expires (`check.py:375`;
  `NoEvidenceNoBadge` is checked over chains and proved where references are
  `Anchored`, which this pair's are not; `NoLaundering` is checked over cycles too);
- the grace period comes on top of the ceiling that "no lease outlives"
  (`statement.py:134`): a badge is not valid beyond the ceiling, but stale, and not
  expired, for a grace period more (`NoBadgeOverdue` and `BadgePrompt` state the real
  bounds);
- entries removed from the end of a log are not noticed (`IntactMeansGenuine`
  speaks of a subsequence), and `verify` prints `chain intact` beside an entry from a
  second read of the file, which with two writers may have been forked since the
  first (the entry is still the newest one: `ShowsLatestPublished`);
- an upstream that was merely late when it published disqualifies its dependents;
- the MCP server's loop, which "must survive" (`mcp.py:691`), ends at an answer
  that cannot be serialised, because it is written outside the `try`
  (`mcp.py:695`), and at bytes that stdin cannot decode, because lines are read
  outside it too (`mcp.py:674`); `EveryRequestIsAnswered` names both as exceptions;
- two full mappings into one regime make a control adopted, where
  `coverage.py:218` speaks of multiple regimes.

### Bounds

Windows, grace and ceilings are a few ticks, in the order the real ones have:
one control's window narrower than the ceiling and one wider, grace no longer
than the ceiling. In `lease_badges` the recommended control's window at T4 is one
tick, so that a record of it may contradict itself and be stale at once. `Horizon` is past the last expiry that can happen, except in
`inherit_ladder`, which is about order and not about age. `MaxRecords`: with two
files of one plane, records compete for newest (`lease_renewal`); with one they
replace each other (`lease_badges`). `MaxEntries`: one entry per subject is
enough for what relates a badge to its own evidence, two to see a renewal beside
the entry before it; in the log, three or four entries show a fork, a
concatenation with a predecessor and a successor, and a removal at either end
and in the middle. `log_shared` has three writers: one that dies and two that run
into its line. `log_hostile` has one, and one system, but three edits: the whole of
the longest file may be made anew behind the reader's back. `QuietFrom`: no record and no scope change from that instant;
what follows is only the passing of time, publication and reading. `SilentFrom`:
nothing is evaluated from that instant. `Lags`: a record's window ends when it is
written or a tick later. `MaxRunning`: how many publish processes are between
their evaluation and their append; with two (`inherit_ladder`) an upstream
appends inside a dependent's publication. `Fragile`: whose log may be damaged.
`MaxEdits` in `scope_edits`: three edits, from three files and every tier, change a fact, a
declaration and the tier in any order around a document.
`MaxPasses`, `Sources`: two passes of the adapter are an old file beside a new one;
the last pass leaves out nothing that its gateway can report and is not cut short,
which is what "another pass comes" means in a bounded model (crashes and omissions
come before it). `Totals`, `MaxRows`, `MaxMappings`, `Exclusions`: a regime of two
requirements is the smallest in which one is dropped and the other written twice;
inventories declare the right total or none; two mappings tell derived from
adopted. `Deployed`: the files a server is started on, well-formed or not.
`MaxEdits` in `mcp_coverage`: two edits under one server, which is a mapping taken back
and an exclusion or a row that makes up for it; when no server runs the files
are edited without bound. `Requests`: one request of every kind that `handle()`
tells apart; the id is a second one where answers could be mixed up.
`SigningKeys`: a publisher is started with a key that establishes its author, or
with the digest that stands in for one. Time in the models is a natural number;
the code's microseconds differ in granularity alone, and every comparison that
the code makes is between two instants or two spans.

### Fairness

`SilenceLapses` needs weak fairness of `Tick`, which says that clocks advance. No
process is assumed to do anything, and the property says so: a badge lapses
without anybody's help. That subjects fall silent is the bound `SilentFrom` of that
run.

`PublishedCatchesUp` needs what a schedule gives (`MANUAL.md:387` asks for evidence
that the systems produce "on their own schedule", `MANUAL.md:389` and
`USECASES.md:103` for a check in a daily job, CI or cron): the adapter is started
again and again and, once started, goes on (weak fairness of `Write`, of which
`StartPass`, `Truncate`, `Fill` and `EndPass` are the alternatives, never two at a
time); commands are run and go on to their end (weak fairness of `Read`: `List` and
`ReadFile`). One of them, again and again, is `publish`: strong fairness of
`Publishes`, the steps in which a command ends and what it read becomes what the
last entry rests on, since `check` and `export` compete with `publish` for the end of
a reading, which no fairness of the processes would forbid. `Crash` has none.

## Proofs

`LeaseProofs` proves, for every catalog, scope, emission, set of publishers and
bound that the assumptions admit:

- `TypeCorrect`: `Spec => []TypeOK`.
- `ProvenanceHolds`: `Spec => []Provenance`. `Provenance` is the inductive
  invariant. `BadgeSound` is not inductive: it says nothing of what a publisher
  holds between evaluating and appending, and a step of the clock needs to know
  how the statement came about and not just what it shows now. `Provenance` says
  that every statement, published or still held, was built by evaluating the
  snapshot recorded with it, at an instant not after the present one.
- `BadgesSound`: if every window is positive (`PositiveWindows`),
  `Spec => []BadgeSound`. The argument: as time passes over one snapshot, a
  control's result has a fixed form (`JudgeForm`, `ControlForm` of
  `StatementProofs`), its age alone
  moves and its status goes at most from pass to stale (`ResultLater`);
  `stale_after` is before every required deadline (`StaleAfterIsSoonest`); so
  while the badge is valid no required control can have become stale, and while
  it is not expired none is overdue by more than the grace (`StatementSound`).
  The premise is needed: a window of `P0D`, which `duration.py` accepts, is tested
  against but not carried by the result (zero is false to Python), so the
  statement gets no deadline from it and `lease_state` passes it over.
- `FabricationIsRevoked`: `Spec => []FabricationNeverBadges`, from `Provenance`:
  a contradiction disqualifies whatever plane is missing or late
  (`JudgeContradiction`), a disqualifying result blocks, and a statement with a
  blocking control reads revoked at every time.
- `BadgesImplementDecay`: `Spec => BadgesOnlyDecay`, the refinement of
  `BadgeDecay`: the empty log maps to no badges, an append to `Issue`, the clock
  to `Decay`, every other step to a stutter.
- `BadgesPrompt`: `Spec => []BadgePrompt`, without that premise. `stale_after` is one
  of the deadlines or the ceiling (`StaleAfterIsSoonest`), and a deadline that is
  so far behind is, in a later check of the same snapshot, an age that far past
  its window (`ResultLater`).
- `BadgesNotOverdue`: `Spec => []NoBadgeOverdue`, the converse, without that premise
  either: `stale_after` is no later than any required deadline and than the ceiling,
  whatever has no window (`StatementNotOverdue`).
- `SilenceEndsBadges`: `Spec => []LapsedInTime`, the safety half of `SilenceLapses`
  and its rate: a ceiling and a grace period after the last evaluation there is
  every badge has lapsed, the entry of a publisher that was slow to append among
  them. The inductive invariant `EvaluatedInTime` says of every statement, published
  or held, that it was evaluated before the silence; with `Provenance`, its expiry
  is at most a ceiling and a grace period later.

`InheritanceProofs` proves, for every set of systems and scoping files, references
in a cycle and overlapping publications among them:

- `InheritanceTypeCorrect`: `Spec => []TypeOK`.
- `NothingIsLaundered`: `Spec => []NoLaundering`, if upstreams hold the controls
  inherited from them in each of their scoping files (`UpstreamsHold`: a statement
  does not say which controls it proves). `NoLaundering` speaks of published
  entries only; the inductive invariant `Grounded` also speaks of those a process
  has yet to append, and says that a published entry counts as a proof of what
  it proves itself. A run that conforms found a valid statement of its tier or
  above (`InheritedFromValid`); that entry was grounded, so the claim it rests on
  is one that somebody proved, in however many hops.
- `LapsesPropagate`: `Spec => []DecayPropagates`. The invariant `Bounded` keeps of
  every conformant entry that its deadline is at most a window of each control it
  proves (`OwnDeadline`) and at most the ceiling after its issue, and that what it
  rests on was valid then; records are never dated forward.
- `EvidenceIsNeeded`: `Spec => []NoEvidenceNoBadge`, for finitely many systems and
  controls whose references are `Anchored`: each scoping file proves some required
  control with a window, or inherits one from the log of a system of lower rank. The
  inductive invariant `Waning` gives each system a date by its rank, the end of the
  widest window after the quiet and one ceiling more for each hop (`OneHop`): no
  statement of it, published or held, stays valid beyond that. A new statement keeps
  within it because the control it is anchored on was either proved, by a record no
  younger than the quiet, or inherited from a statement that was valid then
  (`EvaluatedIsWaning`). The premise is needed: two systems that inherit only from
  each other renew each other for ever, and the instance of `inherit_ladder`, which
  has such a circle, is not anchored; that of `inherit_chain` is.

`TransparencyLogProofs` proves, for any number of writers, verifiers and systems:

- `VerifiedIsGenuine`: `Spec => []IntactMeansGenuine`, with concurrent writers, torn
  writes and edits all at once, until somebody recomputes a hash. The inductive
  invariant is `Pedigree` (`PedigreeHolds`): the hashes that writers compute, and until
  then those on the lines of the file, were all computed by `append()`, and each leads
  back to an entry appended earlier; no two entries share a serial number, so no two
  share a hash. In a file that verifies each line's hash is its neighbour's
  predecessor, so positions only grow, first from each line to the next and then over
  all (`AdjacentToAll`, by a least counterexample). The instance TLC checks has one
  writer.
- `KeptHashTells`: `Spec => []KeptHashFixesThePast`, unconditionally, recomputed hashes
  included. Equal hashes are hashes of equal entries, whose predecessors have equal
  hashes: from the entry that was shown down to the first, two logs that verify agree.
  The invariant `Copies` only says that what was shown is an entry of the copy.
- `VerifiedIsComplete`: `Spec => []IntactMeansComplete`, by `Tally`: an unedited file
  that can be read is all that was written.
- `ReadableIsIntact`: `Spec => []ReadableMeansIntact` with one writer at a time
  (`OneWriter`), by `Linked`: whatever the one writer holds follows the last line.
- `LogTypeCorrect`: `Spec => []TypeOK`, by `Shape`, which counts lines and entries in
  hand against those offered.
- `HalfLinesCostLittle`: `Spec => []HalfLineCostsOneEntry`, for any number of writers.
  The count alone is not inductive, since whoever runs into an open line is reported
  published and lost with it; the invariant `Toll` says besides that an open line, while
  it is open, has cost nothing that was reported published.
- `LookupsShowTheLatest`: `Spec => ShowsLatestPublished`, for any number of writers and
  verifiers, whoever dies, while the file is unedited: lines stand in the order in
  which they were written, and whatever stands in a readable file was not run into.
- `LogAppendsOnly`: the refinement of `AppendOnlyLog`, where the file is not edited
  (`MaxEdits = 0`), for any number of writers who race and die: they may fork the
  chain, but touch nothing before the last line.
- `LogStaysIntact`: `Spec => []AlwaysIntact` with one writer that does not die and
  nobody else about (`NoFaults`, `OneWriter`). `log_fork` shows that `OneWriter` is
  needed.

`CollectionProofs` proves, for every set of controls, catalog, scope, number of passes and
point at which one dies:

- `CollectionTypeCorrect`: `Spec => []TypeOK`. No command ever holds a file that does
  not parse, and what is left of a pass is part of what it set out to write.
- `SettledIsTheGateway`: `Spec => []SettledDirectoryIsTheGateway`, if the adapter's key
  counts at the tier (`KeyIsAdmitted`). The property speaks of the time between
  passes; the invariant `Settled` also says of a pass under way that every file
  behind it tells what the pass observed (`Tells`). What is left is that `evaluate`
  convicts a control exactly of the contradiction between its two newest records,
  and that those are the ones in its two files.
- `LiesAreCaught`: `Spec => []LiesCaughtInAnyMixture`. A mixture of two passes is
  nothing that any gateway ever said, so the invariant `Sworn` speaks of single files:
  of a control that nobody ever told a sound story of, every file there is, and every
  file a command has read, is half a lie (`HalfALie`). Any two halves contradict
  each other, whichever passes they are from.
- `DirectoryIsRepaired`: `Spec => []Repaired`. When the last pass, which leaves nothing
  out that can be reported, has ended, no file is torn, whatever passes died before
  it. `Settled` says so of the files that it wrote; the invariant `Foreseen`, that there
  are no others.
- `CaughtUpStays`: `Spec => [][CaughtUp => CaughtUp']_vars`. A published badge that rests
  on the files that are there, when no pass will change them, goes on doing so:
  commands that are under way read the same files. This and the last are what
  `PublishedCatchesUp` says apart from its liveness.

`McpServerProofs` proves, for every catalog, regime, request and number of edits:

- `ServerTypeCorrect` and `RequestsAreAnswered` (`EveryRequestIsAnswered`), both from
  the inductive invariant `AnswersOwed`: what was said to the last line is what that
  line is owed, and a server that is down has said nothing.
- `ReportsAreComplete`: `Spec => []NoFalseCompleteness`. Rows that do not repeat and
  are as many as the regime publishes, all of them published, are all of them
  (`InventoryIsWhole`, a pigeonhole argument); no requirement of a complete report
  is uncovered, and none both mapped and excluded.
- `FailuresAreForgotten` (`FailureIsNotRemembered`) and `StaleReportsAreExcused`
  (`CompleteUnlessTakenBack`): of a remembered catalog that maps more than the files
  do, some control's crosswalk lost a mapping.
- `ThreatsChangeNothing`: `Spec => ThreatsRequireNothing`. Whether a control is original
  is decided by the set of its mappings to requirements (`OriginalByRequirements`):
  the filtered sequence that the code reads has the same members, in whatever order
  and however often.

`ScopeProofs` proves, for every catalog, set of facts, starting file and number
of edits:

- `ScopeTypeCorrect`: `Spec => []TypeOK`; what is written is a `SoA`, the type
  `Lease` and `Inheritance` assume of their scopes.
- `DocumentsAreFaithful`: `Spec => []Faithful`, the inductive invariant: the
  document is what the file and tier it was made from resolve to.
- `ClimbingShedsNothing`: `Spec => []NothingIsShed`. `AppliesMonotone` is the
  argument: intersections only grow with the facts, thresholds stay passed as
  the rank rises, and an expression that decided still decides.
- `DeclarationsTakeEffect`: `Spec => []NoDeclarationIgnored`.
- `NothingIsFree`: `Spec => []NothingForNothing`, through `Check`: without records
  every plane a control requires is missing (`JudgeNothing`), an assertion is
  refused from T3 up and an empty log always, and each of these blocks.

The assumptions are those of the modules: grace and ceilings are positive, the
catalog, scopes, facts and emissions have their types, `None` is neither an
integer nor a string, nor a file, record, summary or entry, writers and what a
regime publishes are finite sets, file names order the controls, and the instants
from which nothing more is recorded or evaluated are natural numbers. They
are evaluated by TLC in every run. Theorems that need more say so:
`PositiveWindows`, `UpstreamsHold`, `Anchored` with finitely many systems and
controls, `KeyIsAdmitted`, `OneWriter`, `NoFaults`, `MaxEdits = 0`.

Only model-checked are the two liveness properties, `SilenceLapses` and
`PublishedCatchesUp`: TLAPS does not reason about fairness and `ENABLED`. What is
proved of them is what they come to once the clock, or the schedule, has done its
part: `SilenceEndsBadges`, `DirectoryIsRepaired` and `CaughtUpStays`. Every other
property of a passing run is a theorem.

## Not modelled, and why

Schema validation of catalog, evidence and scoping files, and the rules of
`check_invariants` one by one (`Coverage` keeps whether `load_catalog` takes the
files); `parse_duration` (instants and spans are numbers); cryptography (a
library's) and the keyring; digests, wording, counts and layout of reports;
`verify_statement` and the serial form; the options `--entry` and `--key` of
`verify`; the OSCAL export (a change of format that decides nothing); the catalog
itself (data); the generators of inventories (run once by an author). What a
statement leaves unsaid is left unsaid in the model too: it does not name the controls it proves, so a dependent may inherit a control that
its upstream excluded. The catalog leaves that to an assessment by a person
(D17-C01), and `NoLaundering` is checked where upstreams hold the control.

## Plan

In this order, most important first. Done:

1. `Check`, `Statement`, `Lease`, `LeaseProofs`: the lease and the badge.
2. `TransparencyLog`, `TransparencyLogProofs`: the log.
3. `Inheritance`, `InheritanceProofs`: assurance across systems.
4. `Scope`, `ScopeProofs`: `applicability.py` and `resolve_soa`.
5. `Collection`: the adapter, the directory, the commands that read it.
6. `Coverage`, `McpServer`, `McpServerProofs`: coverage and the server.
7. `CollectionProofs`; evidence is needed down chains of any length
   (`EvidenceIsNeeded`); threats change nothing; the safety halves of the two
   liveness properties.

Left, most useful first:

1. Let `Lease`'s scopes come from scoping files (`Scope`), and its evidence from
   `Collection`'s directory.
2. `check_invariants` rule by rule and what it leaves; `parse_duration`.
3. `verify --entry` and `--key`, and the exit codes of `main`.
