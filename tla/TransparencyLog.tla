---------------------------- MODULE TransparencyLog ---------------------------
(* log.py: the hash-chained file that statements are published to.             *)
(*                                                                             *)
(* The file is a sequence of lines. append() reads all of it, works out the    *)
(* next index and the head's hash, and only then opens the file for appending; *)
(* nothing locks it in between. A process may die at any point, in the middle  *)
(* of the write too. verify reads the file twice: once to check the chain and  *)
(* once to look an entry up. Anybody with the file can edit it, and can        *)
(* recompute its hashes too, which no key protects: what the chain is for is   *)
(* telling afterwards.                                                         *)
EXTENDS Integers, SequencesExt

CONSTANTS
    Writers,       \* processes that may be publishing at the same time
    Verifiers,     \* processes that may be verifying at the same time
    Systems,       \* systems whose statements share the log
    MaxEntries,    \* bound: statements ever offered for publication
    CrashesHappen, \* whether a writer may die
    MaxEdits,      \* bound: how often somebody changes the file by other means
    None           \* Python's None

ASSUME WritersAssumption == IsFiniteSet(Writers)
ASSUME BoundsAssumption == MaxEntries \in Nat /\ MaxEdits \in Nat

VARIABLES
    file,          \* the lines of the log file
    terminated,    \* whether the file ends in a newline (or is empty)
    writer,        \* the entry each writer computed and has yet to write
    verifier,      \* where each verifier is, and what it showed last
    offered,       \* how many statements were offered so far
    appended,      \* history: the entries written, in order, edits apart
    acknowledged,  \* history: the entries whose append() returned
    edits,         \* history: how often the file was changed by other means
    rewritten      \* history: whether hashes were recomputed then

vars == <<file, terminated, writer, verifier, offered, appended, acknowledged,
          edits, rewritten>>

Statements == [system : Systems, serial : 1..MaxEntries]

GENESIS == <<>>

\* Slips: the hash leaves out the entry before, or the statement.
HashUnchained(index, previous, statement) == <<index, statement>>
HashOfPosition(index, previous, statement) == <<index, previous, "statement">>

\* _entry_hash. SHA-256 is taken to be collision-free, so a digest is
\* represented by what was digested (appended_at apart: serials are distinct).
EntryHash(index, previous, statement) == <<index, previous, statement>>

LogEntry(index, previous, statement) ==
    [index |-> index, previous |-> previous, statement |-> statement,
     entry_hash |-> EntryHash(index, previous, statement)]

\* A line that json.loads refuses: half an entry, or two entries run together.
Malformed == [malformed |-> TRUE]

\* entries() returns; it raises if any line is malformed.
Readable == \A i \in DOMAIN file : file[i] # Malformed

\* Slip: lines that cannot be read are passed over.
ReadableLinesIntact ==
    LET lines == SelectSeq(file, LAMBDA line : line # Malformed) IN
    \A i \in DOMAIN lines :
        /\ lines[i].index = i - 1
        /\ lines[i].previous = IF i = 1 THEN GENESIS ELSE lines[i - 1].entry_hash
        /\ lines[i].entry_hash =
               EntryHash(lines[i].index, lines[i].previous, lines[i].statement)

\* What verify_chain asks of the lines it has read.
Verifies(lines) ==
    /\ \A i \in DOMAIN lines : lines[i] # Malformed
    /\ \A i \in DOMAIN lines :
         /\ lines[i].index = i - 1
         /\ lines[i].previous = IF i = 1 THEN GENESIS ELSE lines[i - 1].entry_hash
         /\ lines[i].entry_hash =
                EntryHash(lines[i].index, lines[i].previous, lines[i].statement)

\* verify_chain returns, rather than raising.
ChainIntact == Verifies(file)

\* Slip: the first entry about the system.
EarliestFor(system) ==
    LET matching == {i \in DOMAIN file : file[i].statement.system = system}
    IN  IF matching = {} THEN None ELSE file[Min(matching)]

\* latest_for: the last entry in the file that is about the system.
LatestFor(system) ==
    LET matching == {i \in DOMAIN file : file[i].statement.system = system}
    IN  IF matching = {} THEN None ELSE file[Max(matching)]

-------------------------------------------------------------------------------
Init ==
    /\ file = <<>>
    /\ terminated = TRUE
    /\ writer = [w \in Writers |-> None]
    /\ verifier = [v \in Verifiers |-> [verified |-> FALSE, shown |-> None]]
    /\ offered = 0
    /\ appended = <<>>
    /\ acknowledged = {}
    /\ edits = 0
    /\ rewritten = FALSE

\* Slip: every entry chained to the beginning.
ReadGenesis(w, system) ==
    /\ writer[w] = None /\ offered < MaxEntries
    /\ Readable
    /\ offered' = offered + 1
    /\ writer' = [writer EXCEPT ![w] =
          LogEntry(Len(file), GENESIS, [system |-> system, serial |-> offered'])]
    /\ UNCHANGED <<file, terminated, verifier, appended, acknowledged, edits,
                   rewritten>>

\* append() up to opening the file: where the entry goes and what it chains to.
\* If the log cannot be read this raises, and nothing is published.
ReadHead(w, system) ==
    /\ writer[w] = None /\ offered < MaxEntries
    /\ Readable
    /\ offered' = offered + 1
    /\ writer' = [writer EXCEPT ![w] =
          LogEntry(Len(file), IF file = <<>> THEN GENESIS ELSE Last(file).entry_hash,
                   [system |-> system, serial |-> offered'])]
    /\ UNCHANGED <<file, terminated, verifier, appended, acknowledged, edits,
                   rewritten>>

\* What the file holds once a line was written at its end: on a line of its own
\* only if the line before it was terminated.
WithLine(line) ==
    IF terminated THEN Append(file, line)
    ELSE Append(Front(file), Malformed)

\* Slip: the file is opened to be written from the start.
WriteOver(w) ==
    /\ writer[w] # None
    /\ file' = <<writer[w]>>
    /\ terminated' = TRUE
    /\ appended' = Append(appended, writer[w])
    /\ acknowledged' = acknowledged \cup {writer[w]}
    /\ writer' = [writer EXCEPT ![w] = None]
    /\ UNCHANGED <<verifier, offered, edits, rewritten>>

\* Slip: the newline is left to whoever writes next.
WriteUnterminated(w) ==
    /\ writer[w] # None
    /\ file' = WithLine(writer[w])
    /\ terminated' = FALSE
    /\ appended' = Append(appended, writer[w])
    /\ acknowledged' = acknowledged \cup {writer[w]}
    /\ writer' = [writer EXCEPT ![w] = None]
    /\ UNCHANGED <<verifier, offered, edits, rewritten>>

\* append()'s write; it returns and the command reports the entry published.
Write(w) ==
    /\ writer[w] # None
    /\ file' = WithLine(writer[w])
    /\ terminated' = TRUE
    /\ appended' = Append(appended, writer[w])
    /\ acknowledged' = acknowledged \cup {writer[w]}
    /\ writer' = [writer EXCEPT ![w] = None]
    /\ UNCHANGED <<verifier, offered, edits, rewritten>>

\* The writer dies: before the write, or with part of the line on disk, or with
\* all of it but the newline.
Crash(w) ==
    /\ CrashesHappen /\ writer[w] # None
    /\ \/ UNCHANGED <<file, terminated, appended>>
       \/ /\ file' = WithLine(Malformed)
          /\ terminated' = FALSE
          /\ UNCHANGED appended
       \/ /\ file' = WithLine(writer[w])
          /\ terminated' = FALSE
          /\ appended' = Append(appended, writer[w])
    /\ writer' = [writer EXCEPT ![w] = None]
    /\ UNCHANGED <<verifier, offered, acknowledged, edits, rewritten>>

\* verify's first read. A broken chain ends the command.
VerifyChain(v) ==
    /\ ~verifier[v].verified
    /\ ChainIntact
    /\ verifier' = [verifier EXCEPT ![v].verified = TRUE]
    /\ UNCHANGED <<file, terminated, writer, offered, appended, acknowledged,
                   edits, rewritten>>

\* verify's second read, which ends in "chain intact", the entry's state and, for
\* the reader to keep, its hash. (The copy is a history: what that read saw.)
ShowLatest(v, system) ==
    /\ verifier[v].verified
    /\ Readable
    /\ verifier' = [verifier EXCEPT ![v] =
          [verified |-> FALSE,
           shown |-> [entry |-> LatestFor(system), copy |-> file]]]
    /\ UNCHANGED <<file, terminated, writer, offered, appended, acknowledged,
                   edits, rewritten>>

\* The file is changed by other means, and its hashes left as they are: an
\* entry's statement altered, a line taken out, two exchanged, or an older copy
\* of the file put back.
Edit ==
    /\ edits < MaxEdits
    /\ \E i \in DOMAIN file :
         \/ /\ file[i] # Malformed
            /\ \E s \in Statements \ {file[i].statement} :
                 file' = [file EXCEPT ![i].statement = s]
         \/ file' = RemoveAt(file, i)
         \/ \E j \in DOMAIN file \ {i} :
              file' = [file EXCEPT ![i] = file[j], ![j] = file[i]]
         \/ file' = SubSeq(file, 1, i - 1)
    /\ terminated' = TRUE
    /\ edits' = edits + 1
    /\ UNCHANGED <<writer, verifier, offered, appended, acknowledged, rewritten>>

\* A line is made anew: any statement, chained to the line before it under the
\* hash that verify_chain will compute. No key is needed for that. Done to line
\* after line, it makes anew all that followed.
Rewrite ==
    /\ edits < MaxEdits
    /\ \E i \in DOMAIN file, s \in Statements :
         /\ i # 1 => file[i - 1] # Malformed
         /\ file' = [file EXCEPT ![i] =
               LogEntry(i - 1, IF i = 1 THEN GENESIS ELSE file[i - 1].entry_hash, s)]
    /\ terminated' = TRUE
    /\ edits' = edits + 1
    /\ rewritten' = TRUE
    /\ UNCHANGED <<writer, verifier, offered, appended, acknowledged>>

Next ==
    \/ \E w \in Writers, system \in Systems : ReadHead(w, system)
    \/ \E w \in Writers : Write(w)
    \/ \E w \in Writers : Crash(w)
    \/ \E v \in Verifiers : VerifyChain(v)
    \/ \E v \in Verifiers, system \in Systems : ShowLatest(v, system)
    \/ Edit
    \/ Rewrite

Spec == Init /\ [][Next]_vars

-------------------------------------------------------------------------------
EntryShape(e) ==
    /\ e.index \in 0..MaxEntries
    /\ e.statement \in Statements
    /\ e.previous = GENESIS \/ DOMAIN e.previous = 1..3
    /\ DOMAIN e.entry_hash = 1..3

\* Lines are entries or malformed, and what the processes hold are entries.
TypeOK ==
    /\ \A i \in DOMAIN file : file[i] # Malformed => EntryShape(file[i])
    /\ terminated \in BOOLEAN
    /\ \A w \in Writers : writer[w] # None => EntryShape(writer[w])
    /\ \A v \in Verifiers : verifier[v].verified \in BOOLEAN
    /\ offered \in 0..MaxEntries
    /\ \A i \in DOMAIN appended : EntryShape(appended[i])
    /\ acknowledged \subseteq Range(appended)
    /\ edits \in 0..MaxEdits
    /\ rewritten \in BOOLEAN

\* The chain vouches for history as long as nobody recomputes its hashes: with
\* one writer, whatever died or was altered, removed, exchanged or put back in
\* between, a file that verifies holds nothing but entries append() wrote, in
\* the order it wrote them. (log.py:133: raise if any entry has been altered,
\* removed or reordered. A tail that is missing is another matter, and so is a
\* line made anew with its hash, which verifies as well as any.)
IntactMeansGenuine ==
    ChainIntact /\ ~rewritten =>
        \E position \in [DOMAIN file -> DOMAIN appended] :
            /\ \A i \in DOMAIN file : file[i] = appended[position[i]]
            /\ \A i, j \in DOMAIN file : i < j => position[i] < position[j]

\* What vouches for history even against somebody who recomputes hashes is a hash
\* kept elsewhere: if verify once showed a reader an entry of an intact log, then
\* in any log that verifies later, however it was rewritten meanwhile, an entry
\* under that hash has the same past, line by line. (publish and verify print
\* the hash, cli.py:218 and cli.py:256; MANUAL.md:407 asks for copies.)
KeptHashFixesThePast ==
    \A v \in Verifiers :
        LET shown == verifier[v].shown IN
        /\ shown # None /\ shown.entry # None
        /\ Verifies(shown.copy) /\ ChainIntact
        => \A i \in DOMAIN file :
             file[i].entry_hash = shown.entry.entry_hash =>
                SubSeq(file, 1, i) = SubSeq(shown.copy, 1, i)

\* While nobody edits the file, what verifies is all that was written: a writer
\* that dies leaves the chain as it was, or broken, or one entry longer.
\* (log.py:87: one entry per line, appended, never rewritten.)
IntactMeansComplete == ChainIntact /\ edits = 0 => file = appended

\* badge shows a system's latest entry without verifying the chain. While nobody
\* edits the file and one writer at a time appends to it that costs nothing,
\* whoever dies: a log that can be read at all also verifies. (cli.py:286)
ReadableMeansIntact == Readable /\ edits = 0 => ChainIntact

\* A line that cannot be read stops every reader of the log. But it costs no more
\* than one entry that was reported published (cli.py:211), however many writers
\* run into each other and whichever die: with those lines put right by hand, all
\* others are still there. (log.py:128-129)
HalfLineCostsOneEntry ==
    edits = 0 =>
        Cardinality(acknowledged \ Range(file))
            <= Cardinality({i \in DOMAIN file : file[i] = Malformed})

\* log.py:3: each entry carries the hash of the one before it, so the log always
\* verifies while nothing but append() touches it.
AlwaysIntact == ChainIntact

\* While nobody edits the file the log implements the promise, with any number of
\* writers and whoever dies: statements accumulate at the end, and all that a
\* death can spoil is the last line.
Promise ==
    INSTANCE AppendOnlyLog
        WITH Lost <- None, open <- ~terminated,
             published <- [i \in DOMAIN file |->
                 IF file[i] = Malformed THEN None ELSE file[i].statement]
AppendsOnly == Promise!Spec

\* A verified lookup of a system shows its newest published statement: while
\* nobody edits the file, nothing that was reported before the lookup was written
\* after what it shows, though two publishers share the log, or one of them dies,
\* between verify's two reads. (cli.py:226 and 230)
ShowsLatestPublished ==
    [][\A v \in Verifiers, system \in Systems :
         ShowLatest(v, system) /\ edits = 0 =>
            \A a \in acknowledged : a.statement.system = system =>
               \E i, j \in DOMAIN appended :
                  /\ i <= j /\ appended[i] = a
                  /\ appended[j] = verifier'[v].shown.entry]_vars
===============================================================================
