------------------------- MODULE TransparencyLogProofs ------------------------
(* Theorems about TransparencyLog, for any number of entries and, except where *)
(* OneWriter is assumed, any number of writers, of which any may die in the    *)
(* middle of a write: what a file that verifies holds, whatever was edited in  *)
(* it, as long as nobody recomputes its hashes; and what a hash kept elsewhere *)
(* still tells when somebody does.                                             *)
EXTENDS TransparencyLog, FiniteSetTheorems, SequenceTheorems, TLAPS

\* A sequence over the set of its elements.
IsSequence(s) == s \in Seq(Range(s))

LEMMA SequenceShape ==
    ASSUME NEW s, IsSequence(s)
    PROVE  /\ Len(s) \in Nat /\ DOMAIN s = 1..Len(s)
           /\ Range(s) = {s[i] : i \in 1..Len(s)}
           /\ s = <<>> <=> Len(s) = 0
<1>1. s \in Seq(Range(s))
  BY DEF IsSequence
<1>2. Len(s) \in Nat /\ DOMAIN s = 1..Len(s)
  BY <1>1, LenProperties
<1>3. Range(s) = {s[i] : i \in 1..Len(s)}
  BY <1>1, RangeEquality
<1>4. s = <<>> <=> Len(s) = 0
  BY <1>1, EmptySeq
<1> QED BY <1>2, <1>3, <1>4

LEMMA EmptySequence == IsSequence(<<>>) /\ Len(<<>>) = 0 /\ DOMAIN <<>> = {}
<1>1. <<>> \in Seq({})
  BY EmptySeq
<1> QED BY <1>1, SeqOfRange, EmptySeq, LenProperties DEF IsSequence

LEMMA AppendShape ==
    ASSUME NEW s, IsSequence(s), NEW e
    PROVE  /\ IsSequence(Append(s, e))
           /\ Len(Append(s, e)) = Len(s) + 1
           /\ \A i \in 1..Len(s) : Append(s, e)[i] = s[i]
           /\ Append(s, e)[Len(s) + 1] = e
           /\ Range(Append(s, e)) = Range(s) \cup {e}
<1> DEFINE S == Range(s) \cup {e}
<1>1. s \in Seq(S) /\ e \in S
  BY SeqMonotonic DEF IsSequence
<1> HIDE DEF S
<1>2. /\ Append(s, e) \in Seq(S) /\ Len(Append(s, e)) = Len(s) + 1
      /\ \A i \in 1..Len(s) : Append(s, e)[i] = s[i]
      /\ Append(s, e)[Len(s) + 1] = e
  BY <1>1, AppendProperties
<1>3. IsSequence(Append(s, e))
  BY <1>2, SeqOfRange DEF IsSequence
<1>4. Range(Append(s, e)) = Range(s) \cup {e}
  <2>1. /\ Range(s) = {s[i] : i \in 1..Len(s)} /\ Len(s) \in Nat
        /\ Range(Append(s, e)) = {Append(s, e)[i] : i \in 1..(Len(s) + 1)}
    BY <1>2, <1>3, SequenceShape
  <2>2. Range(Append(s, e)) \subseteq Range(s) \cup {e}
    BY <2>1, <1>2
  <2>3. \A i \in 1..Len(s) : s[i] \in Range(Append(s, e))
    BY <2>1, <1>2
  <2>4. e \in Range(Append(s, e))
    BY <2>1, <1>2
  <2> QED BY <2>1, <2>2, <2>3, <2>4
<1> QED BY <1>2, <1>3, <1>4

LEMMA FrontShape ==
    ASSUME NEW s, IsSequence(s), s # <<>>
    PROVE  /\ IsSequence(Front(s)) /\ Len(Front(s)) = Len(s) - 1
           /\ \A i \in 1..(Len(s) - 1) : Front(s)[i] = s[i]
           /\ Range(Front(s)) \subseteq Range(s)
<1>1. /\ Len(s) \in Nat /\ Len(s) # 0 /\ DOMAIN s = 1..Len(s)
      /\ s \in Seq(Range(s)) /\ \A i \in 1..Len(s) : s[i] \in Range(s)
  BY SequenceShape, ElementOfSeq DEF IsSequence
<1>2. /\ SubSeq(s, 1, Len(s) - 1) \in Seq(Range(s))
      /\ Len(SubSeq(s, 1, Len(s) - 1)) =
            IF 1 <= Len(s) - 1 THEN Len(s) - 1 - 1 + 1 ELSE 0
      /\ \A i \in 1..(Len(s) - 1 - 1 + 1) : SubSeq(s, 1, Len(s) - 1)[i] = s[1 + i - 1]
  BY <1>1, SubSeqProperties
<1>3. Front(s) = SubSeq(s, 1, Len(s) - 1)
  BY DEF Front
<1>4. Front(s) \in Seq(Range(s)) /\ Len(Front(s)) = Len(s) - 1
  BY <1>1, <1>2, <1>3
<1>5. \A i \in 1..(Len(s) - 1) : Front(s)[i] = s[i]
  BY <1>1, <1>2, <1>3
<1>6. IsSequence(Front(s)) /\ Range(Front(s)) \subseteq Range(s)
  BY <1>4, SeqOfRange, RangeOfSeq DEF IsSequence
<1> QED BY <1>4, <1>5, <1>6

\* What the file holds after a write: one line more, or the line at its end made
\* malformed; the other lines are as they were.
LEMMA WithLineShape ==
    ASSUME IsSequence(file), terminated \in BOOLEAN, ~terminated => file # <<>>,
           NEW line
    PROVE  LET written == WithLine(line) IN
           /\ IsSequence(written) /\ written # <<>>
           /\ Len(written) = IF terminated THEN Len(file) + 1 ELSE Len(file)
           /\ Range(written) \subseteq Range(file) \cup {line, Malformed}
           /\ terminated => written = Append(file, line)
           /\ terminated => Range(file) \subseteq Range(written)
           /\ ~terminated => Malformed \in Range(written)
<1>1. CASE terminated
  <2>1. Len(file) \in Nat
    BY SequenceShape
  <2>2. Append(file, line) # <<>>
    BY <2>1, AppendShape, SequenceShape
  <2> QED BY <1>1, <2>2, AppendShape DEF WithLine
<1>2. CASE ~terminated
  <2>1. Len(file) \in Nat /\ Len(file) # 0
    BY <1>2, SequenceShape
  <2>2. /\ IsSequence(Front(file)) /\ Len(Front(file)) = Len(file) - 1
        /\ Range(Front(file)) \subseteq Range(file)
    BY <1>2, FrontShape
  <2> DEFINE written == Append(Front(file), Malformed)
  <2>3. /\ IsSequence(written) /\ Len(written) = Len(file)
        /\ Range(written) = Range(Front(file)) \cup {Malformed}
    BY <2>1, <2>2, AppendShape
  <2>4. written # <<>>
    BY <2>1, <2>3, SequenceShape
  <2>5. WithLine(line) = written
    BY <1>2 DEF WithLine
  <2> HIDE DEF written
  <2> QED BY <1>2, <2>2, <2>3, <2>4, <2>5
<1> QED BY <1>1, <1>2

\* An edit makes no line of its own: every line is one that was there, or one
\* whose statement alone was altered.
LEMMA EditShape ==
    ASSUME IsSequence(file), Edit
    PROVE  /\ IsSequence(file') /\ Len(file') <= Len(file)
           /\ \A line \in Range(file') :
                \/ line \in Range(file)
                \/ \E old \in Range(file) : \E s \in Statements :
                     old # Malformed /\ line = [old EXCEPT !.statement = s]
<1> DEFINE S == Range(file)
<1>0. /\ Len(file) \in Nat /\ DOMAIN file = 1..Len(file) /\ file \in Seq(S)
      /\ \A i \in 1..Len(file) : file[i] \in S
  BY SequenceShape, ElementOfSeq DEF IsSequence
<1>1. PICK i \in 1..Len(file) :
         \/ file[i] # Malformed /\ \E s \in Statements \ {file[i].statement} :
              file' = [file EXCEPT ![i].statement = s]
         \/ file' = RemoveAt(file, i)
         \/ \E j \in DOMAIN file \ {i} :
              file' = [file EXCEPT ![i] = file[j], ![j] = file[i]]
         \/ file' = SubSeq(file, 1, i - 1)
  BY <1>0 DEF Edit
<1>2. \A s : s \in Seq(S) => IsSequence(s) /\ Range(s) \subseteq S
  BY SeqOfRange, RangeOfSeq DEF IsSequence
<1> HIDE DEF S
<1>a. ASSUME file[i] # Malformed, NEW s \in Statements,
             file' = [file EXCEPT ![i].statement = s]
      PROVE  /\ IsSequence(file') /\ Len(file') <= Len(file)
             /\ \A line \in Range(file') :
                  \/ line \in S
                  \/ \E old \in S : \E t \in Statements :
                       old # Malformed /\ line = [old EXCEPT !.statement = t]
  <2> DEFINE altered == [file[i] EXCEPT !.statement = s]
             T == S \cup {altered}
  <2>1. file \in Seq(T) /\ altered \in T
    BY <1>0, SeqMonotonic
  <2>2. file' = [file EXCEPT ![i] = altered]
    BY <1>a
  <2> HIDE DEF altered
  <2>3. file' \in Seq(T) /\ Len(file') = Len(file)
    BY <2>1, <2>2, ExceptSeq
  <2>4. Range(file') \subseteq T /\ IsSequence(file')
    BY <2>3, SeqOfRange, RangeOfSeq DEF IsSequence
  <2>5. file[i] \in S
    BY <1>0
  <2>6. Len(file') <= Len(file)
    BY <1>0, <2>3
  <2>7. \A line \in Range(file') : line \in S \/ line = altered
    BY <2>4
  <2> QED BY <1>a, <2>4, <2>5, <2>6, <2>7 DEF altered
<1>b. CASE file' = RemoveAt(file, i)
  <2>1. SubSeq(file, 1, i - 1) \in Seq(S) /\ Len(SubSeq(file, 1, i - 1)) = i - 1
    BY <1>0, SubSeqProperties
  <2>2. /\ SubSeq(file, i + 1, Len(file)) \in Seq(S)
        /\ Len(SubSeq(file, i + 1, Len(file))) =
             IF i + 1 <= Len(file) THEN Len(file) - (i + 1) + 1 ELSE 0
    <3>1. \A j \in (i + 1)..Len(file) : file[j] \in S
      BY <1>0
    <3> QED BY <1>0, <3>1, SubSeqProperties
  <2>3. file' = SubSeq(file, 1, i - 1) \o SubSeq(file, i + 1, Len(file))
    BY <1>b DEF RemoveAt
  <2>4. /\ file' \in Seq(S)
        /\ Len(file') = Len(SubSeq(file, 1, i - 1)) + Len(SubSeq(file, i + 1, Len(file)))
    BY <2>1, <2>2, <2>3, ConcatProperties
  <2> DEFINE n == Len(file)
             before == Len(SubSeq(file, 1, i - 1))
             after == Len(SubSeq(file, i + 1, n))
  <2>6. n \in Nat /\ i \in 1..n /\ before = i - 1
    BY <1>0, <2>1
  <2>7. after = IF i + 1 <= n THEN n - (i + 1) + 1 ELSE 0
    BY <2>2
  <2>8. Len(file') = before + after
    BY <2>4
  <2> HIDE DEF n, before, after
  <2>9. before + after <= n
    BY <2>6, <2>7
  <2>5. Len(file') <= Len(file)
    BY <2>8, <2>9 DEF n
  <2> QED BY <1>2, <2>4, <2>5 DEF S
<1>c. CASE \E j \in DOMAIN file \ {i} :
             file' = [file EXCEPT ![i] = file[j], ![j] = file[i]]
  <2>1. PICK j \in 1..Len(file) : file' = [file EXCEPT ![i] = file[j], ![j] = file[i]]
    BY <1>0, <1>c
  <2> DEFINE half == [file EXCEPT ![i] = file[j]]
  <2>2. half \in Seq(S) /\ Len(half) = Len(file)
    BY <1>0, ExceptSeq
  <2>3. file' = [half EXCEPT ![j] = file[i]]
    BY <2>1
  <2> HIDE DEF half
  <2>4. file' \in Seq(S) /\ Len(file') = Len(file)
    BY <1>0, <2>2, <2>3, ExceptSeq
  <2> QED BY <1>0, <1>2, <2>4 DEF S
<1>d. CASE file' = SubSeq(file, 1, i - 1)
  <2>1. SubSeq(file, 1, i - 1) \in Seq(S) /\ Len(SubSeq(file, 1, i - 1)) = i - 1
    BY <1>0, SubSeqProperties
  <2>2. file' \in Seq(S) /\ Len(file') <= Len(file)
    BY <1>0, <1>d, <2>1
  <2> QED BY <1>2, <2>2 DEF S
<1> QED BY <1>1, <1>a, <1>b, <1>c, <1>d DEF S

-------------------------------------------------------------------------------
(* What an entry is, and where its hash leads back to.                         *)

\* An entry as append() makes it.
WellMade(e) == e = LogEntry(e.index, e.previous, e.statement)

\* The hash is the genesis, or that of one of the first n entries ever appended.
LeadsBack(previous, n) ==
    previous = GENESIS \/ \E k \in 1..n : previous = appended[k].entry_hash

\* The line has everything but, perhaps, its statement from an appended entry.
Descends(line) ==
    \E k \in DOMAIN appended : \E s \in Statements :
        line = [appended[k] EXCEPT !.statement = s]

\* The invariant behind IntactMeansGenuine. Until somebody recomputes hashes, those
\* that an edited line may carry were all computed by append(), and each leads back
\* to an earlier one: nobody can make one that leads forward. No two entries share
\* a serial, so no two share a hash.
Pedigree ==
    /\ IsSequence(file) /\ IsSequence(appended)
    /\ terminated \in BOOLEAN /\ (~terminated => file # <<>>)
    /\ offered \in Nat /\ edits \in Nat /\ rewritten \in BOOLEAN
    /\ writer = [w \in Writers |-> writer[w]]
    /\ ~rewritten => \A line \in Range(file) : line # Malformed => Descends(line)
    /\ \A k \in DOMAIN appended :
         /\ WellMade(appended[k]) /\ appended[k].statement \in Statements
         /\ appended[k].statement.serial <= offered
         /\ ~rewritten => LeadsBack(appended[k].previous, k - 1)
         /\ \A j \in DOMAIN appended :
              appended[j].statement.serial = appended[k].statement.serial => j = k
    /\ \A w \in Writers : writer[w] # None =>
         /\ WellMade(writer[w]) /\ writer[w].statement \in Statements
         /\ writer[w].statement.serial <= offered
         /\ ~rewritten => LeadsBack(writer[w].previous, Len(appended))
         /\ \A k \in DOMAIN appended :
              appended[k].statement.serial # writer[w].statement.serial
         /\ \A v \in Writers \ {w} : writer[v] # None =>
              writer[v].statement.serial # writer[w].statement.serial

LEMMA LogEntryShape ==
    ASSUME NEW index, NEW previous, NEW statement
    PROVE  LET e == LogEntry(index, previous, statement) IN
           /\ WellMade(e) /\ e # Malformed
           /\ e.index = index /\ e.previous = previous /\ e.statement = statement
           /\ e.entry_hash = <<index, previous, statement>>
<1> DEFINE e == LogEntry(index, previous, statement)
<1>1. DOMAIN e = {"index", "previous", "statement", "entry_hash"}
  BY DEF LogEntry
<1>2. DOMAIN Malformed = {"malformed"}
  BY DEF Malformed
<1>3. e # Malformed
  BY <1>1, <1>2
<1> QED BY <1>3 DEF WellMade, LogEntry, EntryHash

\* Hashes of entries that append() made tell their serials.
LEMMA HashTellsSerial ==
    ASSUME NEW d, NEW e, WellMade(d), WellMade(e), d.entry_hash = e.entry_hash
    PROVE  d = e /\ d.entry_hash # GENESIS
<1>1. d.entry_hash = <<d.index, d.previous, d.statement>>
  BY LogEntryShape DEF WellMade
<1>2. e.entry_hash = <<e.index, e.previous, e.statement>>
  BY LogEntryShape DEF WellMade
<1>4. <<d.index, d.previous, d.statement>> = <<e.index, e.previous, e.statement>>
  BY <1>1, <1>2
<1>5. \A a, b, c, x, y, z : <<a, b, c>> = <<x, y, z>> => a = x /\ b = y /\ c = z
  OBVIOUS
<1>6. d.index = e.index /\ d.previous = e.previous /\ d.statement = e.statement
  BY <1>4, <1>5
<1>3. <<d.index, d.previous, d.statement>> # <<>>
  OBVIOUS
<1> QED BY <1>1, <1>6, <1>3 DEF WellMade, GENESIS

\* A line that can be read has a hash that append() computed.
LEMMA LineHasPedigree ==
    ASSUME Pedigree, ~rewritten, NEW line \in Range(file), line # Malformed
    PROVE  \E k \in 1..Len(appended) : line.entry_hash = appended[k].entry_hash
<1>1. PICK k \in DOMAIN appended : \E s \in Statements :
        line = [appended[k] EXCEPT !.statement = s]
  BY DEF Pedigree, Descends
<1>2. appended[k] = LogEntry(appended[k].index, appended[k].previous,
                             appended[k].statement)
  BY DEF Pedigree, WellMade
<1>3. line.entry_hash = appended[k].entry_hash
  BY <1>1, <1>2 DEF LogEntry
<1> QED BY <1>3, SequenceShape DEF Pedigree

\* Computing an entry keeps the pedigree: its serial is new, and it chains to the
\* last line of the file.
LEMMA ReadHeadKeepsPedigree ==
    ASSUME Pedigree, NEW w \in Writers, NEW system \in Systems, ReadHead(w, system)
    PROVE  Pedigree'
<1> DEFINE statement == [system |-> system, serial |-> offered + 1]
           previous == IF file = <<>> THEN GENESIS ELSE Last(file).entry_hash
           e == LogEntry(Len(file), previous, statement)
<1>1. /\ writer' = [writer EXCEPT ![w] = e] /\ offered' = offered + 1
      /\ offered < MaxEntries /\ Readable
      /\ UNCHANGED <<file, terminated, appended, edits, rewritten>>
  BY DEF ReadHead
<1>2. offered \in Nat
  BY DEF Pedigree
<1>3. statement \in Statements
  BY <1>1, <1>2, BoundsAssumption DEF Statements
<1>4. ~rewritten => LeadsBack(previous, Len(appended))
  <2> SUFFICES ASSUME ~rewritten PROVE LeadsBack(previous, Len(appended))
    OBVIOUS
  <2>1. CASE file = <<>>
    BY <2>1 DEF LeadsBack
  <2>2. CASE file # <<>>
    <3>1. Len(file) \in DOMAIN file
      BY <2>2, SequenceShape DEF Pedigree
    <3>2. Last(file) \in Range(file) /\ Last(file) # Malformed
      BY <1>1, <3>1 DEF Last, Range, Readable
    <3> QED BY <2>2, <3>2, LineHasPedigree DEF LeadsBack
  <2> QED BY <2>1, <2>2
<1>5. WellMade(e) /\ e.previous = previous /\ e.statement = statement
  BY LogEntryShape
<1>6. statement.serial = offered + 1
  OBVIOUS
<1> HIDE DEF e, statement, previous
<1>7. writer' = [v \in Writers |-> writer'[v]] /\ writer'[w] = e
      /\ \A v \in Writers \ {w} : writer'[v] = writer[v]
  BY <1>1 DEF Pedigree
<1>8. \A k \in DOMAIN appended : appended[k].statement.serial < offered + 1
  <2>1. \A k \in DOMAIN appended : /\ appended[k].statement.serial \in Nat
                                   /\ appended[k].statement.serial <= offered
    BY DEF Pedigree, Statements
  <2> QED BY <1>2, <2>1
<1>9. \A v \in Writers : writer[v] # None => writer[v].statement.serial < offered + 1
  <2>1. \A v \in Writers : writer[v] # None => /\ writer[v].statement.serial \in Nat
                                               /\ writer[v].statement.serial <= offered
    BY DEF Pedigree, Statements
  <2> QED BY <1>2, <2>1
<1>10. (\A k \in DOMAIN appended :
         /\ WellMade(appended[k]) /\ appended[k].statement \in Statements
         /\ appended[k].statement.serial <= offered
         /\ ~rewritten => LeadsBack(appended[k].previous, k - 1)
         /\ \A j \in DOMAIN appended :
              appended[j].statement.serial = appended[k].statement.serial => j = k)'
  <2>1. \A k \in DOMAIN appended : appended[k].statement.serial <= offered + 1
    <3>1. \A k \in DOMAIN appended : appended[k].statement.serial \in Nat
      BY DEF Pedigree, Statements
    <3> QED BY <1>2, <1>8, <3>1
  <2> QED BY <1>1, <2>1 DEF Pedigree, LeadsBack, WellMade
<1>11. ASSUME NEW v \in Writers, writer'[v] # None
       PROVE  (/\ WellMade(writer[v]) /\ writer[v].statement \in Statements
               /\ writer[v].statement.serial <= offered
               /\ ~rewritten => LeadsBack(writer[v].previous, Len(appended))
               /\ \A k \in DOMAIN appended :
                    appended[k].statement.serial # writer[v].statement.serial
               /\ \A u \in Writers \ {v} : writer[u] # None =>
                    writer[u].statement.serial # writer[v].statement.serial)'
  <2>1. CASE v = w
    <3>1. \A u \in Writers \ {v} : writer'[u] # None =>
            writer'[u].statement.serial # writer'[v].statement.serial
      <4>1. writer'[v].statement.serial = offered + 1
        BY <1>5, <1>6, <1>7, <2>1
      <4>2. \A u \in Writers \ {v} : writer[u] # None =>
              writer[u].statement.serial \in Nat /\ writer[u].statement.serial <= offered
        BY DEF Pedigree, Statements
      <4> QED BY <1>2, <1>7, <2>1, <4>1, <4>2
    <3>2. \A k \in DOMAIN appended :
            appended[k].statement.serial # writer'[v].statement.serial
      <4>1. writer'[v].statement.serial = offered + 1
        BY <1>5, <1>6, <1>7, <2>1
      <4>2. \A k \in DOMAIN appended :
              appended[k].statement.serial \in Nat /\ appended[k].statement.serial <= offered
        BY DEF Pedigree, Statements
      <4> QED BY <1>2, <4>1, <4>2
    <3>3. writer'[v] = e /\ offered + 1 <= offered + 1
      BY <1>2, <1>7, <2>1
    <3>4. writer'[v].statement.serial <= offered'
      BY <1>1, <1>2, <1>5, <1>6, <3>3
    <3> QED BY <1>1, <1>3, <1>5, <3>1, <3>2, <3>3, <3>4, <1>4 DEF LeadsBack, WellMade
  <2>2. CASE v # w
    <3>1. writer'[v] = writer[v] /\ writer[v] # None
      BY <1>7, <1>11, <2>2
    <3>2. /\ WellMade(writer[v]) /\ writer[v].statement \in Statements
          /\ ~rewritten => LeadsBack(writer[v].previous, Len(appended))
          /\ \A k \in DOMAIN appended :
               appended[k].statement.serial # writer[v].statement.serial
          /\ \A u \in Writers \ {v} : writer[u] # None =>
               writer[u].statement.serial # writer[v].statement.serial
      BY <3>1 DEF Pedigree
    <3>3. writer[v].statement.serial \in Nat /\ writer[v].statement.serial <= offered
      BY <3>1 DEF Pedigree, Statements
    <3>4. writer'[w].statement.serial # writer'[v].statement.serial
      BY <1>2, <1>5, <1>6, <1>7, <3>1, <3>3
    <3>5. \A u \in Writers \ {v} : writer'[u] # None =>
            writer'[u].statement.serial # writer'[v].statement.serial
      BY <1>7, <3>1, <3>2, <3>4
    <3>6. writer'[v].statement.serial <= offered'
      BY <1>1, <1>2, <3>1, <3>3
    <3> QED BY <1>1, <3>1, <3>2, <3>5, <3>6 DEF LeadsBack, WellMade
  <2> QED BY <2>1, <2>2
<1>12. ~rewritten => \A line \in Range(file) : line # Malformed => Descends(line)'
  BY <1>1 DEF Pedigree, Descends
<1>13. /\ IsSequence(file') /\ IsSequence(appended')
       /\ terminated' \in BOOLEAN /\ (~terminated' => file' # <<>>)
       /\ offered' \in Nat /\ edits' \in Nat /\ rewritten' \in BOOLEAN
  BY <1>1, <1>2 DEF Pedigree
<1>14. ~rewritten' => \A line \in Range(file') : line # Malformed => Descends(line)'
  BY <1>1, <1>12
<1> QED BY <1>7, <1>10, <1>11, <1>13, <1>14 DEF Pedigree

\* Appending an entry that a writer holds keeps the pedigree, whatever becomes of
\* the line in the file.
LEMMA AppendingKeepsPedigree ==
    ASSUME Pedigree, NEW w \in Writers, writer[w] # None,
           appended' = Append(appended, writer[w]), file' = WithLine(writer[w]),
           terminated' \in BOOLEAN, writer' = [writer EXCEPT ![w] = None],
           UNCHANGED <<offered, edits, rewritten>>
    PROVE  Pedigree'
<1> DEFINE e == writer[w]
           n == Len(appended)
<1>1. /\ WellMade(e) /\ e.statement \in Statements /\ e.statement.serial <= offered
      /\ ~rewritten => LeadsBack(e.previous, n)
      /\ \A k \in DOMAIN appended : appended[k].statement.serial # e.statement.serial
      /\ \A v \in Writers \ {w} : writer[v] # None =>
           writer[v].statement.serial # e.statement.serial
  BY DEF Pedigree
<1>2. /\ IsSequence(appended') /\ Len(appended') = n + 1 /\ n \in Nat
      /\ DOMAIN appended = 1..n /\ DOMAIN appended' = 1..(n + 1)
      /\ \A k \in 1..n : appended'[k] = appended[k]
      /\ appended'[n + 1] = e
  <2>1. IsSequence(appended)
    BY DEF Pedigree
  <2>2. IsSequence(appended') /\ Len(appended') = n + 1
    BY <2>1, AppendShape
  <2> QED BY <2>1, <2>2, AppendShape, SequenceShape
<1>3. \A line : Descends(line) => Descends(line)'
  BY <1>2 DEF Descends
<1>4. e = [e EXCEPT !.statement = e.statement]
  BY <1>1 DEF WellMade, LogEntry
<1>5. /\ IsSequence(file') /\ file' # <<>>
      /\ Range(file') \subseteq Range(file) \cup {e, Malformed}
  BY WithLineShape DEF Pedigree
<1> HIDE DEF e, n
<1>6. \A line : line = e => Descends(line)'
  <2>1. n + 1 \in DOMAIN appended' /\ e = [appended'[n + 1] EXCEPT !.statement = e.statement]
    BY <1>2, <1>4
  <2>2. \E k \in DOMAIN appended' : \E s \in Statements :
          e = [appended'[k] EXCEPT !.statement = s]
    BY <1>1, <2>1
  <2> QED BY <2>2 DEF Descends
<1>7. ~rewritten' => \A line \in Range(file') : line # Malformed => Descends(line)'
  <2>1. ~rewritten => \A line \in Range(file) : line # Malformed => Descends(line)
    BY DEF Pedigree
  <2> QED BY <1>3, <1>5, <1>6, <2>1
<1>8. (\A k \in DOMAIN appended :
         /\ WellMade(appended[k]) /\ appended[k].statement \in Statements
         /\ appended[k].statement.serial <= offered
         /\ ~rewritten => LeadsBack(appended[k].previous, k - 1)
         /\ \A j \in DOMAIN appended :
              appended[j].statement.serial = appended[k].statement.serial => j = k)'
  <2> SUFFICES ASSUME NEW k \in 1..(n + 1)
               PROVE  (/\ WellMade(appended[k]) /\ appended[k].statement \in Statements
                       /\ appended[k].statement.serial <= offered
                       /\ ~rewritten => LeadsBack(appended[k].previous, k - 1)
                       /\ \A j \in DOMAIN appended :
                            appended[j].statement.serial = appended[k].statement.serial
                              => j = k)'
    BY <1>2
  <2>1. CASE k \in 1..n
    <3>1. /\ WellMade(appended[k]) /\ appended[k].statement \in Statements
          /\ appended[k].statement.serial <= offered
          /\ ~rewritten => LeadsBack(appended[k].previous, k - 1)
          /\ \A j \in 1..n :
               appended[j].statement.serial = appended[k].statement.serial => j = k
      BY <1>2, <2>1 DEF Pedigree
    <3>2. appended'[k] = appended[k]
      BY <1>2, <2>1
    <3>3. \A j \in 1..(n + 1) :
            appended'[j].statement.serial = appended'[k].statement.serial => j = k
      <4>1. appended'[n + 1].statement.serial # appended'[k].statement.serial
        BY <1>1, <1>2, <2>1, <3>2
      <4>2. \A j \in 1..n :
              appended'[j].statement.serial = appended'[k].statement.serial => j = k
        BY <1>2, <3>1, <3>2
      <4>3. \A j \in 1..(n + 1) : j \in 1..n \/ j = n + 1
        BY <1>2
      <4> QED BY <4>1, <4>2, <4>3
    <3>4. (~rewritten => LeadsBack(appended[k].previous, k - 1))'
      BY <1>2, <2>1, <3>1, <3>2 DEF LeadsBack
    <3> QED BY <1>2, <3>1, <3>2, <3>3, <3>4 DEF WellMade
  <2>2. CASE k = n + 1
    <3>1. appended'[k] = e /\ k - 1 = n
      BY <1>2, <2>2
    <3>2. \A j \in 1..(n + 1) :
            appended'[j].statement.serial = appended'[k].statement.serial => j = k
      <4>1. \A j \in 1..n : appended'[j].statement.serial # e.statement.serial
        BY <1>1, <1>2
      <4>2. \A j \in 1..(n + 1) : j \in 1..n \/ j = n + 1
        BY <1>2
      <4> QED BY <2>2, <3>1, <4>1, <4>2
    <3>3. (~rewritten => LeadsBack(appended[k].previous, k - 1))'
      BY <1>1, <1>2, <3>1 DEF LeadsBack
    <3> QED BY <1>1, <1>2, <3>1, <3>2, <3>3 DEF WellMade
  <2> QED BY <1>2, <2>1, <2>2
<1>9. writer' = [v \in Writers |-> writer'[v]] /\ writer'[w] = None
      /\ \A v \in Writers \ {w} : writer'[v] = writer[v]
  BY DEF Pedigree
<1>10. ASSUME NEW v \in Writers, writer'[v] # None
       PROVE  (/\ WellMade(writer[v]) /\ writer[v].statement \in Statements
               /\ writer[v].statement.serial <= offered
               /\ ~rewritten => LeadsBack(writer[v].previous, Len(appended))
               /\ \A k \in DOMAIN appended :
                    appended[k].statement.serial # writer[v].statement.serial
               /\ \A u \in Writers \ {v} : writer[u] # None =>
                    writer[u].statement.serial # writer[v].statement.serial)'
  <2>1. v # w /\ writer'[v] = writer[v] /\ writer[v] # None
    BY <1>9, <1>10
  <2>2. /\ WellMade(writer[v]) /\ writer[v].statement \in Statements
        /\ writer[v].statement.serial <= offered
        /\ ~rewritten => LeadsBack(writer[v].previous, n)
        /\ \A k \in 1..n : appended[k].statement.serial # writer[v].statement.serial
        /\ \A u \in Writers \ {v} : writer[u] # None =>
             writer[u].statement.serial # writer[v].statement.serial
    BY <1>2, <2>1 DEF Pedigree, n
  <2>3. writer[v].statement.serial # e.statement.serial
    BY <1>1, <2>1
  <2>4. \A k \in 1..(n + 1) :
          appended'[k].statement.serial # writer'[v].statement.serial
    BY <1>2, <2>1, <2>2, <2>3
  <2>5. \A u \in Writers \ {v} : writer'[u] # None =>
          writer'[u].statement.serial # writer'[v].statement.serial
    BY <1>9, <2>1, <2>2
  <2>6. (~rewritten => LeadsBack(writer[v].previous, Len(appended)))'
    BY <1>2, <2>1, <2>2 DEF LeadsBack
  <2> QED BY <1>2, <2>1, <2>2, <2>4, <2>5, <2>6 DEF WellMade
<1>11. offered' \in Nat /\ edits' \in Nat /\ rewritten' \in BOOLEAN
  BY DEF Pedigree
<1> QED BY <1>2, <1>5, <1>7, <1>8, <1>9, <1>10, <1>11 DEF Pedigree

\* Nothing that appends no entry disturbs the pedigree, if the lines it leaves
\* have theirs.
LEMMA LosingKeepsPedigree ==
    ASSUME Pedigree, UNCHANGED <<appended, offered>>,
           edits' \in Nat, rewritten' \in BOOLEAN, rewritten => rewritten',
           IsSequence(file'), terminated' \in BOOLEAN, ~terminated' => file' # <<>>,
           ~rewritten' =>
             \A line \in Range(file') : line # Malformed => Descends(line),
           writer' = [v \in Writers |-> writer'[v]],
           \A v \in Writers : writer'[v] \in {None, writer[v]}
    PROVE  Pedigree'
<1>1. ~rewritten' => \A line \in Range(file') : line # Malformed => Descends(line)'
  BY DEF Descends
<1>2. (\A k \in DOMAIN appended :
         /\ WellMade(appended[k]) /\ appended[k].statement \in Statements
         /\ appended[k].statement.serial <= offered
         /\ ~rewritten => LeadsBack(appended[k].previous, k - 1)
         /\ \A j \in DOMAIN appended :
              appended[j].statement.serial = appended[k].statement.serial => j = k)'
  BY DEF Pedigree, LeadsBack, WellMade
<1>3. ASSUME NEW v \in Writers, writer'[v] # None
      PROVE  (/\ WellMade(writer[v]) /\ writer[v].statement \in Statements
              /\ writer[v].statement.serial <= offered
              /\ ~rewritten => LeadsBack(writer[v].previous, Len(appended))
              /\ \A k \in DOMAIN appended :
                   appended[k].statement.serial # writer[v].statement.serial
              /\ \A u \in Writers \ {v} : writer[u] # None =>
                   writer[u].statement.serial # writer[v].statement.serial)'
  <2>1. writer'[v] = writer[v] /\ writer[v] # None
    BY <1>3
  <2>2. /\ WellMade(writer[v]) /\ writer[v].statement \in Statements
        /\ writer[v].statement.serial <= offered
        /\ ~rewritten => LeadsBack(writer[v].previous, Len(appended))
        /\ \A k \in DOMAIN appended :
             appended[k].statement.serial # writer[v].statement.serial
        /\ \A u \in Writers \ {v} : writer[u] # None =>
             writer[u].statement.serial # writer[v].statement.serial
    BY <2>1 DEF Pedigree
  <2>3. \A u \in Writers \ {v} : writer'[u] # None =>
          writer'[u].statement.serial # writer'[v].statement.serial
    BY <2>1, <2>2
  <2>4. (rewritten => rewritten') /\ (~rewritten => LeadsBack(writer[v].previous, Len(appended)))'
    BY <2>1, <2>2 DEF LeadsBack
  <2> QED BY <2>1, <2>2, <2>3, <2>4 DEF WellMade
<1>4. IsSequence(appended') /\ offered' \in Nat
  BY DEF Pedigree
<1> QED BY <1>1, <1>2, <1>3, <1>4 DEF Pedigree

LEMMA EditKeepsPedigree ==
    ASSUME Pedigree, Edit
    PROVE  Pedigree'
<1>0. edits' \in Nat /\ UNCHANGED rewritten /\ rewritten \in BOOLEAN
  BY DEF Edit, Pedigree
<1>1. /\ IsSequence(file')
      /\ \A line \in Range(file') :
           \/ line \in Range(file)
           \/ \E old \in Range(file) : \E s \in Statements :
                old # Malformed /\ line = [old EXCEPT !.statement = s]
  BY EditShape DEF Pedigree
<1>2. ASSUME ~rewritten, NEW old \in Range(file), NEW s \in Statements,
             old # Malformed
      PROVE  Descends([old EXCEPT !.statement = s])
  <2>1. PICK k \in DOMAIN appended : \E t \in Statements :
          old = [appended[k] EXCEPT !.statement = t]
    BY <1>2 DEF Pedigree, Descends
  <2>2. appended[k] = LogEntry(appended[k].index, appended[k].previous,
                               appended[k].statement)
    BY DEF Pedigree, WellMade
  <2>3. [old EXCEPT !.statement = s] = [appended[k] EXCEPT !.statement = s]
    BY <2>1, <2>2 DEF LogEntry
  <2> QED BY <2>3 DEF Descends
<1>3. ~rewritten => \A line \in Range(file') : line # Malformed => Descends(line)
  <2>1. ~rewritten => \A line \in Range(file) : line # Malformed => Descends(line)
    BY DEF Pedigree
  <2> QED BY <1>1, <1>2, <2>1
<1>4. terminated' = TRUE /\ UNCHANGED <<writer, offered, appended>>
  BY DEF Edit
<1>5. writer' = [v \in Writers |-> writer'[v]]
  BY <1>4 DEF Pedigree
<1> QED BY <1>0, <1>1, <1>3, <1>4, <1>5, LosingKeepsPedigree

\* What a line made anew leaves of the file.
LEMMA RewriteShape ==
    ASSUME IsSequence(file), Rewrite
    PROVE  /\ IsSequence(file') /\ Len(file') = Len(file)
           /\ \E i \in 1..Len(file), s \in Statements :
                /\ i # 1 => i - 1 \in DOMAIN file /\ file[i - 1] # Malformed
                /\ Range(file') \subseteq Range(file) \cup
                     {LogEntry(i - 1, IF i = 1 THEN GENESIS ELSE file[i - 1].entry_hash, s)}
<1>1. Len(file) \in Nat /\ DOMAIN file = 1..Len(file)
  BY SequenceShape
<1>2. PICK i \in 1..Len(file), s \in Statements :
        /\ i # 1 => file[i - 1] # Malformed
        /\ file' = [file EXCEPT ![i] =
             LogEntry(i - 1, IF i = 1 THEN GENESIS ELSE file[i - 1].entry_hash, s)]
  BY <1>1 DEF Rewrite
<1> DEFINE e == LogEntry(i - 1, IF i = 1 THEN GENESIS ELSE file[i - 1].entry_hash, s)
           S == Range(file) \cup {e}
<1>3. file' = [file EXCEPT ![i] = e]
  BY <1>2
<1>4. file \in Seq(S) /\ e \in S
  BY SeqMonotonic DEF IsSequence
<1> HIDE DEF e, S
<1>5. file' \in Seq(S) /\ Len(file') = Len(file)
  BY <1>3, <1>4, ExceptSeq
<1>6. IsSequence(file') /\ Range(file') \subseteq S
  BY <1>5, SeqOfRange, RangeOfSeq DEF IsSequence
<1>7. i # 1 => i - 1 \in DOMAIN file /\ file[i - 1] # Malformed
  BY <1>1, <1>2
<1> QED BY <1>5, <1>6, <1>7 DEF e, S

\* A line made anew has no pedigree, and takes the log's with it.
LEMMA RewriteKeepsPedigree ==
    ASSUME Pedigree, Rewrite
    PROVE  Pedigree'
<1>1. /\ terminated' = TRUE /\ edits' = edits + 1 /\ rewritten' = TRUE
      /\ UNCHANGED <<writer, offered, appended>>
  BY DEF Rewrite
<1>2. IsSequence(file')
  BY RewriteShape DEF Pedigree
<1>3. edits' \in Nat /\ writer' = [v \in Writers |-> writer'[v]]
  BY <1>1 DEF Pedigree
<1> QED BY <1>1, <1>2, <1>3, LosingKeepsPedigree

\* A writer that dies loses its entry, or has appended it all the same.
LEMMA CrashKeepsPedigree ==
    ASSUME Pedigree, NEW w \in Writers, Crash(w)
    PROVE  Pedigree'
<1>1. /\ writer[w] # None /\ writer' = [writer EXCEPT ![w] = None]
      /\ UNCHANGED <<offered, edits, rewritten>>
      /\ edits \in Nat /\ rewritten \in BOOLEAN
  BY DEF Crash, Pedigree
<1>2. /\ writer' = [v \in Writers |-> writer'[v]]
      /\ \A v \in Writers : writer'[v] \in {None, writer[v]}
  BY <1>1 DEF Pedigree
<1>3. ~rewritten => \A line \in Range(file) : line # Malformed => Descends(line)
  BY DEF Pedigree
<1>a. CASE UNCHANGED <<file, terminated, appended>>
  <2>1. IsSequence(file') /\ terminated' \in BOOLEAN /\ (~terminated' => file' # <<>>)
    BY <1>a DEF Pedigree
  <2> QED BY <1>a, <1>1, <1>2, <1>3, <2>1, LosingKeepsPedigree
<1>b. CASE file' = WithLine(Malformed) /\ terminated' = FALSE /\ UNCHANGED appended
  <2>1. /\ IsSequence(file') /\ file' # <<>>
        /\ Range(file') \subseteq Range(file) \cup {Malformed, Malformed}
    BY <1>b, WithLineShape DEF Pedigree
  <2> QED BY <1>b, <1>1, <1>2, <1>3, <2>1, LosingKeepsPedigree
<1>c. CASE /\ file' = WithLine(writer[w]) /\ terminated' = FALSE
           /\ appended' = Append(appended, writer[w])
  BY <1>c, <1>1, AppendingKeepsPedigree
<1> QED BY <1>a, <1>b, <1>c DEF Crash

\* Every entry has its pedigree, always, and every line until hashes are recomputed.
THEOREM PedigreeHolds == Spec => []Pedigree
<1>1. Init => Pedigree
  <2> SUFFICES ASSUME Init PROVE Pedigree
    OBVIOUS
  <2>1. IsSequence(file) /\ IsSequence(appended) /\ DOMAIN appended = {}
    BY EmptySequence DEF Init
  <2>2. Range(file) = {}
    BY EmptySequence DEF Init, Range
  <2> QED BY <2>1, <2>2 DEF Init, Pedigree
<1>2. Pedigree /\ [Next]_vars => Pedigree'
  <2> SUFFICES ASSUME Pedigree, [Next]_vars PROVE Pedigree'
    OBVIOUS
  <2>1. ASSUME NEW w \in Writers, NEW system \in Systems, ReadHead(w, system)
        PROVE  Pedigree'
    BY <2>1, ReadHeadKeepsPedigree
  <2>2. ASSUME NEW w \in Writers, Write(w)
        PROVE  Pedigree'
    BY <2>2, AppendingKeepsPedigree DEF Write
  <2>3. ASSUME NEW w \in Writers, Crash(w)
        PROVE  Pedigree'
    BY <2>3, CrashKeepsPedigree
  <2>4. CASE UNCHANGED <<file, terminated, writer, offered, appended, edits, rewritten>>
    <3>1. /\ IsSequence(file') /\ terminated' \in BOOLEAN
          /\ (~terminated' => file' # <<>>)
          /\ writer' = [v \in Writers |-> writer'[v]]
          /\ edits' \in Nat /\ rewritten' \in BOOLEAN
          /\ ~rewritten' => \A line \in Range(file') : line # Malformed => Descends(line)
      BY <2>4 DEF Pedigree
    <3> QED BY <2>4, <3>1, LosingKeepsPedigree
  <2>5. CASE Edit
    BY <2>5, EditKeepsPedigree
  <2>6. CASE Rewrite
    BY <2>6, RewriteKeepsPedigree
  <2> QED BY <2>1, <2>2, <2>3, <2>4, <2>5, <2>6 DEF Next, VerifyChain, ShowLatest, vars
<1> QED BY <1>1, <1>2, PTL DEF Spec

-------------------------------------------------------------------------------
\* A position that grows from each line to the next grows over all of them. (By
\* the least line at which it would not.)
LEMMA AdjacentToAll ==
    ASSUME NEW n \in Nat, NEW position \in [1..n -> Nat],
           \A i \in 1..n : i # 1 => position[i - 1] < position[i]
    PROVE  \A i, j \in 1..n : i < j => position[i] < position[j]
<1> SUFFICES ASSUME NEW i \in 1..n, NEW b \in 1..n, i < b, ~(position[i] < position[b])
             PROVE  FALSE
  OBVIOUS
<1> DEFINE bad == {j \in 1..n : i < j /\ ~(position[i] < position[j])}
<1>1. bad \subseteq Nat /\ b \in bad
  OBVIOUS
<1>2. PICK j \in bad : \A k \in bad : ~(<<k, j>> \in OpToRel(<, Nat))
  BY <1>1, NatLessThanWellFounded, WFMin
<1>3. \A k \in bad : ~(k < j)
  BY <1>1, <1>2 DEF OpToRel
<1>4. j \in 1..n /\ i < j /\ ~(position[i] < position[j])
  OBVIOUS
<1> HIDE DEF bad
<1>5. j - 1 \in 1..n /\ position[j - 1] < position[j] /\ j # 1
  BY <1>4
<1>6. position[i] \in Nat /\ position[j - 1] \in Nat /\ position[j] \in Nat
  BY <1>4, <1>5
<1>7. CASE j - 1 = i
  BY <1>4, <1>5, <1>7
<1>8. CASE j - 1 # i
  <2>1. i < j - 1
    BY <1>4, <1>8
  <2>2. j - 1 \notin bad
    BY <1>3, <1>4, <1>5
  <2>3. position[i] < position[j - 1]
    BY <1>5, <2>1, <2>2 DEF bad
  <2> QED BY <1>4, <1>5, <1>6, <2>3
<1> QED BY <1>7, <1>8

\* In a file that verifies every line is an entry that append() made.
LEMMA IntactLinesAreEntries ==
    ASSUME Pedigree, ~rewritten, ChainIntact, NEW i \in DOMAIN file
    PROVE  \E k \in DOMAIN appended : file[i] = appended[k]
<1>1. file[i] \in Range(file) /\ file[i] # Malformed
  BY DEF ChainIntact, Verifies, Range
<1>2. PICK k \in DOMAIN appended : \E s \in Statements :
        file[i] = [appended[k] EXCEPT !.statement = s]
  BY <1>1 DEF Pedigree, Descends
<1>3. PICK s \in Statements : file[i] = [appended[k] EXCEPT !.statement = s]
  BY <1>2
<1>4. appended[k] = LogEntry(appended[k].index, appended[k].previous,
                             appended[k].statement)
  BY DEF Pedigree, WellMade
<1>5. file[i].entry_hash =
        EntryHash(file[i].index, file[i].previous, file[i].statement)
  BY DEF ChainIntact, Verifies
<1>6. file[i] = LogEntry(file[i].index, file[i].previous, file[i].statement)
  BY <1>3, <1>4, <1>5 DEF LogEntry
<1>7. file[i].entry_hash = appended[k].entry_hash
  BY <1>3, <1>4 DEF LogEntry
<1>8. file[i] = appended[k]
  BY <1>4, <1>6, <1>7, HashTellsSerial DEF WellMade
<1> QED BY <1>8

\* A file that verifies holds what append() wrote, in the order it wrote it, for
\* any number of writers, deaths and edits that recompute no hash.
THEOREM VerifiedIsGenuine == Spec => []IntactMeansGenuine
<1>1. Pedigree => IntactMeansGenuine
  <2> SUFFICES
        ASSUME Pedigree, ChainIntact, ~rewritten
        PROVE  \E position \in [DOMAIN file -> DOMAIN appended] :
                 /\ \A i \in DOMAIN file : file[i] = appended[position[i]]
                 /\ \A i, j \in DOMAIN file : i < j => position[i] < position[j]
    BY DEF IntactMeansGenuine
  <2> DEFINE position == [i \in DOMAIN file |->
                            CHOOSE k \in DOMAIN appended : file[i] = appended[k]]
             n == Len(file)
  <2>1. /\ n \in Nat /\ DOMAIN file = 1..n
        /\ Len(appended) \in Nat /\ DOMAIN appended = 1..Len(appended)
    BY SequenceShape DEF Pedigree
  <2>2. \A i \in DOMAIN file : /\ position[i] \in DOMAIN appended
                               /\ file[i] = appended[position[i]]
    BY IntactLinesAreEntries
  <2>3. position \in [DOMAIN file -> DOMAIN appended] /\ position \in [1..n -> Nat]
    BY <2>1, <2>2
  <2> HIDE DEF position, n
  <2>4. ASSUME NEW i \in 1..n, i # 1
        PROVE  position[i - 1] < position[i]
    <3>1. /\ i \in DOMAIN file /\ i - 1 \in DOMAIN file
          /\ file[i].previous = file[i - 1].entry_hash
      BY <2>1, <2>4 DEF ChainIntact, Verifies
    <3> DEFINE d == position[i - 1]
               e == position[i]
    <3>2. /\ d \in DOMAIN appended /\ e \in DOMAIN appended
          /\ file[i - 1] = appended[d] /\ file[i] = appended[e]
      BY <2>2, <3>1
    <3> HIDE DEF d, e
    <3>3. appended[e].previous = appended[d].entry_hash
      BY <3>1, <3>2
    <3>4. WellMade(appended[d]) /\ LeadsBack(appended[e].previous, e - 1)
      BY <3>2 DEF Pedigree
    <3>5. appended[d].entry_hash # GENESIS
      BY <3>4, HashTellsSerial
    <3>6. PICK k \in 1..(e - 1) : appended[d].entry_hash = appended[k].entry_hash
      BY <3>3, <3>4, <3>5 DEF LeadsBack
    <3>7. k \in DOMAIN appended /\ k < e /\ k \in Nat /\ d \in Nat /\ e \in Nat
      BY <2>1, <3>2, <3>6
    <3>8. appended[d] = appended[k]
      BY <3>4, <3>6, <3>7, HashTellsSerial DEF Pedigree
    <3>9. d = k
      BY <3>2, <3>7, <3>8 DEF Pedigree
    <3> QED BY <3>7, <3>9 DEF d, e
  <2>5. \A i, j \in 1..n : i < j => position[i] < position[j]
    BY <2>1, <2>3, <2>4, AdjacentToAll
  <2> QED BY <2>1, <2>2, <2>3, <2>5
<1> QED BY <1>1, PedigreeHolds, PTL

-------------------------------------------------------------------------------
(* What an unedited file holds.                                                *)

\* While nobody edits the file it holds all that was written, or it cannot be
\* read: a line that was torn stays in it, or damages the line after it.
Tally == edits = 0 /\ Readable => file = appended

\* Edits are counted, and never forgotten.
LEMMA EditsStayZero ==
    ASSUME Pedigree, [Next]_vars, edits' = 0
    PROVE  edits = 0 /\ ~Edit /\ ~Rewrite
<1>1. ~Edit /\ ~Rewrite
  <2>1. edits \in Nat
    BY DEF Pedigree
  <2> QED BY <2>1 DEF Edit, Rewrite
<1>2. UNCHANGED edits
  BY <1>1 DEF Next, ReadHead, Write, Crash, VerifyChain, ShowLatest, vars
<1> QED BY <1>1, <1>2

\* A write to a file that cannot be read leaves one that cannot be read, and the
\* write of a whole line to one that can leaves that line at its end.
LEMMA WriteTallies ==
    ASSUME Pedigree, NEW line, file' = WithLine(line), Readable'
    PROVE  terminated /\ Readable /\ line # Malformed /\ file' = Append(file, line)
<1>1. /\ IsSequence(file') /\ (terminated => file' = Append(file, line))
      /\ (terminated => Range(file) \subseteq Range(file'))
      /\ (~terminated => Malformed \in Range(file'))
  BY WithLineShape DEF Pedigree
<1>2. Malformed \notin Range(file')
  BY DEF Readable, Range
<1>3. terminated /\ file' = Append(file, line)
  BY <1>1, <1>2 DEF Pedigree
<1>4. Readable
  BY <1>1, <1>2, <1>3 DEF Readable, Range
<1>5. line \in Range(file')
  BY <1>3, AppendShape DEF Pedigree
<1> QED BY <1>2, <1>3, <1>4, <1>5

LEMMA StepTallies ==
    ASSUME Pedigree, Tally, [Next]_vars
    PROVE  Tally'
<1> SUFFICES ASSUME edits' = 0, Readable' PROVE file' = appended'
  BY DEF Tally
<1>1. edits = 0 /\ ~Edit /\ ~Rewrite
  BY EditsStayZero
<1>2. CASE UNCHANGED <<file, appended>>
  BY <1>1, <1>2 DEF Tally, Readable
<1>3. ASSUME NEW w \in Writers, file' = WithLine(writer[w]),
             appended' = Append(appended, writer[w])
      PROVE  file' = appended'
  BY <1>1, <1>3, WriteTallies DEF Tally
<1>4. CASE file' = WithLine(Malformed)
  BY <1>4, WriteTallies
<1> QED BY <1>1, <1>2, <1>3, <1>4
       DEF Next, ReadHead, Write, Crash, VerifyChain, ShowLatest, vars

THEOREM TallyHolds == Spec => []Tally
<1>1. Init => Tally
  BY DEF Init, Tally
<1> QED BY <1>1, PedigreeHolds, StepTallies, PTL DEF Spec

\* While nobody edits the file, what verifies is all that was written, whoever
\* died, for any number of writers.
THEOREM VerifiedIsComplete == Spec => []IntactMeansComplete
<1>1. Tally => IntactMeansComplete
  BY DEF Tally, IntactMeansComplete, ChainIntact, Verifies, Readable
<1> QED BY <1>1, TallyHolds, PTL

\* One writer at a time, as the code needs and nowhere arranges.
OneWriter == \A v, w \in Writers : v = w

\* What follows the last line of the file.
Follows(e) ==
    /\ e.index = Len(file)
    /\ e.previous = IF file = <<>> THEN GENESIS ELSE Last(file).entry_hash

\* An unedited file that can be read is linked, and what the one writer holds
\* follows it.
Linked ==
    edits = 0 /\ Readable =>
        /\ ChainIntact
        /\ \A w \in Writers : writer[w] # None => Follows(writer[w])

\* The one line more keeps the chain.
LEMMA ChainGrows ==
    ASSUME IsSequence(file), ChainIntact, NEW e, WellMade(e), Follows(e),
           file' = Append(file, e), Readable'
    PROVE  ChainIntact'
<1> DEFINE n == Len(file)
<1>1. /\ n \in Nat /\ DOMAIN file = 1..n /\ (file = <<>> <=> n = 0)
      /\ DOMAIN file' = 1..(n + 1)
      /\ \A i \in 1..n : file'[i] = file[i]
      /\ file'[n + 1] = e
  BY AppendShape, SequenceShape
<1> HIDE DEF n
<1>2. e.entry_hash = EntryHash(e.index, e.previous, e.statement)
  BY DEF WellMade, LogEntry
<1>3. e.index = n /\ e.previous = IF n = 0 THEN GENESIS ELSE file[n].entry_hash
  BY <1>1 DEF Follows, Last, n
<1>4. ASSUME NEW i \in 1..(n + 1)
      PROVE  /\ file'[i].index = i - 1
             /\ file'[i].previous = IF i = 1 THEN GENESIS ELSE file'[i - 1].entry_hash
             /\ file'[i].entry_hash =
                   EntryHash(file'[i].index, file'[i].previous, file'[i].statement)
  <2>1. CASE i = n + 1
    <3>1. i - 1 = n /\ (i = 1 <=> n = 0) /\ (n # 0 => n \in 1..n)
      BY <1>1, <2>1
    <3> QED BY <1>1, <1>2, <1>3, <2>1, <3>1
  <2>2. CASE i \in 1..n
    <3>1. /\ file[i].index = i - 1
          /\ file[i].previous = IF i = 1 THEN GENESIS ELSE file[i - 1].entry_hash
          /\ file[i].entry_hash =
                EntryHash(file[i].index, file[i].previous, file[i].statement)
      BY <1>1, <2>2 DEF ChainIntact, Verifies
    <3>2. i # 1 => i - 1 \in 1..n
      BY <1>1, <2>2
    <3> QED BY <1>1, <2>2, <3>1, <3>2
  <2> QED BY <1>1, <2>1, <2>2
<1> QED BY <1>1, <1>4 DEF ChainIntact, Verifies, Readable, EntryHash

LEMMA StepLinks ==
    ASSUME OneWriter, Pedigree, Linked, [Next]_vars
    PROVE  Linked'
<1> SUFFICES ASSUME edits' = 0, Readable'
             PROVE  /\ ChainIntact'
                    /\ \A w \in Writers : writer'[w] # None => Follows(writer[w])'
  BY DEF Linked
<1>1. edits = 0 /\ ~Edit /\ ~Rewrite
  BY EditsStayZero
<1>2. UNCHANGED file => Readable /\ ChainIntact /\ ChainIntact'
  BY <1>1 DEF Linked, Readable, ChainIntact, Verifies, EntryHash
<1>3. ASSUME NEW w \in Writers, NEW system \in Systems, ReadHead(w, system)
      PROVE  \A v \in Writers : writer'[v] # None => Follows(writer[v])'
  <2>1. UNCHANGED file /\ writer' = [writer EXCEPT ![w] =
          LogEntry(Len(file), IF file = <<>> THEN GENESIS ELSE Last(file).entry_hash,
                   [system |-> system, serial |-> offered'])]
    BY <1>3 DEF ReadHead
  <2>2. writer'[w] =
          LogEntry(Len(file), IF file = <<>> THEN GENESIS ELSE Last(file).entry_hash,
                   [system |-> system, serial |-> offered'])
    BY <2>1 DEF Pedigree
  <2>3. Follows(writer[w])'
    BY <2>1, <2>2, LogEntryShape DEF Follows, Last
  <2> QED BY <2>3 DEF OneWriter
<1>4. ASSUME NEW w \in Writers, writer' = [writer EXCEPT ![w] = None]
      PROVE  \A v \in Writers : writer'[v] # None => Follows(writer[v])'
  <2>1. writer'[w] = None
    BY <1>4 DEF Pedigree
  <2> QED BY <2>1 DEF OneWriter
<1>5. ASSUME NEW w \in Writers, writer[w] # None, file' = WithLine(writer[w])
      PROVE  ChainIntact'
  <2>1. Readable /\ file' = Append(file, writer[w])
    BY <1>5, WriteTallies
  <2>2. ChainIntact /\ Follows(writer[w]) /\ WellMade(writer[w])
    BY <1>1, <1>5, <2>1 DEF Linked, Pedigree
  <2> QED BY <2>1, <2>2, ChainGrows DEF Pedigree
<1>6. ASSUME NEW w \in Writers, Write(w) \/ Crash(w)
      PROVE  /\ ChainIntact'
             /\ \A v \in Writers : writer'[v] # None => Follows(writer[v])'
  <2>1. writer[w] # None /\ writer' = [writer EXCEPT ![w] = None]
    BY <1>6 DEF Write, Crash
  <2>2. CASE file' = WithLine(Malformed)
    BY <2>2, WriteTallies
  <2>3. CASE UNCHANGED file
    BY <1>2, <1>4, <2>1, <2>3
  <2>4. CASE file' = WithLine(writer[w])
    BY <1>4, <1>5, <2>1, <2>4
  <2> QED BY <1>6, <2>2, <2>3, <2>4 DEF Write, Crash
<1>7. CASE UNCHANGED <<file, writer>>
  BY <1>1, <1>2, <1>7 DEF Linked, Follows, Last
<1> QED BY <1>1, <1>2, <1>3, <1>6, <1>7 DEF Next, VerifyChain, ShowLatest, ReadHead, vars

THEOREM LinksHold == ASSUME OneWriter PROVE Spec => []Linked
<1>1. Init => Linked
  BY EmptySequence DEF Init, Linked, ChainIntact, Verifies
<1>2. Pedigree /\ Linked /\ [Next]_vars => Linked'
  BY StepLinks
<1> QED BY <1>1, <1>2, PedigreeHolds, PTL DEF Spec

\* With one writer at a time, a log that nobody edited and that can be read at
\* all verifies, whoever died: what badge shows without verifying is no worse.
THEOREM ReadableIsIntact == ASSUME OneWriter PROVE Spec => []ReadableMeansIntact
<1>1. Linked => ReadableMeansIntact
  BY DEF Linked, ReadableMeansIntact
<1> QED BY <1>1, LinksHold, PTL

-------------------------------------------------------------------------------
(* Types.                                                                      *)

Holding == {w \in Writers : writer[w] # None}

\* An entry is its four fields and nothing besides, whatever was altered in them.
Formed(e) ==
    e = [index |-> e.index, previous |-> e.previous, statement |-> e.statement,
         entry_hash |-> e.entry_hash]

\* What bounds an index: a line or an entry yet to be written is one of those
\* offered.
Shape ==
    /\ offered <= MaxEntries /\ edits <= MaxEdits
    /\ Len(file) + Cardinality(Holding) <= offered
    /\ \A line \in Range(file) : line # Malformed => EntryShape(line) /\ Formed(line)
    /\ \A e \in Range(appended) : EntryShape(e)
    /\ \A w \in Writers : writer[w] # None => EntryShape(writer[w])
    /\ acknowledged \subseteq Range(appended)
    /\ \E S : verifier \in [Verifiers -> [verified : BOOLEAN, shown : S]]

\* Entries made by append(), or by somebody who does as it does, have the shape.
LEMMA MadeEntryShape ==
    ASSUME NEW index \in 0..MaxEntries, NEW statement \in Statements, NEW previous,
           previous = GENESIS \/ DOMAIN previous = 1..3
    PROVE  /\ EntryShape(LogEntry(index, previous, statement))
           /\ Formed(LogEntry(index, previous, statement))
<1> DEFINE e == LogEntry(index, previous, statement)
<1>1. /\ e.index = index /\ e.previous = previous /\ e.statement = statement
      /\ e.entry_hash = <<index, previous, statement>>
  BY LogEntryShape
<1>2. DOMAIN <<index, previous, statement>> = 1..3
  OBVIOUS
<1>3. Formed(e)
  BY DEF Formed, LogEntry
<1> HIDE DEF e
<1>4. EntryShape(e)
  BY <1>1, <1>2 DEF EntryShape
<1> QED BY <1>3, <1>4 DEF e

LEMMA WellMadeIsFormed == \A e : WellMade(e) => Formed(e)
  BY DEF WellMade, Formed, LogEntry

\* Writers that let go of their entry, or take one up, are counted.
LEMMA HoldingCounts ==
    ASSUME Pedigree, NEW w \in Writers
    PROVE  /\ Cardinality(Holding) \in Nat
           /\ \A e : writer' = [writer EXCEPT ![w] = e] =>
                /\ Cardinality(Holding') \in Nat
                /\ Cardinality(Holding') <= Cardinality(Holding) + 1
                /\ writer[w] # None /\ e = None =>
                     Cardinality(Holding') = Cardinality(Holding) - 1
<1>1. IsFiniteSet(Holding) /\ Cardinality(Holding) \in Nat
  BY WritersAssumption, FS_Subset, FS_CardinalityType DEF Holding
<1>2. ASSUME NEW e, writer' = [writer EXCEPT ![w] = e]
      PROVE  /\ Cardinality(Holding') \in Nat
             /\ Cardinality(Holding') <= Cardinality(Holding) + 1
             /\ writer[w] # None /\ e = None =>
                  Cardinality(Holding') = Cardinality(Holding) - 1
  <2>1. writer'[w] = e /\ \A v \in Writers \ {w} : writer'[v] = writer[v]
    BY <1>2 DEF Pedigree
  <2>2. Holding' \subseteq Holding \cup {w}
    BY <2>1 DEF Holding
  <2>3. /\ IsFiniteSet(Holding \cup {w})
        /\ Cardinality(Holding \cup {w}) =
             IF w \in Holding THEN Cardinality(Holding) ELSE Cardinality(Holding) + 1
    BY <1>1, FS_AddElement
  <2>4. IsFiniteSet(Holding') /\ Cardinality(Holding') <= Cardinality(Holding \cup {w})
    BY <2>2, <2>3, FS_Subset
  <2>5. Cardinality(Holding') \in Nat /\ Cardinality(Holding \cup {w}) \in Nat
    BY <2>3, <2>4, FS_CardinalityType
  <2>6. Cardinality(Holding') <= Cardinality(Holding) + 1
    BY <1>1, <2>3, <2>4, <2>5
  <2>7. writer[w] # None /\ e = None => Holding' = Holding \ {w} /\ w \in Holding
    BY <2>1 DEF Holding
  <2>8. writer[w] # None /\ e = None => Cardinality(Holding') = Cardinality(Holding) - 1
    BY <1>1, <2>7, FS_RemoveElement
  <2> QED BY <2>5, <2>6, <2>8
<1> QED BY <1>1, <1>2

\* Writing, or dying, a writer keeps the shapes.
LEMMA LettingGoKeepsShape ==
    ASSUME Pedigree, Shape, NEW w \in Writers, Write(w) \/ Crash(w)
    PROVE  Shape'
<1>1. /\ writer[w] # None /\ writer' = [writer EXCEPT ![w] = None]
      /\ UNCHANGED <<verifier, offered, edits>>
  BY DEF Write, Crash
<1>2. /\ Cardinality(Holding) \in Nat
      /\ Cardinality(Holding') = Cardinality(Holding) - 1
  BY <1>1, HoldingCounts
<1>3. \/ UNCHANGED file
      \/ \E line \in {writer[w], Malformed} : file' = WithLine(line)
  BY DEF Write, Crash
<1>4. /\ Len(file) \in Nat /\ Len(file') \in Nat /\ Len(file') <= Len(file) + 1
      /\ Range(file') \subseteq Range(file) \cup {writer[w], Malformed}
  <2>1. Len(file) \in Nat
    BY SequenceShape DEF Pedigree
  <2>2. CASE UNCHANGED file
    BY <2>1, <2>2
  <2>3. ASSUME NEW line \in {writer[w], Malformed}, file' = WithLine(line)
        PROVE  /\ Len(file') \in Nat /\ Len(file') <= Len(file) + 1
               /\ Range(file') \subseteq Range(file) \cup {writer[w], Malformed}
    <3>1. /\ Len(file') = IF terminated THEN Len(file) + 1 ELSE Len(file)
          /\ Range(file') \subseteq Range(file) \cup {line, Malformed}
      BY <2>3, WithLineShape DEF Pedigree
    <3> QED BY <2>1, <2>3, <3>1
  <2> QED BY <1>3, <2>1, <2>2, <2>3
<1>5. Len(file') + Cardinality(Holding') <= offered'
  BY <1>1, <1>2, <1>4 DEF Shape, Pedigree
<1>6. EntryShape(writer[w]) /\ Formed(writer[w])
  BY <1>1, WellMadeIsFormed DEF Shape, Pedigree
<1>7. \A line \in Range(file') : line # Malformed => EntryShape(line) /\ Formed(line)
  BY <1>4, <1>6 DEF Shape
<1>8. \/ UNCHANGED <<appended, acknowledged>>
      \/ /\ Range(appended') = Range(appended) \cup {writer[w]}
         /\ acknowledged' \subseteq acknowledged \cup {writer[w]}
  <2>1. \/ UNCHANGED <<appended, acknowledged>>
        \/ /\ appended' = Append(appended, writer[w])
           /\ acknowledged' \subseteq acknowledged \cup {writer[w]}
    BY DEF Write, Crash
  <2>2. IsSequence(appended)
    BY DEF Pedigree
  <2>3. Range(Append(appended, writer[w])) = Range(appended) \cup {writer[w]}
    BY <2>2, AppendShape
  <2> QED BY <2>1, <2>3
<1>9. /\ \A e \in Range(appended') : EntryShape(e)
      /\ acknowledged' \subseteq Range(appended')
  BY <1>6, <1>8 DEF Shape
<1>10. \A v \in Writers : writer'[v] # None => EntryShape(writer'[v])
  BY <1>1 DEF Shape, Pedigree
<1> QED BY <1>1, <1>5, <1>7, <1>9, <1>10 DEF Shape, EntryShape

\* Changing the file, somebody else keeps them too.
LEMMA EditingKeepsShape ==
    ASSUME Pedigree, Shape, Edit \/ Rewrite
    PROVE  Shape'
<1>1. /\ edits' = edits + 1 /\ edits < MaxEdits
      /\ UNCHANGED <<writer, verifier, offered, appended, acknowledged>>
  BY DEF Edit, Rewrite
<1>2. /\ edits \in Nat /\ offered \in Nat /\ Len(file) \in Nat
      /\ DOMAIN file = 1..Len(file)
  BY SequenceShape DEF Pedigree
<1>3. edits' <= MaxEdits
  BY <1>1, <1>2, BoundsAssumption
<1>4. Cardinality(Holding) \in Nat /\ Holding' = Holding
  BY <1>1, WritersAssumption, FS_Subset, FS_CardinalityType DEF Holding
<1>5. CASE Edit
  <2>1. /\ IsSequence(file') /\ Len(file') <= Len(file)
        /\ \A line \in Range(file') :
             \/ line \in Range(file)
             \/ \E old \in Range(file) : \E s \in Statements :
                  old # Malformed /\ line = [old EXCEPT !.statement = s]
    BY <1>5, EditShape DEF Pedigree
  <2>2. ASSUME NEW old, EntryShape(old), Formed(old), NEW s \in Statements
        PROVE  /\ EntryShape([old EXCEPT !.statement = s])
               /\ Formed([old EXCEPT !.statement = s])
    <3> DEFINE new == [index |-> old.index, previous |-> old.previous, statement |-> s,
                       entry_hash |-> old.entry_hash]
    <3>1. [old EXCEPT !.statement = s] = new
      BY <2>2 DEF Formed
    <3>2. Formed(new) /\ EntryShape(new)
      BY <2>2 DEF Formed, EntryShape
    <3> QED BY <3>1, <3>2
  <2>3. \A line \in Range(file') : line # Malformed => EntryShape(line) /\ Formed(line)
    BY <2>1, <2>2 DEF Shape
  <2>4. Len(file') \in Nat
    BY <2>1, SequenceShape
  <2>5. Len(file') + Cardinality(Holding') <= offered'
    BY <1>1, <1>2, <1>4, <2>1, <2>4 DEF Shape
  <2> QED BY <1>1, <1>3, <2>3, <2>5 DEF Shape, EntryShape
<1>6. CASE Rewrite
  <2>1. PICK i \in 1..Len(file), s \in Statements :
          /\ i # 1 => i - 1 \in DOMAIN file /\ file[i - 1] # Malformed
          /\ Range(file') \subseteq Range(file) \cup
               {LogEntry(i - 1, IF i = 1 THEN GENESIS ELSE file[i - 1].entry_hash, s)}
    BY <1>6, RewriteShape DEF Pedigree
  <2> DEFINE previous == IF i = 1 THEN GENESIS ELSE file[i - 1].entry_hash
  <2>2. previous = GENESIS \/ DOMAIN previous = 1..3
    <3>1. CASE i = 1
      BY <3>1
    <3>2. CASE i # 1
      <4>1. file[i - 1] \in Range(file) /\ file[i - 1] # Malformed
        BY <2>1, <3>2 DEF Range
      <4> QED BY <3>2, <4>1 DEF Shape, EntryShape
    <3> QED BY <3>1, <3>2
  <2>3. i - 1 \in 0..MaxEntries
    BY <1>2, <1>4, BoundsAssumption DEF Shape
  <2>4. /\ EntryShape(LogEntry(i - 1, previous, s))
        /\ Formed(LogEntry(i - 1, previous, s))
    BY <2>2, <2>3, MadeEntryShape
  <2>5. \A line \in Range(file') : line # Malformed => EntryShape(line) /\ Formed(line)
    BY <2>1, <2>4 DEF Shape
  <2>6. Len(file') = Len(file)
    BY <1>6, RewriteShape DEF Pedigree
  <2>7. Len(file') + Cardinality(Holding') <= offered'
    BY <1>1, <1>4, <2>6 DEF Shape
  <2> QED BY <1>1, <1>3, <2>5, <2>7 DEF Shape, EntryShape
<1> QED BY <1>5, <1>6

LEMMA StepKeepsShape ==
    ASSUME Pedigree, Shape, [Next]_vars
    PROVE  Shape'
<1>0. Len(file) \in Nat /\ offered \in Nat /\ DOMAIN file = 1..Len(file)
  BY SequenceShape DEF Pedigree
<1>1. ASSUME NEW w \in Writers, NEW system \in Systems, ReadHead(w, system)
      PROVE  Shape'
  <2> DEFINE previous == IF file = <<>> THEN GENESIS ELSE Last(file).entry_hash
             statement == [system |-> system, serial |-> offered + 1]
             e == LogEntry(Len(file), previous, statement)
  <2>1. /\ writer' = [writer EXCEPT ![w] = e] /\ offered' = offered + 1
        /\ offered < MaxEntries /\ Readable
        /\ UNCHANGED <<file, verifier, appended, acknowledged, edits>>
    BY <1>1 DEF ReadHead
  <2>2. previous = GENESIS \/ DOMAIN previous = 1..3
    <3>1. CASE file = <<>>
      BY <3>1
    <3>2. CASE file # <<>>
      <4>1. Len(file) \in DOMAIN file
        BY <1>0, <3>2, SequenceShape DEF Pedigree
      <4>2. Last(file) \in Range(file) /\ Last(file) # Malformed
        BY <2>1, <4>1 DEF Last, Range, Readable
      <4> QED BY <3>2, <4>2 DEF Shape, EntryShape
    <3> QED BY <3>1, <3>2
  <2>3. /\ Cardinality(Holding) \in Nat /\ Cardinality(Holding') \in Nat
        /\ Cardinality(Holding') <= Cardinality(Holding) + 1
    BY <2>1, HoldingCounts
  <2>4. /\ Len(file') + Cardinality(Holding') <= offered'
        /\ offered' <= MaxEntries /\ Len(file) \in 0..MaxEntries
    BY <1>0, <2>1, <2>3, BoundsAssumption DEF Shape
  <2>5. statement \in Statements
    BY <1>0, <2>1, BoundsAssumption DEF Statements
  <2>6. EntryShape(e)
    BY <2>2, <2>4, <2>5, MadeEntryShape
  <2> HIDE DEF e, previous, statement
  <2>7. \A v \in Writers : writer'[v] # None => EntryShape(writer'[v])
    BY <2>1, <2>6 DEF Shape, Pedigree
  <2> QED BY <2>1, <2>4, <2>7 DEF Shape, EntryShape
<1>2. ASSUME NEW w \in Writers, Write(w) \/ Crash(w)
      PROVE  Shape'
  BY <1>2, LettingGoKeepsShape
<1>3. UNCHANGED writer => Holding' = Holding
  BY DEF Holding
<1>4. ASSUME NEW v \in Verifiers, VerifyChain(v)
      PROVE  Shape'
  <2>1. /\ verifier' = [verifier EXCEPT ![v].verified = TRUE]
        /\ UNCHANGED <<file, writer, offered, appended, acknowledged, edits>>
    BY <1>4 DEF VerifyChain
  <2>2. PICK S : verifier \in [Verifiers -> [verified : BOOLEAN, shown : S]]
    BY DEF Shape
  <2>3. verifier' \in [Verifiers -> [verified : BOOLEAN, shown : S]]
    BY <2>1, <2>2
  <2>4. \E T : verifier' \in [Verifiers -> [verified : BOOLEAN, shown : T]]
    BY <2>3
  <2> QED BY <1>3, <2>1, <2>4 DEF Shape, EntryShape
<1>5. ASSUME NEW v \in Verifiers, NEW system \in Systems, ShowLatest(v, system)
      PROVE  Shape'
  <2>1. /\ verifier' = [verifier EXCEPT ![v] =
              [verified |-> FALSE,
               shown |-> [entry |-> LatestFor(system), copy |-> file]]]
        /\ UNCHANGED <<file, writer, offered, appended, acknowledged, edits>>
    BY <1>5 DEF ShowLatest
  <2>2. PICK S : verifier \in [Verifiers -> [verified : BOOLEAN, shown : S]]
    BY DEF Shape
  <2> DEFINE seen == [entry |-> LatestFor(system), copy |-> file]
  <2>3. verifier' \in [Verifiers -> [verified : BOOLEAN, shown : S \cup {seen}]]
    BY <2>1, <2>2
  <2> HIDE DEF seen
  <2>4. \E T : verifier' \in [Verifiers -> [verified : BOOLEAN, shown : T]]
    BY <2>3
  <2> QED BY <1>3, <2>1, <2>4 DEF Shape, EntryShape
<1>6. CASE Edit \/ Rewrite
  BY <1>6, EditingKeepsShape
<1>7. CASE UNCHANGED vars
  BY <1>3, <1>7 DEF Shape, EntryShape, vars
<1> QED BY <1>1, <1>2, <1>4, <1>5, <1>6, <1>7 DEF Next

THEOREM ShapeHolds == Spec => []Shape
<1>1. Init => Shape
  <2> SUFFICES ASSUME Init PROVE Shape
    OBVIOUS
  <2>1. Holding = {}
    BY DEF Init, Holding
  <2>2. /\ Cardinality(Holding) = 0 /\ Len(file) = 0
        /\ Range(file) = {} /\ Range(appended) = {}
    BY <2>1, FS_EmptySet, EmptySequence DEF Init, Range
  <2>3. verifier \in [Verifiers -> [verified : BOOLEAN, shown : {None}]]
    BY DEF Init
  <2>4. \E S : verifier \in [Verifiers -> [verified : BOOLEAN, shown : S]]
    BY <2>3
  <2>5. /\ offered <= MaxEntries /\ edits <= MaxEdits
        /\ Len(file) + Cardinality(Holding) <= offered
    BY <2>2, BoundsAssumption DEF Init
  <2>6. \A w \in Writers : writer[w] = None
    BY DEF Init
  <2>7. acknowledged = {}
    BY DEF Init
  <2> QED BY <2>2, <2>4, <2>5, <2>6, <2>7 DEF Shape
<1> QED BY <1>1, PedigreeHolds, StepKeepsShape, PTL DEF Spec

\* Lines are entries or malformed, entries are numbered within the bound, and
\* hashes are of entries, whatever dies and whatever is edited or made anew.
THEOREM LogTypeCorrect == Spec => []TypeOK
<1>1. Pedigree /\ Shape => TypeOK
  <2> SUFFICES ASSUME Pedigree, Shape PROVE TypeOK
    OBVIOUS
  <2>1. /\ \A i \in DOMAIN file : file[i] # Malformed => EntryShape(file[i])
        /\ \A k \in DOMAIN appended : EntryShape(appended[k])
    BY DEF Shape, Range
  <2>2. \A v \in Verifiers : verifier[v].verified \in BOOLEAN
    BY DEF Shape
  <2>3. offered \in 0..MaxEntries /\ edits \in 0..MaxEdits
    BY BoundsAssumption DEF Shape, Pedigree
  <2> QED BY <2>1, <2>2, <2>3 DEF TypeOK, Pedigree, Shape
<1> QED BY <1>1, PedigreeHolds, ShapeHolds, PTL

-------------------------------------------------------------------------------
(* What a hash kept elsewhere fixes, whoever recomputes those in the file.     *)

\* A set of positions of a finite sequence has a last one.
LEMMA LastPosition ==
    ASSUME NEW n \in Nat, NEW M \in SUBSET (1..n), M # {}
    PROVE  Max(M) \in M /\ \A i \in M : i <= Max(M)
<1> DEFINE fromEnd == {n - i : i \in M}
<1>1. fromEnd \subseteq Nat /\ fromEnd # {}
  <2>1. \A i \in M : i \in 1..n /\ n - i \in Nat
    OBVIOUS
  <2>2. PICK i \in M : TRUE
    OBVIOUS
  <2>3. n - i \in fromEnd
    OBVIOUS
  <2> QED BY <2>1, <2>3
<1>2. PICK d \in fromEnd : \A c \in fromEnd : ~(<<c, d>> \in OpToRel(<, Nat))
  BY <1>1, NatLessThanWellFounded, WFMin
<1>3. PICK m \in M : d = n - m
  OBVIOUS
<1>4. \A c \in fromEnd : ~(c < d)
  BY <1>1, <1>2 DEF OpToRel
<1>5. ASSUME NEW i \in M PROVE m >= i
  <2>1. n - i \in fromEnd
    OBVIOUS
  <2> HIDE DEF fromEnd
  <2>2. ~(n - i < n - m)
    BY <1>3, <1>4, <2>1
  <2> QED BY <2>2
<1>6. Max(M) \in M /\ \A i \in M : Max(M) >= i
  BY <1>5 DEF Max
<1> QED BY <1>6

\* Lines that verify, under one hash, are one line, at one place.
LEMMA SameHashSameLine ==
    ASSUME NEW s, NEW t, IsSequence(s), IsSequence(t), Verifies(s), Verifies(t),
           \A line \in Range(s) \cup Range(t) : line # Malformed => Formed(line),
           NEW i \in DOMAIN s, NEW j \in DOMAIN t, s[i].entry_hash = t[j].entry_hash
    PROVE  i = j /\ s[i] = t[j]
<1>1. /\ s[i].index = i - 1 /\ t[j].index = j - 1
      /\ s[i].entry_hash = <<s[i].index, s[i].previous, s[i].statement>>
      /\ t[j].entry_hash = <<t[j].index, t[j].previous, t[j].statement>>
  BY DEF Verifies, EntryHash
<1>2. \A a, b, c, x, y, z : <<a, b, c>> = <<x, y, z>> => a = x /\ b = y /\ c = z
  OBVIOUS
<1>3. /\ s[i].index = t[j].index /\ s[i].previous = t[j].previous
      /\ s[i].statement = t[j].statement
  <2>1. <<s[i].index, s[i].previous, s[i].statement>> =
          <<t[j].index, t[j].previous, t[j].statement>>
    BY <1>1
  <2> QED BY <1>2, <2>1
<1>4. i = j
  <2>1. i \in Nat /\ j \in Nat
    BY SequenceShape
  <2> QED BY <1>1, <1>3, <2>1
<1>5. Formed(s[i]) /\ Formed(t[j])
  BY DEF Verifies, Range
<1>6. s[i] = t[j]
  BY <1>3, <1>5 DEF Formed
<1> QED BY <1>4, <1>6

\* And so is all that is before them. (By the last position before which it would
\* not be.)
LEMMA SameHashSamePast ==
    ASSUME NEW s, NEW t, IsSequence(s), IsSequence(t), Verifies(s), Verifies(t),
           \A line \in Range(s) \cup Range(t) : line # Malformed => Formed(line),
           NEW i \in DOMAIN s, NEW j \in DOMAIN t, s[i].entry_hash = t[j].entry_hash
    PROVE  SubSeq(s, 1, i) = SubSeq(t, 1, i)
<1>1. i = j /\ i \in 1..Len(s) /\ i \in 1..Len(t) /\ i \in Nat
  BY SameHashSameLine, SequenceShape
<1>2. DOMAIN s = 1..Len(s) /\ DOMAIN t = 1..Len(t) /\ Len(s) \in Nat /\ Len(t) \in Nat
  BY SequenceShape
<1>3. ASSUME NEW k \in 1..i
      PROVE  s[k].entry_hash = t[k].entry_hash
  <2> DEFINE differs == {m \in 1..i : s[m].entry_hash # t[m].entry_hash}
             b == Max(differs)
  <2> SUFFICES ASSUME differs # {} PROVE FALSE
    OBVIOUS
  <2>1. b \in differs /\ \A m \in differs : m <= b
    BY <1>1, LastPosition
  <2>2. b \in 1..i /\ s[b].entry_hash # t[b].entry_hash
    BY <2>1
  <2> HIDE DEF b
  <2>3. b # i
    BY <1>1, <2>2
  <2>4. b + 1 \in 1..i /\ b + 1 # 1 /\ (b + 1) - 1 = b /\ ~(b + 1 <= b)
    BY <1>1, <2>2, <2>3
  <2>5. b + 1 \notin differs
    BY <2>1, <2>4
  <2>6. s[b + 1].entry_hash = t[b + 1].entry_hash
    BY <2>4, <2>5
  <2>7. b + 1 \in DOMAIN s /\ b + 1 \in DOMAIN t
    BY <1>1, <1>2, <2>4
  <2>8. s[b + 1] = t[b + 1]
    BY <2>6, <2>7, SameHashSameLine
  <2>9. /\ s[b + 1].previous = s[b].entry_hash
        /\ t[b + 1].previous = t[b].entry_hash
    BY <2>4, <2>7 DEF Verifies
  <2> QED BY <2>2, <2>8, <2>9
<1>4. ASSUME NEW k \in 1..i
      PROVE  s[k] = t[k]
  <2>1. k \in DOMAIN s /\ k \in DOMAIN t
    BY <1>1, <1>2
  <2> QED BY <1>3, <2>1, SameHashSameLine
<1> DEFINE S == Range(s) \cup Range(t)
<1>5. s \in Seq(S) /\ t \in Seq(S)
  BY SeqMonotonic DEF IsSequence
<1>6. /\ \A k \in 1..Len(s) : s[k] \in S
      /\ \A k \in 1..Len(t) : t[k] \in S
  BY <1>2 DEF Range
<1> HIDE DEF S
<1>7. /\ SubSeq(s, 1, i) \in Seq(S) /\ Len(SubSeq(s, 1, i)) = i
      /\ \A k \in 1..i : SubSeq(s, 1, i)[k] = s[k]
  BY <1>1, <1>2, <1>5, <1>6, SubSeqProperties
<1>8. /\ SubSeq(t, 1, i) \in Seq(S) /\ Len(SubSeq(t, 1, i)) = i
      /\ \A k \in 1..i : SubSeq(t, 1, i)[k] = t[k]
  BY <1>1, <1>2, <1>5, <1>6, SubSeqProperties
<1>9. \A k \in 1..Len(SubSeq(s, 1, i)) : SubSeq(s, 1, i)[k] = SubSeq(t, 1, i)[k]
  BY <1>4, <1>7, <1>8
<1> QED BY <1>7, <1>8, <1>9, SeqEqual

\* Whatever a reader was shown was in the file as that reader read it.
Copies ==
    \A v \in Verifiers : LET shown == verifier[v].shown IN
        shown # None =>
            /\ IsSequence(shown.copy)
            /\ \A line \in Range(shown.copy) : line # Malformed => Formed(line)
            /\ shown.entry # None =>
                 \E j \in DOMAIN shown.copy : shown.copy[j] = shown.entry

\* A lookup finds nothing, or a line.
LEMMA LatestForFinds ==
    ASSUME IsSequence(file), NEW system
    PROVE  LET matching == {i \in DOMAIN file : file[i].statement.system = system} IN
           \/ matching = {} /\ LatestFor(system) = None
           \/ /\ Max(matching) \in matching /\ LatestFor(system) = file[Max(matching)]
              /\ \A i \in matching : i <= Max(matching)
<1> DEFINE matching == {i \in DOMAIN file : file[i].statement.system = system}
<1>1. Len(file) \in Nat /\ matching \in SUBSET (1..Len(file))
  BY SequenceShape
<1>2. LatestFor(system) = IF matching = {} THEN None ELSE file[Max(matching)]
  BY DEF LatestFor
<1> HIDE DEF matching
<1>3. matching # {} => Max(matching) \in matching /\ \A i \in matching : i <= Max(matching)
  BY <1>1, LastPosition
<1>4. \/ matching = {} /\ LatestFor(system) = None
      \/ /\ Max(matching) \in matching /\ LatestFor(system) = file[Max(matching)]
         /\ \A i \in matching : i <= Max(matching)
  BY <1>2, <1>3
<1> QED BY <1>4 DEF matching

THEOREM CopiesHold == Spec => []Copies
<1>1. Init => Copies
  BY DEF Init, Copies
<1>2. Pedigree /\ Shape /\ Copies /\ [Next]_vars => Copies'
  <2> SUFFICES ASSUME Pedigree, Shape, Copies, [Next]_vars PROVE Copies'
    OBVIOUS
  <2>0. PICK S : verifier \in [Verifiers -> [verified : BOOLEAN, shown : S]]
    BY DEF Shape
  <2>1. ASSUME NEW v \in Verifiers, VerifyChain(v)
        PROVE  Copies'
    <3>1. \A u \in Verifiers : verifier'[u].shown = verifier[u].shown
      BY <2>0, <2>1 DEF VerifyChain
    <3> QED BY <3>1 DEF Copies, Formed
  <2>2. ASSUME NEW v \in Verifiers, NEW system \in Systems, ShowLatest(v, system)
        PROVE  Copies'
    <3>1. /\ verifier'[v].shown = [entry |-> LatestFor(system), copy |-> file]
          /\ \A u \in Verifiers \ {v} : verifier'[u].shown = verifier[u].shown
      BY <2>0, <2>2 DEF ShowLatest
    <3>2. verifier'[v].shown.entry = LatestFor(system) /\ verifier'[v].shown.copy = file
      BY <3>1
    <3>3. IsSequence(file) /\ \A line \in Range(file) : line # Malformed => Formed(line)
      BY DEF Pedigree, Shape
    <3>4. LatestFor(system) # None => \E j \in DOMAIN file : file[j] = LatestFor(system)
      BY <3>3, LatestForFinds
    <3> QED BY <3>1, <3>2, <3>3, <3>4 DEF Copies, Formed
  <2>3. CASE UNCHANGED verifier
    BY <2>3 DEF Copies, Formed
  <2> QED BY <2>1, <2>2, <2>3
         DEF Next, ReadHead, Write, Crash, Edit, Rewrite, vars
<1> QED BY <1>1, <1>2, PedigreeHolds, ShapeHolds, PTL DEF Spec

\* A hash that verify showed fixes the past of its entry in every log that verifies
\* afterwards, for any number of writers, deaths, edits and lines made anew.
THEOREM KeptHashTells == Spec => []KeptHashFixesThePast
<1>1. Pedigree /\ Shape /\ Copies => KeptHashFixesThePast
  <2> SUFFICES
        ASSUME Pedigree, Shape, Copies, NEW v \in Verifiers,
               verifier[v].shown # None, verifier[v].shown.entry # None,
               Verifies(verifier[v].shown.copy), ChainIntact,
               NEW i \in DOMAIN file,
               file[i].entry_hash = verifier[v].shown.entry.entry_hash
        PROVE  SubSeq(file, 1, i) = SubSeq(verifier[v].shown.copy, 1, i)
    BY DEF KeptHashFixesThePast
  <2> DEFINE copy == verifier[v].shown.copy
  <2>1. /\ IsSequence(copy)
        /\ \A line \in Range(copy) : line # Malformed => Formed(line)
        /\ \E j \in DOMAIN copy : copy[j] = verifier[v].shown.entry
    BY DEF Copies
  <2>2. PICK j \in DOMAIN copy : copy[j] = verifier[v].shown.entry
    BY <2>1
  <2>3. /\ IsSequence(file) /\ Verifies(file) /\ Verifies(copy)
        /\ \A line \in Range(file) : line # Malformed => Formed(line)
        /\ file[i].entry_hash = copy[j].entry_hash
    BY <2>2 DEF Pedigree, Shape, ChainIntact
  <2> HIDE DEF copy
  <2>4. SubSeq(file, 1, i) = SubSeq(copy, 1, i)
    BY <2>1, <2>3, SameHashSamePast
  <2> QED BY <2>4 DEF copy
<1> QED BY <1>1, PedigreeHolds, ShapeHolds, CopiesHold, PTL

-------------------------------------------------------------------------------
(* What deaths and several writers cost.                                       *)

Torn == {i \in DOMAIN file : file[i] = Malformed}
Missing == acknowledged \ Range(file)

\* Every entry that was reported published and is gone is paid for by a line that
\* cannot be read; and so will be the one that is gone next, when a half line at
\* the end of the file swallows it.
Toll ==
    /\ IsFiniteSet(acknowledged)
    /\ edits = 0 =>
         /\ ~terminated => Last(file) \notin acknowledged
         /\ Cardinality(Missing)
              + (IF ~terminated /\ Last(file) = Malformed THEN 1 ELSE 0)
              <= Cardinality(Torn)

LEMMA TornIsFinite ==
    ASSUME IsSequence(file)
    PROVE  IsFiniteSet(Torn) /\ Cardinality(Torn) \in Nat
<1>1. Len(file) \in Nat /\ Torn \subseteq 1..Len(file)
  BY SequenceShape DEF Torn
<1>2. IsFiniteSet(1..Len(file))
  BY <1>1, FS_Interval
<1> QED BY <1>1, <1>2, FS_Subset, FS_CardinalityType

\* A line written at the end tears no other; run into an open line, it takes the
\* line with it.
LEMMA WithLineTears ==
    ASSUME Pedigree, NEW line, file' = WithLine(line)
    PROVE  /\ IsFiniteSet(Torn) /\ IsFiniteSet(Torn')
           /\ terminated =>
                /\ Range(file') = Range(file) \cup {line} /\ Last(file') = line
                /\ Cardinality(Torn') =
                     Cardinality(Torn) + (IF line = Malformed THEN 1 ELSE 0)
           /\ ~terminated =>
                /\ Range(file) \subseteq Range(file') \cup {Last(file)}
                /\ Last(file') = Malformed
                /\ Cardinality(Torn') =
                     Cardinality(Torn) + (IF Last(file) = Malformed THEN 0 ELSE 1)
<1> DEFINE n == Len(file)
<1>0. IsSequence(file) /\ terminated \in BOOLEAN /\ (~terminated => file # <<>>)
  BY DEF Pedigree
<1>1. /\ n \in Nat /\ DOMAIN file = 1..n /\ (file = <<>> <=> n = 0)
      /\ Range(file) = {file[i] : i \in 1..n}
  BY <1>0, SequenceShape
<1>2. IsFiniteSet(Torn) /\ Cardinality(Torn) \in Nat
  BY <1>0, TornIsFinite
<1> HIDE DEF n
<1>3. CASE terminated
  <2>1. file' = Append(file, line)
    BY <1>3 DEF WithLine
  <2>2. /\ IsSequence(file') /\ Len(file') = n + 1 /\ DOMAIN file' = 1..(n + 1)
        /\ \A i \in 1..n : file'[i] = file[i]
        /\ file'[n + 1] = line /\ Range(file') = Range(file) \cup {line}
    BY <1>0, <2>1, AppendShape, SequenceShape DEF n
  <2>3. Torn' = IF line = Malformed THEN Torn \cup {n + 1} ELSE Torn
    BY <1>1, <2>2 DEF Torn
  <2>4. n + 1 \notin Torn
    BY <1>1 DEF Torn
  <2>5. /\ IsFiniteSet(Torn')
        /\ Cardinality(Torn') = Cardinality(Torn) + (IF line = Malformed THEN 1 ELSE 0)
    BY <1>2, <2>3, <2>4, FS_AddElement
  <2>6. Last(file') = line
    BY <2>2 DEF Last
  <2> QED BY <1>2, <1>3, <2>2, <2>5, <2>6
<1>4. CASE ~terminated
  <2>1. file' = Append(Front(file), Malformed) /\ n # 0
    BY <1>0, <1>1, <1>4 DEF WithLine
  <2>2. /\ IsSequence(Front(file)) /\ Len(Front(file)) = n - 1
        /\ \A i \in 1..(n - 1) : Front(file)[i] = file[i]
    BY <1>0, <1>4, FrontShape DEF n
  <2>3. /\ IsSequence(file') /\ Len(file') = (n - 1) + 1
        /\ \A i \in 1..(n - 1) : file'[i] = Front(file)[i]
        /\ file'[(n - 1) + 1] = Malformed
    BY <2>1, <2>2, AppendShape
  <2>4. (n - 1) + 1 = n /\ n \in 1..n /\ \A i \in 1..n : i \in 1..(n - 1) \/ i = n
    BY <1>1, <2>1
  <2>5. /\ Len(file') = n /\ DOMAIN file' = 1..n
        /\ Range(file') = {file'[i] : i \in 1..n}
        /\ \A i \in 1..(n - 1) : file'[i] = file[i]
        /\ file'[n] = Malformed
    BY <2>2, <2>3, <2>4, SequenceShape
  <2>6. Torn' = Torn \cup {n} /\ (n \in Torn <=> file[n] = Malformed)
    BY <1>1, <2>4, <2>5 DEF Torn
  <2>7. Last(file) = file[n] /\ Last(file') = Malformed
    BY <2>5 DEF Last, n
  <2>8. /\ IsFiniteSet(Torn')
        /\ Cardinality(Torn') =
             Cardinality(Torn) + (IF Last(file) = Malformed THEN 0 ELSE 1)
    BY <1>2, <2>6, <2>7, FS_AddElement
  <2>9. Range(file) \subseteq Range(file') \cup {Last(file)}
    BY <1>1, <2>4, <2>5, <2>7
  <2> QED BY <1>2, <1>4, <2>7, <2>8, <2>9
<1> QED BY <1>0, <1>3, <1>4

LEMMA StepPaysToll ==
    ASSUME Pedigree, Shape, Toll, [Next]_vars
    PROVE  Toll'
<1>0. /\ IsFiniteSet(acknowledged) /\ IsFiniteSet(Missing)
      /\ Cardinality(Missing) \in Nat
  BY FS_Difference, FS_CardinalityType DEF Toll, Missing
<1>1. ASSUME NEW w \in Writers, Write(w) \/ Crash(w)
      PROVE  Toll'
  <2> DEFINE e == writer[w]
  <2>1. /\ e # None /\ WellMade(e) /\ UNCHANGED edits /\ terminated \in BOOLEAN
        /\ \A k \in DOMAIN appended : appended[k] # e
    BY <1>1 DEF Write, Crash, Pedigree
  <2>2. e # Malformed /\ Malformed \notin acknowledged
    <3>1. \A d : WellMade(d) => d # Malformed
      BY LogEntryShape DEF WellMade
    <3>2. \A k \in DOMAIN appended : WellMade(appended[k])
      BY DEF Pedigree
    <3> QED BY <2>1, <3>1, <3>2 DEF Shape, Range
  <2>3. e \notin acknowledged
    BY <2>1 DEF Shape, Range
  <2>4. IsFiniteSet(acknowledged')
    <3>1. IsFiniteSet(acknowledged \cup {e})
      BY <1>0, FS_AddElement
    <3> QED BY <1>0, <1>1, <3>1 DEF Write, Crash
  <2> HIDE DEF e
  <2> SUFFICES
        ASSUME edits = 0
        PROVE  /\ ~terminated' => Last(file') \notin acknowledged'
               /\ Cardinality(Missing')
                    + (IF ~terminated' /\ Last(file') = Malformed THEN 1 ELSE 0)
                    <= Cardinality(Torn')
    BY <2>1, <2>4 DEF Toll
  <2>5. /\ ~terminated => Last(file) \notin acknowledged
        /\ Cardinality(Missing)
             + (IF ~terminated /\ Last(file) = Malformed THEN 1 ELSE 0)
             <= Cardinality(Torn)
    BY DEF Toll
  <2>6. ASSUME NEW M, M \subseteq Missing \cup {e}
        PROVE  /\ Cardinality(M) \in Nat /\ Cardinality(M) <= Cardinality(Missing) + 1
               /\ M \subseteq Missing => Cardinality(M) <= Cardinality(Missing)
    <3>1. /\ IsFiniteSet(Missing \cup {e})
          /\ Cardinality(Missing \cup {e}) =
               IF e \in Missing THEN Cardinality(Missing) ELSE Cardinality(Missing) + 1
      BY <1>0, FS_AddElement
    <3>2. IsFiniteSet(M) /\ Cardinality(M) <= Cardinality(Missing \cup {e})
      BY <2>6, <3>1, FS_Subset
    <3>3. Cardinality(M) \in Nat
      BY <3>2, FS_CardinalityType
    <3>4. M \subseteq Missing => Cardinality(M) <= Cardinality(Missing)
      BY <1>0, FS_Subset
    <3> QED BY <1>0, <3>1, <3>2, <3>3, <3>4
  <2>7. CASE UNCHANGED <<file, terminated, acknowledged>>
    BY <2>5, <2>7 DEF Torn, Missing
  <2>8. CASE Write(w)
    <3>1. /\ file' = WithLine(e) /\ terminated' = TRUE
          /\ acknowledged' = acknowledged \cup {e}
      BY <2>8 DEF Write, e
    <3>2. CASE terminated
      <4>1. /\ Range(file') = Range(file) \cup {e}
            /\ Cardinality(Torn') = Cardinality(Torn) + 0
            /\ Cardinality(Torn) \in Nat
        BY <2>2, <3>1, <3>2, WithLineTears, FS_CardinalityType
      <4>2. Missing' \subseteq Missing
        BY <3>1, <4>1 DEF Missing
      <4>3. Cardinality(Missing') <= Cardinality(Missing) /\ Cardinality(Missing') \in Nat
        BY <2>6, <4>2
      <4> QED BY <1>0, <2>5, <3>1, <3>2, <4>1, <4>3
    <3>3. CASE ~terminated
      <4>1. /\ Range(file) \subseteq Range(file') \cup {Last(file)}
            /\ Cardinality(Torn') =
                 Cardinality(Torn) + (IF Last(file) = Malformed THEN 0 ELSE 1)
            /\ Cardinality(Torn) \in Nat
        BY <3>1, <3>3, WithLineTears, FS_CardinalityType
      <4>2. Missing' \subseteq Missing \cup {e}
        BY <2>5, <3>1, <3>3, <4>1 DEF Missing
      <4>3. Cardinality(Missing') <= Cardinality(Missing) + 1 /\ Cardinality(Missing') \in Nat
        BY <2>6, <4>2
      <4> QED BY <1>0, <2>5, <3>1, <3>3, <4>1, <4>3
    <3> QED BY <2>1, <3>2, <3>3
  <2>9. CASE \E line \in {e, Malformed} :
               /\ file' = WithLine(line) /\ terminated' = FALSE
               /\ UNCHANGED acknowledged
    <3>1. PICK line \in {e, Malformed} :
            /\ file' = WithLine(line) /\ terminated' = FALSE
            /\ UNCHANGED acknowledged
      BY <2>9
    <3>2. CASE terminated
      <4>1. /\ Range(file') = Range(file) \cup {line} /\ Last(file') = line
            /\ Cardinality(Torn') =
                 Cardinality(Torn) + (IF line = Malformed THEN 1 ELSE 0)
            /\ Cardinality(Torn) \in Nat
        BY <3>1, <3>2, WithLineTears, FS_CardinalityType
      <4>2. Missing' \subseteq Missing
        BY <3>1, <4>1 DEF Missing
      <4>3. Cardinality(Missing') <= Cardinality(Missing) /\ Cardinality(Missing') \in Nat
        BY <2>6, <4>2
      <4>4. line \notin acknowledged
        BY <2>2, <2>3, <3>1
      <4>5. Cardinality(Missing') + (IF line = Malformed THEN 1 ELSE 0)
              <= Cardinality(Torn')
        BY <1>0, <2>5, <3>2, <4>1, <4>3
      <4> QED BY <3>1, <4>1, <4>4, <4>5
    <3>3. CASE ~terminated
      <4>1. /\ Range(file) \subseteq Range(file') \cup {Last(file)}
            /\ Last(file') = Malformed
            /\ Cardinality(Torn') =
                 Cardinality(Torn) + (IF Last(file) = Malformed THEN 0 ELSE 1)
            /\ Cardinality(Torn) \in Nat
        BY <3>1, <3>3, WithLineTears, FS_CardinalityType
      <4>2. Missing' \subseteq Missing
        BY <2>5, <3>1, <3>3, <4>1 DEF Missing
      <4>3. Cardinality(Missing') <= Cardinality(Missing) /\ Cardinality(Missing') \in Nat
        BY <2>6, <4>2
      <4>4. Cardinality(Missing') + 1 <= Cardinality(Torn')
        BY <1>0, <2>5, <3>3, <4>1, <4>3
      <4> QED BY <2>2, <3>1, <4>1, <4>4
    <3> QED BY <2>1, <3>2, <3>3
  <2>10. CASE Crash(w)
    BY <2>7, <2>9, <2>10 DEF Crash, e
  <2> QED BY <1>1, <2>8, <2>10
<1>2. CASE UNCHANGED <<file, terminated, acknowledged, edits>>
  BY <1>2 DEF Toll, Torn, Missing
<1>3. CASE Edit \/ Rewrite
  <2>1. edits' # 0 /\ UNCHANGED acknowledged
    BY <1>3 DEF Edit, Rewrite, Pedigree
  <2> QED BY <1>0, <2>1 DEF Toll
<1> QED BY <1>1, <1>2, <1>3 DEF Next, ReadHead, VerifyChain, ShowLatest, vars

\* Any number of writers running into each other and dying cost no more published
\* entries than they leave lines that cannot be read.
THEOREM HalfLinesCostLittle == Spec => []HalfLineCostsOneEntry
<1>1. Init => Toll
  <2> SUFFICES ASSUME Init PROVE Toll
    OBVIOUS
  <2>1. acknowledged = {} /\ terminated = TRUE /\ DOMAIN file = {}
    BY EmptySequence DEF Init
  <2>2. Missing = {} /\ Torn = {}
    BY <2>1 DEF Missing, Torn
  <2>3. IsFiniteSet({}) /\ Cardinality({}) = 0
    BY FS_EmptySet
  <2> QED BY <2>1, <2>2, <2>3 DEF Toll
<1>2. Pedigree /\ Shape /\ Toll => HalfLineCostsOneEntry
  <2> SUFFICES ASSUME Pedigree, Shape, Toll, edits = 0
               PROVE  Cardinality(Missing) <= Cardinality(Torn)
    BY DEF HalfLineCostsOneEntry, Missing, Torn
  <2>1. IsFiniteSet(Missing) /\ Cardinality(Missing) \in Nat
    BY FS_Difference, FS_CardinalityType DEF Toll, Missing
  <2>2. IsFiniteSet(Torn) /\ Cardinality(Torn) \in Nat
    BY TornIsFinite DEF Pedigree
  <2> QED BY <2>1, <2>2 DEF Toll
<1> QED BY <1>1, <1>2, PedigreeHolds, ShapeHolds, StepPaysToll, PTL DEF Spec

-------------------------------------------------------------------------------
(* The log's promise, and what a lookup shows.                                 *)

\* What a line gives to a reader.
Readout(line) == IF line = Malformed THEN None ELSE line.statement

\* The statements of a log with one line more.
LEMMA AppendReadout ==
    ASSUME NEW s, IsSequence(s), NEW e
    PROVE  [i \in DOMAIN Append(s, e) |-> Readout(Append(s, e)[i])]
              = Append([i \in DOMAIN s |-> Readout(s[i])], Readout(e))
<1> DEFINE n == Len(s)
           t == Append(s, e)
           S == {Readout(t[i]) : i \in 1..(n + 1)}
           before == [i \in DOMAIN s |-> Readout(s[i])]
           after == [i \in DOMAIN t |-> Readout(t[i])]
           longer == Append(before, Readout(e))
<1>1. /\ n \in Nat /\ DOMAIN s = 1..n /\ DOMAIN t = 1..(n + 1)
      /\ \A i \in 1..n : t[i] = s[i]
      /\ t[n + 1] = e
  BY AppendShape, SequenceShape
<1> HIDE DEF n, t
<1>2. /\ after \in [1..(n + 1) -> S] /\ after[n + 1] = Readout(e)
      /\ \A i \in 1..n : after[i] = before[i]
  BY <1>1
<1>3. before \in Seq(S) /\ Readout(e) \in S /\ Len(before) = n
  <2>1. before \in [1..n -> S]
    BY <1>1
  <2> QED BY <1>1, <2>1
<1> HIDE DEF before, S, after
<1>4. /\ longer \in Seq(S) /\ Len(longer) = n + 1
      /\ \A i \in 1..n : longer[i] = before[i]
      /\ longer[n + 1] = Readout(e)
  BY <1>3, AppendProperties
<1> HIDE DEF longer
<1>5. after \in Seq(S) /\ Len(after) = n + 1
  BY <1>1, <1>2
<1>6. \A i \in 1..Len(after) : after[i] = longer[i]
  BY <1>1, <1>2, <1>4, <1>5
<1>7. after = longer
  BY <1>4, <1>5, <1>6, SeqEqual
<1> QED BY <1>7 DEF after, longer, before, t

\* And of one whose last line was run into.
LEMMA SpoilReadout ==
    ASSUME NEW s, IsSequence(s), s # <<>>
    PROVE  LET spoilt == Append(Front(s), Malformed)
               before == [i \in DOMAIN s |-> Readout(s[i])]
           IN  [i \in DOMAIN spoilt |-> Readout(spoilt[i])]
                  = [before EXCEPT ![Len(before)] = None]
<1> DEFINE n == Len(s)
           t == Append(Front(s), Malformed)
           before == [i \in DOMAIN s |-> Readout(s[i])]
           after == [i \in DOMAIN t |-> Readout(t[i])]
<1>1. n \in Nat /\ n # 0 /\ DOMAIN s = 1..n
  BY SequenceShape
<1>2. /\ IsSequence(Front(s)) /\ Len(Front(s)) = n - 1
      /\ \A i \in 1..(n - 1) : Front(s)[i] = s[i]
  BY FrontShape
<1>3. /\ IsSequence(t) /\ Len(t) = (n - 1) + 1
      /\ \A i \in 1..(n - 1) : t[i] = Front(s)[i]
      /\ t[(n - 1) + 1] = Malformed
  BY <1>2, AppendShape
<1> HIDE DEF n
<1>4. (n - 1) + 1 = n /\ n \in 1..n /\ \A i \in 1..n : i # n => i \in 1..(n - 1)
  BY <1>1
<1>5. /\ DOMAIN t = 1..n /\ t[n] = Malformed
      /\ \A i \in 1..n : i # n => t[i] = s[i]
  BY <1>2, <1>3, <1>4, SequenceShape
<1> HIDE DEF t
<1>6. before \in Seq({Readout(s[i]) : i \in 1..n}) /\ Len(before) = n
  <2>1. before \in [1..n -> {Readout(s[i]) : i \in 1..n}]
    BY <1>1
  <2> QED BY <1>1, <2>1
<1>7. after = [before EXCEPT ![n] = None]
  BY <1>1, <1>4, <1>5 DEF Readout
<1>8. Len(before) = n /\ after = [before EXCEPT ![n] = None]
  BY <1>6, <1>7
<1> HIDE DEF before, after
<1>9. after = [before EXCEPT ![Len(before)] = None]
  BY <1>8
<1> QED BY <1>9 DEF before, after, t

\* While nobody edits the file the log implements its promise, whichever way any
\* number of writers interleave and whoever dies. (They fork the chain, but lose
\* nothing that stood before the last line.)
THEOREM LogAppendsOnly == ASSUME MaxEdits = 0 PROVE Spec => AppendsOnly
<1> DEFINE published == [i \in DOMAIN file |->
                            IF file[i] = Malformed THEN None ELSE file[i].statement]
           open == ~terminated
<1>0. published = [i \in DOMAIN file |-> Readout(file[i])]
  BY DEF Readout
<1>1. Init => Promise!Init
  <2> SUFFICES ASSUME Init PROVE published = <<>> /\ open = FALSE
    BY DEF Promise!Init
  <2>1. DOMAIN published = {}
    BY EmptySequence DEF Init
  <2> QED BY <2>1 DEF Init
<1>2. Pedigree /\ [Next]_vars => [Promise!Next]_<<published, open>>
  <2> SUFFICES ASSUME Pedigree, [Next]_vars
               PROVE  [Promise!Next]_<<published, open>>
    OBVIOUS
  <2>0. /\ IsSequence(file) /\ terminated \in BOOLEAN /\ (~terminated => file # <<>>)
    BY DEF Pedigree
  <2>1. CASE UNCHANGED <<file, terminated>>
    BY <2>1
  <2>2. ASSUME NEW line, file' = WithLine(line), terminated
        PROVE  published' = Append(published, Readout(line))
    <3>1. file' = Append(file, line)
      BY <2>2 DEF WithLine
    <3>2. published' = [i \in DOMAIN Append(file, line) |->
                          Readout(Append(file, line)[i])]
      BY <3>1 DEF Readout
    <3> QED BY <1>0, <2>0, <3>2, AppendReadout
  <2>3. ASSUME NEW line, file' = WithLine(line), ~terminated
        PROVE  published' = [published EXCEPT ![Len(published)] = None]
    <3>1. file' = Append(Front(file), Malformed)
      BY <2>3 DEF WithLine
    <3>2. published' = [i \in DOMAIN Append(Front(file), Malformed) |->
                          Readout(Append(Front(file), Malformed)[i])]
      BY <3>1 DEF Readout
    <3> QED BY <1>0, <2>0, <2>3, <3>2, SpoilReadout
  <2>4. ASSUME NEW w \in Writers, writer[w] # None
        PROVE  /\ Readout(writer[w]) \in Statements
               /\ Readout(Malformed) = None
    <3>1. writer[w].statement \in Statements /\ writer[w] # Malformed
      BY <2>4, LogEntryShape DEF Pedigree, WellMade
    <3> QED BY <3>1 DEF Readout
  <2>5. ASSUME NEW w \in Writers, Write(w)
        PROVE  Promise!Next
    <3>1. writer[w] # None /\ file' = WithLine(writer[w]) /\ terminated' = TRUE
      BY <2>5 DEF Write
    <3>2. CASE terminated
      <4>1. published' = Append(published, Readout(writer[w]))
        BY <2>2, <3>1, <3>2
      <4> QED BY <2>4, <3>1, <3>2, <4>1 DEF Promise!Next, Promise!Publish
    <3>3. CASE ~terminated
      <4>1. published' = [published EXCEPT ![Len(published)] = None]
        BY <2>3, <3>1, <3>3
      <4> QED BY <3>1, <3>3, <4>1 DEF Promise!Next, Promise!RunInto
    <3> QED BY <2>0, <3>2, <3>3
  <2>6. ASSUME NEW w \in Writers, NEW line \in {writer[w], Malformed},
               writer[w] # None, file' = WithLine(line), terminated' = FALSE
        PROVE  Promise!Next
    <3>1. CASE terminated
      <4>1. published' = Append(published, Readout(line))
        BY <2>2, <2>6, <3>1
      <4>2. Readout(line) \in Statements \cup {None}
        BY <2>4, <2>6
      <4> QED BY <2>6, <3>1, <4>1, <4>2 DEF Promise!Next, Promise!Die
    <3>2. CASE ~terminated
      <4>1. published' = [published EXCEPT ![Len(published)] = None]
        BY <2>3, <2>6, <3>2
      <4> QED BY <2>6, <3>2, <4>1 DEF Promise!Next, Promise!RunInto
    <3> QED BY <2>0, <3>1, <3>2
  <2>7. ~Edit /\ ~Rewrite
    BY DEF Edit, Rewrite, Pedigree
  <2>8. ASSUME NEW w \in Writers, Crash(w)
        PROVE  [Promise!Next]_<<published, open>>
    BY <2>1, <2>6, <2>8 DEF Crash
  <2> QED BY <2>1, <2>5, <2>7, <2>8
         DEF Next, ReadHead, VerifyChain, ShowLatest, vars
<1> QED BY <1>1, <1>2, PedigreeHolds, PTL
       DEF Spec, AppendsOnly, Promise!Spec, Promise!vars

\* While nobody edits the file, a lookup shows the system's newest publication,
\* whoever else publishes and whoever dies.
THEOREM LookupsShowTheLatest == Spec => ShowsLatestPublished
<1> DEFINE Newest(v, system) ==
             edits = 0 =>
               \A a \in acknowledged : a.statement.system = system =>
                 \E i, j \in DOMAIN appended :
                   /\ i <= j /\ appended[i] = a
                   /\ appended[j] = verifier'[v].shown.entry
           Lookups == \A v \in Verifiers, system \in Systems :
                        ShowLatest(v, system) => Newest(v, system)
<1>1. Pedigree /\ Shape /\ Tally => Lookups
  <2> SUFFICES
        ASSUME Pedigree, Shape, Tally,
               NEW v \in Verifiers, NEW system \in Systems, ShowLatest(v, system),
               edits = 0, NEW a \in acknowledged, a.statement.system = system
        PROVE  \E i, j \in DOMAIN appended :
                 /\ i <= j /\ appended[i] = a
                 /\ appended[j] = verifier'[v].shown.entry
    OBVIOUS
  <2> DEFINE matching == {i \in DOMAIN file : file[i].statement.system = system}
             m == Max(matching)
  <2>1. verifier'[v].shown.entry = LatestFor(system)
    BY DEF ShowLatest, Shape
  <2>2. file = appended
    BY DEF ShowLatest, Tally
  <2>3. PICK i \in DOMAIN file : file[i] = a
    BY <2>2 DEF Shape, Range
  <2>4. i \in matching
    BY <2>3
  <2>5. m \in matching /\ LatestFor(system) = file[m] /\ i <= m
    BY <2>4, LatestForFinds DEF Pedigree
  <2>6. m \in DOMAIN file
    BY <2>5
  <2> HIDE DEF m, matching
  <2> QED BY <2>1, <2>2, <2>3, <2>5, <2>6
<1>2. Lookups => [Lookups]_vars
  OBVIOUS
<1>3. [Lookups]_vars <=>
        [\A v \in Verifiers, system \in Systems :
           ShowLatest(v, system) /\ edits = 0 =>
              \A a \in acknowledged : a.statement.system = system =>
                 \E i, j \in DOMAIN appended :
                    /\ i <= j /\ appended[i] = a
                    /\ appended[j] = verifier'[v].shown.entry]_vars
  OBVIOUS
<1> HIDE DEF Lookups
<1> QED BY <1>1, <1>2, <1>3, PedigreeHolds, ShapeHolds, TallyHolds, PTL
       DEF ShowsLatestPublished

-------------------------------------------------------------------------------
\* No process dies and nobody edits the file.
NoFaults == ~CrashesHappen /\ MaxEdits = 0

Undisturbed == edits = 0 /\ terminated /\ Readable

LEMMA StepLeavesUndisturbed ==
    ASSUME NoFaults, Pedigree, Undisturbed, [Next]_vars
    PROVE  Undisturbed'
<1>1. ~Edit /\ ~Rewrite /\ \A w \in Writers : ~Crash(w)
  BY DEF NoFaults, Edit, Rewrite, Crash, Pedigree
<1>2. ASSUME NEW w \in Writers, Write(w)
      PROVE  Undisturbed'
  <2>1. /\ file' = Append(file, writer[w]) /\ terminated' = TRUE
        /\ UNCHANGED edits
    BY <1>2 DEF Write, WithLine, Undisturbed
  <2>2. writer[w] # Malformed
    BY <1>2, LogEntryShape DEF Write, Pedigree, WellMade
  <2>3. IsSequence(file') /\ Range(file') = Range(file) \cup {writer[w]}
    BY <2>1, AppendShape DEF Pedigree
  <2>4. Malformed \notin Range(file')
    BY <2>2, <2>3 DEF Undisturbed, Readable, Range
  <2> QED BY <2>1, <2>4 DEF Undisturbed, Readable, Range
<1>3. UNCHANGED <<file, terminated, edits>> => Undisturbed'
  BY DEF Undisturbed, Readable
<1> QED BY <1>1, <1>2, <1>3 DEF Next, ReadHead, VerifyChain, ShowLatest, vars

\* With one writer that does not die, and nobody else about, the log always
\* verifies.
THEOREM LogStaysIntact == ASSUME NoFaults, OneWriter PROVE Spec => []AlwaysIntact
<1>1. Init => Undisturbed
  BY EmptySequence DEF Init, Undisturbed, Readable
<1>2. Undisturbed /\ Linked => AlwaysIntact
  BY DEF Undisturbed, Linked, AlwaysIntact
<1> QED BY <1>1, <1>2, PedigreeHolds, StepLeavesUndisturbed, LinksHold, PTL DEF Spec
===============================================================================
