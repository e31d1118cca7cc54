------------------------- MODULE DiskStorageProofs -------------------------
(***************************************************************************)
(* Proofs about DiskStorage for any events, sizes and number of readers.   *)
(***************************************************************************)
EXTENDS DiskStorage, SequenceTheorems, TLAPS

LEMMA RecordFacts ==
    ASSUME NEW e \in Events
    PROVE  /\ Record(e) \in Seq(Word)
           /\ Len(Record(e)) = Size[e] + 1 /\ Size[e] \in Nat \ {0}
           /\ DOMAIN Record(e) = 1 .. Len(Record(e))
           /\ 1 \in DOMAIN Record(e)
           /\ Record(e)[1] = <<e, 0>>
<1>1. Size[e] \in Nat \ {0}
  BY SizeAssumption
<1>2. Record(e) \in [1 .. Size[e] + 1 -> Word]
  BY <1>1 DEF Record, Word
<1>3. Record(e) \in Seq(Word) /\ Len(Record(e)) = Size[e] + 1
  BY <1>1, <1>2
<1>4. Record(e)[1] = <<e, 0>>
  BY <1>1 DEF Record
<1>5. QED
  BY <1>1, <1>2, <1>3, <1>4

(***************************************************************************)
(* RecordAt, of any file.                                                  *)
(***************************************************************************)
RecordIn(words, offset, e) ==
    /\ offset + Len(Record(e)) <= Len(words)
    /\ \A j \in DOMAIN Record(e) : words[offset + j] = Record(e)[j]

(***************************************************************************)
(* A place in the file holds the record of one event at most: its first    *)
(* word tells which.                                                       *)
(***************************************************************************)
LEMMA OneRecord ==
    ASSUME NEW words, NEW offset, NEW e \in Events, NEW f \in Events,
           RecordIn(words, offset, e), RecordIn(words, offset, f)
    PROVE  e = f
<1>1. words[offset + 1] = Record(e)[1]
  <2>1. 1 \in DOMAIN Record(e)
    BY RecordFacts
  <2>2. QED
    BY <2>1 DEF RecordIn
<1>2. words[offset + 1] = Record(f)[1]
  <2>1. 1 \in DOMAIN Record(f)
    BY RecordFacts
  <2>2. QED
    BY <2>1 DEF RecordIn
<1>3. Record(e)[1] = <<e, 0>> /\ Record(f)[1] = <<f, 0>>
  BY RecordFacts
<1>4. <<e, 0>> = <<f, 0>>
  BY <1>1, <1>2, <1>3
<1>5. QED
  BY <1>4

(***************************************************************************)
(* Words are only ever added at the end: a record stays where it is.       *)
(***************************************************************************)
LEMMA FileGrows ==
    ASSUME NEW words \in Seq(Word), NEW more \in Seq(Word),
           NEW offset \in Nat, NEW e \in Events, RecordIn(words, offset, e)
    PROVE  RecordIn(words \o more, offset, e)
<1>1. Len(words) \in Nat /\ Len(more) \in Nat
  BY LenProperties
<1>2. /\ Len(words \o more) = Len(words) + Len(more)
      /\ \A i \in 1 .. Len(words) + Len(more) :
            (words \o more)[i] = IF i <= Len(words) THEN words[i] ELSE more[i - Len(words)]
  BY ConcatProperties
<1>3. Len(Record(e)) \in Nat /\ DOMAIN Record(e) = 1 .. Len(Record(e))
  BY RecordFacts
<1>4. offset + Len(Record(e)) <= Len(words)
  BY DEF RecordIn
<1>5. ASSUME NEW j \in DOMAIN Record(e) PROVE (words \o more)[offset + j] = Record(e)[j]
  <2>1. offset + j \in 1 .. Len(words) /\ words[offset + j] = Record(e)[j]
    BY <1>1, <1>3, <1>4 DEF RecordIn
  <2>2. QED
    BY <1>1, <1>2, <2>1
<1>6. QED
  BY <1>1, <1>2, <1>3, <1>4, <1>5 DEF RecordIn

LEMMA RecordWritten ==
    ASSUME NEW words \in Seq(Word), NEW e \in Events
    PROVE  RecordIn(words \o Record(e), Len(words), e)
<1>1. /\ Len(words) \in Nat
      /\ Record(e) \in Seq(Word) /\ Len(Record(e)) \in Nat
      /\ DOMAIN Record(e) = 1 .. Len(Record(e))
  BY LenProperties, RecordFacts
<1>2. /\ Len(words \o Record(e)) = Len(words) + Len(Record(e))
      /\ \A i \in 1 .. Len(words) + Len(Record(e)) :
            (words \o Record(e))[i] =
                IF i <= Len(words) THEN words[i] ELSE Record(e)[i - Len(words)]
  BY <1>1, ConcatProperties
<1>3. ASSUME NEW j \in DOMAIN Record(e) PROVE (words \o Record(e))[Len(words) + j] = Record(e)[j]
  <2>1. /\ Len(words) + j \in 1 .. Len(words) + Len(Record(e))
        /\ ~(Len(words) + j <= Len(words)) /\ Len(words) + j - Len(words) = j
    BY <1>1
  <2>2. QED
    BY <1>2, <2>1
<1>4. QED
  BY <1>1, <1>2, <1>3 DEF RecordIn

(***************************************************************************)
(* The invariant.  Until a push fails the table is as long as the count    *)
(* and the file as long as bytes_written says.                             *)
(***************************************************************************)
Certain(k) == failed_at = None \/ k <= failed_at

EndOf(k) == record_positions[k] + Len(Record(pushed[k]))

Tally ==
    /\ events_count = Len(pushed)
    /\ events_count <= Len(record_positions)
    /\ failed_at # None => failed_at <= events_count

Tight ==
    failed_at = None =>
        /\ Len(record_positions) = events_count
        /\ bytes_written = Len(file)
        /\ bytes_written = IF events_count = 0 THEN 0 ELSE EndOf(events_count)

Adjoining(k) ==
    record_positions[k] = IF k = 1 THEN 0 ELSE EndOf(k - 1)

Chained == \A k \in 1 .. events_count : Certain(k) => Adjoining(k)

(***************************************************************************)
(* An iterator whose next event is certain is at its record.               *)
(***************************************************************************)
Next1(r) == Len(readers[r].given) + 1

InStep(r) ==
    /\ Len(readers[r].given) + readers[r].remaining_count <= events_count
    /\ readers[r].remaining_count > 0 /\ Certain(Next1(r))
            => readers[r].offset = record_positions[Next1(r)]

IInv ==
    /\ TypeOK
    /\ Tally
    /\ Tight
    /\ Chained
    /\ PositionsLocateRecords
    /\ \A r \in Readers : InStep(r)

LEMMA InitHolds == Init => IInv
<1> SUFFICES ASSUME Init PROVE IInv
  OBVIOUS
<1>1. TypeOK
  BY DEF Init, TypeOK, Closed, Reader
<1>2. events_count = 0 /\ Len(pushed) = 0 /\ Len(record_positions) = 0 /\ Len(file) = 0
  BY DEF Init
<1>3. Tally /\ Tight /\ Chained /\ PositionsLocateRecords
  BY <1>2 DEF Init, Tally, Tight, Chained, PositionsLocateRecords
<1>4. ASSUME NEW r \in Readers PROVE InStep(r)
  BY <1>2 DEF Init, InStep, Closed
<1>5. QED
  BY <1>1, <1>3, <1>4 DEF IInv

(***************************************************************************)
(* What both kinds of push do to the table and the file.                   *)
(***************************************************************************)
LEMMA PushFacts ==
    ASSUME TypeOK, NEW e \in Events, Push(e) \/ PushFails(e)
    PROVE  /\ record_positions' = Append(record_positions, bytes_written)
           /\ \E words \in Seq(Word) : file' = file \o words
           /\ UNCHANGED <<faulty, readers>>
<1>1. CASE Push(e)
  BY <1>1, RecordFacts DEF Push
<1>2. CASE PushFails(e)
  <2>1. PICK n \in 0 .. Len(Record(e)) : file' = file \o SubSeq(Record(e), 1, n)
    BY <1>2 DEF PushFails
  <2>2. SubSeq(Record(e), 1, n) \in Seq(Word)
    <3>1. Record(e) \in Seq(Word) /\ n \in Int /\ n <= Len(Record(e))
      BY RecordFacts
    <3>2. \A i \in 1 .. n : Record(e)[i] \in Word
      BY <3>1, ElementOfSeq
    <3>3. QED
      BY <3>1, <3>2, SubSeqProperties
  <2>3. QED
    BY <1>2, <2>1, <2>2 DEF PushFails
<1>3. QED
  BY <1>1, <1>2

LEMMA PushTyped ==
    ASSUME TypeOK, NEW e \in Events, Push(e) \/ PushFails(e)
    PROVE  TypeOK'
<1>1. record_positions' \in Seq(Nat) /\ file' \in Seq(Word)
  <2>1. bytes_written \in Nat /\ record_positions \in Seq(Nat) /\ file \in Seq(Word)
    BY DEF TypeOK
  <2>2. PICK words \in Seq(Word) : file' = file \o words
    BY PushFacts
  <2>3. file \o words \in Seq(Word)
    BY <2>1, ConcatProperties
  <2>4. Append(record_positions, bytes_written) \in Seq(Nat)
    BY <2>1, AppendProperties
  <2>5. QED
    BY <2>2, <2>3, <2>4, PushFacts
<1>2. bytes_written' \in Nat /\ events_count' \in Nat /\ failed_at' \in Nat \cup {None}
  <2>1. /\ bytes_written \in Nat /\ events_count \in Nat /\ failed_at \in Nat \cup {None}
        /\ Len(Record(e)) \in Nat
    BY RecordFacts DEF TypeOK
  <2>2. CASE Push(e)
    BY <2>1, <2>2 DEF Push, RecordEnd
  <2>3. CASE PushFails(e)
    BY <2>1, <2>3 DEF PushFails
  <2>4. QED
    BY <2>2, <2>3
<1>3. pushed' \in Seq(Events)
  <2>1. pushed \in Seq(Events) /\ Append(pushed, e) \in Seq(Events)
    BY AppendProperties DEF TypeOK
  <2>2. QED
    BY <2>1 DEF Push, PushFails
<1>4. QED
  BY <1>1, <1>2, <1>3, PushFacts DEF TypeOK

(***************************************************************************)
(* Records that were certain and still are have not moved.                 *)
(***************************************************************************)
LEMMA OldRecordsStay ==
    ASSUME IInv, NEW e \in Events, Push(e) \/ PushFails(e),
           NEW k \in 1 .. events_count, Certain(k)'
    PROVE  /\ Certain(k)
           /\ record_positions'[k] = record_positions[k]
           /\ pushed'[k] = pushed[k]
           /\ Adjoining(k)'
           /\ RecordAt(record_positions[k], pushed[k])'
<1>1. /\ events_count \in Nat /\ pushed \in Seq(Events) /\ Len(pushed) = events_count
      /\ record_positions \in Seq(Nat) /\ bytes_written \in Nat
      /\ Len(record_positions) \in Nat /\ events_count <= Len(record_positions)
      /\ failed_at \in Nat \cup {None} /\ file \in Seq(Word)
  BY LenProperties DEF IInv, TypeOK, Tally
<1>2. Certain(k)
  BY <1>1, NoneAssumption DEF Certain, Push, PushFails
<1>3. ASSUME NEW j \in 1 .. events_count
      PROVE record_positions'[j] = record_positions[j] /\ pushed'[j] = pushed[j]
  <2>1. j \in 1 .. Len(record_positions)
    BY <1>1
  <2>2. record_positions'[j] = record_positions[j]
    <3>1. Append(record_positions, bytes_written)[j] = record_positions[j]
      BY <1>1, <2>1, AppendProperties
    <3>2. QED
      BY <3>1, PushFacts DEF IInv
  <2>3. pushed'[j] = pushed[j]
    <3>1. Append(pushed, e)[j] = pushed[j]
      BY <1>1, AppendProperties
    <3>2. QED
      BY <3>1 DEF Push, PushFails
  <2>4. QED
    BY <2>2, <2>3
<1>4. Adjoining(k)'
  <2>1. Adjoining(k)
    BY <1>2 DEF IInv, Chained
  <2>2. k = 1 \/ k - 1 \in 1 .. events_count
    BY <1>1
  <2>3. QED
    BY <1>3, <2>1, <2>2 DEF Adjoining, EndOf
<1>5. RecordAt(record_positions[k], pushed[k])'
  <2>1. /\ record_positions[k] \in Nat /\ pushed[k] \in Events
    BY <1>1, ElementOfSeq
  <2>2. RecordIn(file, record_positions[k], pushed[k])
    BY <1>1, <1>2 DEF IInv, PositionsLocateRecords, Certain, RecordAt, RecordIn
  <2>3. PICK words \in Seq(Word) : file' = file \o words
    BY PushFacts DEF IInv
  <2>4. RecordIn(file', record_positions[k], pushed[k])
    BY <1>1, <2>1, <2>2, <2>3, FileGrows
  <2>5. QED
    BY <1>3, <2>4 DEF RecordAt, RecordIn
<1>6. QED
  BY <1>2, <1>3, <1>4, <1>5

(***************************************************************************)
(* Pushes leave the iterators in step.                                     *)
(***************************************************************************)
LEMMA ReadersStayInStep ==
    ASSUME IInv, NEW e \in Events, Push(e) \/ PushFails(e), NEW r \in Readers
    PROVE  InStep(r)'
<1>1. /\ events_count \in Nat /\ events_count' \in {events_count, events_count + 1}
      /\ Len(readers[r].given) \in Nat /\ readers[r].remaining_count \in Nat
      /\ Len(readers[r].given) + readers[r].remaining_count <= events_count
      /\ readers' = readers
  <2>1. readers[r] \in Reader
    BY DEF IInv, TypeOK
  <2>2. InStep(r)
    BY DEF IInv
  <2>3. QED
    BY <2>1, <2>2, LenProperties DEF IInv, TypeOK, Reader, InStep, Push, PushFails
<1>2. ASSUME readers[r].remaining_count > 0, Certain(Next1(r))'
      PROVE  readers[r].offset = record_positions'[Next1(r)]
  <2>1. Next1(r) \in 1 .. events_count
    BY <1>1, <1>2 DEF Next1
  <2>2. Next1(r)' = Next1(r)
    BY <1>1 DEF Next1
  <2> DEFINE k == Next1(r)
  <2>3. Certain(k)
    <3>1. failed_at' = None \/ k <= failed_at'
      BY <1>2, <2>2 DEF Certain
    <3>2. QED
      BY <2>1, <3>1, NoneAssumption DEF Certain, Push, PushFails, IInv, TypeOK
  <2>4. record_positions'[k] = record_positions[k]
    <3>1. /\ record_positions \in Seq(Nat) /\ bytes_written \in Nat
          /\ k \in 1 .. Len(record_positions)
      BY <1>1, <2>1, LenProperties DEF IInv, TypeOK, Tally
    <3>2. QED
      BY <3>1, PushFacts, AppendProperties DEF IInv
  <2>5. QED
    BY <1>2, <2>3, <2>4 DEF IInv, InStep
<1>3. QED
  BY <1>1, <1>2 DEF InStep, Next1

LEMMA PushPreserves ==
    ASSUME IInv, NEW e \in Events, Push(e)
    PROVE  IInv'
<1>1. /\ events_count \in Nat /\ pushed \in Seq(Events) /\ Len(pushed) = events_count
      /\ record_positions \in Seq(Nat) /\ bytes_written \in Nat
      /\ Len(record_positions) \in Nat /\ events_count <= Len(record_positions)
      /\ failed_at \in Nat \cup {None} /\ file \in Seq(Word) /\ Len(file) \in Nat
      /\ failed_at # None => failed_at <= events_count
  BY LenProperties DEF IInv, TypeOK, Tally
<1>2. /\ events_count' = events_count + 1
      /\ record_positions' = Append(record_positions, bytes_written)
      /\ file' = file \o Record(e) /\ pushed' = Append(pushed, e)
      /\ bytes_written' = bytes_written + Len(Record(e))
      /\ failed_at' = failed_at
  BY DEF Push, RecordEnd
<1>3. /\ Len(pushed') = events_count + 1 /\ pushed'[events_count + 1] = e
      /\ Len(record_positions') = Len(record_positions) + 1
      /\ record_positions'[Len(record_positions) + 1] = bytes_written
      /\ Len(file') = Len(file) + Len(Record(e))
  BY <1>1, <1>2, RecordFacts, AppendProperties, ConcatProperties
<1>4. TypeOK' /\ Tally'
  BY <1>1, <1>2, <1>3, PushTyped DEF IInv, Tally
<1>5. ASSUME failed_at = None
      PROVE  /\ bytes_written = Len(file) /\ Len(record_positions) = events_count
             /\ record_positions'[events_count + 1] = bytes_written
             /\ bytes_written = IF events_count = 0 THEN 0 ELSE EndOf(events_count)
  BY <1>3, <1>5 DEF IInv, Tight
<1>6. Tight'
  <2>1. SUFFICES ASSUME failed_at = None PROVE Tight'
    BY <1>2 DEF Tight
  <2>2. EndOf(events_count)' = record_positions'[events_count + 1] + Len(Record(e))
    BY <1>2, <1>3 DEF EndOf
  <2>3. events_count' # 0
    BY <1>1, <1>2
  <2>4. QED
    BY <1>2, <1>3, <1>5, <2>1, <2>2, <2>3 DEF Tight
<1>7. ASSUME NEW k \in 1 .. events_count', Certain(k)'
      PROVE  Adjoining(k)' /\ RecordAt(record_positions[k], pushed[k])'
  <2>1. CASE k \in 1 .. events_count
    BY <1>7, <2>1, OldRecordsStay
  <2>2. CASE k = events_count + 1
    <3>1. failed_at = None
      BY <1>1, <1>2, <1>7, <2>2, NoneAssumption DEF Certain
    <3>2. Adjoining(k)'
      <4>1. CASE events_count = 0
        BY <1>1, <1>5, <2>2, <3>1, <4>1 DEF Adjoining
      <4>2. CASE events_count # 0
        <5>1. events_count \in 1 .. Len(record_positions) /\ events_count \in 1 .. Len(pushed)
          BY <1>1, <4>2
        <5>2. /\ record_positions'[events_count] = record_positions[events_count]
              /\ pushed'[events_count] = pushed[events_count]
          BY <1>1, <1>2, <5>1, AppendProperties
        <5>3. k - 1 = events_count /\ k # 1
          BY <1>1, <2>2, <4>2
        <5>4. QED
          BY <1>5, <2>2, <3>1, <4>2, <5>2, <5>3 DEF Adjoining, EndOf
      <4>3. QED
        BY <4>1, <4>2
    <3>3. RecordIn(file', Len(file), e)
      BY <1>1, <1>2, RecordWritten
    <3>4. QED
      BY <1>3, <1>5, <2>2, <3>1, <3>2, <3>3 DEF RecordAt, RecordIn
  <2>3. QED
    BY <1>1, <1>2, <2>1, <2>2
<1>8. Chained' /\ PositionsLocateRecords'
  BY <1>7 DEF Chained, PositionsLocateRecords, Certain
<1>9. \A r \in Readers : InStep(r)'
  BY ReadersStayInStep
<1>10. QED
  BY <1>4, <1>6, <1>8, <1>9 DEF IInv

LEMMA PushFailsPreserves ==
    ASSUME IInv, NEW e \in Events, PushFails(e)
    PROVE  IInv'
<1>1. /\ events_count \in Nat /\ events_count' = events_count /\ pushed' = pushed
      /\ record_positions \in Seq(Nat) /\ bytes_written \in Nat
      /\ Len(record_positions) \in Nat
      /\ failed_at' # None /\ failed_at' <= events_count
  BY LenProperties, NoneAssumption DEF IInv, TypeOK, Tally, PushFails
<1>2. Len(record_positions') = Len(record_positions) + 1
  BY <1>1, PushFacts, AppendProperties DEF IInv
<1>3. TypeOK' /\ Tally' /\ Tight'
  BY <1>1, <1>2, PushTyped DEF IInv, Tally, Tight
<1>4. Chained' /\ PositionsLocateRecords'
  BY <1>1, OldRecordsStay DEF Chained, PositionsLocateRecords, Certain
<1>5. \A r \in Readers : InStep(r)'
  BY ReadersStayInStep
<1>6. QED
  BY <1>3, <1>4, <1>5 DEF IInv

-----------------------------------------------------------------------------
(***************************************************************************)
(* Reading.                                                                *)
(***************************************************************************)
Rest == <<faulty, file, bytes_written, record_positions, events_count, pushed, failed_at>>

LEMMA ReaderFacts ==
    ASSUME IInv, NEW r \in Readers
    PROVE  /\ readers[r] \in Reader
           /\ readers[r].remaining_count \in Nat /\ readers[r].offset \in Nat
           /\ readers[r].given \in Seq(Events) /\ Len(readers[r].given) \in Nat
           /\ events_count \in Nat
           /\ Len(pushed) = events_count /\ pushed \in Seq(Events)
           /\ Len(readers[r].given) + readers[r].remaining_count <= events_count
<1>1. readers[r] \in Reader /\ events_count \in Nat /\ pushed \in Seq(Events)
  BY DEF IInv, TypeOK
<1>2. InStep(r) /\ Len(pushed) = events_count
  BY DEF IInv, Tally
<1>3. QED
  BY <1>1, <1>2, LenProperties DEF Reader, InStep

(***************************************************************************)
(* An iterator whose next event is certain reads that event.               *)
(***************************************************************************)
LEMMA AtRecord ==
    ASSUME IInv, NEW r \in Readers, readers[r].remaining_count > 0, Certain(Next1(r))
    PROVE  /\ Next1(r) \in 1 .. events_count
           /\ pushed[Next1(r)] \in Events
           /\ RecordAt(readers[r].offset, pushed[Next1(r)])
<1>1. Next1(r) \in 1 .. events_count
  BY ReaderFacts DEF Next1
<1>2. pushed[Next1(r)] \in Events
  BY <1>1, ReaderFacts, ElementOfSeq
<1>3. readers[r].offset = record_positions[Next1(r)]
  BY DEF IInv, InStep
<1>4. RecordAt(record_positions[Next1(r)], pushed[Next1(r)])
  BY <1>1 DEF IInv, PositionsLocateRecords, Certain
<1>5. QED
  BY <1>1, <1>2, <1>3, <1>4

(***************************************************************************)
(* Changing one iterator, and only that, needs a look at that one.         *)
(***************************************************************************)
LEMMA ReaderPreserves ==
    ASSUME IInv, NEW r \in Readers, NEW new \in Reader,
           readers' = [readers EXCEPT ![r] = new], UNCHANGED Rest,
           Len(new.given) + new.remaining_count <= events_count,
           new.remaining_count > 0 /\ Certain(Len(new.given) + 1)
                => new.offset = record_positions[Len(new.given) + 1]
    PROVE  IInv'
<1>1. readers \in [Readers -> Reader]
  BY DEF IInv, TypeOK
<1>2. readers' \in [Readers -> Reader] /\ readers'[r] = new
  BY <1>1
<1>3. ASSUME NEW s \in Readers PROVE InStep(s)'
  <2>1. CASE s = r
    BY <1>2, <2>1 DEF InStep, Next1, Certain, Rest
  <2>2. CASE s # r
    <3>1. readers'[s] = readers[s]
      BY <1>1, <2>2
    <3>2. InStep(s)
      BY DEF IInv
    <3>3. QED
      BY <3>1, <3>2 DEF InStep, Next1, Certain, Rest
  <2>3. QED
    BY <2>1, <2>2
<1>4. TypeOK'
  BY <1>2 DEF IInv, TypeOK, Rest
<1>5. Tally' /\ Tight' /\ Chained'
  BY DEF IInv, Rest, Tally, Tight, Chained, Certain, Adjoining, EndOf
<1>6. PositionsLocateRecords'
  BY DEF IInv, Rest, PositionsLocateRecords, RecordAt
<1>7. QED
  BY <1>3, <1>4, <1>5, <1>6 DEF IInv

LEMMA IterPreserves ==
    ASSUME IInv, NEW r \in Readers, Iter(r)
    PROVE  IInv'
<1>1. PICK cloning \in BOOLEAN, opened \in BOOLEAN :
        readers' = [readers EXCEPT ![r] =
            [remaining_count |-> events_count, offset |-> 0, given |-> <<>>,
             open |-> opened, cloning |-> cloning]]
  BY DEF Iter
<1> DEFINE new == [remaining_count |-> events_count, offset |-> 0, given |-> <<>>,
                   open |-> opened, cloning |-> cloning]
<1>2. new \in Reader /\ Len(new.given) = 0 /\ events_count \in Nat
  BY DEF IInv, TypeOK, Reader
<1>3. UNCHANGED Rest
  BY DEF Iter, Rest
<1>4. ASSUME events_count > 0, Certain(1) PROVE record_positions[1] = 0
  <2>1. 1 \in 1 .. events_count
    BY <1>2, <1>4
  <2>2. Adjoining(1)
    BY <1>4, <2>1 DEF IInv, Chained
  <2>3. QED
    BY <2>2 DEF Adjoining
<1>5. QED
  <2>1. /\ readers' = [readers EXCEPT ![r] = new]
        /\ Len(new.given) + new.remaining_count <= events_count
        /\ new.remaining_count > 0 /\ Certain(Len(new.given) + 1)
                => new.offset = record_positions[Len(new.given) + 1]
    BY <1>1, <1>2, <1>4
  <2> HIDE DEF new
  <2>2. QED
    BY <1>2, <1>3, <2>1, ReaderPreserves

LEMMA EndIterPreserves ==
    ASSUME IInv, NEW r \in Readers, EndIter(r)
    PROVE  IInv'
<1> DEFINE new == [readers[r] EXCEPT !.open = FALSE]
<1>1. new \in Reader /\ new.given = readers[r].given /\ new.offset = readers[r].offset
      /\ new.remaining_count = readers[r].remaining_count
  BY ReaderFacts DEF Reader
<1>2. readers' = [readers EXCEPT ![r] = new] /\ UNCHANGED Rest
  BY DEF EndIter, Rest
<1>3. InStep(r)
  BY DEF IInv
<1> HIDE DEF new
<1>4. QED
  BY <1>1, <1>2, <1>3, ReaderPreserves DEF InStep, Next1

(***************************************************************************)
(* An event read, and the iterator put behind it: if another follows that  *)
(* is certain, so was this one, and its record lies there.                 *)
(***************************************************************************)
LEMMA YieldPreserves ==
    ASSUME IInv, NEW r \in Readers, NEW e \in Events, NEW offset \in Nat,
           readers[r].remaining_count > 0, Yield(r, e, offset), UNCHANGED Rest,
           Certain(Next1(r)) =>
                /\ e = pushed[Next1(r)]
                /\ offset = readers[r].offset + Len(Record(e))
    PROVE  IInv'
<1> DEFINE n == Len(readers[r].given)
           new == [readers[r] EXCEPT !.remaining_count = CountDown(r), !.offset = offset,
                                     !.given = Append(@, e)]
<1>1. readers' = [readers EXCEPT ![r] = new]
  BY DEF Yield
<1>2. /\ readers[r] \in Reader /\ n \in Nat /\ readers[r].given \in Seq(Events)
      /\ readers[r].remaining_count \in Nat /\ events_count \in Nat
      /\ n + readers[r].remaining_count <= events_count
  BY ReaderFacts
<1>3. /\ Append(readers[r].given, e) \in Seq(Events)
      /\ Len(Append(readers[r].given, e)) = n + 1
  BY <1>2, AppendProperties
<1>4. /\ new.given = Append(readers[r].given, e) /\ new.offset = offset
      /\ new.remaining_count = readers[r].remaining_count - 1
      /\ new \in Reader
  <2>1. CountDown(r) = readers[r].remaining_count - 1 /\ CountDown(r) \in Nat
    BY <1>2 DEF CountDown
  <2>2. readers[r] \in Reader /\ Append(readers[r].given, e) \in Seq(Events)
    BY <1>2, <1>3
  <2>3. new.given = Append(readers[r].given, e)
    BY <2>2 DEF Reader
  <2>4. new \in Reader /\ new.offset = offset /\ new.remaining_count = CountDown(r)
    BY <2>1, <2>2 DEF Reader
  <2> HIDE DEF new
  <2>5. QED
    BY <2>1, <2>3, <2>4
<1>5. ASSUME new.remaining_count > 0, Certain(n + 2)
      PROVE  offset = record_positions[n + 2]
  <2> HIDE DEF new
  <2>1. n + 2 \in 1 .. events_count /\ n + 2 # 1 /\ (n + 2) - 1 = n + 1
    <3>1. readers[r].remaining_count - 1 > 0
      BY <1>4, <1>5
    <3>2. n \in Nat /\ readers[r].remaining_count \in Nat /\ events_count \in Nat
          /\ n + readers[r].remaining_count <= events_count
      BY <1>2
    <3>3. ASSUME NEW i \in Nat, NEW j \in Nat, NEW k \in Nat, i + j <= k, j - 1 > 0
          PROVE  i + 2 \in 1 .. k /\ i + 2 # 1 /\ (i + 2) - 1 = i + 1
      BY <3>3
    <3> HIDE DEF n
    <3>4. QED
      BY <3>1, <3>2, <3>3
  <2>2. failed_at \in Nat \cup {None}
    BY DEF IInv, TypeOK
  <2>3. Certain(n + 1)
    BY <1>2, <1>5, <2>2, NoneAssumption DEF Certain
  <2>4. Adjoining(n + 2)
    BY <1>5, <2>1 DEF IInv, Chained
  <2>5. record_positions[n + 2] = record_positions[n + 1] + Len(Record(pushed[n + 1]))
    BY <2>1, <2>4 DEF Adjoining, EndOf
  <2>6. readers[r].offset = record_positions[n + 1]
    BY <2>3 DEF IInv, InStep, Next1
  <2>7. QED
    BY <2>3, <2>5, <2>6 DEF Next1
<1>6. /\ Len(new.given) + new.remaining_count <= events_count
      /\ Len(new.given) + 1 = n + 2
  BY <1>2, <1>3, <1>4
<1>7. new.remaining_count > 0 /\ Certain(Len(new.given) + 1)
            => new.offset = record_positions[Len(new.given) + 1]
  BY <1>4, <1>5, <1>6
<1> HIDE DEF new
<1>8. QED
  BY <1>1, <1>4, <1>6, <1>7, ReaderPreserves

(***************************************************************************)
(* What a read yields, and where it leaves the iterator.                   *)
(***************************************************************************)
LEMMA ReadFacts ==
    ASSUME IInv, NEW r \in Readers, ReadRecord(r) \/ ReadGarbage(r)
    PROVE  /\ readers[r].open /\ readers[r].remaining_count > 0
           /\ UNCHANGED Rest
           /\ \E e \in Events, offset \in Nat :
                /\ Yield(r, e, offset)
                /\ Certain(Next1(r)) =>
                        /\ e = pushed[Next1(r)]
                        /\ offset = readers[r].offset + Len(Record(e))
<1>1. readers[r].open /\ readers[r].remaining_count > 0 /\ UNCHANGED Rest
  BY DEF ReadRecord, ReadGarbage, ReadsOn, Rest
<1>2. CASE ReadRecord(r)
  <2>1. PICK e \in Events :
            /\ RecordAt(readers[r].offset, e)
            /\ Yield(r, e, readers[r].offset + Len(Record(e)))
    BY <1>2 DEF ReadRecord
  <2>2. readers[r].offset + Len(Record(e)) \in Nat
    BY ReaderFacts, RecordFacts
  <2>3. ASSUME Certain(Next1(r)) PROVE e = pushed[Next1(r)]
    <3>1. /\ pushed[Next1(r)] \in Events
          /\ RecordIn(file, readers[r].offset, pushed[Next1(r)])
      BY <1>1, <2>3, AtRecord DEF RecordAt, RecordIn
    <3>2. RecordIn(file, readers[r].offset, e)
      BY <2>1 DEF RecordAt, RecordIn
    <3>3. QED
      BY <3>1, <3>2, OneRecord
  <2>4. QED
    BY <1>1, <2>1, <2>2, <2>3
<1>3. CASE ReadGarbage(r)
  <2>1. PICK e \in Events, offset \in readers[r].offset + 2 .. Len(file) : Yield(r, e, offset)
    BY <1>3 DEF ReadGarbage
  <2>2. offset \in Nat
    <3>1. Len(file) \in Nat
      BY LenProperties DEF IInv, TypeOK
    <3>2. QED
      BY <2>1, <3>1, ReaderFacts
  <2>3. ~Certain(Next1(r))
    BY <1>1, <1>3, AtRecord DEF ReadGarbage, Garbled
  <2>4. QED
    BY <1>1, <2>1, <2>2, <2>3
<1>4. QED
  BY <1>2, <1>3

LEMMA NextPreserves ==
    ASSUME IInv, [Next]_vars
    PROVE  IInv'
<1>1. CASE \E e \in Events : Push(e)
  BY <1>1, PushPreserves
<1>2. CASE \E e \in Events : PushFails(e)
  BY <1>2, PushFailsPreserves
<1>3. CASE \E r \in Readers : Iter(r)
  BY <1>3, IterPreserves
<1>4. ASSUME NEW r \in Readers, ReadRecord(r) \/ ReadGarbage(r) PROVE IInv'
  <2>1. PICK e \in Events, offset \in Nat :
            /\ Yield(r, e, offset)
            /\ Certain(Next1(r)) =>
                    /\ e = pushed[Next1(r)]
                    /\ offset = readers[r].offset + Len(Record(e))
    BY <1>4, ReadFacts
  <2>2. readers[r].remaining_count > 0 /\ UNCHANGED Rest
    BY <1>4, ReadFacts
  <2>3. QED
    BY <2>1, <2>2, YieldPreserves
<1>5. CASE \E r \in Readers : EndIter(r)
  BY <1>5, EndIterPreserves
<1>6. CASE UNCHANGED vars
  <2>1. TypeOK' /\ Tally' /\ Tight' /\ Chained'
    BY <1>6 DEF IInv, vars, TypeOK, Tally, Tight, Chained, Certain, Adjoining, EndOf
  <2>2. PositionsLocateRecords'
    BY <1>6 DEF IInv, vars, PositionsLocateRecords, RecordAt
  <2>3. \A r \in Readers : InStep(r)'
    BY <1>6 DEF IInv, vars, InStep, Next1, Certain
  <2>4. QED
    BY <2>1, <2>2, <2>3 DEF IInv
<1>7. QED
  BY <1>1, <1>2, <1>3, <1>4, <1>5, <1>6 DEF Next, Advance

(***************************************************************************)
(* Every behaviour of the storage keeps the invariant.                     *)
(***************************************************************************)
THEOREM Invariance == Spec => []IInv
<1>1. Init => IInv
  BY InitHolds
<1>2. IInv /\ [Next]_vars => IInv'
  BY NextPreserves
<1>3. QED
  BY <1>1, <1>2, PTL DEF Spec

(***************************************************************************)
(* The file, the table, the counters and the iterators keep their types:   *)
(* no iterator counts below zero (storage.rs, DiskIterator::next).         *)
(***************************************************************************)
THEOREM TypeCorrect == Spec => []TypeOK
<1>1. IInv => TypeOK
  BY DEF IInv
<1>2. QED
  BY <1>1, Invariance, PTL

(***************************************************************************)
(* The position table locates the record of every event stored before the  *)
(* first failed push, whatever a failed push leaves in the file and in the *)
(* table (storage.rs, DiskStorage::push).                                  *)
(***************************************************************************)
THEOREM PositionsCorrect == Spec => []PositionsLocateRecords
<1>1. IInv => PositionsLocateRecords
  BY DEF IInv
<1>2. QED
  BY <1>1, Invariance, PTL

-----------------------------------------------------------------------------
(***************************************************************************)
(* The storage implements EventStorage.                                    *)
(***************************************************************************)
AsReader(reader) ==
    [upto |-> Len(reader.given) + reader.remaining_count,
     given |-> reader.given,
     open |-> reader.open]

AsReaders == [r \in Readers |-> AsReader(readers[r])]

LEMMA InitImplements == Init => Storage!Init
<1> SUFFICES ASSUME Init PROVE Storage!Init
  OBVIOUS
<1>1. [r \in Readers |-> AsReader(readers[r])]
        = [r \in Readers |-> [upto |-> 0, given |-> <<>>, open |-> FALSE]]
  BY DEF Init, Closed, AsReader
<1>2. QED
  BY <1>1 DEF Init, Storage!Init, AsReader

(***************************************************************************)
(* Changing one iterator changes one reader.                               *)
(***************************************************************************)
LEMMA OneReader ==
    ASSUME IInv, NEW r \in Readers, NEW new,
           readers' = [readers EXCEPT ![r] = new]
    PROVE  AsReaders' = [AsReaders EXCEPT ![r] = AsReader(new)]
<1>1. readers \in [Readers -> Reader]
  BY DEF IInv, TypeOK
<1>2. ASSUME NEW s \in Readers
      PROVE AsReaders'[s] = [AsReaders EXCEPT ![r] = AsReader(new)][s]
  BY <1>1 DEF AsReaders, AsReader
<1>3. QED
  BY <1>2 DEF AsReaders

LEMMA IterImplements ==
    ASSUME IInv, NEW r \in Readers, Iter(r)
    PROVE  Storage!Open(r)
<1>1. PICK cloning \in BOOLEAN, opened \in IF faulty THEN BOOLEAN ELSE {TRUE} :
        readers' = [readers EXCEPT ![r] =
            [remaining_count |-> events_count, offset |-> 0, given |-> <<>>,
             open |-> opened, cloning |-> cloning]]
  BY DEF Iter
<1> DEFINE new == [remaining_count |-> events_count, offset |-> 0, given |-> <<>>,
                   open |-> opened, cloning |-> cloning]
<1>2. AsReader(new) = [upto |-> Len(pushed), given |-> <<>>, open |-> opened]
  BY ReaderFacts DEF AsReader
<1>3. AsReaders' = [AsReaders EXCEPT ![r] = AsReader(new)]
  <2>1. readers' = [readers EXCEPT ![r] = new]
    BY <1>1
  <2> HIDE DEF new
  <2>2. QED
    BY <2>1, OneReader
<1>4. ~AsReaders[r].open
  BY DEF Iter, AsReaders, AsReader
<1>5. (opened \in BOOLEAN) /\ (~opened => faulty)
  BY <1>1
<1>6. UNCHANGED <<faulty, pushed, failed_at>>
  BY DEF Iter
<1> HIDE DEF new
<1>7. QED
  BY <1>2, <1>3, <1>4, <1>5, <1>6 DEF Storage!Open, AsReaders, AsReader

LEMMA ReadImplements ==
    ASSUME IInv, NEW r \in Readers, ReadRecord(r) \/ ReadGarbage(r)
    PROVE  Storage!Give(r)
<1>1. PICK e \in Events, offset \in Nat :
        /\ Yield(r, e, offset)
        /\ Certain(Next1(r)) => e = pushed[Next1(r)]
  BY ReadFacts
<1>2. readers[r].open /\ readers[r].remaining_count > 0 /\ UNCHANGED Rest
  BY ReadFacts
<1> DEFINE new == [readers[r] EXCEPT !.remaining_count = CountDown(r), !.offset = offset,
                                     !.given = Append(@, e)]
<1>3. AsReaders' = [AsReaders EXCEPT ![r] = AsReader(new)]
  <2>1. readers' = [readers EXCEPT ![r] = new]
    BY <1>1 DEF Yield
  <2> HIDE DEF new
  <2>2. QED
    BY <2>1, OneReader
<1>4. AsReader(new) = [AsReaders[r] EXCEPT !.given = Append(@, e)]
  <2>1. /\ readers[r] \in Reader /\ readers[r].given \in Seq(Events)
        /\ Len(readers[r].given) \in Nat /\ readers[r].remaining_count \in Nat
        /\ CountDown(r) = readers[r].remaining_count - 1
    BY ReaderFacts DEF CountDown
  <2>2. Len(Append(readers[r].given, e)) = Len(readers[r].given) + 1
    BY <2>1, AppendProperties
  <2>3. /\ new.given = Append(readers[r].given, e) /\ new.open = readers[r].open
        /\ new.remaining_count = CountDown(r)
    BY <2>1 DEF Reader
  <2> HIDE DEF new
  <2>4. Len(new.given) + new.remaining_count
            = Len(readers[r].given) + readers[r].remaining_count
    <3>1. Len(new.given) = Len(readers[r].given) + 1
      BY <2>2, <2>3
    <3>2. new.remaining_count = readers[r].remaining_count - 1
      BY <2>1, <2>3
    <3>3. Len(readers[r].given) \in Nat /\ readers[r].remaining_count \in Nat
      BY <2>1
    <3>4. ASSUME NEW i \in Nat, NEW j \in Nat PROVE (i + 1) + (j - 1) = i + j
      BY <3>4
    <3>5. QED
      BY <3>1, <3>2, <3>3, <3>4, Zenon
  <2>5. PICK u : u = Len(readers[r].given) + readers[r].remaining_count
    OBVIOUS
  <2>6. PICK g : g = Append(readers[r].given, e)
    OBVIOUS
  <2>7. AsReaders[r] = [upto |-> u, given |-> readers[r].given, open |-> readers[r].open]
    BY <2>5 DEF AsReaders, AsReader
  <2>8. AsReader(new) = [upto |-> u, given |-> g, open |-> readers[r].open]
    BY <2>3, <2>4, <2>5, <2>6 DEF AsReader
  <2>9. [AsReaders[r] EXCEPT !.given = g]
            = [upto |-> u, given |-> g, open |-> readers[r].open]
    BY <2>7
  <2>10. AsReaders[r].given = readers[r].given
    BY <2>7
  <2>11. QED
    BY <2>6, <2>8, <2>9, <2>10, Zenon
<1>5. /\ AsReaders[r].open /\ AsReaders[r].given = readers[r].given
      /\ Len(AsReaders[r].given) + 1 <= AsReaders[r].upto
  BY <1>2, ReaderFacts DEF AsReaders, AsReader
<1>6. Storage!Certain(Len(AsReaders[r].given) + 1) => e = pushed[Len(AsReaders[r].given) + 1]
  BY <1>1, <1>5 DEF Storage!Certain, Certain, Next1
<1>7. AsReaders' = [AsReaders EXCEPT ![r].given = Append(@, e)]
  BY <1>3, <1>4
<1> HIDE DEF new
<1>8. QED
  BY <1>2, <1>5, <1>6, <1>7 DEF Storage!Give, AsReaders, AsReader, Rest

LEMMA EndIterImplements ==
    ASSUME IInv, NEW r \in Readers, EndIter(r)
    PROVE  Storage!End(r)
<1> DEFINE new == [readers[r] EXCEPT !.open = FALSE]
<1>1. AsReaders' = [AsReaders EXCEPT ![r] = AsReader(new)]
  <2>1. readers' = [readers EXCEPT ![r] = new]
    BY DEF EndIter
  <2> HIDE DEF new
  <2>2. QED
    BY <2>1, OneReader
<1>2. AsReader(new) = [AsReaders[r] EXCEPT !.open = FALSE]
  <2>1. /\ new.given = readers[r].given /\ new.open = FALSE
        /\ new.remaining_count = readers[r].remaining_count
    BY ReaderFacts DEF Reader
  <2> HIDE DEF new
  <2>2. AsReaders[r] = [upto |-> Len(readers[r].given) + readers[r].remaining_count,
                        given |-> readers[r].given, open |-> readers[r].open]
    BY DEF AsReaders, AsReader
  <2>3. AsReader(new) = [upto |-> Len(readers[r].given) + readers[r].remaining_count,
                         given |-> readers[r].given, open |-> FALSE]
    BY <2>1 DEF AsReader
  <2>4. [AsReaders[r] EXCEPT !.open = FALSE] =
            [upto |-> Len(readers[r].given) + readers[r].remaining_count,
             given |-> readers[r].given, open |-> FALSE]
    <3>1. ASSUME NEW no, no = FALSE
          PROVE  [AsReaders[r] EXCEPT !.open = no] =
                    [upto |-> Len(readers[r].given) + readers[r].remaining_count,
                     given |-> readers[r].given, open |-> no]
      BY <2>2
    <3>2. QED
      BY <3>1, Zenon
  <2>5. QED
    BY <2>3, <2>4, Zenon
<1>3. AsReaders' = [AsReaders EXCEPT ![r].open = FALSE]
  BY <1>1, <1>2
<1>4. /\ AsReaders[r].open /\ AsReaders[r].given = readers[r].given
      /\ AsReaders[r].upto = Len(readers[r].given) + readers[r].remaining_count
  BY DEF EndIter, AsReaders, AsReader
<1>5. \/ Len(AsReaders[r].given) = AsReaders[r].upto
      \/ faulty
      \/ ~Storage!Certain(Len(AsReaders[r].given) + 1)
  <2>1. CASE readers[r].remaining_count = 0
    BY <1>4, <2>1, ReaderFacts
  <2>2. CASE Garbled(r)
    <3>1. ~Certain(Next1(r))
      BY <2>2, AtRecord DEF Garbled
    <3>2. QED
      BY <1>4, <3>1 DEF Storage!Certain, Certain, Next1
  <2>3. QED
    BY <2>1, <2>2 DEF EndIter
<1>6. UNCHANGED <<faulty, pushed, failed_at>>
  BY DEF EndIter
<1>7. QED
  BY <1>3, <1>4, <1>5, <1>6 DEF Storage!End, AsReaders, AsReader

LEMMA NextImplements ==
    ASSUME IInv, [Next]_vars
    PROVE  [Storage!Next]_<<faulty, pushed, failed_at, AsReaders>>
<1>1. ASSUME NEW e \in Events, Push(e) PROVE Storage!Push
  <2>1. AsReaders' = AsReaders
    BY <1>1 DEF Push, AsReaders, AsReader
  <2>2. QED
    BY <1>1, <2>1 DEF Push, Storage!Push, AsReaders, AsReader
<1>2. ASSUME NEW e \in Events, PushFails(e) PROVE Storage!PushFails
  <2>1. AsReaders' = AsReaders
    BY <1>2 DEF PushFails, AsReaders, AsReader
  <2>2. Len(pushed) = events_count
    BY DEF IInv, Tally
  <2>3. QED
    BY <1>2, <2>1, <2>2 DEF PushFails, Storage!PushFails, AsReaders, AsReader
<1>3. CASE UNCHANGED vars
  BY <1>3 DEF vars, AsReaders, AsReader
<1>4. ASSUME NEW r \in Readers, Iter(r) \/ Advance(r)
      PROVE  Storage!Open(r) \/ Storage!Give(r) \/ Storage!End(r)
  BY <1>4, IterImplements, ReadImplements, EndIterImplements DEF Advance
<1>5. QED
  BY <1>1, <1>2, <1>3, <1>4 DEF Next, Storage!Next

(***************************************************************************)
(* The disk storage implements what the trait promises: an iteration is    *)
(* given the events that were stored when it began, in order, whatever is  *)
(* pushed or fails meanwhile (storage.rs, DiskStorage and DiskIterator).   *)
(***************************************************************************)
THEOREM Implementation == Spec => ImplementsStorage
<1>1. Init => Storage!Init
  BY InitImplements
<1>2. IInv /\ [Next]_vars => [Storage!Next]_<<faulty, pushed, failed_at, AsReaders>>
  BY NextImplements
<1>3. AsReaders = [r \in Readers |->
        [upto |-> Len(readers[r].given) + readers[r].remaining_count,
         given |-> readers[r].given, open |-> readers[r].open]]
  BY DEF AsReaders, AsReader
<1>4. QED
  BY <1>1, <1>2, Invariance, PTL DEF Spec, ImplementsStorage, Storage!Spec, AsReaders, AsReader
=============================================================================
