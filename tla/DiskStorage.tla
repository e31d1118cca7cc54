---------------------------- MODULE DiskStorage ----------------------------
(***************************************************************************)
(* DiskStorage: merge events appended to a temporary file as records, a    *)
(* length followed by the serialised event, and read back by iterators     *)
(* that have a file handle of their own and count down the events that     *)
(* were there when they were made.  An iterator borrows nothing, so pushes *)
(* go on while it reads.  I/O may fail anywhere: a push in the middle of   *)
(* its record, a read at any event.                                        *)
(***************************************************************************)
EXTENDS Integers, Sequences

CONSTANTS
    Events,     (* merge events                                        *)
    Size,       (* Size[e]: words of e once serialised, its length's word not counted *)
    Readers,    (* iterations, by clients or inside clone_box          *)
    MaxPushes,  (* bound: pushes, failed ones included                 *)
    None        (* "no push has failed"                                *)

(***************************************************************************)
(* The record of an event: word 0 is its length, the rest are its data.    *)
(***************************************************************************)
Record(e) == [j \in 1 .. Size[e] + 1 |-> <<e, j - 1>>]
Word == Events \X Nat

ASSUME SizeAssumption == Size \in [Events -> Nat \ {0}]
ASSUME MaxPushesAssumption == MaxPushes \in Nat
ASSUME NoneAssumption == None \notin Nat

VARIABLES
    faulty,             (* whether reads may fail; never changes             *)
    file,               (* the words of merge_events.dat                     *)
    bytes_written,      (* where the next record is taken to begin           *)
    record_positions,   (* where each record begins                          *)
    events_count,       (* len()                                             *)
    pushed,             (* history: the events of the pushes that succeeded  *)
    failed_at,          (* history: events_count at the first failed push    *)
    readers             (* DiskIterators, and what they have yielded         *)

vars == <<faulty, file, bytes_written, record_positions, events_count, pushed,
          failed_at, readers>>

Closed == [remaining_count |-> 0, offset |-> 0, given |-> <<>>,
           open |-> FALSE, cloning |-> FALSE]

Init ==
    /\ faulty \in BOOLEAN
    /\ file = <<>>
    /\ bytes_written = 0
    /\ record_positions = <<>>
    /\ events_count = 0
    /\ pushed = <<>>
    /\ failed_at = None
    /\ readers = [r \in Readers |-> Closed]

-----------------------------------------------------------------------------
(* Wrong: the four bytes of the length are not counted. *)
DataEnd(e) == bytes_written + Size[e]

RecordEnd(e) == bytes_written + Len(Record(e))

(***************************************************************************)
(* push takes the storage mutably: no clone_box, which borrows it, is      *)
(* under way.                                                              *)
(***************************************************************************)
MayPush ==
    /\ Len(record_positions) < MaxPushes
    /\ \A r \in Readers : ~(readers[r].open /\ readers[r].cloning)

Push(e) ==
    /\ MayPush
    /\ record_positions' = Append(record_positions, bytes_written)
    /\ file' = file \o Record(e)
    /\ bytes_written' = RecordEnd(e)
    /\ events_count' = events_count + 1
    /\ pushed' = Append(pushed, e)
    /\ UNCHANGED <<faulty, failed_at, readers>>

(***************************************************************************)
(* Serialising, a write or the flush fails.  Any part of the record may be *)
(* in the file, even all of it: dropping the buffered writer tries the     *)
(* flush once more.  The position has been noted all the same.             *)
(***************************************************************************)
PushFails(e) ==
    /\ MayPush
    /\ record_positions' = Append(record_positions, bytes_written)
    /\ \E n \in 0 .. Len(Record(e)) : file' = file \o SubSeq(Record(e), 1, n)
    /\ failed_at' = IF failed_at = None THEN events_count ELSE failed_at
    /\ UNCHANGED <<faulty, bytes_written, events_count, pushed, readers>>

(***************************************************************************)
(* iter, by a client or by clone_box.  Where the file cannot be opened,    *)
(* get_merge_events and clone_box go on as if there were no events.        *)
(***************************************************************************)
Iter(r) ==
    /\ ~readers[r].open
    /\ \E cloning \in BOOLEAN, opened \in IF faulty THEN BOOLEAN ELSE {TRUE} :
        readers' = [readers EXCEPT ![r] =
            [remaining_count |-> events_count, offset |-> 0, given |-> <<>>,
             open |-> opened, cloning |-> cloning]]
    /\ UNCHANGED <<faulty, file, bytes_written, record_positions, events_count,
                   pushed, failed_at>>

-----------------------------------------------------------------------------
(***************************************************************************)
(* DiskIterator::next.                                                     *)
(***************************************************************************)
RecordAt(offset, e) ==
    /\ offset + Len(Record(e)) <= Len(file)
    /\ \A j \in DOMAIN Record(e) : file[offset + j] = Record(e)[j]

(* Wrong: an iterator ends where the file does, and counts nothing down. *)
CountKept(r) == readers[r].remaining_count

CountDown(r) == readers[r].remaining_count - 1

Yield(r, e, offset) ==
    readers' = [readers EXCEPT
        ![r].remaining_count = CountDown(r),
        ![r].offset = offset,
        ![r].given = Append(@, e)]

(* Wrong: the count is not looked at before reading. *)
ReadsPast(r) ==
    /\ readers[r].open
    /\ UNCHANGED <<faulty, file, bytes_written, record_positions, events_count,
                   pushed, failed_at>>

ReadsOn(r) ==
    /\ readers[r].open /\ readers[r].remaining_count > 0
    /\ UNCHANGED <<faulty, file, bytes_written, record_positions, events_count,
                   pushed, failed_at>>

ReadRecord(r) ==
    /\ ReadsOn(r)
    /\ \E e \in Events :
        /\ RecordAt(readers[r].offset, e)
        /\ Yield(r, e, readers[r].offset + Len(Record(e)))

(***************************************************************************)
(* What is left of a failed push is no record.  Its words, and those that  *)
(* follow, are taken for some length and some data, which may even decode. *)
(***************************************************************************)
Garbled(r) ==
    /\ readers[r].open /\ readers[r].remaining_count > 0
    /\ \A e \in Events : ~RecordAt(readers[r].offset, e)

ReadGarbage(r) ==
    /\ ReadsOn(r)
    /\ Garbled(r)
    /\ \E e \in Events, offset \in readers[r].offset + 2 .. Len(file) : Yield(r, e, offset)

(* Wrong: after a read that failed the caller is to try again. *)
EndIterAtCount(r) ==
    /\ readers[r].open
    /\ readers[r].remaining_count = 0
    /\ readers' = [readers EXCEPT ![r].open = FALSE]
    /\ UNCHANGED <<faulty, file, bytes_written, record_positions, events_count,
                   pushed, failed_at>>

(***************************************************************************)
(* The end, as the caller sees it: the count has run out, or a read or a   *)
(* decoding failed, or the decoded event had no child and panicked.        *)
(***************************************************************************)
EndIter(r) ==
    /\ readers[r].open
    /\ readers[r].remaining_count = 0 \/ faulty \/ Garbled(r)
    /\ readers' = [readers EXCEPT ![r].open = FALSE]
    /\ UNCHANGED <<faulty, file, bytes_written, record_positions, events_count,
                   pushed, failed_at>>

Advance(r) == ReadRecord(r) \/ ReadGarbage(r) \/ EndIter(r)

Next ==
    \/ \E e \in Events : Push(e) \/ PushFails(e)
    \/ \E r \in Readers : Iter(r)
    \/ \E r \in Readers : Advance(r)

Spec == Init /\ [][Next]_vars

(***************************************************************************)
(* Fairness: whoever has an iterator drains it, as collect and the loop of *)
(* clone_box do.                                                           *)
(***************************************************************************)
FairSpec == Spec /\ \A r \in Readers : WF_vars(Advance(r))

-----------------------------------------------------------------------------
Reader == [remaining_count : Nat, offset : Nat, given : Seq(Events),
           open : BOOLEAN, cloning : BOOLEAN]

TypeOK ==
    /\ faulty \in BOOLEAN
    /\ file \in Seq(Word)
    /\ bytes_written \in Nat
    /\ record_positions \in Seq(Nat)
    /\ events_count \in Nat
    /\ pushed \in Seq(Events)
    /\ failed_at \in Nat \cup {None}
    /\ readers \in [Readers -> Reader]

(***************************************************************************)
(* The position table finds the record of every event that was stored      *)
(* before the first failed push; the words of that push, and the entry it  *)
(* left in the table, spoil only what comes after them.                    *)
(***************************************************************************)
PositionsLocateRecords ==
    \A k \in 1 .. events_count :
        failed_at = None \/ k <= failed_at => RecordAt(record_positions[k], pushed[k])

(***************************************************************************)
(* The storage implements what the trait promises: an iteration yields the *)
(* events that were pushed when it began, one by one in their order, and   *)
(* neither pushes that come after nor a push that fails can change that.   *)
(***************************************************************************)
Storage == INSTANCE EventStorage WITH
    stored <- pushed,
    readers <- [r \in Readers |->
        [upto |-> Len(readers[r].given) + readers[r].remaining_count,
         given |-> readers[r].given,
         open |-> readers[r].open]]

ImplementsStorage == Storage!Spec

(***************************************************************************)
(* Every iteration ends, whatever is in the file and however much is       *)
(* pushed while it reads.                                                  *)
(***************************************************************************)
ItersEnd == \A r \in Readers : readers[r].open ~> ~readers[r].open
=============================================================================
