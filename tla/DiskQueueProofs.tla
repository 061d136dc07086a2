-------------------------- MODULE DiskQueueProofs --------------------------
(***************************************************************************)
(* The at-least-once invariant of the disk queue for any number of events,  *)
(* segments, I/O errors and crashes.                                        *)
(***************************************************************************)
EXTENDS DiskQueue, TLAPS, SequenceTheorems

\* Only files that exist have lines, the writer's is the highest, and it is
\* there while it is open.
FilesInv ==
    /\ \A s \in Seqs : s \notin exist => segs[s] = <<>>
    /\ \A s \in exist : s <= write_seq
    /\ write_file => write_seq \in exist

\* While the mutex is held for an append its line is the unterminated tail of
\* the open segment, at or after the read position.
AppendInv ==
    /\ appending # None =>
         /\ write_file
         /\ segs[write_seq] # <<>>
         /\ segs[write_seq][Len(segs[write_seq])] =
              [ev |-> appending, done |-> FALSE]
         /\ NotAfter(read, At(write_seq, Len(segs[write_seq]) - 1))
    /\ appending = None /\ write_file => ~Torn(write_seq)

\* The positions of the queue are in this order; the cursor's place is found
\* again by a restart.
OrderInv ==
    /\ NotAfter(cursor, acked)
    /\ NotAfter(acked, read)
    /\ gc_seq <= acked.seq
    /\ \/ cursor = Origin
       \/ \E s \in exist : NotAfter(cursor, At(s, Len(segs[s])))

\* Every in-flight entry quotes a complete line that is still there; entries
\* are in log order between the acked and the read position.
EntryOK(entry) ==
    /\ entry.start.off < Len(segs[entry.start.seq])
    /\ segs[entry.start.seq][entry.start.off + 1] =
         [ev |-> entry.ev, done |-> TRUE]
    /\ NotAfter(acked, entry.start)
    /\ Before(entry.start, read)
    /\ entry.acked => entry.ev \in settled

EntryInv == \A j \in 1 .. Len(in_flight) : EntryOK(in_flight[j])

SortedInv ==
    \A i, j \in 1 .. Len(in_flight) :
        i < j => Before(in_flight[i].start, in_flight[j].start)

\* While ack_to runs its target lies on what is acked, before everything that
\* is not.
AckInv ==
    rpc = "ack_delete" =>
        /\ NotAfter(acked, target) /\ NotAfter(target, read)
        /\ target.seq \in exist /\ target.off <= Len(segs[target.seq])
        /\ stale <= target.seq
        /\ \A j \in 1 .. Len(in_flight) : NotAfter(target, in_flight[j].start)

\* The receiver's second look is at a line, and not at one whose append is
\* still running unless that line is already complete.
TailInv ==
    /\ rpc \in {"torn", "reread"} =>
         read.seq \in exist /\ read.off < Len(segs[read.seq])
    /\ rpc = "reread" /\ appending # None /\ write_seq = read.seq =>
         segs[read.seq][read.off + 1].done

\* Every complete line the reader has passed is accounted for.
PassedInv ==
    \A s \in Seqs : \A i \in 1 .. Len(segs[s]) :
        segs[s][i].done /\ Before(At(s, i - 1), read) =>
            \/ segs[s][i].ev \in settled \cup skipped
            \/ \E j \in 1 .. Len(in_flight) : in_flight[j].start = At(s, i - 1)

\* NothingLost, element by element.
KeptInv ==
    \A e \in sent :
        \/ e \in settled \cup skipped
        \/ \E s \in exist : \E i \in 1 .. Len(segs[s]) :
             segs[s][i].ev = e /\ Replayable(s, i)

\* The inductive invariant.
IInv ==
    /\ TypeOK /\ FilesInv /\ AppendInv /\ OrderInv /\ EntryInv /\ SortedInv
    /\ AckInv /\ TailInv /\ PassedInv
    /\ TornOnlyAtTail /\ WriterNotBehindReader /\ KeptInv

-----------------------------------------------------------------------------

USE DiskQueueAssumption

\* Facts about the order of positions.
LEMMA OrderFacts ==
    /\ \A p \in Position : NotAfter(p, p)
    /\ \A p, q, r \in Position :
         /\ NotAfter(p, q) /\ NotAfter(q, r) => NotAfter(p, r)
         /\ Before(p, q) /\ NotAfter(q, r) => Before(p, r)
         /\ NotAfter(p, q) /\ Before(q, r) => Before(p, r)
         /\ ~Before(p, q) <=> NotAfter(q, p)
BY DEF Position, Seqs, NotAfter, Before

\* A position is its segment and its offset.
LEMMA PositionFacts ==
    /\ \A s \in Seqs : s \in Nat /\ s <= MaxSeq
    /\ \A p \in Position : p.seq \in Seqs /\ p.off \in Nat
    /\ \A s, o : At(s, o).seq = s /\ At(s, o).off = o
    /\ \A s \in Seqs, o \in Nat : At(s, o) \in Position
    /\ \A p, q \in Position : p.seq = q.seq /\ p.off = q.off => p = q
BY DEF Position, At, Seqs

\* What the type invariant says of single lines and entries.
LEMMA TypeFacts ==
    ASSUME TypeOK
    PROVE  /\ cursor \in Position /\ read \in Position
           /\ acked \in Position /\ target \in Position
           /\ write_seq \in Seqs /\ gc_seq \in Seqs /\ stale \in Seqs
           /\ exist \subseteq Seqs
           /\ \A s \in Seqs : segs[s] \in Seq(Line) /\ Len(segs[s]) \in Nat
           /\ \A s \in Seqs : \A i \in 1 .. Len(segs[s]) :
                segs[s][i] \in Line /\ At(s, i - 1) \in Position
           /\ in_flight \in Seq(InFlight) /\ Len(in_flight) \in Nat
           /\ \A j \in 1 .. Len(in_flight) :
                in_flight[j] \in InFlight /\ in_flight[j].start \in Position
<1>1. /\ cursor \in Position /\ read \in Position
      /\ acked \in Position /\ target \in Position
      /\ write_seq \in Seqs /\ gc_seq \in Seqs /\ stale \in Seqs
      /\ exist \subseteq Seqs /\ in_flight \in Seq(InFlight)
      /\ \A s \in Seqs : segs[s] \in Seq(Line)
  BY DEF TypeOK
<1>2. Len(in_flight) \in Nat /\ \A s \in Seqs : Len(segs[s]) \in Nat
  BY <1>1
<1>3. \A s \in Seqs : \A i \in 1 .. Len(segs[s]) : segs[s][i] \in Line
  BY <1>1, <1>2
<1>4. \A s \in Seqs : \A i \in 1 .. Len(segs[s]) : At(s, i - 1) \in Position
  BY <1>2, PositionFacts
<1>5. \A j \in 1 .. Len(in_flight) : in_flight[j] \in InFlight
  BY <1>1, <1>2
<1>6. \A x \in InFlight : x.start \in Position
  BY DEF InFlight
<1> QED
  BY <1>1, <1>2, <1>3, <1>4, <1>5, <1>6

\* The invariant holds initially.
LEMMA InitInv == Init => IInv
<1> SUFFICES ASSUME Init PROVE IInv
  OBVIOUS
<1>1. TypeOK
  BY DEF Init, TypeOK, Origin, At, Position, Seqs
<1>2. FilesInv /\ AppendInv /\ TornOnlyAtTail
  BY DEF Init, FilesInv, AppendInv, TornOnlyAtTail, Seqs
<1>3. OrderInv /\ WriterNotBehindReader
  BY DEF Init, OrderInv, WriterNotBehindReader, Origin, At, NotAfter, Seqs
<1>4. EntryInv /\ SortedInv /\ AckInv /\ TailInv /\ PassedInv /\ KeptInv
  BY DEF Init, EntryInv, SortedInv, AckInv, TailInv, PassedInv, KeptInv, Seqs
<1> QED
  BY <1>1, <1>2, <1>3, <1>4 DEF IInv

\* The variables the invariant speaks of, but for the receiver's counter.
Still == UNCHANGED <<exist, segs, cursor, write_seq, write_file, gc_seq,
                     appending, read, acked, in_flight, target, stale, sent,
                     settled, skipped>>

\* A step of the receiver's counter alone.
LEMMA StillStep ==
    ASSUME IInv, TypeOK', Still, AckInv', TailInv'
    PROVE  IInv'
<1> USE DEF IInv, Still
<1>1. FilesInv' /\ AppendInv' /\ OrderInv' /\ EntryInv' /\ SortedInv'
  BY DEF FilesInv, AppendInv, OrderInv, EntryInv, EntryOK, SortedInv, Torn
<1>2. PassedInv' /\ TornOnlyAtTail' /\ WriterNotBehindReader' /\ KeptInv'
  BY DEF PassedInv, TornOnlyAtTail, WriterNotBehindReader, KeptInv, Replayable
<1> QED
  BY <1>1, <1>2

\* The steps that move only the receiver's counter or the Notify.
LEMMA QuietSteps ==
    ASSUME IInv,
           Recv \/ NothingRead \/ CancelRecv \/ Notify \/ DropSender
             \/ UNCHANGED vars
    PROVE  IInv'
<1> USE DEF disk, shared, receiver, acking, bounds, history, vars
<1>1. CASE Recv
  <2>1. /\ Still /\ rpc' \in {"check"} /\ call' \in {"recv", "last", "try"}
        /\ UNCHANGED <<closed, owed, active, read_failed, faults, crashes, tried, handed>>
    BY <1>1 DEF Recv, Still, IInv, TypeOK
  <2>2. permit' \in BOOLEAN
    BY <1>1, Zenon DEF Recv, IInv, TypeOK
  <2>3. TypeOK'
    BY <2>1, <2>2 DEF IInv, TypeOK, Still
  <2>4. rpc \notin {"ack_delete", "ack_sync", "reread", "torn", "eof"}
    BY <1>1 DEF Recv
  <2>5. AckInv' /\ TailInv'
    BY <2>1, <2>4 DEF Still, IInv, AckInv, TailInv
  <2> QED
    BY <2>1, <2>3, <2>5, StillStep
<1>2. CASE NothingRead
  <2>1. /\ Still /\ rpc' \in {"idle", "ended", "check", "parked"} /\ call' \in {"recv", "last", "try"}
        /\ UNCHANGED <<closed, owed, active, read_failed, faults, crashes, tried, handed>>
    BY <1>2 DEF NothingRead, Still, IInv, TypeOK
  <2>2. permit' \in BOOLEAN
    BY <1>2, Zenon DEF NothingRead, IInv, TypeOK
  <2>3. TypeOK'
    BY <2>1, <2>2 DEF IInv, TypeOK, Still
  <2>4. rpc \notin {"ack_delete", "ack_sync", "reread", "torn", "eof"}
    BY <1>2 DEF NothingRead
  <2>5. AckInv' /\ TailInv'
    BY <2>1, <2>4 DEF Still, IInv, AckInv, TailInv
  <2> QED
    BY <2>1, <2>3, <2>5, StillStep
<1>3. CASE CancelRecv
  <2>1. /\ Still /\ rpc' \in {"idle"} /\ call' \in {"recv", "last", "try"}
        /\ UNCHANGED <<closed, owed, active, read_failed, faults, crashes, tried, handed>>
    BY <1>3 DEF CancelRecv, Still, IInv, TypeOK
  <2>2. permit' \in BOOLEAN
    BY <1>3, Zenon DEF CancelRecv, IInv, TypeOK
  <2>3. TypeOK'
    BY <2>1, <2>2 DEF IInv, TypeOK, Still
  <2>4. rpc \notin {"ack_delete", "ack_sync", "reread", "torn", "eof"}
    BY <1>3 DEF CancelRecv
  <2>5. AckInv' /\ TailInv'
    BY <2>1, <2>4 DEF Still, IInv, AckInv, TailInv
  <2> QED
    BY <2>1, <2>3, <2>5, StillStep
<1>4. CASE Notify
  <2>1. owed' \in Nat /\ rpc' \in {rpc, "check"} /\ Still
    BY <1>4 DEF Notify, NotifyOne, IInv, TypeOK, Still
  <2>a. permit' \in BOOLEAN /\ read_failed' \in BOOLEAN
    BY <1>4, Zenon DEF Notify, NotifyOne, IInv, TypeOK
  <2>b. UNCHANGED <<closed, call, active, faults, crashes, tried, handed>>
    BY <1>4 DEF Notify
  <2>2. TypeOK'
    BY <2>1, <2>a, <2>b DEF IInv, TypeOK, Still
  <2> QED
    BY <2>1, <2>2, StillStep DEF Still, IInv, AckInv, TailInv
<1>5. CASE DropSender
  <2>1. /\ Still /\ rpc' \in {rpc, "check"} /\ closed' = TRUE
        /\ UNCHANGED <<owed, call, active, read_failed, faults, crashes, tried, handed>>
    BY <1>5 DEF DropSender, NotifyOne, Still
  <2>2. permit' \in BOOLEAN
    BY <1>5, Zenon DEF DropSender, NotifyOne, IInv, TypeOK
  <2>3. TypeOK'
    BY <2>1, <2>2 DEF IInv, TypeOK, Still
  <2> QED
    BY <2>1, <2>3, StillStep DEF Still, IInv, AckInv, TailInv
<1>6. CASE UNCHANGED vars
  BY <1>6, StillStep DEF Still, IInv, TypeOK, AckInv, TailInv
<1> QED
  BY <1>1, <1>2, <1>3, <1>4, <1>5, <1>6

\* The mutex is taken before the second look at an unterminated line.
LEMMA InspectTailInv == IInv /\ InspectTail => IInv'
<1> SUFFICES ASSUME IInv, InspectTail PROVE IInv'
  OBVIOUS
<1> USE DEF disk, shared, receiver, acking, bounds, history
<1>1. Still /\ rpc' = "reread" /\ rpc = "torn" /\ appending = None
  BY DEF InspectTail, Still, Unlocked
<1>2. TypeOK'
  BY DEF InspectTail, IInv, TypeOK
<1>3. AckInv' /\ TailInv'
  BY <1>1 DEF Still, IInv, AckInv, TailInv
<1> QED
  BY <1>1, <1>2, <1>3, StillStep

\* A complete line is handed out.
LEMMA ReturnStep ==
    ASSUME IInv,
           read.off < Len(segs[read.seq]), segs[read.seq][read.off + 1].done,
           Return(segs[read.seq][read.off + 1]),
           UNCHANGED <<exist, segs, cursor, write_seq, write_file, gc_seq,
                       closed, appending, owed, permit, call, active, acked,
                       target, stale, faults, crashes, tried, sent, settled,
                       skipped>>,
           read_failed' = FALSE
    PROVE  IInv'
<1> DEFINE line == segs[read.seq][read.off + 1]
           entry == [start |-> read, ev |-> line.ev, acked |-> FALSE]
           n == Len(in_flight)
<1>a. /\ TypeOK /\ FilesInv /\ AppendInv /\ OrderInv /\ EntryInv /\ SortedInv
      /\ AckInv /\ TailInv /\ PassedInv
      /\ TornOnlyAtTail /\ WriterNotBehindReader /\ KeptInv
  BY DEF IInv
<1>0. /\ read.seq \in Seqs /\ read.off \in Nat /\ read \in Position
      /\ line \in Line /\ entry \in InFlight
      /\ Len(in_flight) \in Nat /\ Len(segs[read.seq]) \in Nat
  <2>1. read.seq \in Seqs /\ read.off \in Nat /\ read \in Position
    BY <1>a, TypeFacts, PositionFacts
  <2>2. Len(segs[read.seq]) \in Nat /\ Len(in_flight) \in Nat
    BY <2>1, <1>a, TypeFacts
  <2>3. read.off + 1 \in 1 .. Len(segs[read.seq])
    BY <2>1, <2>2
  <2>4. line \in Line
    BY <2>1, <2>3, <1>a, TypeFacts
  <2>5. entry \in InFlight
    BY <2>1, <2>4 DEF InFlight, Line
  <2> QED
    BY <2>1, <2>2, <2>4, <2>5
<1>1. /\ in_flight' \in Seq(InFlight)
      /\ Len(in_flight') = n + 1
      /\ \A j \in 1 .. n : in_flight'[j] = in_flight[j]
      /\ in_flight'[n + 1] = entry
  BY <1>0, <1>a, TypeFacts DEF Return
<1>2. /\ read' \in Position /\ read'.seq = read.seq
      /\ read'.off = read.off + 1
      /\ Before(read, read') /\ NotAfter(read, read')
      /\ rpc' = "idle"
  BY <1>0, PositionFacts DEF Before, NotAfter, Return
<1>3. TypeOK'
  BY <1>0, <1>1, <1>2, <1>a DEF TypeOK, Line, Return
<1> HIDE DEF entry, line, n
<1>b. /\ entry.start = read /\ entry.ev = line.ev /\ ~entry.acked
      /\ line = [ev |-> entry.ev, done |-> TRUE]
  BY <1>0 DEF entry, Line, line
<1>c. n \in Nat /\ \A j \in 1 .. n + 1 : j \in 1 .. n \/ j = n + 1
  BY <1>0 DEF n
<1>4. FilesInv' /\ TornOnlyAtTail' /\ KeptInv'
  BY <1>a DEF FilesInv, TornOnlyAtTail, KeptInv, Replayable
<1>5. AppendInv'
  <2>1. ASSUME appending # None
        PROVE  NotAfter(read', At(write_seq, Len(segs[write_seq]) - 1))
    <3>1. /\ segs[write_seq] # <<>>
          /\ ~segs[write_seq][Len(segs[write_seq])].done
          /\ NotAfter(read, At(write_seq, Len(segs[write_seq]) - 1))
      BY <2>1, <1>a DEF AppendInv
    <3>2. write_seq \in Seqs /\ Len(segs[write_seq]) \in Nat
      BY <1>a, TypeFacts
    <3>3. ~(read.seq = write_seq /\ read.off + 1 = Len(segs[write_seq]))
      BY <3>1
    <3> QED
      BY <3>1, <3>2, <3>3, <1>0, <1>2 DEF NotAfter, At, Seqs
  <2> QED
    BY <2>1, <1>a DEF AppendInv, Torn
<1>6. OrderInv'
  BY <1>a, <1>0, <1>2, OrderFacts, TypeFacts DEF OrderInv
<1>7. EntryInv'
  <2> SUFFICES ASSUME NEW j \in 1 .. n + 1
               PROVE  EntryOK(in_flight[j])'
    BY <1>1 DEF EntryInv
  <2>1. CASE j \in 1 .. n
    <3>1. in_flight'[j] = in_flight[j] /\ in_flight[j].start \in Position
      BY <2>1, <1>1, <1>a, TypeFacts DEF n
    <3>2. EntryOK(in_flight[j])
      BY <2>1, <1>a DEF EntryInv, n
    <3> QED
      BY <3>1, <3>2, <1>0, <1>2, OrderFacts DEF EntryOK
  <2>2. CASE j = n + 1
    BY <2>2, <1>a, <1>0, <1>1, <1>2, <1>b DEF EntryOK, OrderInv, line
  <2> QED
    BY <2>1, <2>2, <1>c
<1>8. SortedInv'
  <2> SUFFICES ASSUME NEW i \in 1 .. n + 1, NEW j \in 1 .. n + 1, i < j
               PROVE  Before(in_flight'[i].start, in_flight'[j].start)
    BY <1>1 DEF SortedInv
  <2>1. i \in 1 .. n
    BY <1>c
  <2>2. CASE j \in 1 .. n
    BY <2>1, <2>2, <1>1, <1>a DEF SortedInv, n
  <2>3. CASE j = n + 1
    BY <2>1, <2>3, <1>1, <1>a, <1>b DEF EntryInv, EntryOK, n
  <2> QED
    BY <2>2, <2>3, <1>c
<1>9. AckInv' /\ TailInv'
  BY <1>2 DEF AckInv, TailInv
<1>10. PassedInv'
  <2> SUFFICES ASSUME NEW s \in Seqs, NEW i \in 1 .. Len(segs[s]),
                      segs[s][i].done, Before(At(s, i - 1), read')
               PROVE  \/ segs[s][i].ev \in settled \cup skipped
                      \/ \E j \in 1 .. n + 1 :
                           in_flight'[j].start = At(s, i - 1)
    BY <1>1 DEF PassedInv
  <2>1. CASE Before(At(s, i - 1), read)
    BY <2>1, <1>a, <1>1, <1>c DEF PassedInv, n
  <2>2. CASE ~Before(At(s, i - 1), read)
    <3>1. At(s, i - 1) \in Position
      BY <1>a, TypeFacts
    <3>2. At(s, i - 1) = read
      BY <3>1, <2>2, <1>0, <1>2, PositionFacts DEF Before
    <3> QED
      BY <3>2, <1>1, <1>b, <1>c
  <2> QED
    BY <2>1, <2>2
<1>11. WriterNotBehindReader'
  <2>1. write_seq \in Seqs /\ Len(segs[write_seq]) \in Nat
    BY <1>a, TypeFacts
  <2> QED
    BY <2>1, <1>a, <1>0, <1>2, PositionFacts DEF WriterNotBehindReader, NotAfter
<1> QED
  BY <1>3, <1>4, <1>5, <1>6, <1>7, <1>8, <1>9, <1>10, <1>11 DEF IInv

\* The first look at the segment.
LEMMA ReadLineInv == IInv /\ ReadLine => IInv'
<1> SUFFICES ASSUME IInv, ReadLine PROVE IInv'
  OBVIOUS
<1> USE DEF disk, shared, receiver, acking, bounds, history
<1>1. CASE /\ rpc' \in {"missing", "eof", "torn"}
           /\ UNCHANGED <<read, in_flight, handed>>
           /\ rpc' = "torn" => /\ read.seq \in exist
                               /\ read.off < Len(segs[read.seq])
  <2>1. Still
    BY <1>1 DEF ReadLine, Still
  <2>2. TypeOK'
    BY <1>1 DEF ReadLine, IInv, TypeOK
  <2> QED
    BY <1>1, <2>1, <2>2, StillStep DEF Still, AckInv, TailInv
<1>2. CASE /\ read.off < Len(segs[read.seq])
           /\ segs[read.seq][read.off + 1].done
           /\ Return(segs[read.seq][read.off + 1])
  BY <1>2, ReturnStep DEF ReadLine
<1> QED
  BY <1>1, <1>2 DEF ReadLine

\* A look that fails moves only the receiver's counter.
LEMMA FailedLookInv ==
    ASSUME IInv, ReadFails \/ LookupFails
    PROVE  IInv'
<1> USE DEF disk, shared, receiver, acking, bounds, history
<1>1. /\ Still /\ rpc' \in {"none", "missing"} /\ faults' = faults + 1
      /\ read_failed' = TRUE
      /\ UNCHANGED <<closed, owed, permit, call, active, crashes, tried, handed>>
  BY DEF ReadFails, LookupFails, Fault, Still
<1>2. TypeOK'
  BY <1>1 DEF Still, IInv, TypeOK
<1> QED
  BY <1>1, <1>2, StillStep DEF AckInv, TailInv

\* The reader moves on, leaving what it did not read to skipped.
LEMMA NextSegmentInv == IInv /\ NextSegment => IInv'
<1> SUFFICES ASSUME IInv, NextSegment PROVE IInv'
  OBVIOUS
<1> USE DEF disk, shared, receiver, acking, bounds, history
<1>a. /\ TypeOK /\ FilesInv /\ AppendInv /\ OrderInv /\ EntryInv /\ SortedInv
      /\ AckInv /\ TailInv /\ PassedInv
      /\ TornOnlyAtTail /\ WriterNotBehindReader /\ KeptInv
  BY DEF IInv
<1>1. CASE rpc' = "none" /\ UNCHANGED <<read, skipped>>
  <2>1. Still
    BY <1>1 DEF NextSegment, Still
  <2>2. TypeOK'
    BY <1>1, <1>a DEF NextSegment, TypeOK
  <2> QED
    BY <1>1, <2>1, <2>2, StillStep DEF Still, AckInv, TailInv
<1>2. CASE /\ read.seq < write_seq /\ read' = At(read.seq + 1, 0)
           /\ skipped' = skipped \cup Unread /\ rpc' = "check"
  <2>0. /\ read.seq \in Seqs /\ read.off \in Nat /\ read \in Position
        /\ write_seq \in Seqs /\ Len(segs[write_seq]) \in Nat
        /\ Len(segs[read.seq]) \in Nat
    BY <1>a, TypeFacts, PositionFacts
  <2>1. /\ read' \in Position /\ read'.seq = read.seq + 1 /\ read'.off = 0
        /\ NotAfter(read, read')
    BY <1>2, <2>0 DEF At, Position, Seqs, NotAfter
  <2>2. Unread \subseteq Events
    BY <2>0, <1>a, TypeFacts DEF Unread, Line
  <2>3. TypeOK'
    BY <1>2, <2>1, <2>2, <1>a DEF NextSegment, TypeOK
  <2>4. /\ UNCHANGED <<exist, segs, cursor, write_seq, write_file, gc_seq,
                       appending, acked, in_flight, target, stale, sent,
                       settled>>
        /\ appending = None
    BY DEF NextSegment, Unlocked
  <2>5. FilesInv' /\ AppendInv' /\ SortedInv' /\ TornOnlyAtTail'
    BY <2>4, <1>a DEF FilesInv, AppendInv, SortedInv, TornOnlyAtTail, Torn
  <2>6. OrderInv'
    BY <1>a, <2>0, <2>1, <2>4, OrderFacts, TypeFacts DEF OrderInv
  <2>7. EntryInv'
    <3> SUFFICES ASSUME NEW j \in 1 .. Len(in_flight)
                 PROVE  EntryOK(in_flight[j])'
      BY <2>4 DEF EntryInv
    <3>1. EntryOK(in_flight[j]) /\ in_flight[j].start \in Position
      BY <1>a, TypeFacts DEF EntryInv
    <3> QED
      BY <3>1, <2>0, <2>1, <2>4, OrderFacts DEF EntryOK
  <2>8. AckInv' /\ TailInv'
    BY <1>2 DEF AckInv, TailInv
  <2>9. PassedInv'
    <3> SUFFICES ASSUME NEW s \in Seqs, NEW i \in 1 .. Len(segs[s]),
                        segs[s][i].done, Before(At(s, i - 1), read')
                 PROVE  \/ segs[s][i].ev \in settled \cup skipped'
                        \/ \E j \in 1 .. Len(in_flight) :
                             in_flight[j].start = At(s, i - 1)
      BY <2>4 DEF PassedInv
    <3>1. CASE Before(At(s, i - 1), read)
      BY <3>1, <1>a, <1>2 DEF PassedInv
    <3>2. CASE ~Before(At(s, i - 1), read)
      <4>1. s = read.seq /\ i > read.off
        <5>1. Len(segs[s]) \in Nat /\ i \in Nat
          BY <1>a, TypeFacts
        <5> QED
          BY <5>1, <3>2, <2>0, <2>1 DEF At, Before, Seqs
      <4>2. segs[s][i].ev \in Unread
        BY <4>1 DEF Unread
      <4> QED
        BY <4>2, <1>2
    <3> QED
      BY <3>1, <3>2
  <2>10. WriterNotBehindReader'
    BY <1>2, <2>0, <2>1, <2>4 DEF WriterNotBehindReader, NotAfter, At, Seqs
  <2>11. KeptInv'
    BY <1>2, <2>4, <1>a DEF KeptInv, Replayable
  <2> QED
    BY <2>3, <2>5, <2>6, <2>7, <2>8, <2>9, <2>10, <2>11 DEF IInv
<1> QED
  BY <1>1, <1>2 DEF NextSegment

\* The second look: hand the line out, leave it, or skip it as corrupt.
LEMMA RereadInv == IInv /\ Reread => IInv'
<1> SUFFICES ASSUME IInv, Reread PROVE IInv'
  OBVIOUS
<1> USE DEF disk, shared, receiver, acking, bounds, history
<1> DEFINE line == segs[read.seq][read.off + 1]
<1>a. /\ TypeOK /\ FilesInv /\ AppendInv /\ OrderInv /\ EntryInv /\ SortedInv
      /\ AckInv /\ TailInv /\ PassedInv
      /\ TornOnlyAtTail /\ WriterNotBehindReader /\ KeptInv
  BY DEF IInv
<1>b. rpc = "reread" /\ read.off < Len(segs[read.seq])
  BY <1>a DEF Reread, TailInv
<1>1. CASE line.done /\ Return(line)
  BY <1>1, <1>b, ReturnStep DEF Reread
<1>2. CASE rpc' = "none" /\ UNCHANGED <<read, in_flight, handed>>
  <2>1. Still
    BY <1>2 DEF Reread, Still
  <2>2. TypeOK'
    BY <1>2, <1>a DEF Reread, TypeOK
  <2> QED
    BY <1>2, <2>1, <2>2, StillStep DEF Still, AckInv, TailInv
<1>3. CASE /\ ~line.done /\ read' = At(read.seq, read.off + 1)
           /\ rpc' = "check" /\ UNCHANGED <<in_flight, handed>>
  <2>0. /\ read.seq \in Seqs /\ read.off \in Nat /\ read \in Position
        /\ write_seq \in Seqs /\ Len(segs[write_seq]) \in Nat
        /\ Len(segs[read.seq]) \in Nat
    BY <1>a, TypeFacts, PositionFacts
  <2>1. /\ read' \in Position /\ read'.seq = read.seq
        /\ read'.off = read.off + 1 /\ NotAfter(read, read')
    BY <1>3, <2>0 DEF At, Position, Seqs, NotAfter
  <2>2. TypeOK'
    BY <1>3, <2>1, <1>a DEF Reread, TypeOK
  <2>3. UNCHANGED <<exist, segs, cursor, write_seq, write_file, gc_seq,
                    appending, acked, in_flight, target, stale, sent,
                    settled, skipped>>
    BY <1>3 DEF Reread
  <2>4. FilesInv' /\ SortedInv' /\ TornOnlyAtTail' /\ KeptInv'
    BY <2>3, <1>a DEF FilesInv, SortedInv, TornOnlyAtTail, KeptInv, Replayable
  <2>5. AppendInv'
    <3>1. ASSUME appending # None
          PROVE  NotAfter(read', At(write_seq, Len(segs[write_seq]) - 1))
      <4>1. read.seq # write_seq
        BY <3>1, <1>3, <1>b, <1>a DEF TailInv
      <4>2. read.seq <= write_seq
        BY <1>a, <2>0 DEF WriterNotBehindReader, NotAfter, At, Seqs
      <4> QED
        BY <4>1, <4>2, <2>0, <2>1 DEF NotAfter, At, Seqs
    <3> QED
      BY <3>1, <2>3, <1>a DEF AppendInv, Torn
  <2>6. OrderInv'
    BY <1>a, <2>0, <2>1, <2>3, OrderFacts, TypeFacts DEF OrderInv
  <2>7. EntryInv'
    <3> SUFFICES ASSUME NEW j \in 1 .. Len(in_flight)
                 PROVE  EntryOK(in_flight[j])'
      BY <2>3 DEF EntryInv
    <3>1. EntryOK(in_flight[j]) /\ in_flight[j].start \in Position
      BY <1>a, TypeFacts DEF EntryInv
    <3> QED
      BY <3>1, <2>0, <2>1, <2>3, OrderFacts DEF EntryOK
  <2>8. AckInv' /\ TailInv'
    BY <1>3 DEF AckInv, TailInv
  <2>9. PassedInv'
    <3> SUFFICES ASSUME NEW s \in Seqs, NEW i \in 1 .. Len(segs[s]),
                        segs[s][i].done, Before(At(s, i - 1), read')
                 PROVE  \/ segs[s][i].ev \in settled \cup skipped
                        \/ \E j \in 1 .. Len(in_flight) :
                             in_flight[j].start = At(s, i - 1)
      BY <2>3 DEF PassedInv
    <3>1. CASE Before(At(s, i - 1), read)
      BY <3>1, <1>a DEF PassedInv
    <3>2. CASE ~Before(At(s, i - 1), read)
      <4>1. Len(segs[s]) \in Nat /\ i \in Nat
        BY <1>a, TypeFacts
      <4>2. s = read.seq /\ i = read.off + 1
        BY <4>1, <3>2, <2>0, <2>1 DEF At, Before, Seqs
      <4> QED
        BY <4>2, <1>3
    <3> QED
      BY <3>1, <3>2
  <2>10. WriterNotBehindReader'
    BY <1>a, <1>b, <2>0, <2>1, <2>3
       DEF WriterNotBehindReader, NotAfter, At, Seqs
  <2> QED
    BY <2>2, <2>4, <2>5, <2>6, <2>7, <2>8, <2>9, <2>10 DEF IInv
<1> QED
  BY <1>1, <1>2, <1>3 DEF Reread

\* Marking one entry and popping the acked prefix of length k.
LEMMA AckToInv ==
    ASSUME IInv, NEW j \in 1 .. Len(in_flight), AckTo(j)
    PROVE  IInv'
<1> USE DEF disk, shared, receiver, acking, bounds, history
<1> DEFINE n == Len(in_flight)
           marked == [in_flight EXCEPT ![j].acked = TRUE]
<1>a. /\ TypeOK /\ FilesInv /\ AppendInv /\ OrderInv /\ EntryInv /\ SortedInv
      /\ AckInv /\ TailInv /\ PassedInv
      /\ TornOnlyAtTail /\ WriterNotBehindReader /\ KeptInv
  BY DEF IInv
<1>b. n \in Nat /\ in_flight \in Seq(InFlight)
      /\ \A i \in 1 .. n : in_flight[i] \in InFlight
  BY <1>a, TypeFacts
<1>c. /\ marked \in Seq(InFlight) /\ Len(marked) = n
      /\ \A i \in 1 .. n :
           /\ marked[i] \in InFlight
           /\ marked[i].start = in_flight[i].start
           /\ marked[i].ev = in_flight[i].ev
           /\ marked[i].acked => i = j \/ in_flight[i].acked
  <2>1. in_flight[j] \in InFlight
    BY <1>b
  <2>2. [in_flight[j] EXCEPT !.acked = TRUE] \in InFlight
    BY <2>1 DEF InFlight
  <2>3. marked \in Seq(InFlight) /\ Len(marked) = n
    BY <2>2, <1>b, ExceptSeq
  <2>4. \A i \in 1 .. n : marked[i] = IF i = j
                                      THEN [in_flight[j] EXCEPT !.acked = TRUE]
                                      ELSE in_flight[i]
    BY <1>b, ExceptSeq
  <2> HIDE DEF marked
  <2> QED
    BY <2>1, <2>2, <2>3, <2>4, <1>b DEF InFlight
<1>1. PICK k \in 0 .. Len(marked) :
        /\ \A i \in 1 .. k : marked[i].acked
        /\ in_flight' = SubSeq(marked, k + 1, Len(marked))
        /\ \/ k = 0 /\ UNCHANGED <<rpc, target, stale>>
           \/ /\ k > 0 /\ target' = EndOf(marked[k])
              /\ stale' = acked.seq /\ rpc' = "ack_delete"
  BY DEF AckTo
<1> HIDE DEF marked
<1>2. k \in 0 .. n
  BY <1>c
<1>3. /\ in_flight' \in Seq(InFlight) /\ Len(in_flight') = n - k
      /\ \A i \in 1 .. n - k : in_flight'[i] = marked[k + i]
  <2>1. k + 1 \in 1 .. n + 1 /\ n \in k .. n
    BY <1>b, <1>2
  <2> QED
    BY <2>1, <1>1, <1>2, <1>b, <1>c, SubSeqProperties
<1>4. /\ UNCHANGED <<exist, segs, cursor, write_seq, write_file, gc_seq, closed,
                     appending, owed, permit, call, active, read, acked, sent,
                     faults, crashes, tried, handed, skipped,
                     read_failed>>
      /\ settled' = settled \cup {in_flight[j].ev}
      /\ rpc = "idle"
  BY DEF AckTo
<1>5. \A i \in 1 .. n : marked[i].acked => marked[i].ev \in settled'
  BY <1>a, <1>b, <1>c, <1>4 DEF EntryInv, EntryOK
<1>6. \A i \in 1 .. n : /\ EntryOK(in_flight[i])
                         /\ in_flight[i].start \in Position
  BY <1>a, TypeFacts DEF EntryInv
<1>7. EntryInv'
  <2> SUFFICES ASSUME NEW i \in 1 .. n - k
               PROVE  EntryOK(in_flight[i])'
    BY <1>3 DEF EntryInv
  <2>1. k + i \in 1 .. n
    BY <1>b, <1>2
  <2>2. /\ in_flight'[i].start = in_flight[k + i].start
        /\ in_flight'[i].ev = in_flight[k + i].ev
        /\ in_flight'[i].acked => in_flight'[i].ev \in settled'
    BY <2>1, <1>3, <1>c, <1>5
  <2>3. EntryOK(in_flight[k + i])
    BY <2>1, <1>6
  <2> QED
    BY <2>2, <2>3, <1>4 DEF EntryOK
<1>8. SortedInv'
  <2> SUFFICES ASSUME NEW x \in 1 .. n - k, NEW y \in 1 .. n - k, x < y
               PROVE  Before(in_flight'[x].start, in_flight'[y].start)
    BY <1>3 DEF SortedInv
  <2>1. k + x \in 1 .. n /\ k + y \in 1 .. n /\ k + x < k + y
    BY <1>b, <1>2
  <2> QED
    BY <2>1, <1>3, <1>c, <1>a DEF SortedInv
<1>9. PassedInv'
  <2> SUFFICES ASSUME NEW s \in Seqs, NEW i \in 1 .. Len(segs[s]),
                      segs[s][i].done, Before(At(s, i - 1), read)
               PROVE  \/ segs[s][i].ev \in settled' \cup skipped
                      \/ \E x \in 1 .. n - k :
                           in_flight'[x].start = At(s, i - 1)
    BY <1>3, <1>4 DEF PassedInv
  <2>1. CASE segs[s][i].ev \in settled \cup skipped
    BY <2>1, <1>4
  <2>2. ASSUME NEW x \in 1 .. n, in_flight[x].start = At(s, i - 1)
        PROVE  \/ segs[s][i].ev \in settled'
               \/ \E y \in 1 .. n - k : in_flight'[y].start = At(s, i - 1)
    <3>1. CASE x <= k
      <4>1. in_flight[x].ev \in settled'
        BY <3>1, <1>1, <1>5, <1>c
      <4>2. Len(segs[s]) \in Nat /\ i \in Nat /\ (i - 1) + 1 = i
        BY <1>a, TypeFacts
      <4>3. segs[s][i] = [ev |-> in_flight[x].ev, done |-> TRUE]
        BY <2>2, <4>2, <1>6 DEF EntryOK, At
      <4> QED
        BY <4>1, <4>3
    <3>2. CASE x > k
      <4>1. x - k \in 1 .. n - k /\ k + (x - k) = x
        BY <3>2, <1>b, <1>2
      <4>2. in_flight'[x - k].start = At(s, i - 1)
        BY <4>1, <1>3, <1>c, <2>2
      <4> QED
        BY <4>1, <4>2
    <3> QED
      BY <3>1, <3>2, <1>2, <1>b
  <2> QED
    BY <2>1, <2>2, <1>a DEF PassedInv
<1>10. CASE k = 0 /\ UNCHANGED <<rpc, target, stale>>
  <2>1. TypeOK'
    <3>1. settled' \in SUBSET Events
      BY <1>4, <1>b, <1>a DEF TypeOK, InFlight
    <3> QED
      BY <3>1, <1>10, <1>3, <1>4, <1>a DEF TypeOK
  <2>2. AckInv' /\ TailInv'
    BY <1>10, <1>4 DEF AckInv, TailInv
  <2>3. FilesInv' /\ AppendInv' /\ OrderInv' /\ TornOnlyAtTail'
    BY <1>a, <1>4 DEF FilesInv, AppendInv, OrderInv, TornOnlyAtTail, Torn
  <2>4. WriterNotBehindReader' /\ KeptInv'
    BY <1>a, <1>4 DEF WriterNotBehindReader, KeptInv, Replayable
  <2> QED
    BY <2>1, <2>2, <2>3, <2>4, <1>7, <1>8, <1>9 DEF IInv
<1>11. CASE /\ k > 0 /\ target' = EndOf(marked[k])
            /\ stale' = acked.seq /\ rpc' = "ack_delete"
  <2>0. k \in 1 .. n
    BY <1>11, <1>2, <1>b
  <2> DEFINE p == in_flight[k].start
  <2>1. /\ p \in Position /\ p.seq \in Seqs /\ p.off \in Nat
        /\ EntryOK(in_flight[k])
    BY <2>0, <1>6, PositionFacts
  <2>2. /\ target'.seq = p.seq /\ target'.off = p.off + 1
        /\ target' \in Position
    BY <2>0, <2>1, <1>11, <1>c, PositionFacts DEF EndOf, At
  <2> HIDE DEF p
  <2>3. TypeOK'
    <3>1. settled' \in SUBSET Events
      BY <1>4, <1>b, <1>a DEF TypeOK, InFlight
    <3>2. stale' \in Seqs
      BY <1>11, <1>a, TypeFacts, PositionFacts
    <3> QED
      BY <3>1, <3>2, <2>2, <1>11, <1>3, <1>4, <1>a DEF TypeOK
  <2>4. AckInv'
    <3>1. /\ acked \in Position /\ read \in Position
          /\ acked.seq \in Seqs /\ acked.off \in Nat
          /\ read.seq \in Seqs /\ read.off \in Nat
      BY <1>a, TypeFacts, PositionFacts
    <3>2. /\ NotAfter(acked, p) /\ Before(p, read)
          /\ p.off < Len(segs[p.seq])
      BY <2>1 DEF EntryOK, p
    <3>3. NotAfter(acked, target') /\ NotAfter(target', read)
      BY <3>1, <3>2, <2>1, <2>2 DEF NotAfter, Before, Seqs
    <3>4. Len(segs[p.seq]) \in Nat
      BY <2>1, <1>a, TypeFacts
    <3>5. p.seq \in exist /\ target'.off <= Len(segs[p.seq])
      BY <3>2, <3>4, <2>1, <2>2, <1>a DEF FilesInv
    <3>6. stale' <= target'.seq
      BY <3>3, <3>1, <2>1, <2>2, <1>11 DEF NotAfter, Seqs
    <3>7. ASSUME NEW i \in 1 .. n - k
          PROVE  NotAfter(target', in_flight'[i].start)
      <4>1. k + i \in 1 .. n /\ k < k + i
        BY <1>b, <1>2, <2>0
      <4>2. Before(p, in_flight[k + i].start)
        BY <4>1, <2>0, <1>a DEF SortedInv, p
      <4>3. in_flight'[i].start = in_flight[k + i].start
        BY <4>1, <1>3, <1>c
      <4>4. /\ in_flight[k + i].start.seq \in Seqs
            /\ in_flight[k + i].start.off \in Nat
        BY <4>1, <1>6, PositionFacts
      <4> QED
        BY <4>2, <4>3, <4>4, <2>1, <2>2 DEF Before, NotAfter, Seqs
    <3> QED
      BY <3>3, <3>5, <3>6, <3>7, <2>2, <1>3, <1>4 DEF AckInv
  <2>5. TailInv' /\ FilesInv' /\ AppendInv' /\ OrderInv' /\ TornOnlyAtTail'
    BY <1>a, <1>4, <1>11
       DEF TailInv, FilesInv, AppendInv, OrderInv, TornOnlyAtTail, Torn
  <2>6. WriterNotBehindReader' /\ KeptInv'
    BY <1>a, <1>4 DEF WriterNotBehindReader, KeptInv, Replayable
  <2> QED
    BY <2>3, <2>4, <2>5, <2>6, <1>7, <1>8, <1>9 DEF IInv
<1> QED
  BY <1>1, <1>10, <1>11

\* What lies before a position that the reader has passed and that no entry
\* in flight precedes is settled or was skipped.
LEMMA PassedSettled ==
    ASSUME IInv, NEW p \in Position, NotAfter(p, read),
           \A j \in 1 .. Len(in_flight) : NotAfter(p, in_flight[j].start),
           NEW s \in Seqs, NEW i \in 1 .. Len(segs[s]),
           segs[s][i].done, Before(At(s, i - 1), p)
    PROVE  segs[s][i].ev \in settled \cup skipped
<1>1. /\ At(s, i - 1) \in Position /\ read \in Position
      /\ \A j \in 1 .. Len(in_flight) : in_flight[j].start \in Position
  BY TypeFacts DEF IInv
<1>2. Before(At(s, i - 1), read)
  BY <1>1, OrderFacts
<1>3. \A j \in 1 .. Len(in_flight) : in_flight[j].start # At(s, i - 1)
  BY <1>1, OrderFacts
<1> QED
  BY <1>2, <1>3 DEF IInv, PassedInv

\* A consumed segment is removed, or not.
LEMMA AckDeleteInv == IInv /\ AckDelete => IInv'
<1> SUFFICES ASSUME IInv, AckDelete PROVE IInv'
  OBVIOUS
<1> USE DEF disk, shared, receiver, acking, bounds, history
<1>a. /\ TypeOK /\ FilesInv /\ AppendInv /\ OrderInv /\ EntryInv /\ SortedInv
      /\ AckInv /\ TailInv /\ PassedInv
      /\ TornOnlyAtTail /\ WriterNotBehindReader /\ KeptInv
  BY DEF IInv
<1>b. /\ cursor \in Position /\ acked \in Position /\ read \in Position
      /\ target \in Position /\ write_seq \in Seqs /\ gc_seq \in Seqs
      /\ stale \in Seqs /\ exist \subseteq Seqs
      /\ \A t \in Seqs : Len(segs[t]) \in Nat
      /\ acked.seq \in Seqs /\ read.seq \in Seqs /\ target.seq \in Seqs
  BY <1>a, TypeFacts, PositionFacts
<1>c. /\ UNCHANGED <<cursor, write_seq, write_file, gc_seq, closed, appending,
                     owed, permit, rpc, call, active, read, acked, in_flight,
                     target, crashes, tried, sent, handed, settled, skipped,
                     read_failed>>
      /\ rpc = "ack_delete" /\ stale < target.seq /\ stale' = stale + 1
  BY DEF AckDelete
<1>d. /\ NotAfter(acked, target) /\ NotAfter(target, read)
      /\ target.seq \in exist /\ target.off <= Len(segs[target.seq])
      /\ \A j \in 1 .. Len(in_flight) : NotAfter(target, in_flight[j].start)
  BY <1>c, <1>a DEF AckInv
<1>e. stale' \in Seqs /\ stale' <= target.seq
  BY <1>b, <1>c DEF Seqs
<1>f. stale < write_seq
  <2>1. read.seq <= write_seq
    BY <1>a, <1>b DEF WriterNotBehindReader, NotAfter, At, Seqs
  <2> QED
    BY <2>1, <1>b, <1>c, <1>d DEF NotAfter, Seqs
<1>1. CASE UNCHANGED <<exist, segs>> /\ Fault
  <2>1. TypeOK'
    BY <1>1, <1>a, <1>c, <1>e DEF TypeOK, Fault
  <2>2. FilesInv' /\ AppendInv' /\ OrderInv' /\ EntryInv' /\ SortedInv'
    BY <1>1, <1>a, <1>c
       DEF FilesInv, AppendInv, OrderInv, EntryInv, EntryOK, SortedInv, Torn
  <2>3. AckInv' /\ TailInv'
    BY <1>1, <1>c, <1>d, <1>e DEF AckInv, TailInv
  <2>4. PassedInv' /\ TornOnlyAtTail' /\ WriterNotBehindReader' /\ KeptInv'
    BY <1>1, <1>a, <1>c
       DEF PassedInv, TornOnlyAtTail, WriterNotBehindReader, KeptInv, Replayable
  <2> QED
    BY <2>1, <2>2, <2>3, <2>4 DEF IInv
<1>2. CASE Delete({stale}) /\ UNCHANGED faults
  <2>1. /\ exist' = exist \ {stale}
        /\ segs' \in [Seqs -> Seq(Line)]
        /\ \A t \in Seqs : segs'[t] = IF t = stale THEN <<>> ELSE segs[t]
    BY <1>2, <1>a, TypeFacts DEF Delete
  <2>2. TypeOK'
    BY <1>2, <2>1, <1>a, <1>c, <1>e DEF TypeOK
  <2>3. FilesInv' /\ AppendInv' /\ WriterNotBehindReader'
    <3>1. write_seq # stale /\ segs'[write_seq] = segs[write_seq]
      BY <2>1, <1>b, <1>f DEF Seqs
    <3>2. FilesInv'
      BY <3>1, <2>1, <1>a, <1>b, <1>c DEF FilesInv
    <3>3. AppendInv' /\ WriterNotBehindReader'
      BY <3>1, <1>a, <1>c DEF AppendInv, WriterNotBehindReader, Torn
    <3> QED
      BY <3>2, <3>3
  <2>4. OrderInv'
    <3>1. target.seq \in exist' /\ segs'[target.seq] = segs[target.seq]
      BY <2>1, <1>b, <1>c, <1>d DEF Seqs
    <3>2. NotAfter(cursor, target)
      BY <1>a, <1>b, <1>d, OrderFacts DEF OrderInv
    <3>3. NotAfter(target, At(target.seq, Len(segs[target.seq])))
      BY <1>d DEF NotAfter, At
    <3>4. At(target.seq, Len(segs[target.seq])) \in Position
      BY <1>b, PositionFacts
    <3>5. NotAfter(cursor, At(target.seq, Len(segs[target.seq])))
      BY <3>2, <3>3, <3>4, <1>b, OrderFacts
    <3> QED
      BY <3>1, <3>5, <1>a, <1>c DEF OrderInv
  <2>5. EntryInv'
    <3> SUFFICES ASSUME NEW j \in 1 .. Len(in_flight)
                 PROVE  EntryOK(in_flight[j])'
      BY <1>c DEF EntryInv
    <3>1. /\ EntryOK(in_flight[j]) /\ in_flight[j].start.seq \in Seqs
          /\ NotAfter(target, in_flight[j].start)
      BY <1>a, <1>d, TypeFacts, PositionFacts DEF EntryInv
    <3>2. in_flight[j].start.seq # stale
      BY <3>1, <1>b, <1>c DEF NotAfter, Seqs
    <3> QED
      BY <3>1, <3>2, <2>1, <1>c DEF EntryOK
  <2>6. SortedInv' /\ TailInv'
    BY <1>a, <1>c DEF SortedInv, TailInv
  <2>7. AckInv'
    BY <2>1, <1>b, <1>c, <1>d, <1>e DEF AckInv, Seqs
  <2>8. PassedInv' /\ TornOnlyAtTail'
    <3>1. \A t \in Seqs : \A i \in 1 .. Len(segs'[t]) :
             t # stale /\ segs'[t] = segs[t]
      BY <2>1
    <3> QED
      BY <3>1, <1>a, <1>c DEF PassedInv, TornOnlyAtTail
  <2>9. KeptInv'
    <3> SUFFICES ASSUME NEW e \in sent, e \notin settled \cup skipped
                 PROVE  \E s \in exist' : \E i \in 1 .. Len(segs'[s]) :
                          segs'[s][i].ev = e /\ Replayable(s, i)'
      BY <1>c DEF KeptInv
    <3>1. PICK s \in exist : \E i \in 1 .. Len(segs[s]) :
                 segs[s][i].ev = e /\ Replayable(s, i)
      BY <1>a DEF KeptInv
    <3>2. PICK i \in 1 .. Len(segs[s]) :
                 segs[s][i].ev = e /\ Replayable(s, i)
      BY <3>1
    <3>3. s \in Seqs /\ Len(segs[s]) \in Nat
      BY <1>b
    <3>4. ~Before(At(s, i - 1), target)
      BY <3>2, <3>3, <1>b, <1>d, PassedSettled DEF Replayable
    <3>5. s # stale
      BY <3>4, <1>b, <1>c DEF Before, At
    <3> QED
      BY <3>2, <3>3, <3>5, <2>1, <1>c DEF Replayable
  <2> QED
    BY <2>2, <2>3, <2>4, <2>5, <2>6, <2>7, <2>8, <2>9 DEF IInv
<1> QED
  BY <1>1, <1>2 DEF AckDelete

\* The cursor is saved, or not.
LEMMA AckSaveInv == IInv /\ AckSave => IInv'
<1> SUFFICES ASSUME IInv, AckSave PROVE IInv'
  OBVIOUS
<1> USE DEF disk, shared, receiver, acking, bounds, history
<1>a. /\ TypeOK /\ FilesInv /\ AppendInv /\ OrderInv /\ EntryInv /\ SortedInv
      /\ AckInv /\ TailInv /\ PassedInv
      /\ TornOnlyAtTail /\ WriterNotBehindReader /\ KeptInv
  BY DEF IInv
<1>b. /\ cursor \in Position /\ acked \in Position /\ read \in Position
      /\ target \in Position /\ write_seq \in Seqs /\ gc_seq \in Seqs
      /\ stale \in Seqs /\ exist \subseteq Seqs
      /\ \A t \in Seqs : Len(segs[t]) \in Nat
      /\ acked.seq \in Seqs /\ read.seq \in Seqs /\ target.seq \in Seqs
  BY <1>a, TypeFacts, PositionFacts
<1>c. /\ UNCHANGED <<exist, segs, write_seq, write_file, gc_seq, closed,
                     appending, owed, permit, call, active, read, in_flight,
                     target, stale, crashes, tried, sent, handed, settled,
                     skipped,
                     read_failed>>
      /\ rpc = "ack_delete" /\ acked' = target /\ rpc' = "ack_sync"
      /\ cursor' \in {target, cursor} /\ (faults' = faults \/ Fault)
  BY DEF AckSave
<1>d. /\ NotAfter(acked, target) /\ NotAfter(target, read)
      /\ target.seq \in exist /\ target.off <= Len(segs[target.seq])
      /\ \A j \in 1 .. Len(in_flight) : NotAfter(target, in_flight[j].start)
  BY <1>c, <1>a DEF AckInv
<1>1. TypeOK'
  BY <1>a, <1>b, <1>c DEF TypeOK, Fault
<1>2. FilesInv' /\ AppendInv' /\ SortedInv' /\ TornOnlyAtTail'
  BY <1>a, <1>c DEF FilesInv, AppendInv, SortedInv, TornOnlyAtTail, Torn
<1>3. AckInv' /\ TailInv' /\ WriterNotBehindReader' /\ PassedInv'
  BY <1>a, <1>c DEF AckInv, TailInv, WriterNotBehindReader, PassedInv
<1>4. OrderInv'
  <2>1. gc_seq <= target.seq
    BY <1>a, <1>b, <1>d DEF OrderInv, NotAfter, Seqs
  <2>2. NotAfter(cursor', target)
    BY <1>a, <1>b, <1>c, <1>d, OrderFacts DEF OrderInv
  <2>3. NotAfter(target, At(target.seq, Len(segs[target.seq])))
    BY <1>d DEF NotAfter, At
  <2> QED
    BY <2>1, <2>2, <2>3, <1>a, <1>c, <1>d DEF OrderInv
<1>5. EntryInv'
  BY <1>a, <1>c, <1>d DEF EntryInv, EntryOK
<1>6. KeptInv'
  <2> SUFFICES ASSUME NEW e \in sent, e \notin settled \cup skipped
               PROVE  \E s \in exist : \E i \in 1 .. Len(segs[s]) :
                        segs[s][i].ev = e /\ Replayable(s, i)'
    BY <1>c DEF KeptInv
  <2>1. PICK s \in exist : \E i \in 1 .. Len(segs[s]) :
               segs[s][i].ev = e /\ Replayable(s, i)
    BY <1>a DEF KeptInv
  <2>2. PICK i \in 1 .. Len(segs[s]) :
               segs[s][i].ev = e /\ Replayable(s, i)
    BY <2>1
  <2>3. s \in Seqs /\ At(s, i - 1) \in Position
    BY <1>a, <1>b, TypeFacts
  <2>4. ~Before(At(s, i - 1), target)
    BY <2>2, <2>3, <1>b, <1>d, PassedSettled DEF Replayable
  <2>5. NotAfter(cursor', At(s, i - 1))
    BY <2>2, <2>3, <2>4, <1>b, <1>c, OrderFacts DEF Replayable
  <2> QED
    BY <2>2, <2>5, <1>c DEF Replayable
<1> QED
  BY <1>1, <1>2, <1>3, <1>4, <1>5, <1>6 DEF IInv

\* The GC boundary follows.
LEMMA AckSyncInv == IInv /\ AckSync => IInv'
<1> SUFFICES ASSUME IInv, AckSync PROVE IInv'
  OBVIOUS
<1> USE DEF disk, shared, receiver, acking, bounds, history
<1>a. /\ TypeOK /\ FilesInv /\ AppendInv /\ OrderInv /\ EntryInv /\ SortedInv
      /\ AckInv /\ TailInv /\ PassedInv
      /\ TornOnlyAtTail /\ WriterNotBehindReader /\ KeptInv
  BY DEF IInv
<1>b. /\ cursor \in Position /\ acked \in Position /\ read \in Position
      /\ target \in Position /\ write_seq \in Seqs /\ gc_seq \in Seqs
      /\ stale \in Seqs /\ exist \subseteq Seqs
      /\ \A t \in Seqs : Len(segs[t]) \in Nat
      /\ acked.seq \in Seqs /\ read.seq \in Seqs /\ target.seq \in Seqs
  BY <1>a, TypeFacts, PositionFacts
<1>c. /\ UNCHANGED <<exist, segs, cursor, write_seq, write_file, closed,
                     appending, owed, permit, call, active, read, acked,
                     in_flight, target, stale, faults, crashes, tried, sent,
                     handed, settled, skipped,
                     read_failed>>
      /\ gc_seq' = acked.seq /\ rpc' = "idle"
  BY DEF AckSync
<1>1. TypeOK'
  BY <1>a, <1>b, <1>c DEF TypeOK
<1>2. FilesInv' /\ AppendInv' /\ SortedInv' /\ TornOnlyAtTail' /\ EntryInv'
  BY <1>a, <1>c DEF FilesInv, AppendInv, SortedInv, TornOnlyAtTail, Torn,
     EntryInv, EntryOK
<1>3. AckInv' /\ TailInv' /\ WriterNotBehindReader' /\ PassedInv' /\ KeptInv'
  BY <1>a, <1>c DEF AckInv, TailInv, WriterNotBehindReader, PassedInv, KeptInv,
     Replayable
<1>4. OrderInv'
  BY <1>a, <1>b, <1>c DEF OrderInv, Seqs
<1> QED
  BY <1>1, <1>2, <1>3, <1>4 DEF IInv

\* A new line, not yet terminated, at the end of the log.
LEMMA BeginAppendInv ==
    ASSUME IInv, NEW e \in Events, BeginAppend(e)
    PROVE  IInv'
<1> USE DEF disk, shared, receiver, acking, bounds, history
<1>a. /\ TypeOK /\ FilesInv /\ AppendInv /\ OrderInv /\ EntryInv /\ SortedInv
      /\ AckInv /\ TailInv /\ PassedInv
      /\ TornOnlyAtTail /\ WriterNotBehindReader /\ KeptInv
  BY DEF IInv
<1>b. /\ cursor \in Position /\ acked \in Position /\ read \in Position
      /\ target \in Position /\ write_seq \in Seqs /\ gc_seq \in Seqs
      /\ stale \in Seqs /\ exist \subseteq Seqs
      /\ \A t \in Seqs : Len(segs[t]) \in Nat
      /\ acked.seq \in Seqs /\ read.seq \in Seqs /\ target.seq \in Seqs
  BY <1>a, TypeFacts, PositionFacts
<1>c. /\ UNCHANGED <<cursor, gc_seq, closed, owed, permit, rpc, call, active,
                     read, acked, in_flight, target, stale, faults, crashes,
                     sent, handed, settled, skipped,
                     read_failed>>
      /\ write_file' = TRUE /\ appending' = e /\ appending = None
      /\ tried' = tried \cup {e} /\ e # None
  BY DEF BeginAppend, Unlocked
<1>1. PICK s \in WriteTargets :
        /\ write_seq' = s
        /\ exist' = exist \cup {s}
        /\ segs' = [segs EXCEPT ![s] = Append(@, [ev |-> e, done |-> FALSE])]
  BY DEF BeginAppend
<1>2. s \in Seqs /\ (s = write_seq \/ s > write_seq)
  BY <1>b DEF WriteTargets, Inspected, Seqs
<1>3. s # write_seq => s \notin exist /\ segs[s] = <<>>
  BY <1>2, <1>a, <1>b DEF FilesInv, Seqs
<1>4. s = write_seq => segs[s] = <<>> \/ segs[s][Len(segs[s])].done
  <2>1. CASE write_file
    BY <2>1, <1>a, <1>c DEF AppendInv, Torn
  <2>2. CASE ~write_file /\ write_seq \in exist /\ Torn(write_seq)
    BY <2>2, <1>b DEF WriteTargets, Inspected, Seqs
  <2>3. CASE write_seq \notin exist
    BY <2>3, <1>a, <1>b DEF FilesInv
  <2> QED
    BY <2>1, <2>2, <2>3 DEF Torn
<1>5. \A i \in 1 .. Len(segs[s]) : segs[s][i].done
  BY <1>2, <1>3, <1>4, <1>a, <1>b DEF TornOnlyAtTail
<1> DEFINE new == [ev |-> e, done |-> FALSE]
<1>6. /\ segs' \in [Seqs -> Seq(Line)]
      /\ \A t \in Seqs : t # s => segs'[t] = segs[t]
      /\ Len(segs'[s]) = Len(segs[s]) + 1
      /\ segs'[s] # <<>>
      /\ \A i \in 1 .. Len(segs[s]) : segs'[s][i] = segs[s][i]
      /\ segs'[s][Len(segs[s]) + 1] = new
  <2>1. segs \in [Seqs -> Seq(Line)] /\ segs[s] \in Seq(Line) /\ new \in Line
    BY <1>2, <1>a DEF TypeOK, Line
  <2>2. segs'[s] = Append(segs[s], new)
    BY <2>1, <1>1, <1>2
  <2>3. Append(segs[s], new) \in Seq(Line)
    BY <2>1
  <2>4. segs' \in [Seqs -> Seq(Line)] /\ \A t \in Seqs : t # s => segs'[t] = segs[t]
    BY <2>1, <2>3, <1>1, <1>2
  <2> QED
    BY <2>1, <2>2, <2>4
<1> HIDE DEF new
<1>7. \A t \in Seqs :
        /\ Len(segs'[t]) \in Nat /\ Len(segs[t]) <= Len(segs'[t])
        /\ \A i \in 1 .. Len(segs[t]) :
             i \in 1 .. Len(segs'[t]) /\ segs'[t][i] = segs[t][i]
        /\ \A i \in 1 .. Len(segs'[t]) :
             \/ i \in 1 .. Len(segs[t]) /\ segs'[t][i] = segs[t][i]
             \/ t = s /\ i = Len(segs[s]) + 1 /\ segs'[t][i] = new
  <2> TAKE t \in Seqs
  <2>1. Len(segs[t]) \in Nat
    BY <1>b
  <2>2. CASE t # s
    <3>1. segs'[t] = segs[t]
      BY <2>2, <1>6
    <3> QED
      BY <3>1, <2>1
  <2>3. CASE t = s
    <3>1. \A i \in 1 .. Len(segs[s]) + 1 :
            i \in 1 .. Len(segs[s]) \/ i = Len(segs[s]) + 1
      BY <2>1, <2>3
    <3> QED
      BY <3>1, <2>1, <2>3, <1>6
  <2> QED
    BY <2>2, <2>3
<1>n. new.ev = e /\ ~new.done /\ new = [ev |-> e, done |-> FALSE]
  BY DEF new
<1>8. TypeOK'
  BY <1>1, <1>2, <1>6, <1>a, <1>b, <1>c DEF TypeOK
<1>9. FilesInv'
  <2>1. \A t \in exist : t <= s
    BY <1>2, <1>a, <1>b DEF FilesInv, Seqs
  <2>2. s <= s
    BY <1>2 DEF Seqs
  <2>3. \A t \in Seqs : t \notin exist' => segs'[t] = <<>>
    BY <1>1, <1>6, <1>a DEF FilesInv
  <2> QED
    BY <2>1, <2>2, <2>3, <1>1, <1>c DEF FilesInv
<1>10. AppendInv'
  <2>1. NotAfter(read, At(s, Len(segs[s])))
    <3>1. read.seq <= write_seq
      BY <1>a, <1>b DEF WriterNotBehindReader, NotAfter, At, Seqs
    <3> QED
      BY <3>1, <1>2, <1>a, <1>b DEF WriterNotBehindReader, NotAfter, At, Seqs
  <2>2. (Len(segs[s]) + 1) - 1 = Len(segs[s])
    BY <1>2, <1>b
  <2> QED
    BY <2>1, <2>2, <1>1, <1>6, <1>c, <1>n DEF AppendInv
<1>11. OrderInv'
  <2>1. ASSUME NEW t \in exist, NotAfter(cursor, At(t, Len(segs[t])))
        PROVE  NotAfter(cursor, At(t, Len(segs'[t])))
    <3>1. t \in Seqs /\ Len(segs[t]) <= Len(segs'[t])
      BY <1>b, <1>7
    <3>2. Len(segs'[t]) \in Nat /\ Len(segs[t]) \in Nat /\ cursor.off \in Nat
      BY <3>1, <1>b, <1>7, PositionFacts
    <3> QED
      BY <3>1, <3>2, <2>1 DEF NotAfter, At
  <2> QED
    BY <2>1, <1>1, <1>a, <1>c DEF OrderInv
<1>12. EntryInv'
  <2> SUFFICES ASSUME NEW j \in 1 .. Len(in_flight)
               PROVE  EntryOK(in_flight[j])'
    BY <1>c DEF EntryInv
  <2>1. /\ EntryOK(in_flight[j]) /\ in_flight[j].start.seq \in Seqs
        /\ in_flight[j].start.off \in Nat
    BY <1>a, TypeFacts, PositionFacts DEF EntryInv
  <2>2. in_flight[j].start.off + 1 \in 1 .. Len(segs[in_flight[j].start.seq])
    BY <2>1, <1>b DEF EntryOK
  <2>3. /\ segs'[in_flight[j].start.seq][in_flight[j].start.off + 1]
            = segs[in_flight[j].start.seq][in_flight[j].start.off + 1]
        /\ in_flight[j].start.off + 1 \in 1 .. Len(segs'[in_flight[j].start.seq])
        /\ Len(segs'[in_flight[j].start.seq]) \in Nat
    BY <2>1, <2>2, <1>7
  <2>4. in_flight[j].start.off < Len(segs'[in_flight[j].start.seq])
    BY <2>1, <2>3
  <2> QED
    BY <2>1, <2>3, <2>4, <1>c DEF EntryOK
<1>13. SortedInv'
  BY <1>a, <1>c DEF SortedInv
<1>14. AckInv'
  <2>1. target.off <= Len(segs[target.seq]) => target.off <= Len(segs'[target.seq])
    <3>1. target.seq \in Seqs /\ target.off \in Nat /\ Len(segs[target.seq]) \in Nat
      BY <1>b, PositionFacts
    <3>2. Len(segs'[target.seq]) \in Nat /\ Len(segs[target.seq]) <= Len(segs'[target.seq])
      BY <3>1, <1>7
    <3> QED
      BY <3>1, <3>2
  <2> QED
    BY <2>1, <1>1, <1>a, <1>c DEF AckInv
<1>15. TailInv'
  <2>1. ASSUME rpc \in {"torn", "reread"}
        PROVE  /\ read.off + 1 \in 1 .. Len(segs[read.seq])
               /\ read.seq \in exist'
    BY <2>1, <1>1, <1>a, <1>b, PositionFacts DEF TailInv
  <2>2. ASSUME rpc \in {"torn", "reread"}
        PROVE  read.off < Len(segs'[read.seq])
    <3>1. read.seq \in Seqs /\ read.off \in Nat
      BY <1>b, PositionFacts
    <3>2. read.off + 1 \in 1 .. Len(segs'[read.seq]) /\ Len(segs'[read.seq]) \in Nat
      BY <3>1, <2>1, <2>2, <1>7
    <3> QED
      BY <3>1, <3>2
  <2>3. ASSUME rpc = "reread", s = read.seq
        PROVE  segs'[read.seq][read.off + 1].done
    BY <2>1, <2>3, <1>5, <1>6
  <2> QED
    BY <2>1, <2>2, <2>3, <1>1, <1>c DEF TailInv
<1>16. PassedInv'
  <2> SUFFICES ASSUME NEW t \in Seqs, NEW i \in 1 .. Len(segs'[t]),
                      segs'[t][i].done, Before(At(t, i - 1), read)
               PROVE  \/ segs'[t][i].ev \in settled \cup skipped
                      \/ \E j \in 1 .. Len(in_flight) :
                           in_flight[j].start = At(t, i - 1)
    BY <1>c DEF PassedInv
  <2>1. i \in 1 .. Len(segs[t]) /\ segs'[t][i] = segs[t][i]
    BY <1>7, <1>n
  <2> QED
    BY <2>1, <1>a DEF PassedInv
<1>17. TornOnlyAtTail'
  <2> SUFFICES ASSUME NEW t \in Seqs, NEW i \in 1 .. Len(segs'[t]),
                      i < Len(segs'[t])
               PROVE  segs'[t][i].done
    BY DEF TornOnlyAtTail
  <2>1. CASE t = s
    BY <2>1, <1>2, <1>5, <1>6, <1>b
  <2>2. CASE t # s
    BY <2>2, <1>6, <1>a DEF TornOnlyAtTail
  <2> QED
    BY <2>1, <2>2
<1>18. WriterNotBehindReader'
  <2>1. NotAfter(read, At(s, Len(segs[s])))
    <3>1. read.seq <= write_seq
      BY <1>a, <1>b DEF WriterNotBehindReader, NotAfter, At, Seqs
    <3> QED
      BY <3>1, <1>2, <1>a, <1>b DEF WriterNotBehindReader, NotAfter, At, Seqs
  <2>2. Len(segs[s]) \in Nat /\ read.off \in Nat
    BY <1>2, <1>b, PositionFacts
  <2> QED
    BY <2>1, <2>2, <1>1, <1>6, <1>c DEF WriterNotBehindReader, NotAfter, At
<1>19. KeptInv'
  <2> SUFFICES ASSUME NEW x \in sent, x \notin settled \cup skipped
               PROVE  \E t \in exist' : \E i \in 1 .. Len(segs'[t]) :
                        segs'[t][i].ev = x /\ Replayable(t, i)'
    BY <1>c DEF KeptInv
  <2>1. PICK t \in exist : \E i \in 1 .. Len(segs[t]) :
               segs[t][i].ev = x /\ Replayable(t, i)
    BY <1>a DEF KeptInv
  <2>2. PICK i \in 1 .. Len(segs[t]) :
               segs[t][i].ev = x /\ Replayable(t, i)
    BY <2>1
  <2>3. /\ i \in 1 .. Len(segs'[t]) /\ segs'[t][i] = segs[t][i]
        /\ t \in exist'
    BY <2>2, <1>1, <1>7, <1>b
  <2> QED
    BY <2>2, <2>3, <1>c DEF Replayable
<1> QED
  BY <1>8, <1>9, <1>10, <1>11, <1>12, <1>13, <1>14, <1>15, <1>16, <1>17, <1>18,
     <1>19 DEF IInv

\* An append that fails before its first byte.
LEMMA FailAppendInv ==
    ASSUME IInv, NEW e \in Events, FailAppend(e)
    PROVE  IInv'
<1> USE DEF disk, shared, receiver, acking, bounds, history
<1>a. /\ TypeOK /\ FilesInv /\ AppendInv /\ OrderInv /\ EntryInv /\ SortedInv
      /\ AckInv /\ TailInv /\ PassedInv
      /\ TornOnlyAtTail /\ WriterNotBehindReader /\ KeptInv
  BY DEF IInv
<1>b. /\ cursor \in Position /\ acked \in Position /\ read \in Position
      /\ target \in Position /\ write_seq \in Seqs /\ gc_seq \in Seqs
      /\ stale \in Seqs /\ exist \subseteq Seqs
      /\ \A t \in Seqs : Len(segs[t]) \in Nat
      /\ acked.seq \in Seqs /\ read.seq \in Seqs /\ target.seq \in Seqs
  BY <1>a, TypeFacts, PositionFacts
<1>c. /\ UNCHANGED <<segs, cursor, gc_seq, closed, appending, owed, permit, rpc,
                     call, active, read, acked, in_flight, target, stale,
                     crashes, sent, handed, settled, skipped,
                     read_failed>>
      /\ write_file' = FALSE /\ appending = None /\ Fault
      /\ tried' = tried \cup {e}
  BY DEF FailAppend, Unlocked
<1>1. /\ write_seq' \in Seqs /\ (write_seq' = write_seq \/ write_seq < write_seq')
      /\ exist' \in {exist, exist \cup {write_seq'}}
  BY <1>b DEF FailAppend, WriteTargets, Inspected, Seqs
<1>2. TypeOK'
  <2>1. faults' \in Nat
    BY <1>a, <1>c DEF TypeOK, Fault
  <2>2. exist' \subseteq Seqs
    BY <1>1, <1>b
  <2> QED
    BY <2>1, <2>2, <1>1, <1>a, <1>c DEF TypeOK
<1>3. FilesInv'
  BY <1>1, <1>a, <1>b, <1>c DEF FilesInv, Seqs
<1>4. AppendInv' /\ SortedInv' /\ EntryInv' /\ PassedInv' /\ TornOnlyAtTail'
  BY <1>a, <1>c
     DEF AppendInv, SortedInv, EntryInv, EntryOK, PassedInv, TornOnlyAtTail
<1>5. OrderInv' /\ AckInv' /\ TailInv'
  BY <1>1, <1>a, <1>c DEF OrderInv, AckInv, TailInv
<1>6. WriterNotBehindReader'
  BY <1>1, <1>a, <1>b, <1>c DEF WriterNotBehindReader, NotAfter, At, Seqs
<1>7. KeptInv'
  BY <1>1, <1>a, <1>c DEF KeptInv, Replayable
<1> QED
  BY <1>2, <1>3, <1>4, <1>5, <1>6, <1>7 DEF IInv

\* An append that fails after its first byte.
LEMMA BreakAppendInv == IInv /\ BreakAppend => IInv'
<1> SUFFICES ASSUME IInv, BreakAppend PROVE IInv'
  OBVIOUS
<1> USE DEF disk, shared, receiver, acking, bounds, history
<1>a. /\ TypeOK /\ FilesInv /\ AppendInv /\ OrderInv /\ EntryInv /\ SortedInv
      /\ AckInv /\ TailInv /\ PassedInv
      /\ TornOnlyAtTail /\ WriterNotBehindReader /\ KeptInv
  BY DEF IInv
<1>b. /\ cursor \in Position /\ acked \in Position /\ read \in Position
      /\ target \in Position /\ write_seq \in Seqs /\ gc_seq \in Seqs
      /\ stale \in Seqs /\ exist \subseteq Seqs
      /\ \A t \in Seqs : Len(segs[t]) \in Nat
      /\ acked.seq \in Seqs /\ read.seq \in Seqs /\ target.seq \in Seqs
  BY <1>a, TypeFacts, PositionFacts
<1>c. /\ UNCHANGED <<exist, segs, cursor, write_seq, gc_seq, closed, owed,
                     permit, rpc, call, active, read, acked, in_flight, target,
                     stale, crashes, tried, sent, handed, settled, skipped,
                     read_failed>>
      /\ write_file' = FALSE /\ appending' = None /\ Fault
  BY DEF BreakAppend
<1>1. TypeOK'
  <2>1. faults' \in Nat
    BY <1>a, <1>c DEF TypeOK, Fault
  <2> QED
    BY <2>1, <1>a, <1>c DEF TypeOK
<1>2. FilesInv' /\ AppendInv' /\ SortedInv' /\ EntryInv' /\ PassedInv'
  BY <1>a, <1>c
     DEF FilesInv, AppendInv, SortedInv, EntryInv, EntryOK, PassedInv
<1>3. OrderInv' /\ AckInv' /\ TailInv' /\ TornOnlyAtTail'
  BY <1>a, <1>c DEF OrderInv, AckInv, TailInv, TornOnlyAtTail
<1>4. WriterNotBehindReader' /\ KeptInv'
  BY <1>a, <1>c DEF WriterNotBehindReader, KeptInv, Replayable
<1> QED
  BY <1>1, <1>2, <1>3, <1>4 DEF IInv

\* The line is completed and old segments are collected.
LEMMA EndAppendInv == IInv /\ EndAppend => IInv'
<1> SUFFICES ASSUME IInv, EndAppend PROVE IInv'
  OBVIOUS
<1> USE DEF disk, shared, receiver, acking, bounds, history
<1> DEFINE w == write_seq
           last == Len(segs[w])
<1>a. /\ TypeOK /\ FilesInv /\ AppendInv /\ OrderInv /\ EntryInv /\ SortedInv
      /\ AckInv /\ TailInv /\ PassedInv
      /\ TornOnlyAtTail /\ WriterNotBehindReader /\ KeptInv
  BY DEF IInv
<1>b. /\ cursor \in Position /\ acked \in Position /\ read \in Position
      /\ target \in Position /\ write_seq \in Seqs /\ gc_seq \in Seqs
      /\ stale \in Seqs /\ exist \subseteq Seqs
      /\ \A t \in Seqs : Len(segs[t]) \in Nat
      /\ acked.seq \in Seqs /\ read.seq \in Seqs /\ target.seq \in Seqs
  BY <1>a, TypeFacts, PositionFacts
<1>c. /\ UNCHANGED <<cursor, write_seq, write_file, gc_seq, closed, permit, rpc,
                     call, active, read, acked, in_flight, target, stale,
                     faults, crashes, tried, handed, settled, skipped,
                     read_failed>>
      /\ appending # None /\ appending' = None /\ owed' = owed + 1
      /\ sent' = sent \cup {appending}
  BY DEF EndAppend, Unlocked
<1>d. /\ appending \in Events /\ w \in Seqs /\ segs[w] \in Seq(Line)
      /\ last \in Nat /\ write_file /\ w \in exist
  BY <1>a, <1>b, <1>c DEF TypeOK, AppendInv, FilesInv
<1>e. /\ last \in 1 .. last
      /\ segs[w][last] = [ev |-> appending, done |-> FALSE]
      /\ NotAfter(read, At(w, last - 1))
  BY <1>a, <1>c, <1>d DEF AppendInv
<1>f. gc_seq <= acked.seq /\ acked.seq <= read.seq /\ read.seq <= w
  BY <1>a, <1>b, <1>e DEF OrderInv, NotAfter, At, Seqs
<1>1. PICK gone \in SUBSET Removable :
        /\ exist' = exist \ gone
        /\ segs' = [s \in Seqs |->
                      IF s \in gone THEN <<>>
                      ELSE IF s = w
                           THEN [segs[s] EXCEPT ![Len(segs[s])] =
                                   [ev |-> appending, done |-> TRUE]]
                           ELSE segs[s]]
  BY DEF EndAppend
<1>2. \A s \in gone : s \in Seqs /\ s < acked.seq /\ s < w
  BY <1>b, <1>d, <1>f DEF Removable, Seqs
<1> DEFINE full == [ev |-> appending, done |-> TRUE]
<1>3. /\ segs'[w] \in Seq(Line) /\ Len(segs'[w]) = last
      /\ \A i \in 1 .. last : segs'[w][i] = IF i = last THEN full ELSE segs[w][i]
      /\ w \notin gone
  <2>1. w \notin gone
    BY <1>2, <1>d DEF Seqs
  <2>2. full \in Line
    BY <1>d DEF Line
  <2>3. segs'[w] = [segs[w] EXCEPT ![last] = full]
    BY <2>1, <1>1, <1>d
  <2> QED
    BY <2>1, <2>2, <2>3, <1>d, <1>e, ExceptSeq
<1>4. \A s \in Seqs : s # w => segs'[s] = IF s \in gone THEN <<>> ELSE segs[s]
  BY <1>1
<1>g. full.ev = appending /\ full.done
  OBVIOUS
<1>5. /\ segs' \in [Seqs -> Seq(Line)]
      /\ DOMAIN segs' = Seqs
  <2>1. ASSUME NEW s \in Seqs PROVE segs'[s] \in Seq(Line)
    <3>1. CASE s = w
      BY <3>1, <1>3
    <3>e. <<>> \in Seq(Line)
      OBVIOUS
    <3>2. CASE s # w /\ s \in gone
      BY <3>2, <3>e, <1>4
    <3>3. CASE s # w /\ s \notin gone
      BY <3>3, <1>4, <1>a, TypeFacts
    <3> QED
      BY <3>1, <3>2, <3>3
  <2> QED
    BY <2>1, <1>1
<1> HIDE DEF full, last, w
<1>6. TypeOK'
  <2>1. owed' \in Nat /\ sent' \in SUBSET Events
    BY <1>a, <1>c, <1>d DEF TypeOK
  <2> QED
    BY <2>1, <1>1, <1>5, <1>a, <1>c DEF TypeOK
<1>7. \A s \in Seqs : \A i \in 1 .. Len(segs'[s]) :
        /\ s \notin gone /\ Len(segs'[s]) = Len(segs[s])
        /\ segs'[s][i] = segs[s][i] \/ (s = w /\ i = last /\ segs'[s][i] = full)
  <2> SUFFICES ASSUME NEW s \in Seqs, NEW i \in 1 .. Len(segs'[s])
               PROVE  /\ s \notin gone /\ Len(segs'[s]) = Len(segs[s])
                      /\ \/ segs'[s][i] = segs[s][i]
                         \/ s = w /\ i = last /\ segs'[s][i] = full
    OBVIOUS
  <2>1. CASE s = w
    BY <2>1, <1>3 DEF last
  <2>2. CASE s # w
    BY <2>2, <1>4
  <2> QED
    BY <2>1, <2>2
<1>8. \A s \in Seqs : s \notin gone => Len(segs'[s]) = Len(segs[s])
  BY <1>3, <1>4 DEF last
<1>9. FilesInv'
  BY <1>1, <1>3, <1>4, <1>a, <1>c, <1>d DEF FilesInv, w
<1>10. AppendInv'
  BY <1>3, <1>c, <1>e, <1>g DEF AppendInv, Torn, w
<1>11. OrderInv'
  <2>1. NotAfter(cursor, At(w, last))
    <3>1. NotAfter(cursor, read) /\ cursor.off \in Nat /\ read.off \in Nat
          /\ cursor.seq \in Seqs
      BY <1>a, <1>b, OrderFacts, PositionFacts DEF OrderInv
    <3> QED
      BY <3>1, <1>b, <1>d, <1>e DEF NotAfter, At, Seqs
  <2> QED
    BY <2>1, <1>1, <1>3, <1>a, <1>c, <1>d DEF OrderInv
<1>12. EntryInv'
  <2> SUFFICES ASSUME NEW j \in 1 .. Len(in_flight)
               PROVE  EntryOK(in_flight[j])'
    BY <1>c DEF EntryInv
  <2> DEFINE p == in_flight[j].start
  <2>1. /\ EntryOK(in_flight[j]) /\ p.seq \in Seqs /\ p.off \in Nat
    BY <1>a, TypeFacts, PositionFacts DEF EntryInv
  <2>2. p.seq \notin gone
    BY <2>1, <1>2, <1>b DEF EntryOK, NotAfter, Seqs
  <2>3. /\ Len(segs'[p.seq]) = Len(segs[p.seq])
        /\ p.off + 1 \in 1 .. Len(segs[p.seq])
    BY <2>1, <2>2, <1>8, <1>b DEF EntryOK
  <2>4. segs'[p.seq][p.off + 1] = segs[p.seq][p.off + 1]
    <3>1. segs[p.seq][p.off + 1].done
      BY <2>1 DEF EntryOK
    <3>2. ~(p.seq = w /\ p.off + 1 = last)
      BY <3>1, <1>e
    <3> QED
      BY <3>2, <2>1, <2>3, <1>7
  <2> QED
    BY <2>1, <2>3, <2>4, <1>c DEF EntryOK
<1>13. SortedInv'
  BY <1>a, <1>c DEF SortedInv
<1>14. AckInv'
  <2>1. rpc = "ack_delete" => target.seq \notin gone
    BY <1>a, <1>b, <1>2 DEF AckInv, NotAfter, Seqs
  <2> QED
    BY <2>1, <1>1, <1>8, <1>a, <1>b, <1>c DEF AckInv
<1>15. TailInv'
  <2>1. read.seq \notin gone
    BY <1>b, <1>2, <1>f DEF Seqs
  <2> QED
    BY <2>1, <1>1, <1>8, <1>a, <1>b, <1>c DEF TailInv
<1>16. PassedInv'
  <2> SUFFICES ASSUME NEW s \in Seqs, NEW i \in 1 .. Len(segs'[s]),
                      segs'[s][i].done, Before(At(s, i - 1), read)
               PROVE  \/ segs'[s][i].ev \in settled \cup skipped
                      \/ \E j \in 1 .. Len(in_flight) :
                           in_flight[j].start = At(s, i - 1)
    BY <1>c DEF PassedInv
  <2>1. ~(s = w /\ i = last)
    <3>1. At(w, last - 1) \in Position
      BY <1>d, <1>e, PositionFacts
    <3> QED
      BY <3>1, <1>b, <1>e, OrderFacts
  <2>2. i \in 1 .. Len(segs[s]) /\ segs'[s][i] = segs[s][i]
    BY <2>1, <1>7
  <2> QED
    BY <2>2, <1>a DEF PassedInv
<1>17. TornOnlyAtTail'
  <2> SUFFICES ASSUME NEW s \in Seqs, NEW i \in 1 .. Len(segs'[s]),
                      i < Len(segs'[s])
               PROVE  segs'[s][i].done
    BY DEF TornOnlyAtTail
  <2>1. CASE segs'[s][i] = full
    BY <2>1, <1>g
  <2>2. CASE segs'[s][i] = segs[s][i] /\ Len(segs'[s]) = Len(segs[s])
    BY <2>2, <1>a DEF TornOnlyAtTail
  <2> QED
    BY <2>1, <2>2, <1>7
<1>18. WriterNotBehindReader'
  BY <1>3, <1>a, <1>c DEF WriterNotBehindReader, w, last
<1>19. KeptInv'
  <2> SUFFICES ASSUME NEW e \in sent', e \notin settled \cup skipped
               PROVE  \E s \in exist' : \E i \in 1 .. Len(segs'[s]) :
                        segs'[s][i].ev = e /\ Replayable(s, i)'
    BY <1>c DEF KeptInv
  <2>1. CASE e = appending
    <3>1. NotAfter(cursor, At(w, last - 1))
      <4>1. At(w, last - 1) \in Position
        BY <1>d, <1>e, PositionFacts
      <4> QED
        BY <4>1, <1>a, <1>b, <1>e, OrderFacts DEF OrderInv
    <3>2. w \in exist' /\ last \in 1 .. Len(segs'[w]) /\ segs'[w][last] = full
      BY <1>1, <1>3, <1>d, <1>e
    <3> QED
      BY <2>1, <3>1, <3>2, <1>c, <1>g DEF Replayable
  <2>2. CASE e \in sent
    <3>1. PICK s \in exist : \E i \in 1 .. Len(segs[s]) :
                 segs[s][i].ev = e /\ Replayable(s, i)
      BY <2>2, <1>a DEF KeptInv
    <3>2. PICK i \in 1 .. Len(segs[s]) :
                 segs[s][i].ev = e /\ Replayable(s, i)
      BY <3>1
    <3>3. s \in Seqs /\ Len(segs[s]) \in Nat
      BY <1>b
    <3>4. /\ NotAfter(acked, read)
          /\ \A j \in 1 .. Len(in_flight) : NotAfter(acked, in_flight[j].start)
      BY <1>a DEF OrderInv, EntryInv, EntryOK
    <3>5. ~Before(At(s, i - 1), acked)
      BY <3>2, <3>3, <3>4, <1>b, PassedSettled DEF Replayable
    <3>6. s \notin gone
      BY <3>5, <1>2 DEF Before, At
    <3>7. ~(s = w /\ i = last)
      BY <3>2, <1>e DEF Replayable
    <3>8. /\ s \in exist' /\ i \in 1 .. Len(segs'[s])
          /\ segs'[s][i] = segs[s][i]
      BY <3>2, <3>3, <3>6, <3>7, <1>1, <1>7, <1>8
    <3> QED
      BY <3>2, <3>8, <1>c DEF Replayable
  <2> QED
    BY <2>1, <2>2, <1>c
<1> QED
  BY <1>6, <1>9, <1>10, <1>11, <1>12, <1>13, <1>14, <1>15, <1>16, <1>17, <1>18,
     <1>19 DEF IInv

\* Everything in memory is gone; the files are read again.
LEMMA RestartInv == IInv /\ Restart => IInv'
<1> SUFFICES ASSUME IInv, Restart PROVE IInv'
  OBVIOUS
<1> USE DEF disk, shared, receiver, acking, bounds, history
<1>a. /\ TypeOK /\ FilesInv /\ AppendInv /\ OrderInv /\ EntryInv /\ SortedInv
      /\ AckInv /\ TailInv /\ PassedInv
      /\ TornOnlyAtTail /\ WriterNotBehindReader /\ KeptInv
  BY DEF IInv
<1>b. /\ cursor \in Position /\ acked \in Position /\ read \in Position
      /\ target \in Position /\ write_seq \in Seqs /\ gc_seq \in Seqs
      /\ stale \in Seqs /\ exist \subseteq Seqs
      /\ \A t \in Seqs : Len(segs[t]) \in Nat
      /\ acked.seq \in Seqs /\ read.seq \in Seqs /\ target.seq \in Seqs
  BY <1>a, TypeFacts, PositionFacts
<1>c. /\ UNCHANGED <<exist, segs, cursor, faults, tried, sent, handed, settled,
                     skipped>>
      /\ crashes' = crashes + 1
      /\ write_file' = FALSE /\ closed' = FALSE /\ appending' = None
      /\ owed' = 0 /\ permit' = FALSE /\ gc_seq' = cursor.seq
      /\ read_failed' = FALSE
      /\ read' = cursor /\ acked' = cursor /\ in_flight' = <<>>
      /\ target' = cursor /\ stale' = cursor.seq
      /\ rpc' = "idle" /\ call' = "recv" /\ active' = FALSE
  BY DEF Restart
<1>d. /\ write_seq' \in Seqs
      /\ \A t \in exist : t <= write_seq'
      /\ write_seq' \in exist \/ (exist = {} /\ write_seq' = 0)
  BY DEF Restart, IsHighest
<1>e. cursor.seq \in Seqs /\ cursor.off \in Nat
  BY <1>b, PositionFacts
<1>1. TypeOK'
  <2>1. in_flight' \in Seq(InFlight) /\ crashes' \in Nat /\ owed' \in Nat
    BY <1>a, <1>c DEF TypeOK
  <2> QED
    BY <2>1, <1>a, <1>b, <1>c, <1>d, <1>e DEF TypeOK
<1>2. FilesInv' /\ AppendInv' /\ TornOnlyAtTail'
  BY <1>a, <1>c, <1>d DEF FilesInv, AppendInv, TornOnlyAtTail
<1>3. EntryInv' /\ SortedInv' /\ AckInv' /\ TailInv'
  BY <1>c DEF EntryInv, SortedInv, AckInv, TailInv
<1>4. OrderInv'
  BY <1>a, <1>b, <1>c, <1>e, OrderFacts DEF OrderInv, Seqs
<1>5. PassedInv'
  <2> SUFFICES ASSUME NEW s \in Seqs, NEW i \in 1 .. Len(segs[s]),
                      segs[s][i].done, Before(At(s, i - 1), cursor)
               PROVE  segs[s][i].ev \in settled \cup skipped
    BY <1>c DEF PassedInv
  <2>1. NotAfter(cursor, acked) /\ NotAfter(acked, read)
    BY <1>a DEF OrderInv
  <2>2. NotAfter(cursor, read)
    BY <2>1, <1>b, OrderFacts
  <2>3. \A j \in 1 .. Len(in_flight) : NotAfter(cursor, in_flight[j].start)
    <3> SUFFICES ASSUME NEW j \in 1 .. Len(in_flight)
                 PROVE  NotAfter(cursor, in_flight[j].start)
      OBVIOUS
    <3>1. NotAfter(acked, in_flight[j].start) /\ in_flight[j].start \in Position
      BY <1>a, TypeFacts DEF EntryInv, EntryOK
    <3> QED
      BY <3>1, <2>1, <1>b, OrderFacts
  <2> QED
    BY <2>2, <2>3, <1>b, PassedSettled
<1>6. WriterNotBehindReader'
  <2>1. CASE cursor = Origin
    BY <2>1, <1>b, <1>c, <1>d DEF WriterNotBehindReader, NotAfter, At, Origin, Seqs
  <2>2. ASSUME NEW s \in exist, NotAfter(cursor, At(s, Len(segs[s])))
        PROVE  WriterNotBehindReader'
    <3>1. s \in Seqs /\ s <= write_seq'
      BY <1>b, <1>d
    <3> QED
      BY <2>2, <3>1, <1>b, <1>c, <1>d, <1>e
         DEF WriterNotBehindReader, NotAfter, At, Seqs
  <2> QED
    BY <2>1, <2>2, <1>a DEF OrderInv
<1>7. KeptInv'
  BY <1>a, <1>c DEF KeptInv, Replayable
<1> QED
  BY <1>1, <1>2, <1>3, <1>4, <1>5, <1>6, <1>7 DEF IInv

\* Every step keeps the invariant.
THEOREM StepInv == IInv /\ [Next]_vars => IInv'
<1> SUFFICES ASSUME IInv, [Next]_vars PROVE IInv'
  OBVIOUS
<1>1. CASE Sender
  BY <1>1, BeginAppendInv, FailAppendInv, BreakAppendInv, EndAppendInv,
     QuietSteps DEF Sender
<1>2. CASE Reader
  BY <1>2, ReadLineInv, FailedLookInv, NextSegmentInv, InspectTailInv, RereadInv, QuietSteps
     DEF Reader
<1>3. CASE Acker
  BY <1>3, AckToInv, AckDeleteInv, AckSaveInv, AckSyncInv DEF Acker
<1>4. CASE Restart
  BY <1>4, RestartInv
<1>5. CASE UNCHANGED vars
  BY <1>5, QuietSteps
<1> QED
  BY <1>1, <1>2, <1>3, <1>4, <1>5 DEF Next

\* The inductive invariant holds in every reachable state.
THEOREM Invariance == Spec => []IInv
BY InitInv, StepInv, PTL DEF Spec

\* Every reachable state of the disk queue is well typed.
THEOREM TypeCorrect == Spec => []TypeOK
<1>1. IInv => TypeOK
  BY DEF IInv
<1> QED
  BY <1>1, Invariance, PTL

\* At-least-once: in every reachable state, so at whatever moment the process
\* dies, an event that a send made durable was acked by the consumer, or is
\* replayed from the persisted cursor, or was stepped over by the reader.
THEOREM AtLeastOnceHolds == Spec => []NothingLost
<1>1. IInv => NothingLost
  <2> SUFFICES ASSUME IInv, NEW e \in sent, e \notin settled \cup skipped
               PROVE  e \in ReplaySet
    BY DEF NothingLost
  <2>1. PICK s \in exist : \E i \in 1 .. Len(segs[s]) :
               segs[s][i].ev = e /\ Replayable(s, i)
    BY DEF IInv, KeptInv
  <2> QED
    BY <2>1 DEF ReplaySet
<1> QED
  BY <1>1, Invariance, PTL

\* write_to_segment never appends to an unterminated tail.
THEOREM NoGluedRecord == Spec => []TornOnlyAtTail
<1>1. IInv => TornOnlyAtTail
  BY DEF IInv
<1> QED
  BY <1>1, Invariance, PTL

\* The writer never appends below the reader, restarts included.
THEOREM WriterAhead == Spec => []WriterNotBehindReader
<1>1. IInv => WriterNotBehindReader
  BY DEF IInv
<1> QED
  BY <1>1, Invariance, PTL

\* The persisted cursor only moves forward, and only over what is settled.
THEOREM CursorAdvances == Spec => CursorOnlyAdvances
<1>1. IInv /\ [Next]_vars => [CursorStep]_vars
  <2> SUFFICES ASSUME IInv, Next PROVE CursorStep
    OBVIOUS
  <2> USE DEF disk, shared, receiver, acking, bounds, history
  <2>1. cursor \in Position /\ acked \in Position /\ target \in Position
    BY TypeFacts DEF IInv
  <2>2. CASE AckSave
    <3>1. /\ NotAfter(cursor, acked) /\ NotAfter(acked, target)
          /\ \A j \in 1 .. Len(in_flight) : NotAfter(target, in_flight[j].start)
      BY <2>2 DEF AckSave, IInv, OrderInv, AckInv
    <3>2. in_flight' = in_flight /\ cursor' \in {cursor, target}
      BY <2>2 DEF AckSave
    <3> QED
      BY <3>1, <3>2, <2>1, OrderFacts DEF CursorStep
  <2>3. CASE cursor' = cursor
    BY <2>3, <2>1, OrderFacts DEF CursorStep
  <2>4. AckSave \/ cursor' = cursor
    <3>1. CASE Sender
      BY <3>1 DEF Sender, BeginAppend, FailAppend, BreakAppend, EndAppend,
         Notify, DropSender
    <3>2. CASE Reader
      BY <3>2 DEF Reader, Recv, ReadLine, ReadFails, LookupFails, NextSegment, InspectTail, Reread,
         NothingRead, CancelRecv
    <3>3. CASE Acker
      BY <3>3 DEF Acker, AckTo, AckDelete, AckSync
    <3>4. CASE Restart
      BY <3>4 DEF Restart
    <3> QED
      BY <3>1, <3>2, <3>3, <3>4 DEF Next
  <2> QED
    BY <2>2, <2>3, <2>4
<1> QED
  BY <1>1, Invariance, PTL DEF Spec, CursorOnlyAdvances
=============================================================================
