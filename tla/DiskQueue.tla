----------------------------- MODULE DiskQueue -----------------------------
(***************************************************************************)
(* The disk-persistent output queue (crates/limpid/src/queue/disk.rs): a    *)
(* write-ahead log cut into segment files, one cursor file that persists    *)
(* the acked position, any number of senders serialised by one mutex, and   *)
(* one receiver that reads the segments WITHOUT that mutex.                 *)
(*                                                                          *)
(* A segment is the sequence of its lines.  An offset counts lines, where   *)
(* the code counts bytes: the reader only ever moves by whole lines.  The   *)
(* length of an event is left out, so whether an append rotates the segment *)
(* (SEGMENT_MAX_BYTES) and whether the directory is over max_size are free  *)
(* choices: every pattern of event lengths is covered.                      *)
(*                                                                          *)
(* An action is what runs without another thread, or a crash, being able to *)
(* get in between: the writer's append is visible half done, the reader     *)
(* looks at a segment in one step and takes the mutex in a later one, and   *)
(* ack_to deletes, saves and publishes in separate steps.                   *)
(***************************************************************************)
EXTENDS Integers, Sequences, FiniteSets

CONSTANTS
    Events,         \* the events the pipelines send, each one once
    None,           \* "no event"
    MaxSeq,         \* bound: highest segment number
    MaxFaults,      \* bound: I/O errors
    MaxCrashes      \* bound: process crashes and restarts

ASSUME DiskQueueAssumption ==
    /\ None \notin Events
    /\ MaxSeq \in Nat
    /\ MaxFaults \in Nat
    /\ MaxCrashes \in Nat

Seqs == 0 .. MaxSeq

\* One line of a segment; done: its newline is written.
Line == [ev : Events, done : BOOLEAN]

\* A place in the log: segment number, and lines before it in that segment.
Position == [seq : Seqs, off : Nat]

\* One entry of the receiver's in_flight_positions (the end position is the
\* one line after the start) with the event that recv returned for it.
InFlight == [start : Position, ev : Events, acked : BOOLEAN]

VARIABLES
    exist,          \* disk: the segment files in the directory
    segs,           \* disk: the lines of each segment
    cursor,         \* disk: the persisted acked position
    write_seq,      \* shared, under the mutex: the segment being written
    write_file,     \* shared: is that segment's file open?
    gc_seq,         \* shared: DiskQueueState::acked_seq, the GC boundary
    closed,         \* shared: the last sender was dropped
    appending,      \* the event whose write holds the mutex, or None
    owed,           \* appends whose notify_one is still to come
    permit,         \* the Notify's stored permit
    rpc,            \* the receiver's program counter
    call,           \* what runs: "recv", its "last" read after closing, "try"
    active,         \* try_read_next's active_segment
    read,           \* receiver: read_seq, read_offset
    acked,          \* receiver: acked_seq, acked_offset
    in_flight,      \* receiver: in_flight_positions
    read_failed,    \* receiver: its latest look at the log met an I/O error
    target,         \* ack_to: new_seq, new_offset
    stale,          \* ack_to: next segment to delete
    faults, crashes,
    tried,          \* history: events some send was called with
    sent,           \* history: events whose line is complete in the log
    handed,         \* history: events recv returned, in any session
    settled,        \* history: events whose position ack_to was given
    skipped         \* history: events the reader stepped over unread

disk     == <<exist, segs, cursor>>
shared   == <<write_seq, write_file, closed, appending, owed>>
receiver == <<read, acked, in_flight, read_failed>>
acking   == <<target, stale>>
bounds   == <<faults, crashes>>
history  == <<tried, sent, handed, settled, skipped>>
vars     == <<exist, segs, cursor, write_seq, write_file, gc_seq, closed,
              appending, owed, permit, rpc, call, active, read, acked,
              in_flight, read_failed, target, stale, faults, crashes, tried,
              sent, handed, settled, skipped>>

At(s, o) == [seq |-> s, off |-> o]
Origin   == At(0, 0)

\* The order of positions in the log.
Before(p, q)   == p.seq < q.seq \/ (p.seq = q.seq /\ p.off < q.off)
NotAfter(p, q) == p.seq < q.seq \/ (p.seq = q.seq /\ p.off <= q.off)

\* Mutant of EndOf: the cursor lands on the next segment.
EndOfNextSegment(entry) == At(entry.start.seq + 1, 0)

\* InFlight::end: where the cursor lands once the entry is popped.
EndOf(entry) == At(entry.start.seq, entry.start.off + 1)

Torn(s) == segs[s] # <<>> /\ ~segs[s][Len(segs[s])].done

Init ==
    /\ exist = {} /\ segs = [s \in Seqs |-> <<>>] /\ cursor = Origin
    /\ write_seq = 0 /\ write_file = FALSE /\ gc_seq = 0 /\ closed = FALSE
    /\ appending = None /\ owed = 0 /\ permit = FALSE
    /\ rpc = "idle" /\ call = "recv" /\ active = FALSE
    /\ read = Origin /\ acked = Origin /\ in_flight = <<>>
    /\ read_failed = FALSE
    /\ target = Origin /\ stale = 0
    /\ faults = 0 /\ crashes = 0
    /\ tried = {} /\ sent = {} /\ handed = {} /\ settled = {} /\ skipped = {}

-----------------------------------------------------------------------------
(* Senders: write_to_segment under the mutex. *)

Unlocked == appending = None

Fault == faults < MaxFaults /\ faults' = faults + 1

\* Mutant of Inspected: the recovered or broken tail is not inspected.
InspectedBlindly == write_seq

\* The segment an append goes to: with no file open, an unterminated tail is
\* left alone and a fresh segment started; a full segment is rotated.
Inspected == IF ~write_file /\ write_seq \in exist /\ Torn(write_seq)
             THEN write_seq + 1 ELSE write_seq
WriteTargets == {Inspected, Inspected + 1} \cap Seqs

\* The open and the first bytes of the single write_all(data + newline): from
\* here the reader can see an unterminated line.
BeginAppend(e) ==
    /\ Unlocked /\ ~closed /\ e \notin tried
    /\ \E s \in WriteTargets :
         /\ write_seq' = s
         /\ exist' = exist \cup {s}
         /\ segs' = [segs EXCEPT ![s] = Append(@, [ev |-> e, done |-> FALSE])]
    /\ write_file' = TRUE
    /\ appending' = e
    /\ tried' = tried \cup {e}
    /\ UNCHANGED <<cursor, gc_seq, closed, owed, permit, rpc, call, active,
                   receiver, acking, bounds, sent, handed, settled, skipped>>

\* An append that leaves no byte behind: the tail cannot be inspected, the
\* segment cannot be opened, or the first write fails.  Send returns an error.
FailAppend(e) ==
    /\ Unlocked /\ ~closed /\ e \notin tried
    /\ Fault
    /\ \/ ~write_file /\ UNCHANGED <<write_seq, exist>>
       \/ \E s \in WriteTargets :
            /\ write_seq' = s
            /\ exist' \in {exist, exist \cup {s}}
    /\ write_file' = FALSE
    /\ tried' = tried \cup {e}
    /\ UNCHANGED <<segs, cursor, gc_seq, closed, appending, owed, permit, rpc,
                   call, active, receiver, acking, crashes, sent, handed,
                   settled, skipped>>

\* A write error after some bytes: the unterminated line stays.
BreakAppend ==
    /\ ~Unlocked
    /\ Fault
    /\ write_file' = FALSE
    /\ appending' = None
    /\ UNCHANGED <<disk, write_seq, gc_seq, closed, owed, permit, rpc, call,
                   active, receiver, acking, crashes, history>>

\* Mutant of Removable: the GC boundary is the reader's segment.
RemovableByRead == {s \in exist : s < read.seq}

\* enforce_max_size: while the directory is over max_size the oldest segments
\* below gc_seq go; a segment that cannot be removed is passed over.
Removable == {s \in exist : s < gc_seq}

Delete(gone) ==
    /\ exist' = exist \ gone
    /\ segs' = [s \in Seqs |-> IF s \in gone THEN <<>> ELSE segs[s]]

\* The rest of the write, the flush, enforce_max_size, and the unlock.
EndAppend ==
    /\ ~Unlocked
    /\ \E gone \in SUBSET Removable :
         /\ exist' = exist \ gone
         /\ segs' = [s \in Seqs |->
                       IF s \in gone THEN <<>>
                       ELSE IF s = write_seq
                            THEN [segs[s] EXCEPT ![Len(segs[s])] =
                                    [ev |-> appending, done |-> TRUE]]
                            ELSE segs[s]]
    /\ sent' = sent \cup {appending}
    /\ appending' = None
    /\ owed' = owed + 1
    /\ UNCHANGED <<cursor, write_seq, write_file, gc_seq, closed, permit, rpc,
                   call, active, receiver, acking, bounds, tried, handed,
                   settled, skipped>>

\* Mutant of NotifyOne: notify_waiters, which stores no permit.
NotifyWaiters == /\ rpc' = IF rpc = "parked" THEN "check" ELSE rpc
                 /\ permit' = permit

\* Notify::notify_one: wake the parked receiver, or store the one permit.
NotifyOne == IF rpc = "parked"
             THEN rpc' = "check" /\ permit' = permit
             ELSE rpc' = rpc /\ permit' = TRUE

Notify ==
    /\ owed > 0
    /\ owed' = owed - 1
    /\ NotifyOne
    /\ UNCHANGED <<disk, write_seq, write_file, gc_seq, closed, appending,
                   call, active, receiver, acking, bounds, history>>

\* The last DiskQueueSender is dropped; its own sends have returned.
DropSender ==
    /\ Unlocked /\ owed = 0 /\ ~closed
    /\ closed' = TRUE
    /\ NotifyOne
    /\ UNCHANGED <<disk, write_seq, write_file, gc_seq, appending, owed, call,
                   active, receiver, acking, bounds, history>>

-----------------------------------------------------------------------------
(* Receiver: recv, try_recv and the steps of try_read_next. *)

Recv ==
    /\ rpc = "idle"
    /\ rpc' = "check"
    /\ call' \in {"recv", "try"}
    /\ UNCHANGED <<disk, shared, gc_seq, permit, active, receiver, acking,
                   bounds, history>>

\* A complete line is returned and tracked; nothing is persisted.
Return(line) ==
    /\ in_flight' = Append(in_flight,
                           [start |-> read, ev |-> line.ev, acked |-> FALSE])
    /\ read' = At(read.seq, read.off + 1)
    /\ handed' = handed \cup {line.ev}
    /\ rpc' = "idle"

\* One look at the segment, without the mutex.
ReadLine ==
    /\ rpc = "check"
    /\ LET lines == segs[read.seq] IN
         \/ /\ read.seq \notin exist
            /\ rpc' = "missing"
            /\ UNCHANGED <<read, in_flight, handed>>
         \/ /\ read.seq \in exist /\ read.off >= Len(lines)
            /\ rpc' = "eof"
            /\ UNCHANGED <<read, in_flight, handed>>
         \/ /\ read.seq \in exist /\ read.off < Len(lines)
            /\ lines[read.off + 1].done
            /\ Return(lines[read.off + 1])
         \/ /\ read.seq \in exist /\ read.off < Len(lines)
            /\ ~lines[read.off + 1].done
            /\ rpc' = "torn"
            /\ UNCHANGED <<read, in_flight, handed>>
    /\ read_failed' = FALSE
    /\ UNCHANGED <<disk, shared, gc_seq, permit, call, active, acked, acking,
                   bounds, tried, sent, settled, skipped>>

\* The look fails.  A segment that cannot be opened or read, in the first look
\* or in the second, is "nothing there" ...
ReadFails ==
    /\ \/ rpc = "check" /\ read.seq \in exist
       \/ rpc = "reread"
    /\ Fault
    /\ rpc' = "none"
    /\ read_failed' = TRUE
    /\ UNCHANGED <<disk, shared, gc_seq, permit, call, active, read, acked,
                   in_flight, acking, crashes, history>>

\* ... and to exists() one that cannot be looked up is a missing one.
LookupFails ==
    /\ rpc = "check" /\ read.seq \in exist
    /\ Fault
    /\ rpc' = "missing"
    /\ read_failed' = TRUE
    /\ UNCHANGED <<disk, shared, gc_seq, permit, call, active, read, acked,
                   in_flight, acking, crashes, history>>

\* The lines the reader leaves behind when it moves on from its segment.
Unread == {segs[read.seq][i].ev : i \in
             {j \in 1 .. Len(segs[read.seq]) :
                j > read.off /\ segs[read.seq][j].done}}

\* Mutant of NextSegment: off by one, the active segment counts as finished.
NextSegmentEagerly ==
    /\ rpc \in {"eof", "missing"}
    /\ Unlocked
    /\ \/ /\ read.seq <= write_seq /\ read.seq < MaxSeq
          /\ read' = At(read.seq + 1, 0)
          /\ skipped' = skipped \cup Unread
          /\ rpc' = "check"
       \/ /\ read.seq > write_seq
          /\ rpc' = "none"
          /\ UNCHANGED <<read, skipped>>
    /\ UNCHANGED <<disk, shared, gc_seq, permit, call, active, acked,
                   in_flight, read_failed, acking, bounds, tried, sent,
                   handed, settled>>

\* The segment is finished or missing: look at write_seq under the mutex and
\* move on to the next segment, or report that nothing is there.
NextSegment ==
    /\ rpc \in {"eof", "missing"}
    /\ Unlocked
    /\ \/ /\ read.seq < write_seq
          /\ read' = At(read.seq + 1, 0)
          /\ skipped' = skipped \cup Unread
          /\ rpc' = "check"
       \/ /\ read.seq >= write_seq
          /\ rpc' = "none"
          /\ UNCHANGED <<read, skipped>>
    /\ UNCHANGED <<disk, shared, gc_seq, permit, call, active, acked,
                   in_flight, read_failed, acking, bounds, tried, sent,
                   handed, settled>>

\* An unterminated line: synchronise with the writer ...
InspectTail ==
    /\ rpc = "torn"
    /\ Unlocked
    /\ active' = (write_seq = read.seq /\ write_file /\ ~closed)
    /\ rpc' = "reread"
    /\ UNCHANGED <<disk, shared, gc_seq, permit, call, receiver, acking,
                   bounds, history>>

\* ... and look again, once: the finished line is returned, an active tail is
\* left for later, a dead one is skipped as corrupt.
Reread ==
    /\ rpc = "reread"
    /\ LET line == segs[read.seq][read.off + 1] IN
         \/ line.done /\ Return(line)
         \/ /\ ~line.done /\ active
            /\ rpc' = "none"
            /\ UNCHANGED <<read, in_flight, handed>>
         \/ /\ ~line.done /\ ~active
            /\ read' = At(read.seq, read.off + 1)
            /\ rpc' = "check"
            /\ UNCHANGED <<in_flight, handed>>
    /\ read_failed' = FALSE
    /\ UNCHANGED <<disk, shared, gc_seq, permit, call, active, acked, acking,
                   bounds, tried, sent, settled, skipped>>

\* Mutant of NothingRead: no second read once closed is seen.
NothingReadOnce ==
    /\ rpc = "none"
    /\ \/ call = "try" /\ rpc' = "idle" /\ UNCHANGED permit
       \/ call = "recv" /\ closed /\ rpc' = "ended" /\ UNCHANGED permit
       \/ /\ call = "recv" /\ ~closed
          /\ rpc' = IF permit THEN "check" ELSE "parked"
          /\ permit' = FALSE
    /\ UNCHANGED <<disk, shared, gc_seq, call, active, receiver, acking,
                   bounds, history>>

\* try_read_next found nothing.  try_recv returns; recv reads once more if
\* the senders are gone, and then ends, or waits on the Notify.
NothingRead ==
    /\ rpc = "none"
    /\ \/ call = "try" /\ rpc' = "idle" /\ UNCHANGED <<call, permit>>
       \/ call = "last" /\ rpc' = "ended" /\ UNCHANGED <<call, permit>>
       \/ /\ call = "recv" /\ closed
          /\ call' = "last" /\ rpc' = "check" /\ UNCHANGED permit
       \/ /\ call = "recv" /\ ~closed
          /\ rpc' = IF permit THEN "check" ELSE "parked"
          /\ permit' = FALSE
          /\ UNCHANGED call
    /\ UNCHANGED <<disk, shared, gc_seq, active, receiver, acking, bounds,
                   history>>

\* The consumer loop's select! drops the waiting recv for another arm.
CancelRecv ==
    /\ rpc = "parked"
    /\ rpc' = "idle"
    /\ UNCHANGED <<disk, shared, gc_seq, permit, call, active, receiver,
                   acking, bounds, history>>

-----------------------------------------------------------------------------
(* Receiver: ack_to, called between reads by the same task. *)

\* Mutant of AckTo: the cursor jumps to the acked entry, whatever is ahead.
AckToOutOfOrder(j) ==
    /\ rpc = "idle"
    /\ ~in_flight[j].acked
    /\ settled' = settled \cup {in_flight[j].ev}
    /\ in_flight' = SubSeq(in_flight, j + 1, Len(in_flight))
    /\ target' = EndOf(in_flight[j])
    /\ stale' = acked.seq
    /\ rpc' = "ack_delete"
    /\ UNCHANGED <<disk, shared, gc_seq, permit, call, active, read, acked,
                   read_failed, bounds, tried, sent, handed, skipped>>

\* Mark the entry and pop the acked prefix.  k entries are popped.
AckTo(j) ==
    /\ rpc = "idle"
    /\ ~in_flight[j].acked
    /\ settled' = settled \cup {in_flight[j].ev}
    /\ LET marked == [in_flight EXCEPT ![j].acked = TRUE] IN
       \E k \in 0 .. Len(marked) :
         /\ \A i \in 1 .. k : marked[i].acked
         /\ k < Len(marked) => ~marked[k + 1].acked
         /\ in_flight' = SubSeq(marked, k + 1, Len(marked))
         /\ \/ /\ k = 0
               /\ UNCHANGED <<rpc, target, stale>>
            \/ /\ k > 0
               /\ target' = EndOf(marked[k])
               /\ stale' = acked.seq
               /\ rpc' = "ack_delete"
    /\ UNCHANGED <<disk, shared, gc_seq, permit, call, active, read, acked,
                   read_failed, bounds, tried, sent, handed, skipped>>

\* One fully consumed segment is removed; a failure leaves it in place.
AckDelete ==
    /\ rpc = "ack_delete"
    /\ stale < target.seq
    /\ stale' = stale + 1
    /\ \/ Delete({stale}) /\ UNCHANGED faults
       \/ Fault /\ UNCHANGED <<exist, segs>>
    /\ UNCHANGED <<cursor, shared, gc_seq, permit, rpc, call, active, receiver,
                   target, crashes, history>>

\* Mutant of AckSave: what is saved is the read position.
AckSaveRead ==
    /\ rpc = "ack_delete"
    /\ stale = target.seq
    /\ acked' = read
    /\ cursor' = read
    /\ rpc' = "ack_sync"
    /\ UNCHANGED <<exist, segs, shared, gc_seq, permit, call, active, read,
                   in_flight, read_failed, acking, bounds, history>>

\* save_cursor: written aside and renamed; a failure keeps the old cursor.
AckSave ==
    /\ rpc = "ack_delete"
    /\ stale = target.seq
    /\ acked' = target
    /\ \/ cursor' = target /\ UNCHANGED faults
       \/ Fault /\ UNCHANGED cursor
    /\ rpc' = "ack_sync"
    /\ UNCHANGED <<exist, segs, shared, gc_seq, permit, call, active, read,
                   in_flight, read_failed, acking, crashes, history>>

\* sync_acked_seq, under the mutex.
AckSync ==
    /\ rpc = "ack_sync"
    /\ Unlocked
    /\ gc_seq' = acked.seq
    /\ rpc' = "idle"
    /\ UNCHANGED <<disk, shared, permit, call, active, receiver, acking,
                   bounds, history>>

-----------------------------------------------------------------------------
(* The process dies, or ends, and create_disk_queue runs in the next one. *)

\* Mutant of IsHighest: the directory is not scanned.
IsZero(s) == s = 0

\* recover_state: the highest segment in the directory, 0 if there is none.
IsHighest(s) == /\ \A t \in exist : t <= s
                /\ s \in exist \/ (exist = {} /\ s = 0)

Restart ==
    /\ crashes < MaxCrashes
    /\ crashes' = crashes + 1
    /\ \E s \in Seqs : IsHighest(s) /\ write_seq' = s
    /\ write_file' = FALSE /\ closed' = FALSE /\ appending' = None
    /\ owed' = 0 /\ permit' = FALSE
    /\ gc_seq' = cursor.seq
    /\ read' = cursor /\ acked' = cursor /\ in_flight' = <<>>
    /\ read_failed' = FALSE
    /\ target' = cursor /\ stale' = cursor.seq
    /\ rpc' = "idle" /\ call' = "recv" /\ active' = FALSE
    /\ UNCHANGED <<disk, faults, history>>

-----------------------------------------------------------------------------
Sender == \/ \E e \in Events : BeginAppend(e) \/ FailAppend(e)
          \/ BreakAppend \/ EndAppend \/ Notify \/ DropSender

Reader == Recv \/ ReadLine \/ ReadFails \/ LookupFails \/ NextSegment
          \/ InspectTail \/ Reread \/ NothingRead \/ CancelRecv

Acker == \/ \E j \in 1 .. Len(in_flight) : AckTo(j)
         \/ AckDelete \/ AckSave \/ AckSync

Next == Sender \/ Reader \/ Acker \/ Restart

Spec == Init /\ [][Next]_vars

\* The consumer task keeps calling recv, polling it and finishing its acks,
\* and a thread inside write_to_segment or about to notify gets to run: tokio
\* schedules every ready task.  Nothing makes a sender send, a recv be
\* cancelled, an event be acked or the process die.
Fairness ==
    /\ WF_vars(Reader /\ ~CancelRecv)
    /\ WF_vars(AckDelete \/ AckSave \/ AckSync)
    /\ WF_vars(BreakAppend \/ EndAppend)
    /\ WF_vars(Notify)

\* The two ways past an unread line are left out: a rotation between the
\* receiver's look at its segment and its look at write_seq, and a segment file
\* that is there but cannot be looked up.
Quiet == /\ rpc \in {"eof", "missing"} => write_seq' = write_seq
         /\ ~LookupFails

QuietSpec == Init /\ [][Next /\ Quiet]_vars /\ Fairness

-----------------------------------------------------------------------------
(* Properties *)

\* Type invariant: the shape of the files, of the shared state behind the
\* mutex and of the receiver.
TypeOK ==
    /\ exist \in SUBSET Seqs
    /\ segs \in [Seqs -> Seq(Line)]
    /\ cursor \in Position
    /\ write_seq \in Seqs /\ write_file \in BOOLEAN /\ gc_seq \in Seqs
    /\ closed \in BOOLEAN /\ appending \in Events \cup {None}
    /\ owed \in Nat /\ permit \in BOOLEAN
    /\ rpc \in {"idle", "check", "missing", "eof", "torn", "reread", "none",
                "parked", "ended", "ack_delete", "ack_sync"}
    /\ call \in {"recv", "last", "try"} /\ active \in BOOLEAN
    /\ read \in Position /\ acked \in Position
    /\ in_flight \in Seq(InFlight) /\ read_failed \in BOOLEAN
    /\ target \in Position /\ stale \in Seqs
    /\ faults \in Nat /\ crashes \in Nat
    /\ tried \in SUBSET Events /\ sent \in SUBSET Events
    /\ handed \in SUBSET Events /\ settled \in SUBSET Events
    /\ skipped \in SUBSET Events

\* The complete line i of segment s would be read again after a restart.
Replayable(s, i) == segs[s][i].done /\ NotAfter(cursor, At(s, i - 1))

ReplaySet == UNION {{segs[s][i].ev : i \in {j \in 1 .. Len(segs[s]) :
                                              Replayable(s, j)}} : s \in exist}

\* At-least-once (disk.rs header): whatever crash comes next, an event whose
\* send succeeded was acked, or a restart replays it from the persisted
\* cursor, or the receiver had stepped over it (at a stale end of file, or
\* because the segment's file could not be looked up).
NothingLost == sent \subseteq settled \cup ReplaySet \cup skipped

\* The receiver is the only one that loses events: without a rotation between
\* its two looks, and with every file that exists found, no event is ever
\* stepped over, whatever other I/O error comes.
NothingSkipped == skipped = {}

\* disk.rs header: unread segments are never deleted.  Every complete line
\* that recv never returned is still in the directory.
UnreadNeverDeleted ==
    sent \ handed \subseteq
        UNION {{segs[s][i].ev : i \in 1 .. Len(segs[s])} : s \in exist}

\* write_to_segment never appends to an unterminated tail, not after a failed
\* write nor after a crash in the middle of one: the record would be glued to
\* the garbage and both lost.
TornOnlyAtTail ==
    \A s \in Seqs : \A i \in 1 .. Len(segs[s]) :
        i < Len(segs[s]) => segs[s][i].done

\* Recovery takes write_seq from the directory and the read position from the
\* cursor file: the two agree, the writer never appends below the reader,
\* where nobody would look again.
WriterNotBehindReader == NotAfter(read, At(write_seq, Len(segs[write_seq])))

\* recv returns None only when every sender is gone, and then every event that
\* was durably sent has been handed out (or stepped over), unless the read
\* after the closing itself failed: an I/O error in the read before it, which
\* recv takes for an empty log just the same, costs nothing.
EndedMeansDrained ==
    rpc = "ended" =>
        /\ closed
        /\ read_failed \/ sent \subseteq handed \cup settled \cup skipped

\* The persisted cursor never moves back, across restarts too, and never moves
\* past an event that is still in flight.
CursorStep ==
    /\ NotAfter(cursor, cursor')
    /\ cursor' # cursor =>
         \A j \in 1 .. Len(in_flight') : NotAfter(cursor', in_flight'[j].start)

CursorOnlyAdvances == [][CursorStep]_vars

\* The receiver took a read error for an empty log: it has ended, or waits for
\* a notification that only the next send brings.
LeftByError == read_failed /\ rpc \in {"parked", "ended"}

\* No wake-up is lost: every event that reached the log is handed out, by this
\* process or a later one, however the notifications and the receiver's looks
\* at the log interleave.  Only the one the receiver goes to sleep on after a
\* read error waits for the next send.
SentIsHanded ==
    \A e \in Events :
        (e \in sent) ~> (e \in handed \cup skipped \/ LeftByError)

ALO == INSTANCE AtLeastOnce WITH accepted <- sent, replay <- ReplaySet

\* In the schedules without these two steps the disk queue implements the
\* at-least-once queue.
ImplementsAtLeastOnce == ALO!Spec
=============================================================================
