--------------------------- MODULE QueueConsumer ---------------------------
(***************************************************************************)
(* The consumer task of one output (run_queue_consumer, queue/mod.rs): it   *)
(* hands every event of its queue to the output with a QueueAckHandle, and  *)
(* advances the queue's cursor when the handle's disposition comes back on  *)
(* the ack channel.                                                         *)
(*                                                                          *)
(* Events are numbered by their position in the queue.  The queue is seen   *)
(* through its interface: the memory backend is tokio's bounded channel     *)
(* (a send reserves a permit and commits its value later), the disk backend *)
(* is the write-ahead log of DiskQueue, seen as a log and a cursor.  The    *)
(* output is the environment: it resolves the handles it holds in any order *)
(* and with any disposition.                                                *)
(***************************************************************************)
EXTENDS Integers, Sequences, FiniteSets

CONSTANTS
    Backends,       \* the QueueBackendKinds considered: "memory", "disk"
    N,              \* bound: events ever sent
    Capacity,       \* memory backend: the channel's capacity
    RecvBatchMax,   \* RECV_BATCH_MAX
    AckBatchMax,    \* ACK_RECV_BATCH_MAX
    MaxCrashes      \* bound: process crashes and restarts (disk backend)

ASSUME QueueConsumerAssumption ==
    /\ Backends \subseteq {"memory", "disk"}
    /\ N \in Nat
    /\ Capacity \in Nat \ {0}
    /\ RecvBatchMax \in Nat \ {0}
    /\ AckBatchMax \in Nat \ {0}
    /\ MaxCrashes \in Nat

Positions    == 1 .. N
Dispositions == {"Delivered", "Recovered", "Dropped"}
Resolution   == [pos : Positions, disp : Dispositions]

VARIABLES
    backend,        \* queue: the kind this output is configured with
    sent,           \* queue: events whose send has committed, 1 .. sent
    reserved,       \* memory queue: permits granted and not yet committed
    senders,        \* queue: is a QueueSender still alive?
    rx_closed,      \* memory queue: the receiver called close()
    taken,          \* queue: the last event recv returned
    marked,         \* disk queue: positions given to ack_to
    cursor,         \* disk queue: persisted end of the acked prefix
    pc,             \* the consumer's program counter
    next,           \* the last event handed to the output
    accepting, wedged, in_flight,
    ack_batch,      \* resolutions taken from the channel, not yet handled
    acks,           \* the unbounded ack channel
    held,           \* the output: handles not yet resolved
    shutdown,       \* the shutdown watch
    failed,         \* metrics.events_failed as bumped by the consumer
    crashes,
    wedge,          \* history: where the consumer wedged, 0 if it did not
    wedges,         \* history: every such position, of every process
    dropped,        \* history: resolved Dropped in this process
    safe            \* history: resolved Delivered or Recovered, ever

queue    == <<backend, sent, reserved, senders, rx_closed, taken>>
log      == <<marked, cursor>>
flags    == <<accepting, wedged>>
history  == <<wedge, wedges, dropped, safe>>
vars     == <<backend, sent, reserved, senders, rx_closed, taken, marked,
              cursor, pc, next, accepting, wedged, in_flight, ack_batch, acks, held,
              shutdown, failed, crashes, wedge, wedges, dropped, safe>>

Init ==
    /\ backend \in Backends
    /\ sent = 0 /\ reserved = 0 /\ senders = TRUE /\ rx_closed = FALSE
    /\ taken = 0 /\ marked = {} /\ cursor = 0
    /\ pc = "select" /\ next = 0
    /\ accepting = TRUE /\ wedged = FALSE /\ in_flight = 0
    /\ ack_batch = <<>> /\ acks = <<>> /\ held = {}
    /\ shutdown = FALSE /\ failed = 0 /\ crashes = 0
    /\ wedge = 0 /\ wedges = {} /\ dropped = {} /\ safe = {}

-----------------------------------------------------------------------------
(* The queue's two ends. *)

\* QueueSender::send, memory: a permit is granted while there is room ...
Reserve ==
    /\ backend = "memory" /\ senders /\ ~rx_closed
    /\ sent + reserved < N
    /\ (sent - taken) + reserved < Capacity
    /\ reserved' = reserved + 1
    /\ UNCHANGED <<backend, sent, senders, rx_closed, taken, log, pc, next, flags,
                   in_flight, ack_batch, acks, held, shutdown, failed,
                   crashes, history>>

\* ... and used, also after close().  Send returns Ok.
Commit ==
    /\ reserved > 0
    /\ reserved' = reserved - 1
    /\ sent' = sent + 1
    /\ UNCHANGED <<backend, senders, rx_closed, taken, log, pc, next, flags, in_flight,
                   ack_batch, acks, held, shutdown, failed, crashes, history>>

\* QueueSender::send, disk: durable before it returns.
SendDisk ==
    /\ backend = "disk" /\ senders /\ sent < N
    /\ sent' = sent + 1
    /\ UNCHANGED <<backend, reserved, senders, rx_closed, taken, log, pc, next, flags,
                   in_flight, ack_batch, acks, held, shutdown, failed,
                   crashes, history>>

\* The last pipeline drops its QueueSender.
DropSenders ==
    /\ senders /\ reserved = 0
    /\ senders' = FALSE
    /\ UNCHANGED <<backend, sent, reserved, rx_closed, taken, log, pc, next, flags,
                   in_flight, ack_batch, acks, held, shutdown, failed,
                   crashes, history>>

\* Mutant of RecvEnds: a try_recv snapshot, blind to the permit holders.
SnapshotEnds == taken = sent /\ (rx_closed \/ ~senders)

\* recv().await returns None: closed, empty, and no permit outstanding.
RecvEnds == taken = sent /\ reserved = 0 /\ (rx_closed \/ ~senders)

\* Mutant of AckTo: the cursor jumps to the acked position.
AckToJumps(p) ==
    /\ backend = "disk"
    /\ marked' = marked \cup {p}
    /\ cursor' = IF p > cursor THEN p ELSE cursor

\* QueueReceiver::ack_to: the disk cursor advances through the contiguous
\* acked prefix; the memory backend keeps no cursor.
AckTo(p) ==
    \/ backend = "memory" /\ UNCHANGED log
    \/ /\ backend = "disk"
       /\ marked' = marked \cup {p}
       /\ \E c \in cursor .. sent :
            /\ \A q \in cursor + 1 .. c : q \in marked'
            /\ c + 1 \notin marked'
            /\ cursor' = c

-----------------------------------------------------------------------------
(* The output: takes a handle, and resolves each one it holds once. *)

\* consume / consume_shutdown: the output owns the handle of the next event.
HandOver ==
    /\ next' = next + 1
    /\ held' = held \cup {next + 1}
    /\ in_flight' = in_flight + 1

\* resolve_delivered, resolve_recovered, resolve_dropped, or the Drop impl.
Resolve(p, d) ==
    /\ p \in held
    /\ held' = held \ {p}
    /\ acks' = Append(acks, [pos |-> p, disp |-> d])
    /\ \/ d = "Dropped" /\ dropped' = dropped \cup {p} /\ UNCHANGED safe
       \/ d # "Dropped" /\ safe' = safe \cup {p} /\ UNCHANGED dropped
    /\ UNCHANGED <<queue, log, pc, next, flags, in_flight, ack_batch,
                   shutdown, failed, crashes, wedge, wedges>>

-----------------------------------------------------------------------------
(* The consumer loop: a biased select over shutdown, acks and the queue. *)

\* The daemon sets the shutdown watch.
RequestShutdown ==
    /\ ~shutdown
    /\ shutdown' = TRUE
    /\ UNCHANGED <<queue, log, pc, next, flags, in_flight, ack_batch, acks,
                   held, failed, crashes, history>>

\* Mutant of ShutdownReady: a wedged consumer does not listen.
ShutdownReadyAccepting == shutdown /\ accepting

ShutdownReady == shutdown /\ (accepting \/ wedged)

\* Shutdown arm: a wedged consumer and a disk queue leave what is unread; a
\* memory queue is closed and drained.
Shutdown ==
    /\ pc = "select" /\ ShutdownReady
    /\ \/ /\ ~wedged /\ backend = "memory"
          /\ rx_closed' = TRUE /\ pc' = "drain"
       \/ /\ wedged \/ backend = "disk"
          /\ pc' = "flush" /\ UNCHANGED rx_closed
    /\ UNCHANGED <<backend, sent, reserved, senders, taken, log, next, flags, in_flight,
                   ack_batch, acks, held, shutdown, failed, crashes, history>>

\* The drain: recv until None, each event given to consume_shutdown.
Drain ==
    /\ pc = "drain"
    /\ \/ /\ taken < sent
          /\ taken' = taken + 1
          /\ HandOver
          /\ UNCHANGED pc
       \/ /\ RecvEnds
          /\ pc' = "flush"
          /\ UNCHANGED <<taken, next, held, in_flight>>
    /\ UNCHANGED <<backend, sent, reserved, senders, rx_closed, log, flags, ack_batch,
                   acks, shutdown, failed, crashes, history>>

TakeAcks ==
    /\ acks # <<>>
    /\ LET n == IF Len(acks) < AckBatchMax THEN Len(acks) ELSE AckBatchMax IN
         /\ ack_batch' = SubSeq(acks, 1, n)
         /\ acks' = SubSeq(acks, n + 1, Len(acks))

\* Ack arm: up to AckBatchMax resolutions in one wake.
RecvAcks ==
    /\ pc = "select" /\ ~ShutdownReady
    /\ TakeAcks
    /\ pc' = "acks"
    /\ UNCHANGED <<queue, log, next, flags, in_flight, held, shutdown, failed,
                   crashes, history>>

DroppedOnDisk(r) == r.disp = "Dropped" /\ backend = "disk"

\* record_wedge_transition_if_first.
RecordWedge(r) ==
    IF DroppedOnDisk(r) /\ ~wedged
    THEN wedged' = TRUE /\ wedge' = r.pos /\ wedges' = wedges \cup {r.pos}
    ELSE UNCHANGED <<wedged, wedge, wedges>>

\* handle_ack_disposition: the only place that counts a Dropped event.
CountDropped(r) == failed' = failed + (IF r.disp = "Dropped" THEN 1 ELSE 0)

\* Mutant of Settle: the wedge is recorded but acceptance goes on.
SettleAccepting(r) ==
    /\ CountDropped(r)
    /\ RecordWedge(r)
    /\ IF wedged' # wedged THEN UNCHANGED log ELSE AckTo(r.pos)
    /\ UNCHANGED accepting
    /\ in_flight' = in_flight - 1

\* Mutant of Settle: the wedging event is acked like any other.
SettleWedgeAcked(r) ==
    /\ CountDropped(r)
    /\ RecordWedge(r)
    /\ AckTo(r.pos)
    /\ accepting' = (accepting /\ wedged' = wedged)
    /\ in_flight' = in_flight - 1

\* ack_to, the wedge and the counters for one resolution of the ack arm: the
\* first Dropped on disk wedges and holds its position; everything else, a
\* later Dropped too, goes to ack_to.
Settle(r) ==
    /\ CountDropped(r)
    /\ RecordWedge(r)
    /\ \/ /\ wedged' # wedged
          /\ accepting' = FALSE /\ UNCHANGED log
       \/ /\ wedged' = wedged
          /\ AckTo(r.pos) /\ UNCHANGED accepting
    /\ in_flight' = in_flight - 1

\* Mutant of HandleAck: every ack of a consumer that stopped accepting exits.
HandleAckBreaksEarly ==
    /\ pc = "acks"
    /\ Settle(Head(ack_batch))
    /\ \/ ~accepting' /\ pc' = "flush" /\ ack_batch' = <<>>
       \/ /\ accepting'
          /\ ack_batch' = Tail(ack_batch)
          /\ pc' = IF ack_batch' = <<>> THEN "select" ELSE "acks"
    /\ UNCHANGED <<queue, next, acks, held, shutdown, crashes, dropped, safe>>

\* One resolution of the ack arm.  The last one of a consumer that stopped
\* accepting leaves the loop, and the rest of the batch, at once.
HandleAck ==
    /\ pc = "acks"
    /\ Settle(Head(ack_batch))
    /\ LET stop == ~accepting' /\ in_flight' = 0 IN
         \/ stop /\ pc' = "flush" /\ ack_batch' = <<>>
         \/ /\ ~stop
            /\ ack_batch' = Tail(ack_batch)
            /\ pc' = IF ack_batch' = <<>> THEN "select" ELSE "acks"
    /\ UNCHANGED <<queue, next, acks, held, shutdown, crashes, dropped, safe>>

\* Mutant of RecvMany: the batch is not limited to what is queued.
RecvManyFull ==
    /\ pc = "select" /\ ~ShutdownReady /\ acks = <<>> /\ accepting
    /\ taken < sent
    /\ taken' = taken + RecvBatchMax
    /\ pc' = "consume"
    /\ UNCHANGED <<backend, sent, reserved, senders, rx_closed, log, next, flags,
                   in_flight, ack_batch, acks, held, shutdown, failed,
                   crashes, history>>

\* Queue arm: recv_many takes what is there, up to RecvBatchMax ...
RecvMany ==
    /\ pc = "select" /\ ~ShutdownReady /\ acks = <<>> /\ accepting
    /\ taken < sent
    /\ taken' = IF sent - taken < RecvBatchMax THEN sent
                                               ELSE taken + RecvBatchMax
    /\ pc' = "consume"
    /\ UNCHANGED <<backend, sent, reserved, senders, rx_closed, log, next, flags,
                   in_flight, ack_batch, acks, held, shutdown, failed,
                   crashes, history>>

\* ... or finds the queue closed and empty.
QueueClosed ==
    /\ pc = "select" /\ ~ShutdownReady /\ acks = <<>> /\ accepting
    /\ RecvEnds
    /\ accepting' = FALSE
    /\ pc' = IF in_flight = 0 THEN "flush" ELSE "select"
    /\ UNCHANGED <<queue, log, next, wedged, in_flight, ack_batch, acks, held,
                   shutdown, failed, crashes, history>>

\* One event of the batch is handed to the output.
Consume ==
    /\ pc = "consume"
    /\ HandOver
    /\ pc' = IF next + 1 = taken THEN "select" ELSE "consume"
    /\ UNCHANGED <<queue, log, flags, ack_batch, acks, shutdown, failed,
                   crashes, history>>

-----------------------------------------------------------------------------
(* After the loop. *)

\* writer.shutdown() or shutdown_wedged() returns; ack_tx is dropped.
FlushReturns ==
    /\ pc = "flush"
    /\ pc' = "post"
    /\ UNCHANGED <<queue, log, next, flags, in_flight, ack_batch, acks, held,
                   shutdown, failed, crashes, history>>

RecvLastAcks ==
    /\ pc = "post" /\ ack_batch = <<>>
    /\ TakeAcks
    /\ UNCHANGED <<queue, log, pc, next, flags, in_flight, held, shutdown,
                   failed, crashes, history>>

\* A Dropped on disk is never acked here.
HandleLastAck ==
    /\ pc = "post" /\ ack_batch # <<>>
    /\ LET r == Head(ack_batch) IN
         /\ CountDropped(r)
         /\ RecordWedge(r)
         /\ \/ DroppedOnDisk(r) /\ UNCHANGED log
            \/ ~DroppedOnDisk(r) /\ AckTo(r.pos)
    /\ in_flight' = in_flight - 1
    /\ ack_batch' = Tail(ack_batch)
    /\ UNCHANGED <<queue, pc, next, accepting, acks, held, shutdown, crashes,
                   dropped, safe>>

\* Mutant of Stop: the consumer does not wait for the last handles.
StopEarly ==
    /\ pc = "post" /\ ack_batch = <<>>
    /\ acks = <<>>
    /\ pc' = "stopped"
    /\ UNCHANGED <<queue, log, next, flags, in_flight, ack_batch, acks, held,
                   shutdown, failed, crashes, history>>

\* The ack channel reports closed: empty, and no handle holds its sender.
Stop ==
    /\ pc = "post" /\ ack_batch = <<>>
    /\ acks = <<>> /\ held = {}
    /\ pc' = "stopped"
    /\ UNCHANGED <<queue, log, next, flags, in_flight, ack_batch, acks, held,
                   shutdown, failed, crashes, history>>

\* The daemon dies or is stopped, and is started again: the disk queue is
\* read from its cursor.
Restart ==
    /\ backend = "disk" /\ crashes < MaxCrashes
    /\ crashes' = crashes + 1
    /\ taken' = cursor /\ next' = cursor /\ marked' = {}
    /\ senders' = TRUE
    /\ pc' = "select" /\ accepting' = TRUE /\ wedged' = FALSE
    /\ in_flight' = 0 /\ ack_batch' = <<>> /\ acks' = <<>> /\ held' = {}
    /\ shutdown' = FALSE /\ failed' = 0
    /\ wedge' = 0 /\ dropped' = {}
    /\ UNCHANGED <<backend, sent, reserved, rx_closed, cursor, wedges, safe>>

-----------------------------------------------------------------------------
Pipelines == Reserve \/ Commit \/ SendDisk \/ DropSenders

Output == \E p \in held, d \in Dispositions : Resolve(p, d)

Consumer == Shutdown \/ Drain \/ RecvAcks \/ HandleAck \/ RecvMany
            \/ QueueClosed \/ Consume \/ FlushReturns \/ RecvLastAcks
            \/ HandleLastAck \/ Stop

Next == Pipelines \/ Output \/ RequestShutdown \/ Consumer \/ Restart

Spec == Init /\ [][Next]_vars

\* The consumer task is scheduled whenever it can run, a sender that has its
\* permit writes its value (it does not await in between), and the output
\* resolves the handles it holds once the consumer has called its shutdown.
\* In steady state nothing makes it resolve anything.
Fairness ==
    /\ WF_vars(Consumer)
    /\ WF_vars(Commit)
    /\ WF_vars(pc \in {"flush", "post"} /\ Output)

FairSpec == Spec /\ Fairness

-----------------------------------------------------------------------------
(* Properties *)

\* Type invariant of the queue's ends, the consumer's locals and the channel.
TypeOK ==
    /\ backend \in Backends
    /\ sent \in 0 .. N /\ reserved \in 0 .. Capacity
    /\ senders \in BOOLEAN /\ rx_closed \in BOOLEAN
    /\ taken \in 0 .. sent /\ next \in 0 .. taken
    /\ marked \in SUBSET Positions /\ cursor \in 0 .. N
    /\ pc \in {"select", "drain", "acks", "consume", "flush", "post",
               "stopped"}
    /\ accepting \in BOOLEAN /\ wedged \in BOOLEAN /\ in_flight \in 0 .. N
    /\ ack_batch \in Seq(Resolution) /\ acks \in Seq(Resolution)
    /\ held \in SUBSET Positions
    /\ shutdown \in BOOLEAN /\ failed \in Nat /\ crashes \in Nat
    /\ wedge \in 0 .. N /\ wedges \in SUBSET Positions
    /\ dropped \in SUBSET Positions /\ safe \in SUBSET Positions

\* The fail-stop wedge: the first event that could be neither delivered nor
\* dead-lettered stays in front of the persisted cursor, whatever is acked
\* after it and in whatever order, so the next start replays it.
WedgeHolds == wedged => cursor < wedge

\* resolve_dropped: "On a disk queue this holds the cursor at the event's
\* position so a subsequent daemon start replays it": the cursor only ever
\* passes events that were delivered or dead-lettered.
CursorHonest == 1 .. cursor \subseteq safe

\* What the ack arm does guarantee: an event the cursor passed without a safe
\* disposition lies below a position at which a consumer wedged.
LostOnlyBelowWedge ==
    \A p \in 1 .. cursor : p \in safe \/ \E w \in wedges : p < w

\* When the consumer has stopped every handle it created was resolved and
\* accounted for, and events_failed counted each Dropped exactly once.
StoppedAccounted ==
    pc = "stopped" => /\ in_flight = 0 /\ held = {} /\ acks = <<>>
                      /\ failed = Cardinality(dropped)

\* A resolution is never thrown away: the early exit from the middle of an ack
\* batch (break 'consumer) only happens when nothing is left.
NoAckDiscarded ==
    in_flight = Cardinality(held) + Len(acks) + Len(ack_batch)

\* Memory backend: an event whose send returned Ok is handed to the output
\* before the consumer stops, also when its sender had only a permit when the
\* receiver was closed.
MemoryDrained ==
    (backend = "memory" /\ pc = "stopped") => next = sent /\ reserved = 0

\* After the wedge the output is given no further event.
NoWorkAfterWedge == [][wedged /\ wedged' => next' = next]_vars

\* A shutdown seen by a consumer that still accepts events, or that has
\* wedged with handles parked in a batched output, always ends it (unless the
\* process dies first and the next one starts with the watch reset).
ShutdownEnds ==
    (shutdown /\ (accepting \/ wedged)) ~> (pc = "stopped" \/ ~shutdown)
=============================================================================
