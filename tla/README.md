# limpid, specified in TLA+

limpid is a log pipeline daemon: inputs receive events, pipelines transform
them, outputs deliver them. What makes it hard is what it promises on the way:
an event whose enqueue on a disk queue succeeded is delivered at least once, an
event that cannot be delivered ends on the dead-letter file, a shutdown or a
reload drains what is between the stages, and nothing is counted twice or
counted as something it was not. This project models the code that carries
those promises, checks it with TLC, and proves every safety property the runs
check, for all values of the constants, with TLAPS. Paths below are relative to `src/crates/limpid/src/`.

## Inventory

| Part | State | Operations | Interacts with |
| --- | --- | --- | --- |
| Disk queue, `queue/disk.rs` | segment files, cursor file, `write_seq`/`write_file`/`acked_seq` behind a mutex, `closed`, a `Notify`, the receiver's read and acked positions and `in_flight_positions` | `send`, `recv`, `try_recv`, `ack_to`, rotation, `enforce_max_size`, `recover_state` | senders on many workers, one receiver that reads the files without the mutex |
| Queue consumer, `queue/mod.rs` | `accepting`, `wedged`, `in_flight`, the ack channel, the queue's two ends | the arms of its `select!` (shutdown, acks, events), the drain, the post-loop flush and ack drain | queue below, output above; outputs answer through `QueueAckHandle` on any task |
| Batched sink, `modules/output/batched.rs` | buffer, permits, `is_shutting_down`, two `Notify`s, the flusher's locals | `consume`, `consume_shutdown`, flusher actor, retries, `shutdown`, `shutdown_wedged`, `Drop` | consumer task and flusher actor share it; transport and DLQ are called from both |
| Pipeline worker, `runtime/pipeline_worker.rs` | the input channel's receiver, the event in hand | `run_pipeline_workers`, `enqueue_pipeline_outputs`, `process_event_at`, DLQ records | input channel, the output queues, the DLQ |
| Runtime lifecycle, `runtime/`, `main.rs` | the shutdown watch, task handles with their kinds | startup, `StartupGuard`, two-phase cleanup, reload and rollback | every task |
| Ack handles and taps, `event.rs`, `tap.rs` | the position each event carries, the clones of the event | fire on the last drop, disarm, clone for a subscriber | input, worker, tap subscribers |
| Tail input, `modules/input/tail.rs` | read cursor, acked watermark, ack generation, last inode, state file | poll, detect rotation and truncation, read, ack, save | whoever writes the log; the worker, through the ack handle |
| Journal and Windows event log inputs | a reader thread, a bounded channel, the saved cursor | open and resume, read, hand over, ack, stop and join | the log service; the worker |
| Listening inputs (syslog tcp/udp, raw udp, unix socket, ltp) | connection tasks and their handles, LTP's registry of established connections, counters | accept, hello, activate and evict, read, forward, abort | remote peers; the worker |
| Unbatched outputs (file, stdout, syslog tcp/udp, unix socket, ltp, kafka) with `syslog_peers.rs`, `persistent_conn.rs` | cached connections, peer cooldowns, rotation cursor | `consume`, `consume_shutdown`, connect, write, retry, dead-letter | consumer, remote peers, DLQ |
| Tables, `functions/table.rs` | entries with TTL, `insertion_order` | lookup, upsert, delete, evict | all workers |
| DLQ file, control server, taps, metrics | file handle, subscribers, counters | write, inject, subscribe, count | all |
| DSL, analyser, functions, configuration, CLI tools | none at run time | pure | - |

The hard behaviours, each at its line, are the `hazards` of `PROJECT.json`: a
reader that looks at files a writer is appending to, crashes between two file
operations, acks in any order, a shutdown flag that five kinds of tasks notice
at different times, a `Notify` that stores one wake-up or none, a send cut off
with its outcome unknown, aborts of tasks that hold events.

## Modules

**`DiskQueue`** models `queue/disk.rs`. A segment is a sequence of lines; a
byte offset is a line index and the lengths that decide rotation are a free
choice between staying and moving on. An append is two steps (`BeginAppend`
exposes an unterminated line, `EndAppend` completes it, runs
`enforce_max_size` and unlocks) or fails (`FailAppend` leaves nothing,
`BreakAppend` leaves the torn line). `try_read_next` is the steps its file and
mutex accesses make: `ReadLine`, `InspectTail`, `Reread`, `NextSegment`, and its
I/O errors: a segment that cannot be opened or read counts as nothing there
(`ReadFails`), one that cannot be looked up as missing (`LookupFails`). `ack_to`
is `AckTo` (find, mark, pop the prefix), `AckDelete` per stale segment,
`AckSave` and `AckSync`, with a crash possible between any two. `Restart` is a
crash at any point followed by `create_disk_queue`. File operations are
taken to be durable in the order they are issued; the code calls no fsync, so
this is a process crash and not a power failure. `AtLeastOnce` is the abstract queue it
implements. `MCDiskQueue` adds the symmetry set.

**`QueueConsumer`** models `run_queue_consumer` for both backends: the biased
`select!`, the ack batches of at most `ACK_RECV_BATCH_MAX`, the fail-stop wedge,
the shutdown drain, the flush of the output and the post-loop ack drain. The
disk queue appears as a log with a cursor that moves over the contiguous acked
prefix, which is what `DiskQueue` does. The output is the environment: it
resolves the handles it holds in any order and with any disposition.

**`BatchedSink`** models `modules/output/batched.rs` and the DLQ routing of
`modules/mod.rs`. An action is what runs between two awaits of one of the two
threads, the flusher actor and its caller. Render results, send results
(partial success included) and DLQ write results are free. The abstract
`AckContract` is what the consumer relies on: a handle taken is resolved
exactly once, and as many are resolved as delivered as the peer has confirmed
(`confirmed`, the sum of what each answer says it took).

**`Runtime`** composes the stages: an input, its bounded channel, the pipeline
worker, one queue and consumer per output, and the owner that starts them,
shuts them down, aborts the tasks that may be aborted, joins the rest, and
starts the next configuration or the previous one. An output of type `stream`
stands for unix_socket, stdout and syslog_udp, whose write has no deadline. A
journal input may never return from the join of its reader (`InputHangs`, which
`CursorInput` shows in detail), and the owner then waits for ever (`JoinHangs`).
The consumer is the one
of `QueueConsumer` seen from outside, with one event in hand. What a
pipeline makes of an event is a free choice of termination and outputs. Joining
is implicit: a task that has ended counts as joined, since `reap_tasks` joins in
any order. The graceful and the hard deadline may pass at any time.

**`AckPath`** is what the inputs share: the pipeline channel, the worker that
takes an event, completes it and drops it, the `AckHandle` that sends the
event's position back when the last clone goes, the disarming of a handle whose
event was not sent, and a tap subscriber that may keep a clone for any time and
so lets acks overtake each other.

**`TailInput`** models `modules/input/tail.rs`. The `select!` arms are
`TailStop`, `TailAck` and `Poll`; a poll goes on over `CheckFile` (inode,
rotation, truncation, reset), `OpenFile`, a `ReadLine` per line and `Drain`.
Length, inode and open are separate accesses by path, and the file may be
rotated, truncated, moved away and written between any two of them, also while
the daemon is down. Lines have unit length and a kind: text, blank, not UTF-8,
or not yet terminated. Each rotation or truncation begins a content with a
number of its own; positions carry that number as a history field, so that the
properties can say of which content an offset was. `passed` are lines that no
run had in flight when they were passed over; lines that one had read and not
processed when the next start went to the end of the file are `lines_lost`.

**`CursorInput`** models `journal.rs` and `windows_event_log.rs` together: a
reader thread, the actor, and the bounded channel between them. The `log`
variable selects the four points in which the two inputs differ. `skipped` and
`entries_lost` divide what is passed over as in the tail input; the entry that
`next()` steps over in place of a vacuumed one is lost too.

**`ListenerInput`** models syslog_tcp and ltp (accept loop, connection limit,
connection tasks, and for ltp the `EstablishedPeerConnections` registry of one
peer) and the datagram loops of `udp.rs` (syslog_udp, raw_udp) and
`unix_socket.rs`. An abort lands at any later moment, or never before the task
has ended by itself.

**`Inputs`** composes them: one input of any of these kinds with its worker, its
environment, the shutdown watch and crashes.

**`SingleSink`** models the seven unbatched outputs. They share a shape: an
attempt is a row of tries (over the peers, on a cached and then a new
connection, or one), a try connects if it must and writes a frame, and after the
attempts comes the dead-letter file. Where they differ (which of them watch for
shutdown and where, what an error does to the connection, what a drain
reports) the module asks for the kind. A write may put nothing, part or all of a frame on the
wire, and each stream (a connection, the file, standard output) remembers how
the last frame on it ended. With `SingleSink`, `BatchedSink` and `QueueConsumer` every output of
limpid is modelled but for the policies of the batched ones.

`MCBatchedSink` pairs the memory backend with chunks of one, where `consume` has
to wait for a permit, and the disk backend with chunks of two.

## Runs

| Run | Bounds | Shows |
| --- | --- | --- |
| `disk_safety` | 3 events, 3 segments, 2 I/O errors, 1 crash | `NothingLost`, `TornOnlyAtTail`, `WriterNotBehindReader`, `EndedMeansDrained`, `CursorOnlyAdvances`, with errors of append, cursor save and read |
| `disk_live` | 2 events, 3 segments, 1 error, 1 crash | without the rotation race and without a failed lookup (`QuietSpec`): `NothingSkipped`, the refinement `ImplementsAtLeastOnce`, and `SentIsHanded` |
| `disk_unread` | 3 events, 2 segments, no faults | violation of `UnreadNeverDeleted` |
| `consumer` | both backends, 3 events, batches of 2, 1 crash | the wedge holds, acks are neither lost nor counted twice, the memory drain is complete, shutdown ends |
| `consumer_honest` | disk, 2 events, no crash | violation of `CursorHonest` |
| `sink` | 3 events, memory with batch size 1 and disk with 2, 2 attempts, DLQ on and off; the peer answers or never does | one place and one disposition per handle, honest recovery, exact metrics, bounded ownership, the refinement of `AckContract`; shutdown resolves everything and a blocked `consume` returns |
| `sink_wedge` | disk, 2 events | violation of `NoSendAfterWedge` |
| `runtime_safety` | 1 event, 2 outputs of any type, both input kinds, DLQ on and off, 1 reload | `NothingVanishes`, `FinishedIsQueued` |
| `runtime_live` | 2 events, 1 output, queues of 1 | `ShutdownCompletes`: shutdown returns, or the journal input hangs and everything else has ended |
| `inputs` | 7 kinds; channel of 1. Tail: 2 contents of 2 lines, 2 troubles. Cursor inputs: 3 entries, 2 starts, 1 fault. Listeners: limit 3, 4 connections, 2 frames | `ResumeIsSafe`, `SavedIsOfThisFile`, `ListenersExact`, `CatchesUp`, `InputStops` |
| `journal_stop` | journal, 4 entries, entry channel of 1 | violation of `JournalStops` |
| `outputs` | 7 kinds, 3 events, 2 peers of which at most one is healthy, 2 attempts, both backends, DLQ on and off | `Honest`, `WholeFrames`, `ConsumeReturns` |

Why the bounds are enough. Two segments are needed to rotate once and a third
to rotate past a torn tail; three events put one in the finished segment, one
in the active one and one in flight; two I/O errors break an append and then
the attempt to repair it. In the consumer three positions give one in front of
the wedge, the wedge and one behind it, and batches of two let the loop be left
in the middle of one. In the sink, three events with `batch_size` 1 exceed the
permit cap of two and with `batch_size` 2 make a full and a partial chunk. In the
runtime one event meets every stage in every phase of a shutdown, two outputs
let one copy fail while the other is taken, and two events with queues of one
let every stage block on the next. Two contents of a file are an old and a new
one, two lines each let one ack be late and the other early, and two troubles
are two starts, a start and a failed save, or a start and an odd line. A file is moved away
only while a next content may come, so the last one stays; a case that ends with
the file gone is one of the next larger `MaxContents`, and the proofs cover it. Three
entries are one saved, one in flight and one waiting; four fill the channel, the
reader's and the actor's hand. Four connections with room for two in the
registry evict twice. Two peers let the healthy one come first, last or not at
all, and three events let later ones meet what the first left behind. Deadlock checking is off where the model may
legitimately stop (bounds used up, or a stopped consumer or sink).

## Fairness

Only liveness runs assume any. `DiskQueue`: the receiver keeps polling, `ack_to`
and an append that were begun go on, and a completed send reaches its
`notify_one`; sends, acks and crashes are never forced. `QueueConsumer`: the
consumer task and a sender holding a permit are scheduled; outputs are forced
to resolve only once they are told to shut down, which `Output::shutdown`
bounds by `SHUTDOWN_FLUSH_ATTEMPT_TIMEOUT`. `BatchedSink`: both threads are
scheduled, except that a send need never return, which is the point.
`Runtime`: tasks are scheduled, an abort lands at the next await, deadlines
pass, and a running input returns or, if it is the journal, hangs; an output may work on an event for ever unless its task is one that must
be joined and shutdown has been signalled, when `consume_shutdown` and the
flush timeout bound it, and its write is one that has a deadline at all
(`Bounded`). A file output stuck in the kernel is outside this. `Inputs`: the
input's task and thread and the worker are scheduled; nobody has to write, to
connect, or to let go of a tap's clone. `SingleSink`: the consumer task is
scheduled and backoffs end; a connect or a write ends only where the code gives
it a timeout or a shutdown to watch (`Deadline`). In `consume` the send of
syslog_udp and the write of unix_socket have neither, the connect of unix_socket
(`unix_socket.rs:321`) only the watch, and of a file nothing is assumed.

## Proofs

Each component has a proof module beside it. The theorems hold for every value
of the constants that the component's one `ASSUME` admits: the types of the
bounds, that capacities and limits are not zero, and that the configured kinds
are among those the code has. There is no other assumption. The layout is the same
everywhere: an inductive invariant `IInv` made of named parts, a lemma per
action, a step lemma, and the theorems by `PTL`. Each `IInv` was checked by TLC
on the instance of its run before it was proved.

| Module | Theorems |
| --- | --- |
| `DiskQueueProofs` | `TypeOK`, `NothingLost`, `TornOnlyAtTail`, `WriterNotBehindReader`, `CursorOnlyAdvances` |
| `DiskQueueContractProofs` | `EndedMeansDrained`; under `QuietSpec` also `NothingSkipped` and the refinement of `AtLeastOnce` |
| `QueueConsumerProofs` | `TypeOK`, `WedgeHolds`, `LostOnlyBelowWedge`, `NoAckDiscarded`, `StoppedAccounted`, `MemoryDrained`, `NoWorkAfterWedge` |
| `BatchedSinkProofs` | `TypeOK`, `OwnedOnce`, `NoFabricatedRecovery`, `RecoveredIsOnRecord`, `MetricsExact`, `OwnershipBound`, the refinement of `AckContract` |
| `RuntimeProofs` | `TypeOK`, `NothingVanishes`, `FinishedIsQueued` |
| `SingleSinkProofs` | `TypeOK`, `Honest`, `WholeFrames` |
| `ListenerInputProofs` | `ListenersExact` |
| `ResumeProofs` | `TypeOK` of `Inputs`, `ResumeIsSafe`, `SavedIsOfThisFile` |

**Disk queue.** `NothingLost` is not inductive. That a restart replays an
unacked event needs the cursor not to have passed it, hence the order cursor,
acked, read, writer (`OrderInv`, `WriterNotBehindReader`); that popping the
acked prefix never passes an unacked event needs the in-flight entries to be
sorted, to quote lines that are still in their files (`EntryInv`, `SortedInv`)
and to be all the read lines that are neither settled nor skipped (`PassedInv`);
that deleting segments below the target is safe needs the target to lie before
everything in flight while `ack_to` runs (`AckInv`); and that lines keep their
place needs the facts about files and the append under way (`FilesInv`,
`AppendInv`, `TailInv`, `TornOnlyAtTail`). `KeptInv` is `NothingLost` element by
element. On top of it, `LastInv` says what the read after the last sender knows
(the log stands still, so the end it finds is the end), and `ScanInv` what the
reader knows at the end of a segment when no rotation races it. With that no
record is skipped, and every step is one of `AtLeastOnce` or none of its
concern (`QueueKeepsContract`).

**Queue consumer.** The resolutions not handled yet are the batch followed by
the ack channel (`Pending`). `CountInv` ties `in_flight` to the handles held plus
`Pending`, and `events_failed` to the Dropped ones no longer in it; `OnceInv`
has every handle resolved once; `LiveInv` keeps a position that is held or
pending ahead of the cursor, unmarked and off the wedge, which is why a wedged
position is never acked; and `HonestInv` says of every acked position that it is
safe, or below some wedge, or above this process's wedge and so out of the
cursor's reach.

**Batched sink.** `OwnerInv` says that the unresolved events are the disjoint
union of the buffer and the three lists of each thread, `ListInv` that no list
repeats an event, `PermitInv` that before shutdown what the sink owns holds
permits, and `MaybeInv` that the unresolved events of a cut-off send are on the
ambiguous route, so they are never reported as recovered. The refinement of
`AckContract` follows, since each event leaves that union once.

**Runtime.** `StopInv` is the heart: a stage that is not running holds nothing,
or nothing that the disk does not hold. With `OwnerInv` (no task that must be
joined is aborted, and the owner is done only when those have ended),
`FreshInv` (event numbers are used once) and the three statements of where an
accepted event, an emitted copy and a queued copy are (`EventInv`, `RecordInv`,
`QueuedInv`), `NothingVanishes` follows through any sequence of failed starts,
reloads and rollbacks.

**Unbatched outputs.** `FrameInv` says what every stream can have at its end
(`MayFollow`), which outputs can try again after part of a frame is out, and
that stdout and syslog_udp do not; and `HealthyInv` that a healthy peer is
still to come in the row of tries (`Ahead(h) < left`); the index arithmetic of
the peer list is a lemma of its own. From these `Honest` has that an event is
not given up while a healthy peer is there.

**Inputs.** For the listeners, `RegistryInv` relates registry, established
connections and aborts, and `HandlesInv` the tasks that run to the handles that
are counted. For the inputs that keep a position the argument is one: what an
ack vouches for (`Vouched`) was completed, was passed over, or is
ahead of the ack's own event in the pipe (`PathInv`). It survives the worker, a
tap that keeps a clone for any time, and the drop of either (`PathCarries`). The
cursor inputs add the way from the reader over the entry channel to the actor
(`FeedInv`), the tail input what `read_offset`, the watermark and the state file
cover (`TailRead`) and that nothing of the current generation is of a content
older than the last reset (`BaseInv`). `LossInv` adds that what a run has read is
never ahead of its own reader, so that only a later run can pass over it:
`ResumeIsSafe` exempts `misread` contents, `lines_lost` and `entries_lost` by
name, and says of the last two that they are empty before a restart.

What the proofs changed in the models. An overlapping `CASE` in `SingleSink` is
now an `IF`, the rendered batch of `BatchedSink` is `InOrder` of the buffer, and
`Release` removes at a position. The invariant for the tail input failed for a
good reason: `SavedIsProcessed` exempts contents that were read from an offset of
another content (`misread`), and the exemption used to end when the content was
read again from its start. TLC shows with three contents of three lines that
this is too early: the file is truncated during a pass, lines of the new content
are sent with offsets of the old one, a line that is not UTF-8 fails the pass and
leaves `read_offset` at 0, the content is read again from 0, and then the late
ack of the first pass is saved although lines below it are still unprocessed.
The exemption now lasts until the reset or the restart that forgets the acks.

Model-checked only, since fairness and `ENABLED` are beyond the prover:
`SentIsHanded`, `ShutdownEnds`, `ShutdownResolves`, `ConsumeReturns` (of both sinks),
`ShutdownCompletes`, `CatchesUp` and `InputStops`. The violation runs are
counterexamples and need no proof.

## Findings

1. `disk_unread`: the reader takes the end of a segment for final although
   the writer may still append to it and rotate before the reader asks for
   `write_seq` (`queue/disk.rs:502`). The record appended in between is never
   read, and a later ack deletes it. `NothingLost` names the events this and a
   failed lookup of a segment affect (`skipped`); the proof shows that nothing
   else loses one.
2. `consumer_honest`: after the wedge a Dropped for an earlier position is acked
   (`queue/mod.rs:1480`), so the cursor passes an event that was neither
   delivered nor dead-lettered. `LostOnlyBelowWedge` is what holds instead.
3. `sink_wedge`: `shutdown_wedged` does not keep the flusher from sending the
   next chunk of a buffer it had drained (`modules/output/batched.rs:624`),
   contrary to the contract in `modules/mod.rs:506`.
4. `journal_stop`: told to shut down, the journal input joins its reader while it
   holds the entry channel open and unread (`modules/input/journal.rs:332`); a
   reader waiting for room in it never ends, and the input is a task that is
   joined without a deadline, so the daemon does not stop (`HungOnInput` in
   `Runtime`). The Windows event log input closes the channel first.

Smaller differences between code and comments that the models name in their
properties:

- An I/O error in the disk queue's reader is taken for an empty log
  (`queue/disk.rs:404`, `:424`): `recv` goes to sleep on an event that is there
  until the next send, or returns `None` after the closing with events unread,
  which the next start replays (`LeftByError`, `EndedMeansDrained`). A segment
  that `exists()` cannot look up is stepped over like a deleted one (`skipped`).
- A frame can follow a fragment on the same stream (`MayFollow` has every case).
  syslog_tcp leaves its attempt with `?` when the write times out, before the
  connection is cleared (`syslog_tcp.rs:628`); the drain's deadline does the
  same in syslog_tcp and unix_socket; in the drain, unix_socket keeps a connection
  it has just made when the write on it fails (`persistent_conn.rs:92`); file and
  stdout append behind whatever was written (`file.rs:643`, `stdout.rs:343`). LTP
  takes the stream out first.
- `PeerSendError::PreSendShutdown` says that "no peer's write phase had begun"
  (`syslog_peers.rs:573`), which is not so when an earlier peer of the same pass
  failed half way; likewise in `persistent_conn.rs` (`PreSendIsHonest`).
- A unix_socket write and connect have no timeout, nor has the send of syslog_udp
  (which its comment calls ordinary backpressure, relying on the abort at the
  shutdown budget), and a consumer that must be joined is not aborted either, so
  a peer that stops reading holds up the shutdown (`Bounded`, `Deadline`).
- syslog_tcp sweeps finished connection handles before it waits and not after,
  and may refuse a connection with room for it (`ConnectionsBounded`).
- The tail input cannot see a file replaced while the daemon was down, or
  truncated and filled up again between two looks (`Blind`); a line that is not
  UTF-8 stops it there, and the lines before it are sent again at every poll.
  A truncation while a pass reads the file gives lines of the new content
  offsets of the old one; a late ack of such a line may be saved (`misread`).
- `docs/src/inputs/tail.md:21` and `:39` and `journal.md:119` say that lines in
  flight at a crash are read again at the next start. Not if no position was
  saved yet: there is no state file, and the start is at the end of the log
  (`tail.rs:429`, `journal.rs:609`; `lines_lost`, `entries_lost`). The same holds
  when the journal cannot seek to its cursor or the event log refuses it.
- seek_cursor on a vacuumed journal entry followed by next() passes over an
  entry that was never processed, without a warning: "Skip the entry at the
  cursor (already processed)" (`journal.rs:606`; `Resume`, `entries_lost`).

## Not modelled

The DSL, the analyser, the functions, rendering and the wire formats are pure
and over unbounded data; with the unit tests kept in the same files they are most
of the repository's lines. The control server does not take part in the flow,
but for injection, which is one more sender on a channel that is modelled; of
the taps only the clone is modelled. The OTLP inputs are protocol decoding
around one send per record. The ShutdownProgress latch only paces Windows
service wait hints. Time is nondeterministic: any deadline may pass at any
moment, backoff and rate-limit delays are left out. `Runtime` has one pipeline
per input and drops tasks that survived their abort when the next runtime
starts. `CursorInput` leaves out a cursor() call that fails (an empty
cursor is saved then) and a failing next() after the seek. `SingleSink` has one
consumer, as the queue has. Tables are next on the plan. `PROJECT.json` gives
the reason for each part.

## Plan

In this order, the most important first:

1. `DiskQueue`, `AtLeastOnce`, proofs: done.
2. `QueueConsumer`, `BatchedSink`, `AckContract`, `Runtime`: modelled, checked,
   proved.
3. `AckPath`, `TailInput`, `CursorInput`, `ListenerInput`, `Inputs`,
   `SingleSink`: modelled, checked, proved.
4. `Table`: TTL and insertion order against a reference map with FIFO eviction;
   a deleted key leaves its entry in `insertion_order`, and after a re-insert that
   entry evicts the fresh value.
5. More proofs: that the cursor of a consumer moves within a process only
   forward and that `generation` guards every save, as action properties; that
   the log with a cursor in `QueueConsumer` is what `DiskQueue` offers its consumer.
