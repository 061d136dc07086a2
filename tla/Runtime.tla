------------------------------ MODULE Runtime ------------------------------
(***************************************************************************)
(* One runtime of the daemon and its successors (runtime/startup.rs,        *)
(* runtime/lifecycle.rs, runtime/pipeline_worker.rs, shutdown_progress.rs,  *)
(* main.rs): an input task feeds a bounded channel, a pipeline worker takes *)
(* events from it, runs the pipeline and enqueues a copy for each output,   *)
(* and one consumer task per output works its queue off.  All of them watch *)
(* ONE shutdown flag, so the stages stop in any order while events are      *)
(* still between them.  Startup that fails half way and a reload go through *)
(* the same cleanup.                                                        *)
(*                                                                          *)
(* What a pipeline does with an event (its termination and the outputs it   *)
(* reaches) and how long an output needs are free.  A consumer is the one   *)
(* of QueueConsumer, seen from outside and with one event in hand.  The     *)
(* control server, a task without a share in the flow, is left out.         *)
(***************************************************************************)
EXTENDS Integers, FiniteSets

CONSTANTS
    Outputs,        \* the outputs of the pipeline
    OutputTypes,    \* considered: "network", "file", "disk" (network, disk queue),
                    \* "stream" (unix_socket, stdout, syslog_udp:
                    \* consume waits for a write, or a connect, without a deadline)
    InputTypes,     \* considered: "syslog_tcp", "journal"
    N,              \* bound: events ever received
    Capacity,       \* of the input channel and of the memory queues
    MaxReloads      \* bound: reloads

ASSUME RuntimeAssumption ==
    /\ OutputTypes \subseteq {"network", "stream", "file", "disk"}
    /\ InputTypes \subseteq {"syslog_tcp", "journal"}
    /\ N \in Nat /\ Capacity \in Nat \ {0} /\ MaxReloads \in Nat
    /\ Outputs \cap {"input", "worker"} = {}

Tasks  == {"input", "worker"} \cup Outputs
Events == 1 .. N
Copies == Events \X Outputs

VARIABLES
    config,         \* input type, type of each output, error_log set?
    phase,          \* of the owner: starting, running, the cleanup's, exited
    cause,          \* why this start or this cleanup: see Start and Cleanup
    reloads,
    shutdown,       \* the shutdown watch of this runtime
    task,           \* of each task: "none", "live" or "ended"
    aborted,        \* the tasks on which abort() was called
    ipc, received,  \* the input: where it is, and the last event it got
    chan, chan_open,\* the input channel
    wpc, cur,       \* the worker: where it is, and its event
    todo, failed,   \* outputs still to enqueue to, and those that failed
    term,           \* the pipeline's termination for cur
    queue, open,    \* of each output: its queue, and is its receiver open?
    hand,           \* of each output: the event it works on, 0 if none
    accepted,       \* history: events the input channel took
    copies,         \* history: the copies the pipelines emitted
    queued,         \* history: copies a queue took
    resolved,       \* history: copies an output resolved
    reported,       \* history: copies and events whose DLQ record was tried
    ended           \* history: how the worker counted each event

runtime == <<config, phase, cause, reloads, shutdown, task, aborted>>
input   == <<ipc, received>>
channel == <<chan, chan_open>>
worker  == <<wpc, cur, todo, failed, term>>
sinks   == <<queue, open, hand>>
history == <<accepted, copies, queued, resolved, reported, ended>>
vars    == <<config, phase, cause, reloads, shutdown, task, aborted, ipc, received, chan, chan_open, wpc, cur,
             todo, failed, term, queue, open, hand, accepted, copies, queued,
             resolved, reported, ended>>

Terminations == {"Finished", "Dropped", "Errored"}

Init ==
    /\ config \in [input : InputTypes, out : [Outputs -> OutputTypes],
                   error_log : BOOLEAN]
    /\ phase = "starting" /\ cause = "boot" /\ reloads = 0
    /\ shutdown = FALSE /\ task = [t \in Tasks |-> "none"]
    /\ aborted = {}
    /\ ipc = "recv" /\ received = 0 /\ chan = {} /\ chan_open = TRUE
    /\ wpc = "select" /\ cur = 0 /\ todo = {} /\ failed = {}
    /\ term = "Finished"
    /\ queue = [o \in Outputs |-> {}] /\ open = [o \in Outputs |-> TRUE]
    /\ hand = [o \in Outputs |-> 0]
    /\ accepted = {} /\ copies = {} /\ queued = {} /\ resolved = {}
    /\ reported = {} /\ ended = [e \in Events |-> "none"]

Disk(o) == config.out[o] = "disk"
Live(t) == task[t] = "live"

-----------------------------------------------------------------------------
(* Task kinds. *)

OutputMustJoin(o) == config.out[o] \in {"file", "disk"} \/ config.error_log

\* Mutant of PipelineMustJoin: only the disk outputs count.
PipelineMustJoinDisk == \E o \in Outputs : Disk(o)

PipelineMustJoin == config.error_log \/ \E o \in Outputs : Disk(o)

InputMustJoin == config.input = "journal"

MustJoin == {o \in Outputs : OutputMustJoin(o)}
            \cup (IF PipelineMustJoin THEN {"worker"} ELSE {})
            \cup (IF InputMustJoin THEN {"input"} ELSE {})
AbortSafe == Tasks \ MustJoin

\* reap_tasks joins whoever has ended, in any order: these it still waits for.
Unjoined(kind) == {t \in kind : Live(t)}

-----------------------------------------------------------------------------
(* The input. *)

\* One that is busy reading does not look at the shutdown flag in between.
Receive ==
    /\ Live("input") /\ ipc = "recv" /\ received < N
    /\ received' = received + 1
    /\ ipc' = "send"
    /\ UNCHANGED <<runtime, channel, worker, sinks, history>>

\* Mutant of Reserve: the channel is not bounded.
ReserveUnbounded ==
    /\ Live("input") /\ ipc = "send"
    /\ ipc' = IF chan_open THEN "permit" ELSE "recv"
    /\ UNCHANGED <<runtime, received, channel, worker, sinks, history>>

\* The channel grants a permit, or is closed: the event is not accepted.
Reserve ==
    /\ Live("input") /\ ipc = "send"
    /\ \/ chan_open /\ Cardinality(chan) < Capacity /\ ipc' = "permit"
       \/ ~chan_open /\ ipc' = "recv"
    /\ UNCHANGED <<runtime, received, channel, worker, sinks, history>>

Commit ==
    /\ Live("input") /\ ipc = "permit"
    /\ chan' = chan \cup {received}
    /\ accepted' = accepted \cup {received}
    /\ ipc' = "recv"
    /\ UNCHANGED <<runtime, received, chan_open, worker, sinks,
                   copies, queued, resolved, reported, ended>>

End(t) == task' = [task EXCEPT ![t] = "ended"]

\* The input returns: on shutdown, or before it because its source failed.
\* The control server's sender keeps the channel open.
InputStops ==
    /\ Live("input") /\ ipc = "recv"
    /\ End("input")
    /\ UNCHANGED <<config, phase, cause, reloads, shutdown, aborted,
                   input, channel, worker, sinks, history>>

\* On its way out the journal input joins its reader thread, which may be in a
\* blocking_send to a channel that is full, open and read by nobody any more:
\* it never returns (the module CursorInput shows how it gets there).
InputHangs ==
    /\ Live("input") /\ ipc = "recv" /\ shutdown /\ config.input = "journal"
    /\ ipc' = "stuck"
    /\ UNCHANGED <<runtime, received, channel, worker, sinks, history>>

-----------------------------------------------------------------------------
(* The pipeline worker. *)

\* The biased shutdown arm: close the channel, then drain it.
CloseChannel ==
    /\ Live("worker") /\ wpc = "select" /\ shutdown /\ chan_open
    /\ chan_open' = FALSE
    /\ UNCHANGED <<runtime, input, chan, worker, sinks, history>>

\* The next event, and what the pipeline makes of it.  Outputs reached before
\* a drop or an error count; a pipeline body that fails outright is an error
\* with no outputs.
TakeEvent ==
    /\ Live("worker") /\ wpc = "select" /\ (shutdown => ~chan_open)
    /\ \E e \in chan, t \in Terminations, outs \in SUBSET Outputs :
         /\ chan' = chan \ {e}
         /\ cur' = e /\ todo' = outs /\ term' = t
         /\ copies' = copies \cup {<<e, o>> : o \in outs}
    /\ wpc' = "enqueue"
    /\ failed' = {}
    /\ UNCHANGED <<runtime, input, chan_open, sinks, accepted,
                   queued, resolved, reported, ended>>

\* Mutant of Enqueue: a send to a queue whose receiver is closed does not fail.
EnqueueWaits(o) ==
    /\ Live("worker") /\ wpc = "enqueue" /\ o \in todo
    /\ Disk(o) \/ (open[o] /\ Cardinality(queue[o]) < Capacity)
    /\ todo' = todo \ {o}
    /\ queue' = [queue EXCEPT ![o] = @ \cup {cur}]
    /\ queued' = queued \cup {<<cur, o>>}
    /\ UNCHANGED <<runtime, input, channel, wpc, cur, failed, term, open,
                   hand, accepted, copies, resolved, reported, ended>>

\* QueueSender::send: the disk queue appends or fails; a memory queue waits
\* for room, or fails because its receiver was closed or dropped.
Enqueue(o) ==
    /\ Live("worker") /\ wpc = "enqueue" /\ o \in todo
    /\ todo' = todo \ {o}
    /\ \/ /\ Disk(o) \/ (open[o] /\ Cardinality(queue[o]) < Capacity)
          /\ queue' = [queue EXCEPT ![o] = @ \cup {cur}]
          /\ queued' = queued \cup {<<cur, o>>}
          /\ UNCHANGED failed
       \/ /\ Disk(o) \/ ~open[o]
          /\ failed' = failed \cup {o}
          /\ UNCHANGED <<queue, queued>>
    /\ UNCHANGED <<runtime, input, channel, wpc, cur, term, open,
                   hand, accepted, copies, resolved, reported, ended>>

\* Mutant of Outcome: a failed enqueue does not change the termination.
OutcomeOfBody == term

\* A failed enqueue turns the termination into Errored.
Outcome == IF failed # {} THEN "Errored" ELSE term

\* What the worker counts the event as.
CountedAs == CASE Outcome = "Dropped" -> "dropped"
               [] Outcome = "Errored" -> "errored"
               [] Outcome = "Finished" ->
                    IF \E o \in Outputs : <<cur, o>> \in copies
                    THEN "finished" ELSE "discarded"

\* The DLQ records of an errored event: one per failed output, and the one of
\* the pipeline itself (output 0 stands for it).
Records == {<<cur, o>> : o \in failed}
           \cup (IF term = "Errored" THEN {<<cur, 0>>} ELSE {})

\* Counters and DLQ records, then the progress mark.
Account ==
    /\ Live("worker") /\ wpc = "enqueue" /\ todo = {}
    /\ ended' = [ended EXCEPT ![cur] = CountedAs]
    /\ reported' = IF CountedAs = "errored" THEN reported \cup Records
                                            ELSE reported
    /\ wpc' = "select" /\ cur' = 0 /\ failed' = {} /\ term' = "Finished"
    /\ UNCHANGED <<runtime, input, channel, todo, sinks,
                   accepted, copies, queued, resolved>>

\* recv() returns None: closed, empty, and no permit outstanding.
Drained == chan = {} /\ ipc # "permit"

WorkerStops ==
    /\ Live("worker") /\ wpc = "select" /\ ~chan_open
    /\ Drained
    /\ End("worker")
    /\ UNCHANGED <<config, phase, cause, reloads, shutdown, aborted,
                   input, channel, worker, sinks, history>>

-----------------------------------------------------------------------------
(* The consumer of an output. *)

\* The shutdown arm: a memory queue is closed and drained.
CloseQueue(o) ==
    /\ Live(o) /\ hand[o] = 0 /\ shutdown /\ ~Disk(o) /\ open[o]
    /\ open' = [open EXCEPT ![o] = FALSE]
    /\ UNCHANGED <<runtime, input, channel, worker, queue, hand,
                   history>>

Consume(o) ==
    /\ Live(o) /\ hand[o] = 0 /\ (shutdown => ~Disk(o) /\ ~open[o])
    /\ \E e \in queue[o] :
         /\ queue' = [queue EXCEPT ![o] = @ \ {e}]
         /\ hand' = [hand EXCEPT ![o] = e]
    /\ UNCHANGED <<runtime, input, channel, worker, open, history>>

\* The output resolves its handle and the consumer sees the disposition.
Resolve(o) ==
    /\ Live(o) /\ hand[o] # 0
    /\ resolved' = resolved \cup {<<hand[o], o>>}
    /\ hand' = [hand EXCEPT ![o] = 0]
    /\ UNCHANGED <<runtime, input, channel, worker, queue, open,
                   accepted, copies, queued, reported, ended>>

ConsumerStops(o) ==
    /\ Live(o) /\ hand[o] = 0 /\ shutdown
    /\ Disk(o) \/ (~open[o] /\ queue[o] = {})
    /\ End(o)
    /\ UNCHANGED <<config, phase, cause, reloads, shutdown, aborted,
                   input, channel, worker, sinks, history>>

-----------------------------------------------------------------------------
(* Startup.  Outputs come first, then the worker, then its input; each task *)
(* runs from the moment it is spawned and tracked. *)

Absent == {t \in Tasks : task[t] = "none"}

MayStart(t) == IF t = "worker" THEN Absent \cap Outputs = {}
               ELSE t = "input" => "worker" \notin Absent

Start(t) ==
    /\ phase = "starting" /\ t \in Absent /\ MayStart(t)
    /\ task' = [task EXCEPT ![t] = "live"]
    /\ UNCHANGED <<config, phase, cause, reloads, shutdown, aborted,
                   input, channel, worker, sinks, history>>

Committed ==
    /\ phase = "starting" /\ Absent = {}
    /\ phase' = "running"
    /\ UNCHANGED <<config, cause, reloads, shutdown, task, aborted,
                   input, channel, worker, sinks, history>>

\* Any step of the startup fails: StartupGuard::rollback, or its Drop.
StartFails ==
    /\ phase = "starting"
    /\ phase' = "graceful" /\ shutdown' = TRUE
    /\ cause' = IF cause = "reload" THEN "rollback" ELSE "giveup"
    /\ UNCHANGED <<config, reloads, task, aborted, input,
                   channel, worker, sinks, history>>

-----------------------------------------------------------------------------
(* The owner: shutdown_tasks_with_progress, and what main does around it. *)

\* SIGTERM, or SIGHUP with a configuration that compiles: shutdown is sent.
RequestShutdown ==
    /\ phase = "running"
    /\ \/ cause' = "exit" /\ UNCHANGED reloads
       \/ cause' = "reload" /\ reloads < MaxReloads /\ reloads' = reloads + 1
    /\ phase' = "graceful" /\ shutdown' = TRUE
    /\ UNCHANGED <<config, task, aborted, input, channel,
                   worker, sinks, history>>

\* The graceful reap is over, or its deadline has passed: the AbortSafe tasks
\* that are left are aborted.
AbortPending ==
    /\ phase = "graceful"
    /\ phase' = "joining"
    /\ aborted' = Unjoined(AbortSafe)
    /\ UNCHANGED <<config, cause, reloads, shutdown, task,
                   input, channel, worker, sinks, history>>

\* The abort takes effect at the task's next await (there is none between a
\* permit and its use); everything the task owns is dropped.
AbortLands(t) ==
    /\ t \in aborted /\ Live(t) /\ (t = "input" => ipc # "permit")
    /\ End(t)
    /\ \/ /\ t = "input" /\ ipc' = "recv"
          /\ UNCHANGED <<channel, worker, sinks>>
       \/ /\ t = "worker"
          /\ wpc' = "select" /\ cur' = 0 /\ todo' = {} /\ failed' = {}
          /\ term' = "Finished" /\ chan' = {} /\ chan_open' = FALSE
          /\ UNCHANGED <<ipc, sinks>>
       \/ /\ t \in Outputs
          /\ queue' = [queue EXCEPT ![t] = {}]
          /\ open' = [open EXCEPT ![t] = FALSE]
          /\ hand' = [hand EXCEPT ![t] = 0]
          /\ UNCHANGED <<ipc, channel, worker>>
    /\ UNCHANGED <<config, phase, cause, reloads, shutdown, aborted,
                   received, history>>

\* The last reap_tasks returns.
AllJoined == Unjoined(MustJoin) = {}

CleanedUp ==
    /\ phase = "joining"
    /\ AllJoined
    /\ phase' = "down"
    /\ UNCHANGED <<config, cause, reloads, shutdown, task, aborted, input,
                   channel, worker, sinks, history>>

\* It waits for ever: everyone else has ended, and the input hangs.
HungOnInput == phase = "joining" /\ ipc = "stuck" /\ \A t \in Tasks \ {"input"} : ~Live(t)
JoinHangs   == HungOnInput /\ UNCHANGED vars

\* main: the process ends, or the new configuration is started, or, if that
\* failed, the previous one.  The runtime is fresh; the disk queues are not.
NextRuntime ==
    /\ phase = "down"
    /\ \/ /\ cause \in {"exit", "giveup"}
          /\ phase' = "exited"
          /\ UNCHANGED <<config, cause, shutdown, task, aborted,
                         input, channel, worker, sinks>>
       \/ /\ cause \in {"reload", "rollback"}
          /\ phase' = "starting" /\ UNCHANGED <<config, cause>>
          /\ shutdown' = FALSE /\ task' = [t \in Tasks |-> "none"]
          /\ aborted' = {}
          /\ ipc' = "recv" /\ chan' = {} /\ chan_open' = TRUE
          /\ wpc' = "select" /\ cur' = 0 /\ todo' = {} /\ failed' = {}
          /\ queue' = [o \in Outputs |-> IF Disk(o) THEN queue[o] ELSE {}]
          /\ open' = [o \in Outputs |-> TRUE]
          /\ hand' = [o \in Outputs |-> 0]
          /\ term' = "Finished" /\ UNCHANGED received
    /\ UNCHANGED <<reloads, history>>

\* The process is gone.
Terminated == phase = "exited" /\ UNCHANGED vars

-----------------------------------------------------------------------------
Input    == Receive \/ Reserve \/ Commit \/ InputStops \/ InputHangs
Worker   == CloseChannel \/ TakeEvent \/ (\E o \in Outputs : Enqueue(o))
            \/ Account \/ WorkerStops
Sink(o)  == CloseQueue(o) \/ Consume(o) \/ ConsumerStops(o)
Startup  == (\E t \in Tasks : Start(t)) \/ Committed \/ StartFails
Cleanup  == AbortPending \/ CleanedUp \/ NextRuntime

Next == \/ Input \/ Worker \/ (\E o \in Outputs : Sink(o) \/ Resolve(o))
        \/ Startup \/ RequestShutdown \/ Cleanup
        \/ (\E t \in Tasks : AbortLands(t)) \/ JoinHangs \/ Terminated

Spec == Init /\ [][Next]_vars

\* Every task is scheduled, the deadlines pass, and an aborted task is dropped
\* at its next await.  An output may work on an event for ever; once shutdown
\* is signalled those that have a deadline for everything they wait for, or
\* write to a file, give up in bounded time (the shutdown races,
\* consume_shutdown with SHUTDOWN_FLUSH_ATTEMPT_TIMEOUT).  An input whose event
\* is accepted or refused leaves its loop on shutdown; the journal input may
\* then hang instead of returning.  The module Inputs looks into both.
Bounded(o) == config.out[o] # "stream"

Fairness ==
    /\ WF_vars(Reserve \/ Commit \/ (shutdown /\ (InputStops \/ InputHangs)))
    /\ WF_vars(Worker)
    /\ \A o \in Outputs :
         /\ WF_vars(Sink(o))
         /\ WF_vars(shutdown /\ Bounded(o) /\ Resolve(o))
    /\ \A t \in Tasks : WF_vars(AbortLands(t))
    /\ WF_vars(Cleanup)

FairSpec == Spec /\ Fairness

-----------------------------------------------------------------------------
(* Properties *)

\* Type invariant.
TypeOK ==
    /\ config \in [input : InputTypes, out : [Outputs -> OutputTypes],
                    error_log : BOOLEAN]
    /\ phase \in {"starting", "running", "graceful", "joining",
                  "down", "exited"}
    /\ cause \in {"boot", "exit", "reload", "rollback", "giveup"}
    /\ reloads \in 0 .. MaxReloads /\ shutdown \in BOOLEAN
    /\ task \in [Tasks -> {"none", "live", "ended"}]
    /\ aborted \in SUBSET Tasks
    /\ ipc \in {"recv", "send", "permit", "stuck"} /\ received \in 0 .. N
    /\ chan \in SUBSET Events /\ Cardinality(chan) <= Capacity
    /\ chan_open \in BOOLEAN
    /\ wpc \in {"select", "enqueue"} /\ cur \in 0 .. N
    /\ todo \in SUBSET Outputs /\ failed \in SUBSET Outputs
    /\ term \in Terminations
    /\ queue \in [Outputs -> SUBSET Events]
    /\ open \in [Outputs -> BOOLEAN] /\ hand \in [Outputs -> 0 .. N]
    /\ accepted \in SUBSET Events
    /\ copies \in SUBSET Copies /\ queued \in SUBSET Copies
    /\ resolved \in SUBSET Copies
    /\ reported \in SUBSET (Events \X (Outputs \cup {0}))
    /\ ended \in [Events -> {"none", "finished", "discarded", "dropped",
                             "errored"}]

Durable == config.error_log \/ \E o \in Outputs : Disk(o)

\* Shutdown, a failed start or a reload never makes an event vanish where
\* anything durable is configured: whatever order the input, the worker and
\* the consumers notice the shutdown in, and whoever is aborted, each event
\* the input channel took was processed to its end, each copy was queued or
\* has its DLQ record, and each queued copy was resolved or is on disk.
NothingVanishes ==
    phase = "down" =>
      /\ Durable => \A e \in accepted : ended[e] # "none"
      /\ config.error_log => copies \subseteq queued \cup reported
      /\ \A c \in queued : OutputMustJoin(c[2]) =>
           c \in resolved \/ (Disk(c[2]) /\ c[1] \in queue[c[2]])

\* events_finished only counts events whose every copy was taken by its queue
\* (process_event_at: a failed enqueue must not be "a silent events_finished
\* count on an event that was effectively lost").
FinishedIsQueued ==
    \A c \in copies : ended[c[1]] \in {"finished", "dropped"} => c \in queued

\* Shutdown ends: no stage waits for ever on a queue whose other end has
\* stopped, whatever order they stop in and although an output may never
\* answer.  Two waits without a deadline are named, both for a task that is
\* joined without one: a consumer in a write to a unix_socket, to stdout or to
\* a udp socket if an error_log is set, and the journal input in the join of
\* its reader (shutdown_tasks_with_progress joins the MustJoin tasks for as
\* long as they take).  Everything else still gets to its end then.
ShutdownCompletes ==
    (phase = "graceful" /\ \A o \in Outputs \cap MustJoin : Bounded(o))
        ~> (phase = "down" \/ HungOnInput)
=============================================================================
