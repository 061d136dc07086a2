------------------------------ MODULE AckPath ------------------------------
(***************************************************************************)
(* The way of an event from an input that keeps a position (tail, journal,  *)
(* Windows event log) through the pipeline channel and the worker, and of   *)
(* its acknowledgement back: the AckHandle of event.rs sends the position   *)
(* when the last clone of the event is dropped.  The worker holds one       *)
(* reference while it processes the event; a subscriber of the input's tap  *)
(* (tap.rs) may hold a clone for longer, so acks can come out of order.     *)
(*                                                                          *)
(* An event is [line, ack]: what was read, and <<position to acknowledge>>,  *)
(* or <<>> for an event without a handle.                                   *)
(***************************************************************************)
EXTENDS Integers, Sequences, SequencesExt

CONSTANT Capacity       \* queue_size of the pipeline channel

VARIABLES
    shutdown,   \* the shutdown watch of the runtime
    chan,       \* the pipeline channel
    chan_open,  \* has the worker not closed it?
    cur,        \* the event the worker processes, <<>> if none
    tap,        \* the clone a tap subscriber holds, <<>> if none
    shared,     \* is the clone in tap one of the event in cur?
    acks,       \* the unbounded ack channel
    processed   \* history: the lines whose processing completed

pathVars == <<shutdown, chan, chan_open, cur, tap, shared, acks, processed>>

PathInit ==
    /\ shutdown = FALSE /\ chan = <<>> /\ chan_open = TRUE
    /\ cur = <<>> /\ tap = <<>> /\ shared = FALSE /\ acks = <<>>
    /\ processed = {}

\* tx.send(event): the event is in the channel.
Accepts == chan_open /\ Len(chan) < Capacity
Send(e) == Accepts /\ chan' = Append(chan, e)

\* Drop of the last reference to an event: its AckHandle fires.
Fire(e) == acks' = acks \o e.ack

\* The send failed: the handle is disarmed before the event is dropped.
DisarmForgotten(e) == Fire(e)
Disarm(e) == UNCHANGED acks

\* The input's tap: whoever listens gets a clone; one of an event without a
\* handle makes no difference.
Emit(e) ==
    \/ UNCHANGED <<tap, shared>>
    \/ tap = <<>> /\ e.ack # <<>> /\ tap' = <<e>> /\ shared' = TRUE

\* process_event begins.
Dispatch ==
    /\ cur = <<>> /\ chan # <<>>
    /\ cur' = <<Head(chan)>> /\ chan' = Tail(chan) /\ Emit(Head(chan))
    /\ UNCHANGED <<shutdown, chan_open, acks, processed>>

\* process_event returns and the worker drops the event.
Complete ==
    /\ cur # <<>>
    /\ processed' = processed \cup {cur[1].line}
    /\ cur' = <<>> /\ shared' = FALSE
    /\ IF shared THEN UNCHANGED acks ELSE Fire(cur[1])
    /\ UNCHANGED <<shutdown, chan, chan_open, tap>>

\* The subscriber is done with its clone, or the ring overwrote it.
TapRelease ==
    /\ tap # <<>> /\ tap' = <<>> /\ shared' = FALSE
    /\ IF shared THEN UNCHANGED acks ELSE Fire(tap[1])
    /\ UNCHANGED <<shutdown, chan, chan_open, cur, processed>>

\* The worker notices the shutdown: it closes the channel and then drains it.
WorkerClose ==
    /\ shutdown /\ chan_open /\ cur = <<>>
    /\ chan_open' = FALSE
    /\ UNCHANGED <<shutdown, chan, cur, tap, shared, acks, processed>>

SignalShutdown ==
    /\ ~shutdown /\ shutdown' = TRUE
    /\ UNCHANGED <<chan, chan_open, cur, tap, shared, acks, processed>>

WorkerStep == Dispatch \/ Complete \/ WorkerClose
WorkerDone == ~chan_open /\ chan = <<>> /\ cur = <<>>

\* The process is started anew.
PathReset ==
    /\ shutdown' = FALSE /\ chan' = <<>> /\ chan_open' = TRUE
    /\ cur' = <<>> /\ tap' = <<>> /\ shared' = FALSE /\ acks' = <<>>
    /\ UNCHANGED processed
=============================================================================
