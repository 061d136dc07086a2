---------------------------- MODULE CursorInput ----------------------------
(***************************************************************************)
(* The inputs that follow a log by an opaque cursor: the systemd journal    *)
(* (modules/input/journal.rs) and the Windows event log                     *)
(* (modules/input/windows_event_log.rs and _state.rs).  A blocking reader   *)
(* thread walks the log and hands each entry to the input actor through a   *)
(* bounded channel; the actor sends it to the pipeline, saves the cursor of *)
(* the last ack it received, and on every way out stops and joins the       *)
(* reader.                                                                  *)
(*                                                                          *)
(* The log is 1 .. jlen, of which the service keeps oldest .. jlen; a cursor *)
(* is the number of its entry, 0 for none.  The two inputs differ in how    *)
(* they resume, in what a reader error does, in whether a send to the       *)
(* pipeline watches for shutdown, and in whether the channel is closed      *)
(* before the reader is joined.                                             *)
(***************************************************************************)
EXTENDS AckPath

CONSTANTS
    MaxEntries,     \* bound: entries ever logged
    EntryCapacity,  \* of the channel between reader and actor (1024, 16)
    MaxCursorStarts,\* bound: starts of the daemon
    MaxCursorFaults \* bound: failed reads, seeks and saves

VARIABLES
    log,            \* the log service: "journal" or "eventlog"
    jlen, oldest,   \* the entries there are
    rpc, rpos,      \* the reader: where it is, and the last entry it took
    rhand,          \* the entry it is sending
    stop,           \* reader_shutdown
    entries,        \* the channel between reader and actor
    entries_open,   \* has the actor not closed it?
    apc, ahand,     \* the actor: where it is, and the entry it is sending
    cursor,         \* the state file
    jstarts, jfaults,
    skipped,        \* history: entries passed over that no run had in flight
    entries_read,   \* history: entries that were read, in this run or an earlier one
    entries_lost    \* history: entries passed over that were read and not processed,
                    \* or were taken for processed

logVars     == <<log, jlen, oldest>>
reader      == <<rpc, rpos, rhand>>
actor       == <<entries_open, apc, ahand>>
cursorHist  == <<skipped, entries_read, entries_lost>>
cursorVars  == <<log, jlen, oldest, rpc, rpos, rhand, stop, entries,
                 entries_open, apc, ahand, cursor, jstarts, jfaults, cursorHist>>
Unsent      == <<shutdown, chan, chan_open, cur, tap, shared, processed>>

CursorInit ==
    /\ log \in {"journal", "eventlog"} /\ jlen = 1 /\ oldest = 1
    /\ rpc = "done" /\ rpos = 0 /\ rhand = 0 /\ stop = FALSE
    /\ entries = <<>> /\ entries_open = TRUE /\ apc = "down" /\ ahand = 0
    /\ cursor = 0 /\ jstarts = 0 /\ jfaults = 0 /\ skipped = {}
    /\ entries_read = {} /\ entries_lost = {}

Fault   == jfaults < MaxCursorFaults /\ jfaults' = jfaults + 1
NoFault == UNCHANGED jfaults

----------------------------------------------------------------------------
(* The log service: entries come, old ones are vacuumed. *)

LogEntry == jlen < MaxEntries /\ jlen' = jlen + 1 /\ UNCHANGED <<log, oldest>>
Vacuum   == oldest < jlen /\ oldest' = oldest + 1 /\ UNCHANGED <<log, jlen>>

LogStep ==
    /\ LogEntry \/ Vacuum
    /\ UNCHANGED <<reader, actor, stop, entries, cursor, jstarts, jfaults, cursorHist>>
    /\ UNCHANGED pathVars

----------------------------------------------------------------------------
(* The reader thread. *)

StartInput ==
    /\ apc = "down" /\ jstarts < MaxCursorStarts
    /\ jstarts' = jstarts + 1 /\ apc' = "startup" /\ rpc' = "open"
    /\ UNCHANGED <<logVars, rpos, rhand, stop, entries, entries_open, ahand>>
    /\ UNCHANGED <<cursor, jfaults, cursorHist>> /\ UNCHANGED pathVars

\* History: the entries S are passed over, T of them taken for processed.
PassOver(S, T) ==
    LET unfinished == (entries_read \cup T) \ processed
    IN /\ skipped' = skipped \cup (S \ unfinished)
       /\ entries_lost' = entries_lost \cup (S \cap unfinished)

\* anchor_at_tail_or_head, StartPosition::Future: what is there is not read.
AtTail == rpos' = jlen /\ PassOver(rpos + 1 .. jlen, {})

\* seek_cursor goes to the entry of the cursor or the next one there is, and
\* next() steps over it ("already processed"); EvtSubscribeStrict refuses instead.
Resume ==
    IF cursor >= oldest THEN rpos' = cursor /\ UNCHANGED <<skipped, entries_lost>>
    ELSE IF log = "journal"
    THEN rpos' = oldest /\ PassOver(cursor + 1 .. oldest, {oldest})
    ELSE rpos' = jlen /\ PassOver(cursor + 1 .. jlen, {})

\* The log is opened, positioned, and the actor told that the input is ready.
OpenLog ==
    /\ rpc = "open"
    /\ \/ cursor = 0 /\ AtTail /\ NoFault
       \/ cursor # 0 /\ Resume /\ NoFault
       \/ cursor # 0 /\ Fault /\ AtTail
    /\ rpc' = "loop" /\ apc' = "select"
    /\ UNCHANGED <<logVars, rhand, stop, entries, entries_open, ahand, cursor, jstarts>>
    /\ UNCHANGED entries_read /\ UNCHANGED pathVars

\* It cannot be opened or takes no match: run() joins the reader and fails.
OpenFails ==
    /\ rpc = "open" /\ Fault
    /\ rpc' = "done" /\ apc' = "stopped" /\ stop' = TRUE
    /\ entries_open' = (log = "journal")
    /\ UNCHANGED <<logVars, rpos, rhand, entries, ahand, cursor, jstarts, cursorHist>>
    /\ UNCHANGED pathVars

\* One turn of the loop: the next entry that is still there, if any.
Following == IF rpos + 1 < oldest THEN oldest ELSE rpos + 1
Stale     == log = "eventlog" /\ rpos + 1 < oldest

ReadEntry ==
    /\ rpc = "loop" /\ ~stop /\ ~Stale /\ Following <= jlen
    /\ PassOver(rpos + 1 .. Following - 1, {})
    /\ entries_read' = entries_read \cup {Following}
    /\ rpc' = "send" /\ rhand' = Following /\ rpos' = Following
    /\ UNCHANGED <<logVars, stop, entries, actor, cursor, jstarts, jfaults>>
    /\ UNCHANGED pathVars

\* An entry that cannot be encoded: the journal goes on behind it, the event
\* log reader ends.
ReadFails ==
    /\ rpc = "loop" /\ ~stop /\ ~Stale /\ Following <= jlen /\ Fault
    /\ IF log = "journal"
       THEN rpos' = Following /\ PassOver(rpos + 1 .. Following, {}) /\ UNCHANGED rpc
       ELSE rpc' = "done" /\ UNCHANGED <<rpos, skipped, entries_lost>>
    /\ UNCHANGED <<logVars, rhand, stop, entries, actor, cursor, jstarts>>
    /\ UNCHANGED entries_read /\ UNCHANGED pathVars

\* The result set went stale under the event log reader: it starts at the end.
Resubscribe ==
    /\ rpc = "loop" /\ ~stop /\ Stale /\ AtTail
    /\ UNCHANGED <<logVars, rpc, rhand, stop, entries, actor, cursor, jstarts, jfaults>>
    /\ UNCHANGED entries_read /\ UNCHANGED pathVars

HandOverUnbounded ==
    /\ rpc = "send" /\ rhand' = 0 /\ entries_open
    /\ entries' = Append(entries, rhand) /\ rpc' = "loop"
    /\ UNCHANGED <<logVars, rpos, stop, actor, cursor, jstarts, jfaults, cursorHist>>
    /\ UNCHANGED pathVars

\* blocking_send: waits for room, and fails only when the channel is closed.
HandOver ==
    /\ rpc = "send" /\ rhand' = 0
    /\ \/ /\ entries_open /\ Len(entries) < EntryCapacity
          /\ entries' = Append(entries, rhand) /\ rpc' = "loop"
       \/ ~entries_open /\ rpc' = "done" /\ UNCHANGED entries
    /\ UNCHANGED <<logVars, rpos, stop, actor, cursor, jstarts, jfaults, cursorHist>>
    /\ UNCHANGED pathVars

ReaderStops ==
    /\ rpc = "loop" /\ stop /\ rpc' = "done"
    /\ UNCHANGED <<logVars, rpos, rhand, stop, entries, actor, cursor, jstarts>>
    /\ UNCHANGED <<jfaults, cursorHist>> /\ UNCHANGED pathVars

----------------------------------------------------------------------------
(* The actor: shutdown first, then acks, then entries. *)

\* save_cursor, state::save: the new cursor, or still the old one.
SaveCursor(c) ==
    \/ cursor' = c /\ NoFault
    \/ Fault /\ UNCHANGED cursor

\* Every way out of the loop: stop the reader.  Only the event log input also
\* closes the channel before it waits for the reader.
NeverClosed == FALSE
ClosedBeforeJoin == log = "eventlog"

Leave ==
    /\ apc' = "join" /\ ahand' = 0 /\ stop' = TRUE
    /\ entries_open' = ~ClosedBeforeJoin

ActorShutdown ==
    /\ apc = "select" /\ shutdown /\ Leave
    /\ UNCHANGED <<logVars, reader, entries, cursor, jstarts, jfaults, cursorHist>>
    /\ UNCHANGED pathVars

ActorAck ==
    /\ apc = "select" /\ ~shutdown /\ acks # <<>>
    /\ SaveCursor(Last(acks)) /\ acks' = <<>>
    /\ UNCHANGED <<logVars, reader, actor, stop, entries, jstarts, cursorHist>>
    /\ UNCHANGED Unsent

ActorEntry ==
    /\ apc = "select" /\ ~shutdown /\ acks = <<>> /\ entries # <<>>
    /\ ahand' = Head(entries) /\ entries' = Tail(entries) /\ apc' = "send"
    /\ UNCHANGED <<logVars, reader, stop, entries_open, cursor, jstarts, jfaults, cursorHist>>
    /\ UNCHANGED pathVars

\* The reader has ended and the channel is empty.
ActorNone ==
    /\ apc = "select" /\ ~shutdown /\ acks = <<>> /\ entries = <<>> /\ rpc = "done"
    /\ Leave
    /\ UNCHANGED <<logVars, reader, entries, cursor, jstarts, jfaults, cursorHist>>
    /\ UNCHANGED pathVars

GivesUp == ~chan_open \/ (log = "eventlog" /\ shutdown)

ActorSend ==
    /\ apc = "send" /\ ~(log = "eventlog" /\ shutdown)
    /\ Send([line |-> ahand, ack |-> <<ahand>>])
    /\ apc' = "select" /\ ahand' = 0
    /\ UNCHANGED <<logVars, reader, stop, entries, entries_open, cursor, jstarts>>
    /\ UNCHANGED <<jfaults, cursorHist, shutdown, chan_open, cur, tap, shared, acks, processed>>

\* The event does not reach the pipeline: its ack is disarmed.
ActorGivesUp ==
    /\ apc = "send" /\ GivesUp /\ Leave
    /\ Disarm([line |-> ahand, ack |-> <<ahand>>])
    /\ UNCHANGED <<logVars, reader, entries, cursor, jstarts, jfaults, cursorHist>>
    /\ UNCHANGED Unsent

\* The reader is joined, then the acks that have come are drained.
ActorJoined ==
    /\ apc = "join" /\ rpc = "done" /\ apc' = "stopped"
    /\ IF acks = <<>> THEN UNCHANGED <<cursor, jfaults>> ELSE SaveCursor(Last(acks))
    /\ acks' = <<>>
    /\ UNCHANGED <<logVars, reader, stop, entries, entries_open, ahand, jstarts, cursorHist>>
    /\ UNCHANGED Unsent

\* The process goes, after a shutdown or by a crash.
CursorGone ==
    /\ apc # "down" /\ apc' = "down"
    /\ rpc' = "done" /\ rpos' = 0 /\ rhand' = 0 /\ stop' = FALSE
    /\ entries' = <<>> /\ entries_open' = TRUE /\ ahand' = 0
    /\ PathReset
    /\ UNCHANGED <<logVars, cursor, jstarts, jfaults, cursorHist>>

CursorExit  == apc = "stopped" /\ WorkerDone /\ CursorGone
CursorCrash == jstarts < MaxCursorStarts /\ CursorGone

ReaderStep == OpenLog \/ OpenFails \/ ReadEntry \/ ReadFails \/ Resubscribe
              \/ HandOver \/ ReaderStops
ActorStep  == ActorShutdown \/ ActorAck \/ ActorEntry \/ ActorNone \/ ActorSend
              \/ ActorGivesUp \/ ActorJoined
CursorStep == StartInput \/ ReaderStep \/ ActorStep

----------------------------------------------------------------------------

\* The saved cursor covers only entries that were processed, or that the input
\* passed over and never had in flight: whatever is on its way (reader, channel, actor, pipeline, a tap)
\* is read again after a crash or a restart, also when acks arrive out of order
\* and the last one received wins (the ack arm of run()).  What the code
\* loses is named, not hidden: entries in flight when the process goes, if the
\* next start finds no cursor or cannot seek to it, and the entry that next()
\* steps over when that of the cursor was vacuumed.  Either takes a restart; a
\* run passes over nothing that it has read itself.
CursorIsProcessed ==
    /\ 1 .. cursor \subseteq processed \cup skipped \cup entries_lost
    /\ entries_lost # {} => jstarts > 1

\* While the daemon runs, every entry is processed again and again up to the
\* end of the log, unless the reader has ended.
FollowsLog ==
    []<>(\/ rpc = "done" \/ shutdown
         \/ oldest .. jlen \subseteq processed \cup skipped \cup entries_lost)
=============================================================================
