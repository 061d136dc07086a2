----------------------------- MODULE TailInput -----------------------------
(***************************************************************************)
(* The tail input (modules/input/tail.rs): it polls a path, notices a       *)
(* rotation by the inode and a truncation by the length, reads the lines    *)
(* after read_offset, and saves the highest acknowledged offset in a state  *)
(* file that holds the number alone.  The look at the length, the look at   *)
(* the inode and the open are three accesses by path; whoever writes the    *)
(* log may rotate or truncate it between any two of them, while the daemon  *)
(* runs or while it is down.                                                *)
(*                                                                          *)
(* Lines have unit length, so an offset is a number of lines.  Every        *)
(* rotation or truncation begins a content with a number of its own; `of`   *)
(* in a position is a history field, the content the offset was taken in,   *)
(* which the code does not have.  The input is configured with a state      *)
(* file.                                                                    *)
(***************************************************************************)
EXTENDS AckPath, FiniteSets

CONSTANTS
    MaxLines,       \* bound: lines of a content
    MaxContents,    \* bound: contents the path ever has
    MaxTrouble      \* bound: starts of the daemon, failed writes of the state
                    \* file and lines at a time that are not plain text, together

VARIABLES
    path,           \* the inode at the path, 0 if there is none
    store,          \* of each inode: the number of its content, and its lines
    contents,       \* contents begun so far
    tpc,            \* where run() is
    read,           \* read_offset
    acked,          \* acked_offset
    saved,          \* the state file
    last_inode, generation,
    meta_len,       \* the length the last metadata() call saw
    opened, pos,    \* of read_new_lines: its file and current_offset
    starts, faults,
    base,           \* history: the content the last reset was for
    misread,        \* history: contents read from an offset of another one
    passed,         \* history: lines passed over on purpose
    lines_read,     \* history: lines that were read, in this run or an earlier one
    lines_lost      \* history: lines read and not processed that a start passed over

world    == <<path, store, contents>>
looks    == <<last_inode, generation, meta_len, opened, pos>>
tailHist == <<base, misread, passed, lines_read, lines_lost>>
tailVars == <<path, store, contents, tpc, read, acked, saved, last_inode,
              generation, meta_len, opened, pos, starts, faults, base,
              misread, passed, lines_read, lines_lost>>

Inodes    == 1 .. MaxContents
Kinds     == {"text", "blank", "bad", "part"}   \* bad: not UTF-8, part: no newline yet
NoPos     == [off |-> 0, of |-> 0]
NoState   == [off |-> -1, of |-> 0]             \* no state file yet
NoFile    == [no |-> 0, lines |-> <<>>]
Here      == IF path = 0 THEN NoFile ELSE store[path]
PassedIn(f) == {<<f.no, i>> : i \in DOMAIN f.lines}

TailInit ==
    /\ path = 1 /\ contents = 1
    /\ store = [n \in Inodes |->
                   IF n = 1 THEN [no |-> 1, lines |-> <<"text">>] ELSE NoFile]
    /\ tpc = "down" /\ read = NoPos /\ acked = NoPos /\ saved = NoState
    /\ last_inode = 0 /\ generation = 0 /\ meta_len = 0 /\ opened = 0 /\ pos = 0
    /\ starts = 0 /\ faults = 0 /\ base = 0 /\ misread = {} /\ passed = {}
    /\ lines_read = {} /\ lines_lost = {}

----------------------------------------------------------------------------
(* Whoever writes the log. *)

\* How many lines are not plain text.
Odd == Cardinality({x \in Inodes \X (1 .. MaxLines) :
                       /\ x[2] \in DOMAIN store[x[1]].lines
                       /\ store[x[1]].lines[x[2]] # "text"})
Bearable == starts + faults + Odd < MaxTrouble

WriteLine(k) ==
    /\ path # 0 /\ Len(Here.lines) < MaxLines
    /\ (Here.lines # <<>> => Last(Here.lines) # "part")
    /\ (k # "text" => Bearable)
    /\ store' = [store EXCEPT ![path].lines = Append(@, k)]
    /\ UNCHANGED <<path, contents>>

FinishLine ==
    /\ path # 0 /\ Here.lines # <<>> /\ Last(Here.lines) = "part"
    /\ store' = [store EXCEPT ![path].lines = Append(Front(@), "text")]
    /\ UNCHANGED <<path, contents>>

\* Nothing is at the path any more; a file that is open can still be read.
Unlinked == [n \in Inodes |-> IF n = opened THEN store[n] ELSE NoFile]

Rotate ==
    /\ contents < MaxContents
    /\ contents' = contents + 1 /\ path' = contents + 1
    /\ store' = [Unlinked EXCEPT ![contents + 1] = [no |-> contents + 1, lines |-> <<>>]]

Truncate ==
    /\ path # 0 /\ contents < MaxContents
    /\ contents' = contents + 1
    /\ store' = [store EXCEPT ![path] = [no |-> contents + 1, lines |-> <<>>]]
    /\ UNCHANGED path

\* Moved away first; what comes to the path next is another content.
MoveAway ==
    /\ path # 0 /\ contents < MaxContents
    /\ path' = 0 /\ store' = Unlinked /\ UNCHANGED contents

WorldStep ==
    /\ FinishLine \/ Rotate \/ Truncate \/ MoveAway \/ \E k \in Kinds : WriteLine(k)
    /\ UNCHANGED <<tpc, read, acked, saved, starts, faults>>
    /\ UNCHANGED <<looks, tailHist, pathVars>>

----------------------------------------------------------------------------
(* initial_offset, then get_inode: a saved offset is taken for the file     *)
(* that is there now; without one the first read starts at its end.         *)

\* History: begun anew, only a position that is kept can be of a misread content.
StillMisread(at) == {c \in misread : at.off > 0 /\ at.of = c}

\* What is in the file is not read: history on purpose, but also the lines
\* that an earlier run read and had not processed when it went.
Unfinished == lines_read \ processed
StartAtEnd ==
    /\ passed' = passed \cup (PassedIn(Here) \ Unfinished)
    /\ lines_lost' = lines_lost \cup (PassedIn(Here) \cap Unfinished)

LoadPosition ==
    /\ tpc = "down" /\ Bearable /\ starts' = starts + 1
    /\ LET at == IF saved = NoState THEN [off |-> Len(Here.lines), of |-> Here.no]
                                    ELSE saved
       IN read' = at /\ acked' = at
    /\ IF saved = NoState THEN StartAtEnd ELSE UNCHANGED <<passed, lines_lost>>
    /\ misread' = StillMisread(saved) /\ tpc' = "starting"
    /\ UNCHANGED <<saved, faults, base, lines_read>> /\ UNCHANGED <<world, looks, pathVars>>

StartTail ==
    /\ tpc = "starting" /\ tpc' = "select"
    /\ last_inode' = path /\ generation' = 0
    /\ UNCHANGED <<read, acked, saved, meta_len, opened, pos, starts, faults>>
    /\ UNCHANGED <<world, tailHist, pathVars>>

\* save_position: the rename happens or the old file stays.
SavePosition(at) ==
    \/ saved' = at /\ UNCHANGED faults
    \/ Bearable /\ faults' = faults + 1 /\ UNCHANGED saved

\* ack_offset_for_generation and the drains: the acks that count, and the
\* highest of them.
CountsAny(a) == TRUE
Counts(a)    == a.generation = generation
Counted      == {acks[i] : i \in {j \in DOMAIN acks : Counts(acks[j])}}
Highest      == {a \in Counted : \A b \in Counted : b.off <= a.off}

\* The watermark, which never moves back.
Advance ==
    \/ \E a \in Highest : a.off > acked.off /\ acked' = [off |-> a.off, of |-> a.of]
    \/ (\A a \in Counted : a.off <= acked.off) /\ UNCHANGED acked

\* Take what is in the ack channel into the watermark, and save it if it moved.
DrainAcks ==
    /\ acks' = <<>> /\ Advance
    /\ IF acked' # acked THEN SavePosition(acked') ELSE UNCHANGED <<saved, faults>>

\* The arms of the select: shutdown first, then the timer or an ack.
TailStop ==
    /\ tpc = "select" /\ shutdown /\ tpc' = "stopped"
    /\ acks' = <<>> /\ Advance /\ SavePosition(acked')
    /\ UNCHANGED <<read, starts>> /\ UNCHANGED <<world, looks, tailHist>>
    /\ UNCHANGED <<shutdown, chan, chan_open, cur, tap, shared, processed>>

TailAck ==
    /\ tpc = "select" /\ ~shutdown /\ acks # <<>>
    /\ IF Counts(Head(acks)) THEN DrainAcks
       ELSE acks' = Tail(acks) /\ UNCHANGED <<acked, saved, faults>>
    /\ UNCHANGED <<tpc, read, starts>> /\ UNCHANGED <<world, looks, tailHist>>
    /\ UNCHANGED <<shutdown, chan, chan_open, cur, tap, shared, processed>>

Poll ==
    /\ tpc = "select" /\ ~shutdown /\ path # 0
    /\ meta_len' = Len(Here.lines) /\ tpc' = "inode"
    /\ UNCHANGED <<read, acked, saved, last_inode, generation, opened, pos>>
    /\ UNCHANGED <<starts, faults>> /\ UNCHANGED <<world, tailHist, pathVars>>

\* Rotated, truncated or neither; reset both cursors if it was, and save.
ReplacedByLength == meta_len < read.off
Replaced == path # last_inode \/ meta_len < read.off

Reset ==
    /\ read' = NoPos /\ acked' = NoPos /\ generation' = generation + 1
    /\ acks' = <<>> /\ last_inode' = path
    /\ SavePosition(NoPos)
    /\ base' = IF saved' # NoPos THEN base
               ELSE IF path = 0 THEN contents + 1 ELSE Here.no
    /\ misread' = StillMisread(saved')

CheckFile ==
    /\ tpc = "inode"
    /\ IF Replaced THEN Reset
       ELSE UNCHANGED <<read, acked, generation, acks, last_inode, saved, faults, base, misread>>
    /\ meta_len' = 0
    /\ tpc' = IF meta_len <= read'.off THEN "select" ELSE "open"
    /\ UNCHANGED <<opened, pos, starts, passed, lines_read, lines_lost>>
    /\ UNCHANGED world
    /\ UNCHANGED <<shutdown, chan, chan_open, cur, tap, shared, processed>>

OpenFile ==
    /\ tpc = "open"
    /\ opened' = path /\ pos' = read.off
    /\ tpc' = IF path = 0 THEN "drain" ELSE "read"
    /\ UNCHANGED <<read, acked, saved, last_inode, generation, meta_len>>
    /\ UNCHANGED <<starts, faults>> /\ UNCHANGED <<world, tailHist, pathVars>>

\* History: reading goes on at offset p in a content that may be another one
\* than the offset is from.
ReadingAt(p, c) ==
    misread' = IF p > 0 /\ read.of # c THEN misread \cup {c} ELSE misread

\* One turn of the loop of read_new_lines.
NextLine == store[opened].lines[pos + 1]
AtEnd    == IF pos < Len(store[opened].lines) THEN NextLine = "part" ELSE TRUE

EventAt(i) == [line |-> <<store[opened].no, i>>,
               ack  |-> <<[generation |-> generation, off |-> i, of |-> store[opened].no]>>]

\* The file is closed.
Close       == tpc' = "drain" /\ opened' = 0 /\ pos' = 0
Return(off) == Close /\ read' = [off |-> off, of |-> store[opened].no]

ReadLine ==
    /\ tpc = "read"
    /\ ReadingAt(pos, store[opened].no)
    /\ lines_read' = IF ~AtEnd /\ NextLine = "text" THEN lines_read \cup {EventAt(pos + 1).line}
                     ELSE lines_read
    /\ \/ AtEnd /\ Return(pos) /\ UNCHANGED <<chan, passed, acks>>
       \/ /\ ~AtEnd /\ NextLine = "blank"
          /\ pos' = pos + 1 /\ passed' = passed \cup {EventAt(pos + 1).line}
          /\ read' = [read EXCEPT !.of = store[opened].no]
          /\ UNCHANGED <<tpc, opened, chan, acks>>
       \/ ~AtEnd /\ NextLine = "bad" /\ Close /\ UNCHANGED <<read, chan, passed, acks>>
       \/ /\ ~AtEnd /\ NextLine = "text" /\ Send(EventAt(pos + 1))
          /\ pos' = pos + 1 /\ read' = [read EXCEPT !.of = store[opened].no]
          /\ UNCHANGED <<tpc, opened, passed, acks>>
       \/ /\ ~AtEnd /\ NextLine = "text" /\ ~chan_open
          /\ Return(pos) /\ Disarm(EventAt(pos + 1)) /\ UNCHANGED <<chan, passed>>
    /\ UNCHANGED <<acked, saved, last_inode, generation, meta_len, starts, faults, base>>
    /\ UNCHANGED lines_lost /\ UNCHANGED world
    /\ UNCHANGED <<shutdown, chan_open, cur, tap, shared, processed>>

Drain ==
    /\ tpc = "drain" /\ tpc' = "select" /\ DrainAcks
    /\ UNCHANGED <<read, starts>> /\ UNCHANGED <<world, looks, tailHist>>
    /\ UNCHANGED <<shutdown, chan, chan_open, cur, tap, shared, processed>>

\* The process goes, after a shutdown or by a crash.
TailGone ==
    /\ tpc # "down"
    /\ tpc' = "down" /\ read' = NoPos /\ acked' = NoPos
    /\ last_inode' = 0 /\ generation' = 0 /\ meta_len' = 0 /\ opened' = 0 /\ pos' = 0
    /\ PathReset
    /\ UNCHANGED <<saved, starts, faults>> /\ UNCHANGED <<world, tailHist>>

TailExit  == tpc = "stopped" /\ WorkerDone /\ TailGone
TailCrash == Bearable /\ TailGone

TailStep == \/ LoadPosition \/ StartTail \/ TailStop \/ TailAck \/ Poll
            \/ CheckFile \/ OpenFile \/ ReadLine \/ Drain

----------------------------------------------------------------------------
(* Properties. *)

\* Everything below the saved offset, where a restart goes on, was processed,
\* or passed over on purpose, in the file the offset was taken in; whatever the
\* order of acks, resets and saves (drain_acks_into_watermark, save_position).
\* Two exceptions are named, not hidden.  A content read from an offset of
\* another one is misread.  And lines in flight when the process goes are lost
\* if it had not saved a position yet: the next start is at the end of the
\* file (initial_offset).  That takes a restart; a run passes over nothing
\* that it has read itself.
SavedIsProcessed ==
    /\ saved.off > 0 /\ saved.of \notin misread =>
         \A i \in 1 .. saved.off : <<saved.of, i>> \in processed \cup passed \cup lines_lost
    /\ lines_lost # {} => starts > 1

\* Once run() has noticed a rotation or truncation and has saved the reset,
\* no late ack of the old file gets into the state file (the generation).
SavedIsOfThisFile == saved.off > 0 => saved.of >= base

\* The offset is one of another content, and the inode does not tell: the file
\* was replaced while the daemon was down or starting, or truncated and filled
\* up again between two looks.
Blind(c) == last_inode = path /\ read.off > 0 /\ (read.of # c \/ c \in misread)

\* The complete lines in the file now at the path that can be read.
Readable ==
    {i \in DOMAIN Here.lines :
        Here.lines[i] = "text" /\ \A j \in 1 .. i : Here.lines[j] # "bad"}

\* While the daemon runs it keeps catching up: again and again every complete
\* line in the file at the path has been processed, or was left behind by a start.  Polls, the reset after a
\* race between look and open, partial lines and a full channel only delay it.
KeepsUp ==
    []<>(\/ tpc = "down" \/ shutdown \/ Blind(Here.no)
         \/ \A i \in Readable : <<Here.no, i>> \in processed \cup passed \cup lines_lost)
=============================================================================
