------------------------------- MODULE Inputs -------------------------------
(***************************************************************************)
(* The inputs, each with the pipeline worker it feeds: one of them, with    *)
(* whoever writes its log or connects to it, the shutdown watch and crashes *)
(* of the process.                                                          *)
(***************************************************************************)
EXTENDS TailInput, CursorInput, ListenerInput

CONSTANT InputKinds     \* the inputs considered

CursorKinds   == {"journal", "eventlog"}
ListenerKinds == {"syslog_tcp", "ltp", "udp", "unix_socket"}

VARIABLE kind

ASSUME InputsAssumption ==
    /\ InputKinds \subseteq {"tail"} \cup CursorKinds \cup ListenerKinds
    /\ {Capacity, EntryCapacity, MaxConnections, MaxLines, MaxContents} \subseteq Nat \ {0}
    /\ {MaxTrouble, MaxEntries, MaxCursorStarts, MaxCursorFaults, MaxAccepts,
        MaxFrames} \subseteq Nat

vars == <<kind, tailVars, cursorVars, listenerVars, pathVars>>

Init ==
    /\ kind \in InputKinds
    /\ PathInit /\ TailInit /\ CursorInit /\ ListenerInit
    /\ log    = IF kind \in CursorKinds THEN kind ELSE "journal"
    /\ source = IF kind \in ListenerKinds THEN kind ELSE "udp"

Up == tpc # "down" \/ apc # "down" \/ kind \in ListenerKinds

PathStep(A) == Up /\ A /\ UNCHANGED <<tailVars, cursorVars, listenerVars>>

InputStep ==
    \/ kind = "tail" /\ TailStep /\ UNCHANGED <<cursorVars, listenerVars>>
    \/ kind \in CursorKinds /\ CursorStep /\ UNCHANGED <<tailVars, listenerVars>>
    \/ kind \in ListenerKinds /\ ListenerStep /\ UNCHANGED <<tailVars, cursorVars>>

Environment ==
    \/ kind = "tail" /\ (WorldStep \/ TailExit \/ TailCrash)
       /\ UNCHANGED <<cursorVars, listenerVars>>
    \/ kind \in CursorKinds /\ (LogStep \/ CursorExit \/ CursorCrash)
       /\ UNCHANGED <<tailVars, listenerVars>>
    \/ kind \in ListenerKinds /\ PeerStep /\ UNCHANGED <<tailVars, cursorVars>>

Next ==
    /\ \/ InputStep \/ Environment
       \/ PathStep(WorkerStep) \/ PathStep(TapRelease) \/ PathStep(SignalShutdown)
    /\ UNCHANGED kind

Spec == Init /\ [][Next]_vars

\* The input's task and thread and the worker are scheduled.  Nobody has to
\* write a log, to connect, to listen to a tap or to let go of it, and no crash, fault or
\* shutdown has to come.
FairSpec ==
    /\ Spec
    /\ WF_vars(InputStep /\ UNCHANGED kind)
    /\ WF_vars(PathStep(WorkerStep) /\ UNCHANGED kind)

TypeOK ==
    /\ kind \in InputKinds
    /\ tpc \in {"down", "starting", "select", "inode", "open", "read", "drain", "stopped"}
    /\ path \in 0 .. MaxContents /\ last_inode \in 0 .. MaxContents
    /\ \A p \in {read, acked} : p.off \in 0 .. MaxLines /\ p.of \in 0 .. MaxContents
    /\ saved.off \in -1 .. MaxLines
    /\ rpc \in {"open", "loop", "send", "done"}
    /\ apc \in {"down", "startup", "select", "send", "join", "stopped"}
    /\ Len(entries) <= EntryCapacity /\ Len(chan) <= Capacity
    /\ cursor \in 0 .. jlen /\ oldest \in 1 .. jlen
    /\ lpc \in {"select", "send", "stopped"}
    /\ conns \in [Conns -> {"none", "hello", "read", "send", "done"}]
    /\ handles \subseteq Conns /\ aborted \subseteq Conns

\* Both kinds of input catch up with their log again and again.
CatchesUp == KeepsUp /\ FollowsLog

\* What is resumed from after a restart covers processed input only.
ResumeIsSafe == SavedIsProcessed /\ CursorIsProcessed

\* Told to shut down, every input but the journal gets to its end, with
\* whatever was being read, handed over or sent at that moment.
InputStops ==
    (shutdown /\ kind # "journal")
        ~> (~shutdown \/ "stopped" \in {tpc, apc, lpc})

\* The same of the journal input, whose code says of its last lines: "Every
\* exit path (watch closure, downstream closure, reader completion, or explicit
\* shutdown) cooperatively stops and joins the blocking reader."
JournalStops ==
    (shutdown /\ kind = "journal") ~> (~shutdown \/ apc = "stopped")
=============================================================================
