----------------------------- MODULE MetricsTask -----------------------------
(***************************************************************************)
(* spawn_metrics_task of src/src/ext/metrics.rs: a task that follows the   *)
(* metrics file of Firecracker and sends its entries into a bounded        *)
(* channel.                                                                *)
(*                                                                         *)
(* Entry k of the file is three symbols, 3k-2 to 3k: the two halves of its *)
(* JSON text and the newline.  The file is always a prefix of that text,   *)
(* so that it is given by the number of symbols written.                   *)
(***************************************************************************)
EXTENDS Naturals, Sequences

CONSTANTS
    Entries,  \* bound on the number of entries that Firecracker writes
    Buffer    \* the capacity of the channel

ASSUME EntriesAssumption == Entries \in Nat
\* mpsc::channel panics on a capacity of zero.
ASSUME BufferAssumption == Buffer \in Nat \ {0}

VARIABLES
    wholeLines,       \* Firecracker appends whole lines; never changes
    written,          \* the symbols in the file
    position,         \* the symbols that the task has read
    task,             \* what the task awaits, or how it ended
    held,             \* the entry that the task is sending, or 0
    channel,          \* the entries in the channel
    received,         \* the entries that were received
    receiverDropped

fileVars == <<wholeLines, written>>
receiverVars == <<received, receiverDropped>>
vars == <<fileVars, position, task, held, channel, receiverVars>>

-----------------------------------------------------------------------------
EndedStates == {"io", "serde", "send", "aborted"}
Ended == task \in EndedStates

\* next_line returns what comes before the next newline, or, at the end of the file,
\* whatever is left.
NextNewline == 3 * (position \div 3) + 3

\* Mutant: a line is taken to be complete.
LineEndUnseen == NextNewline

LineEnd == IF NextNewline <= written THEN NextNewline ELSE written

\* A line is an entry if it has both halves of one.
LineIsEntry == position % 3 = 0 /\ LineEnd >= position + 2

Init ==
    /\ wholeLines \in BOOLEAN
    /\ written = 0
    /\ position = 0
    /\ task = "opening"
    /\ held = 0
    /\ channel = << >>
    /\ received = << >>
    /\ receiverDropped = FALSE

-----------------------------------------------------------------------------
\* Firecracker appends to the file.
Write ==
    /\ \E n \in 1..3 : /\ wholeLines => n = 3
                       /\ written + n <= 3 * Entries
                       /\ written' = written + n
    /\ UNCHANGED <<wholeLines, position, task, held, channel, receiverVars>>

\* File::open: the file may not be there.
Open ==
    /\ task = "opening"
    /\ task' \in {"reading", "io"}
    /\ UNCHANGED <<fileVars, position, held, channel, receiverVars>>

\* Mutant: what is left at the end of the file is not told from a line.
ReadTornAsEntry ==
    /\ task = "reading"
    /\ LineEnd > position
    /\ position' = LineEnd
    /\ held' = position \div 3 + 1
    /\ task' = "sending"
    /\ UNCHANGED <<fileVars, channel, receiverVars>>

\* Mutant: a line ends before its newline.
ReadWithoutNewline ==
    /\ task = "reading"
    /\ LineEnd > position
    /\ LineIsEntry
    /\ position' = position + 2
    /\ held' = position \div 3 + 1
    /\ task' = "sending"
    /\ UNCHANGED <<fileVars, channel, receiverVars>>

\* At the end of the file next_line returns None and the loop goes on.
ReadEntry ==
    /\ task = "reading"
    /\ LineEnd > position
    /\ LineIsEntry
    /\ position' = LineEnd
    /\ held' = position \div 3 + 1
    /\ task' = "sending"
    /\ UNCHANGED <<fileVars, channel, receiverVars>>

\* serde_json::from_str fails, on an empty line too.
ReadTorn ==
    /\ task = "reading"
    /\ LineEnd > position
    /\ ~LineIsEntry
    /\ position' = LineEnd
    /\ task' = "serde"
    /\ UNCHANGED <<fileVars, held, channel, receiverVars>>

ReadFails ==
    /\ task = "reading"
    /\ task' = "io"
    /\ UNCHANGED <<fileVars, position, held, channel, receiverVars>>

\* Mutant: try_send, whose error is ignored.
SendOrLose ==
    /\ task = "sending"
    /\ ~receiverDropped
    /\ channel' = IF Len(channel) < Buffer THEN Append(channel, held) ELSE channel
    /\ held' = 0
    /\ task' = "reading"
    /\ UNCHANGED <<fileVars, position, receiverVars>>

\* Mutant: a rendezvous instead of a buffer.
SendToEmpty ==
    /\ task = "sending"
    /\ ~receiverDropped
    /\ Len(channel) = 0
    /\ channel' = Append(channel, held)
    /\ held' = 0
    /\ task' = "reading"
    /\ UNCHANGED <<fileVars, position, receiverVars>>

\* send waits while the channel is full.
Send ==
    /\ task = "sending"
    /\ ~receiverDropped
    /\ Len(channel) < Buffer
    /\ channel' = Append(channel, held)
    /\ held' = 0
    /\ task' = "reading"
    /\ UNCHANGED <<fileVars, position, receiverVars>>

\* Mutant: the error of send is ignored.
SendErrorIgnored ==
    /\ task = "sending"
    /\ receiverDropped
    /\ held' = 0
    /\ task' = "reading"
    /\ UNCHANGED <<fileVars, position, channel, receiverVars>>

SendFails ==
    /\ task = "sending"
    /\ receiverDropped
    /\ held' = 0
    /\ task' = "send"
    /\ UNCHANGED <<fileVars, position, channel, receiverVars>>

\* join_handle.abort(), at any await.
Abort ==
    /\ ~Ended
    /\ held' = 0
    /\ task' = "aborted"
    /\ UNCHANGED <<fileVars, position, channel, receiverVars>>

Recv ==
    /\ ~receiverDropped
    /\ channel # << >>
    /\ received' = Append(received, Head(channel))
    /\ channel' = Tail(channel)
    /\ UNCHANGED <<fileVars, position, task, held, receiverDropped>>

\* The entries in the channel are dropped with it.
DropReceiver ==
    /\ ~receiverDropped
    /\ receiverDropped' = TRUE
    /\ channel' = << >>
    /\ UNCHANGED <<fileVars, position, task, held, received>>

-----------------------------------------------------------------------------
TaskStep == Open \/ ReadEntry \/ ReadTorn \/ Send \/ SendFails

Next == Write \/ TaskStep \/ ReadFails \/ Abort \/ Recv \/ DropReceiver

\* The runtime polls the task.  Nobody has to write, to receive or to abort, and no read
\* has to fail.
Fairness == WF_vars(TaskStep)

SafetySpec == Init /\ [][Next]_vars
Spec == SafetySpec /\ Fairness

-----------------------------------------------------------------------------
\* The task holds an entry exactly while it sends.
TypeOK ==
    /\ wholeLines \in BOOLEAN
    /\ written \in 0..(3 * Entries)
    /\ position \in 0..written
    /\ task \in {"opening", "reading", "sending"} \union EndedStates
    /\ held \in 0..Entries
    /\ held # 0 <=> task = "sending"
    /\ channel \in Seq(1..Entries) /\ Len(channel) <= Buffer
    /\ received \in Seq(1..Entries)
    /\ receiverDropped \in BOOLEAN

\* What the receiver has seen, what waits in the channel and what the task is sending are
\* the entries of the file from the first on: none is lost, repeated or out of order,
\* however slow the receiver and wherever the file was torn.
EntriesInOrder ==
    /\ \A i \in 1..Len(received) : received[i] = i
    /\ \A i \in 1..Len(channel) : channel[i] = Len(received) + i
    /\ task = "sending" /\ ~receiverDropped => held = Len(received) + Len(channel) + 1

\* As long as somebody receives, every entry that was read is handed over.
NothingSkipped ==
    task = "reading" /\ ~receiverDropped => Len(received) + Len(channel) = (position + 1) \div 3

\* If lines are appended whole, parsing never fails and never ends the task.
WholeLinesParse == wholeLines => task # "serde"

\* Whatever is in the file is handed over, or the task ends, if the channel does not
\* stay full: the loop does not get stuck between two entries.
EntriesHandedOver ==
    []<>(Len(channel) < Buffer)
        => \A k \in 1..Entries : written >= 3 * k ~> \/ Len(received) + Len(channel) >= k
                                                    \/ Ended \/ receiverDropped

\* A task whose receiver is gone ends with the next entry.
DroppedReceiverEndsTask ==
    \A p \in 0..(3 * Entries) :
        (receiverDropped /\ position = p /\ written >= p + 3) ~> Ended

=============================================================================
