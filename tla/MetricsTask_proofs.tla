-------------------------- MODULE MetricsTask_proofs --------------------------
(***************************************************************************)
(* Proofs about MetricsTask for any number of entries and any buffer.      *)
(*                                                                         *)
(* The order of the entries rests on where the task is in the file: what   *)
(* it has handed over, and the entry in its hand, are counted by its       *)
(* position.  IInv says how.                                               *)
(***************************************************************************)
EXTENDS MetricsTask, TLAPS

Live == task \in {"opening", "reading", "sending"}

Handed == Len(received) + Len(channel)

\* A task that is not at an end is behind a whole entry, with or without its newline.
BehindAnEntry == Live => \E k \in Nat : position = 3 * k \/ position = 3 * k + 2

\* Whole lines leave nothing at the end of the file.
BehindALine == wholeLines => written % 3 = 0 /\ (Live => position % 3 = 0)

\* What was handed over is what lies before the position, but for an entry in hand.
HandedByPosition ==
    ~receiverDropped =>
        /\ task \in {"opening", "reading"} => Handed = (position + 1) \div 3
        /\ task = "sending" => Handed + 1 = (position + 1) \div 3

HeldByPosition == task = "sending" => held = (position + 1) \div 3

InOrder ==
    /\ \A i \in 1..Len(received) : received[i] = i
    /\ \A i \in 1..Len(channel) : channel[i] = Len(received) + i

IInv ==
    /\ TypeOK
    /\ BehindAnEntry
    /\ BehindALine
    /\ HandedByPosition
    /\ HeldByPosition
    /\ InOrder
    /\ WholeLinesParse

-----------------------------------------------------------------------------
\* Where a line that is an entry ends.
LEMMA EntryEnds ==
  ASSUME NEW k \in Nat, position \in Nat, written \in Nat, position <= written,
         position = 3 * k \/ position = 3 * k + 2,
         LineIsEntry
  PROVE  /\ position = 3 * k
         /\ position \div 3 + 1 = k + 1
         /\ LineEnd = 3 * k + 3 \/ (LineEnd = 3 * k + 2 /\ written = 3 * k + 2)
         /\ LineEnd <= written
         /\ (position + 1) \div 3 = k
         /\ (LineEnd + 1) \div 3 = k + 1
<1>1. position = 3 * k
  BY DEF LineIsEntry
<1>2. position \div 3 = k
  BY <1>1
<1>3. NextNewline = 3 * k + 3
  BY <1>2 DEF NextNewline
<1>4. /\ LineEnd = 3 * k + 3 \/ (LineEnd = 3 * k + 2 /\ written = 3 * k + 2)
      /\ LineEnd <= written
  BY <1>1, <1>3 DEF LineIsEntry, LineEnd
<1>5. (3 * k + 1) \div 3 = k /\ (3 * k + 3) \div 3 = k + 1 /\ (3 * k + 4) \div 3 = k + 1
  OBVIOUS
<1> QED
  BY <1>1, <1>2, <1>4, <1>5

\* IInv holds of a new task.
LEMMA InitIInv == Init => IInv
<1> SUFFICES ASSUME Init
             PROVE  IInv
  OBVIOUS
<1>1. TypeOK
  <2>1. << >> \in Seq(1..Entries) /\ Len(<< >>) = 0
    OBVIOUS
  <2>2. /\ written \in 0..(3 * Entries) /\ position \in 0..written /\ held \in 0..Entries
        /\ held # 0 <=> task = "sending"
    BY EntriesAssumption DEF Init
  <2>3. /\ channel \in Seq(1..Entries) /\ Len(channel) <= Buffer
        /\ received \in Seq(1..Entries)
    BY <2>1, BufferAssumption DEF Init
  <2>4. wholeLines \in BOOLEAN /\ receiverDropped \in BOOLEAN /\ task = "opening"
    BY DEF Init
  <2> QED
    BY <2>2, <2>3, <2>4 DEF TypeOK
<1>2. BehindAnEntry
  <2>1. position = 3 * 0
    BY DEF Init
  <2> QED
    BY <2>1 DEF BehindAnEntry
<1>3. HandedByPosition /\ HeldByPosition
  BY DEF Init, HandedByPosition, HeldByPosition, Handed
<1> QED
  BY <1>1, <1>2, <1>3 DEF Init, IInv, BehindALine, InOrder, WholeLinesParse

\* What the receiver sees of a channel that is appended to and received from.
LEMMA AppendInOrder ==
  ASSUME received \in Seq(Nat), channel \in Seq(Nat), InOrder,
         NEW e \in Nat, e = Handed + 1,
         channel' = Append(channel, e), received' = received
  PROVE  InOrder' /\ Handed' = Handed + 1
<1>1. Len(channel') = Len(channel) + 1
  OBVIOUS
<1>2. ASSUME NEW i \in 1..Len(channel')
      PROVE  channel'[i] = Len(received) + i
  BY <1>1, <1>2 DEF InOrder, Handed
<1> QED
  BY <1>1, <1>2 DEF InOrder, Handed

LEMMA RecvInOrder ==
  ASSUME received \in Seq(Nat), channel \in Seq(Nat), InOrder, channel # << >>,
         channel' = Tail(channel), received' = Append(received, Head(channel))
  PROVE  InOrder' /\ Handed' = Handed
<1>1. Len(channel) > 0 /\ Head(channel) = channel[1] /\ channel[1] = Len(received) + 1
  BY DEF InOrder
<1>2. Len(channel') = Len(channel) - 1 /\ Len(received') = Len(received) + 1
  BY <1>1
<1>3. ASSUME NEW i \in 1..Len(received')
      PROVE  received'[i] = i
  BY <1>1, <1>2, <1>3 DEF InOrder
<1>4. ASSUME NEW i \in 1..Len(channel')
      PROVE  channel'[i] = Len(received') + i
  <2>1. channel'[i] = channel[i + 1] /\ i + 1 \in 1..Len(channel)
    BY <1>1, <1>2, <1>4
  <2> QED
    BY <2>1, <1>2 DEF InOrder
<1> QED
  BY <1>2, <1>3, <1>4 DEF InOrder, Handed

-----------------------------------------------------------------------------
\* Every step keeps IInv.
LEMMA NextIInv == IInv /\ [Next]_vars => IInv'
<1> SUFFICES ASSUME IInv, [Next]_vars
             PROVE  IInv'
  OBVIOUS
<1> USE EntriesAssumption, BufferAssumption
<1> USE DEF IInv
<1>1. /\ position \in Nat /\ written \in Nat /\ position <= written /\ written <= 3 * Entries
      /\ Entries \in Nat /\ Buffer \in Nat
  BY DEF TypeOK
<1>2. CASE Write
  <2>1. PICK n \in 1..3 : /\ wholeLines => n = 3
                          /\ written + n <= 3 * Entries
                          /\ written' = written + n
    BY <1>2 DEF Write
  <2>2. TypeOK'
    BY <1>1, <1>2, <2>1 DEF Write, TypeOK, receiverVars
  <2>3. BehindALine'
    BY <1>1, <1>2, <2>1 DEF Write, BehindALine, Live
  <2> QED
    BY <1>2, <2>2, <2>3 DEF Write, receiverVars, BehindAnEntry, Live, HandedByPosition,
        HeldByPosition, Handed, InOrder, WholeLinesParse
<1>3. CASE Open
  <2>1. TypeOK'
    BY <1>3 DEF Open, TypeOK, fileVars, receiverVars, EndedStates
  <2> QED
    BY <1>3, <2>1 DEF Open, fileVars, receiverVars, BehindAnEntry, BehindALine, Live,
        HandedByPosition, HeldByPosition, Handed, InOrder, WholeLinesParse
<1>4. CASE ReadEntry
  <2>1. PICK k \in Nat : position = 3 * k \/ position = 3 * k + 2
    BY <1>4 DEF ReadEntry, BehindAnEntry, Live
  <2>2. /\ position = 3 * k
        /\ position' = 3 * k + 3 \/ (position' = 3 * k + 2 /\ written = 3 * k + 2)
        /\ position' <= written
        /\ held' = k + 1
        /\ (position + 1) \div 3 = k
        /\ (position' + 1) \div 3 = k + 1
    BY <1>1, <1>4, <2>1, EntryEnds DEF ReadEntry
  <2>3. TypeOK'
    BY <1>1, <1>4, <2>2 DEF ReadEntry, TypeOK, fileVars, receiverVars
  <2>4. BehindAnEntry'
    <3>1. (position' = 3 * k + 2 \/ position' = 3 * (k + 1)) /\ k + 1 \in Nat
      BY <2>2
    <3>2. \E j \in Nat : position' = 3 * j \/ position' = 3 * j + 2
      BY <3>1
    <3> QED
      BY <3>2 DEF BehindAnEntry
  <2>5. BehindALine'
    <3>1. (3 * k + 2) % 3 = 2 /\ (3 * k + 3) % 3 = 0
      OBVIOUS
    <3>2. wholeLines => written % 3 = 0 /\ position' % 3 = 0
      BY <2>2, <3>1 DEF BehindALine
    <3> QED
      BY <1>4, <3>2 DEF ReadEntry, fileVars, BehindALine
  <2>6. HandedByPosition' /\ HeldByPosition'
    BY <1>4, <2>2 DEF ReadEntry, fileVars, receiverVars, HandedByPosition, HeldByPosition, Handed
  <2> QED
    BY <1>4, <2>3, <2>4, <2>5, <2>6 DEF ReadEntry, fileVars, receiverVars, InOrder, WholeLinesParse
<1>5. CASE ReadTorn
  <2>1. PICK k \in Nat : position = 3 * k \/ position = 3 * k + 2
    BY <1>5 DEF ReadTorn, BehindAnEntry, Live
  <2>2. LineEnd \in Nat /\ LineEnd <= written /\ position <= LineEnd
    BY <1>1, <1>5 DEF LineEnd, NextNewline, ReadTorn
  <2>3. ~wholeLines
    <3>1. ASSUME wholeLines
          PROVE  FALSE
      <4>1. position = 3 * k /\ written % 3 = 0
        BY <1>5, <2>1, <3>1 DEF ReadTorn, BehindALine, Live
      <4>2. position \div 3 = k /\ position % 3 = 0
        BY <4>1
      <4>3. NextNewline = 3 * k + 3
        BY <4>2 DEF NextNewline
      <4>4. written > 3 * k
        BY <1>1, <1>5, <2>2, <4>1 DEF ReadTorn
      <4>5. written >= 3 * k + 3
        BY <1>1, <4>1, <4>4
      <4> QED
        BY <1>1, <1>5, <4>1, <4>2, <4>3, <4>5 DEF ReadTorn, LineIsEntry, LineEnd
    <3> QED
      BY <3>1
  <2>4. TypeOK'
    BY <1>1, <1>5, <2>2 DEF ReadTorn, TypeOK, fileVars, receiverVars, EndedStates
  <2> QED
    BY <1>5, <2>3, <2>4 DEF ReadTorn, fileVars, receiverVars, BehindAnEntry, BehindALine, Live,
        HandedByPosition, HeldByPosition, Handed, InOrder, WholeLinesParse
<1>6. CASE Send
  <2>1. /\ held \in 1..Entries /\ received \in Seq(Nat) /\ channel \in Seq(Nat)
        /\ channel \in Seq(1..Entries) /\ Len(channel) \in Nat /\ Len(received) \in Nat
    BY <1>6 DEF Send, TypeOK
  <2>2. held = Handed + 1 /\ held = (position + 1) \div 3
    BY <1>6, <2>1 DEF Send, HandedByPosition, HeldByPosition, Handed
  <2>3. InOrder' /\ Handed' = Handed + 1
    BY <1>6, <2>1, <2>2, AppendInOrder DEF Send, receiverVars
  <2>4. TypeOK'
    <3>1. channel' \in Seq(1..Entries) /\ Len(channel') <= Buffer
      BY <1>1, <1>6, <2>1 DEF Send
    <3> QED
      BY <1>1, <1>6, <3>1 DEF Send, TypeOK, fileVars, receiverVars
  <2>5. HandedByPosition' /\ HeldByPosition'
    BY <1>6, <2>2, <2>3 DEF Send, HandedByPosition, HeldByPosition
  <2> QED
    BY <1>6, <2>3, <2>4, <2>5 DEF Send, fileVars, BehindAnEntry, BehindALine, Live, WholeLinesParse
<1>7. CASE SendFails
  <2>1. TypeOK'
    BY <1>1, <1>7 DEF SendFails, TypeOK, fileVars, receiverVars, EndedStates
  <2> QED
    BY <1>7, <2>1 DEF SendFails, fileVars, receiverVars, BehindAnEntry, BehindALine, Live,
        HandedByPosition, HeldByPosition, Handed, InOrder, WholeLinesParse
<1>8. CASE ReadFails \/ Abort
  <2>1. TypeOK'
    BY <1>1, <1>8 DEF ReadFails, Abort, TypeOK, fileVars, receiverVars, EndedStates
  <2> QED
    BY <1>8, <2>1 DEF ReadFails, Abort, fileVars, receiverVars, BehindAnEntry, BehindALine, Live,
        HandedByPosition, HeldByPosition, Handed, InOrder, WholeLinesParse
<1>9. CASE Recv
  <2>1. received \in Seq(Nat) /\ channel \in Seq(Nat) /\ channel # << >>
    BY <1>9 DEF Recv, TypeOK
  <2>2. InOrder' /\ Handed' = Handed
    BY <1>9, <2>1, RecvInOrder DEF Recv
  <2>3. TypeOK'
    <3>1. /\ channel' \in Seq(1..Entries) /\ Len(channel') <= Buffer
          /\ received' \in Seq(1..Entries)
      BY <1>1, <1>9, <2>1 DEF Recv, TypeOK
    <3> QED
      BY <1>1, <1>9, <3>1 DEF Recv, TypeOK, fileVars
  <2> QED
    BY <1>9, <2>2, <2>3 DEF Recv, fileVars, BehindAnEntry, BehindALine, Live, HandedByPosition,
        HeldByPosition, WholeLinesParse
<1>10. CASE DropReceiver
  <2>1. << >> \in Seq(1..Entries) /\ Len(<< >>) = 0
    OBVIOUS
  <2>2. TypeOK'
    BY <1>1, <1>10, <2>1 DEF DropReceiver, TypeOK, fileVars
  <2> QED
    BY <1>10, <2>1, <2>2 DEF DropReceiver, fileVars, BehindAnEntry, BehindALine, Live,
        HandedByPosition, HeldByPosition, InOrder, WholeLinesParse
<1>11. CASE UNCHANGED vars
  BY <1>11 DEF vars, fileVars, receiverVars, TypeOK, BehindAnEntry, BehindALine, Live,
      HandedByPosition, HeldByPosition, Handed, InOrder, WholeLinesParse
<1> QED
  BY <1>2, <1>3, <1>4, <1>5, <1>6, <1>7, <1>8, <1>9, <1>10, <1>11 DEF Next, TaskStep

THEOREM InductiveInvariant == Spec => []IInv
  BY InitIInv, NextIInv, PTL DEF Spec, SafetySpec

-----------------------------------------------------------------------------
\* The task, the channel and the receiver keep their types, and an entry is in hand
\* exactly while it is sent.
THEOREM TypeCorrect == Spec => []TypeOK
  BY InductiveInvariant, PTL DEF IInv

\* For any number of entries and any buffer, what is received, waits or is being sent are
\* the first entries of the file, in their order.
THEOREM EntriesStayInOrder == Spec => []EntriesInOrder
<1>1. IInv => EntriesInOrder
  <2> SUFFICES ASSUME IInv
               PROVE  EntriesInOrder
    OBVIOUS
  <2>1. /\ Len(received) \in Nat /\ Len(channel) \in Nat
        /\ task = "sending" /\ ~receiverDropped => held = Len(received) + Len(channel) + 1
    BY DEF IInv, TypeOK, HandedByPosition, HeldByPosition, Handed
  <2> QED
    BY <2>1 DEF IInv, InOrder, EntriesInOrder
<1> QED
  BY <1>1, InductiveInvariant, PTL

\* ... and as many as the task has read, as long as there is a receiver.
THEOREM NothingIsSkipped == Spec => []NothingSkipped
<1>1. IInv => NothingSkipped
  BY DEF IInv, HandedByPosition, Handed, NothingSkipped
<1> QED
  BY <1>1, InductiveInvariant, PTL

\* A file of whole lines never ends the task.
THEOREM WholeLinesAlwaysParse == Spec => []WholeLinesParse
  BY InductiveInvariant, PTL DEF IInv

=============================================================================
