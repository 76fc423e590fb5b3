--------------------------- MODULE MailboxProofs ---------------------------
(***************************************************************************)
(* Mailbox for any agents, calls, messages and polls: the types, that one  *)
(* at a time rewrites the inbox, that no message is lost in it, why a send *)
(* fails, why a message is handed over twice, and that a waiting message   *)
(* has a poll to come.                                                     *)
(***************************************************************************)
EXTENDS Mailbox, SequenceTheorems, TLAPS

\* The type invariant in three parts.
FileTypes ==
    /\ inbox \in File
    /\ rewrite \in Seq(Message)

CallTypes ==
    /\ send \in [Sender -> {"idle", "creating", "waiting", "locked", "writing"}]
    /\ draft \in [Sender -> Message \cup {NoMessage}]
    /\ \A s \in Sender : send[s] # "idle" => draft[s] \in Message
    /\ running \in BOOLEAN
    /\ starts \in 0 .. MaxStarts
    /\ running => starts > 0
    /\ \A l \in Loop : loop[l] # "none" => l <= starts
    /\ stopped \in SUBSET Loop
    /\ loop \in [Loop -> {"none", "waiting", "polling", "read", "told", "marking", "locked", "writing"}]
    /\ batch \in [Loop -> SUBSET Message]
    /\ told \in SUBSET Message
    /\ missed \in SUBSET (1 .. MaxMessages)
    /\ sent \in 0 .. MaxMessages
    /\ now \in 0 .. MaxTime
    /\ kills \in 0 .. MaxKills

InLock(place) == place \in {"locked", "writing"}

Exclusive ==
    /\ \A s, t \in Sender : InLock(send[s]) /\ InLock(send[t]) => s = t
    /\ \A k, l \in Loop : InLock(loop[k]) /\ InLock(loop[l]) => k = l
    /\ \A s \in Sender, l \in Loop : ~(InLock(send[s]) /\ InLock(loop[l]))

\* What the file looks like: it does not parse while it is created or written,
\* and after a kill; nobody holds the lock before it is created.
Shape ==
    /\ inbox.form # "list" => inbox.messages = <<>>
    /\ \A s \in Sender : send[s] = "creating" =>
          /\ inbox.form = "torn"
          /\ \A t \in Sender : ~InLock(send[t]) /\ (send[t] = "creating" => s = t)
          /\ \A l \in Loop : ~InLock(loop[l])
    /\ \A s \in Sender : send[s] = "writing" => inbox.form = "torn"
    /\ \A l \in Loop : loop[l] = "writing" => inbox.form = "torn"
    /\ inbox.form = "none" => /\ \A s \in Sender : send[s] = "idle"
                              /\ \A l \in Loop : ~InLock(loop[l])
    /\ inbox.form = "torn" =>
          \/ kills > 0
          \/ \E s \in Sender : send[s] \in {"creating", "writing"}
          \/ \E l \in Loop : loop[l] = "writing"

\* A poll marks what it has handed over.
Handed == \A l \in Loop : loop[l] \in {"told", "marking", "locked", "writing"} => batch[l] \subseteq told

IInv == FileTypes /\ CallTypes /\ Exclusive /\ Shape /\ Handed

-----------------------------------------------------------------------------
(* What the definitions come to.                                           *)

\* The lock is free when no call and no poll is in its locked section.
LEMMA FreeLock ==
    LockFree <=> /\ \A s \in Sender : ~InLock(send[s])
                 /\ \A l \in Loop : ~InLock(loop[l])
  BY DEF LockFree, Senders, Markers, InLock

\* The parts give the type invariant.
LEMMA TypesOfParts ==
    ASSUME IInv PROVE TypeOK
  BY DEF IInv, FileTypes, CallTypes, Exclusive, InLock, TypeOK, Senders, Markers

\* Marking keeps the messages and their order, and only adds marks, to
\* messages stamped like one of the batch.
LEMMA MarkedKeeps ==
    ASSUME NEW B \in SUBSET Message, NEW messages \in Seq(Message)
    PROVE  /\ Marked(B, messages) \in Seq(Message)
           /\ Len(Marked(B, messages)) = Len(messages)
           /\ \A k \in 1 .. Len(messages) :
                 /\ Marked(B, messages)[k].id = messages[k].id
                 /\ SameStamp(Marked(B, messages)[k], messages[k])
                 /\ messages[k].read => Marked(B, messages)[k].read
                 /\ Marked(B, messages)[k].read /\ ~messages[k].read =>
                        \E b \in B : SameStamp(b, messages[k])
                 /\ ~Marked(B, messages)[k].read => Marked(B, messages)[k] = messages[k]
                 /\ \A b \in B : SameStamp(b, messages[k]) => Marked(B, messages)[k].read
  <1> DEFINE D == 1 .. Len(messages)
  <1> DEFINE M == Marked(B, messages)
  <1>1. DOMAIN messages = D /\ Len(messages) \in Nat /\ \A k \in D : messages[k] \in Message
    OBVIOUS
  <1>2. /\ DOMAIN M = D
        /\ \A k \in D : M[k] = IF \E b \in B : b.from = messages[k].from /\ b.time = messages[k].time
                               THEN [messages[k] EXCEPT !.read = TRUE] ELSE messages[k]
    BY <1>1 DEF Marked
  <1>3. \A m \in Message :
            LET n == [m EXCEPT !.read = TRUE] IN
            n \in Message /\ n.id = m.id /\ n.from = m.from /\ n.time = m.time /\ n.read = TRUE
    BY DEF Message
  <1>4. ASSUME NEW k \in D
        PROVE  /\ M[k] \in Message
               /\ M[k].id = messages[k].id /\ M[k].from = messages[k].from /\ M[k].time = messages[k].time
               /\ messages[k].read => M[k].read
    <2> DEFINE m == messages[k]
    <2> DEFINE n == [messages[k] EXCEPT !.read = TRUE]
    <2>1. m \in Message /\ n \in Message /\ n.id = m.id /\ n.from = m.from /\ n.time = m.time /\ n.read = TRUE
      BY <1>1, <1>3
    <2>2. M[k] = n \/ M[k] = m
      BY <1>2
    <2> HIDE DEF m, n, M
    <2> QED BY <2>1, <2>2 DEF m
  <1>5. ASSUME NEW k \in D
        PROVE  /\ M[k].read /\ ~messages[k].read => \E b \in B : SameStamp(b, messages[k])
               /\ ~M[k].read => M[k] = messages[k]
               /\ \A b \in B : SameStamp(b, messages[k]) => M[k].read
    <2> DEFINE m == messages[k]
    <2> DEFINE n == [messages[k] EXCEPT !.read = TRUE]
    <2>1. m \in Message /\ n.read = TRUE
      BY <1>1, <1>3
    <2>2. IF \E b \in B : SameStamp(b, m) THEN M[k] = n ELSE M[k] = m
      BY <1>2 DEF SameStamp
    <2> HIDE DEF m, n, M
    <2> QED BY <2>1, <2>2 DEF m
  <1>6. M = [k \in D |-> M[k]]
    BY <1>2 DEF Marked
  <1>7. M \in [D -> Message]
    <2> HIDE DEF M
    <2> QED BY <1>4, <1>6
  <1>8. M \in Seq(Message) /\ Len(M) = Len(messages)
    <2> HIDE DEF M
    <2> QED BY <1>1, <1>7
  <1>9. \A k \in D : SameStamp(M[k], messages[k])
    BY <1>4 DEF SameStamp
  <1> QED BY <1>4, <1>5, <1>8, <1>9

-----------------------------------------------------------------------------
(* The invariant.                                                          *)

LEMMA InitIInv == Init => IInv
  <1> SUFFICES ASSUME Init PROVE IInv
    OBVIOUS
  <1> USE DEF Init
  <1>1. FileTypes
    BY DEF FileTypes, NoFile, File
  <1>2. CallTypes
    <2>1. draft \in [Sender -> Message \cup {NoMessage}]
      OBVIOUS
    <2>2. batch \in [Loop -> SUBSET Message]
      OBVIOUS
    <2>3. /\ send \in [Sender -> {"idle"}] /\ loop \in [Loop -> {"none"}]
          /\ \A s \in Sender : send[s] = "idle"
          /\ \A l \in Loop : loop[l] = "none"
      OBVIOUS
    <2>4. 0 \in 0 .. MaxStarts /\ 0 \in 0 .. MaxMessages /\ 0 \in 0 .. MaxTime /\ 0 \in 0 .. MaxKills
      BY BoundsAssumption
    <2> QED BY <2>1, <2>2, <2>3, <2>4 DEF CallTypes
  <1>3. Exclusive
    BY DEF Exclusive, InLock
  <1>4. Shape
    BY DEF Shape, InLock, NoFile
  <1>5. Handed
    BY DEF Handed
  <1> QED BY <1>1, <1>2, <1>3, <1>4, <1>5 DEF IInv

\* A call starts, and perhaps creates the file.
LEMMA SendKeeps ==
    ASSUME NEW s \in Sender, IInv, Send(s) PROVE IInv'
  <1> USE DEF Send, IInv, sending, receiver, TornFile
  <1>1. FileTypes'
    <2>1. TornFile \in File
      BY DEF TornFile, File
    <2> QED BY <2>1 DEF FileTypes
  <1>2. CallTypes'
    <2>1. draft'[s] \in Message
      <3> DEFINE m == [id |-> sent + 1, from |-> AgentOf[s], time |-> now, read |-> FALSE]
      <3>1. AgentOf[s] \in Agent
        BY AgentOfAssumption
      <3>2. sent + 1 \in 1 .. MaxMessages /\ now \in 0 .. MaxTime
        BY BoundsAssumption DEF CallTypes
      <3>3. m \in Message
        BY ONLY <3>1, <3>2 DEF Message
      <3> HIDE DEF m
      <3>4. draft' = [draft EXCEPT ![s] = m]
        BY DEF m
      <3> QED BY <3>3, <3>4 DEF CallTypes
    <2>2. draft' = [draft EXCEPT ![s] = draft'[s]]
      BY DEF CallTypes
    <2>3. draft' \in [Sender -> Message \cup {NoMessage}] /\ \A t \in Sender : t # s => draft'[t] = draft[t]
      BY <2>1, <2>2 DEF CallTypes
    <2>4. /\ send' \in [Sender -> {"idle", "creating", "waiting", "locked", "writing"}]
          /\ \A t \in Sender : t # s => send'[t] = send[t]
      BY DEF CallTypes
    <2>5. sent' \in 0 .. MaxMessages
      BY BoundsAssumption DEF CallTypes
    <2>6. UNCHANGED <<running, starts, stopped, loop, batch, told, missed, now, kills>>
      OBVIOUS
    <2>7. \A t \in Sender : send'[t] # "idle" => draft'[t] \in Message
      <3>1. TAKE t \in Sender
      <3>2. CASE t = s
        BY <2>1, <3>2
      <3>3. CASE t # s
        BY <2>3, <2>4, <3>3 DEF CallTypes
      <3> QED BY <3>2, <3>3
    <2>8. draft' \in [Sender -> Message \cup {NoMessage}]
      BY <2>3
    <2>9. send' \in [Sender -> {"idle", "creating", "waiting", "locked", "writing"}]
      BY <2>4
    <2> HIDE DEF Send, receiver, sending
    <2> QED BY <2>5, <2>6, <2>7, <2>8, <2>9 DEF CallTypes
  <1>3. Exclusive'
    BY DEF Exclusive, Shape, CallTypes, InLock
  <1>4. Shape'
    BY DEF Shape, Exclusive, CallTypes, InLock
  <1>5. Handed'
    BY DEF Handed, CallTypes
  <1> QED BY <1>1, <1>2, <1>3, <1>4, <1>5

\* Its creator completes the empty list.
LEMMA WriteEmptyKeeps ==
    ASSUME NEW s \in Sender, IInv, WriteEmpty(s) PROVE IInv'
  <1> USE DEF WriteEmpty, IInv, sending, receiver, Holds
  <1>1. FileTypes'
    BY DEF FileTypes, CallTypes, File
  <1>2. CallTypes'
    BY BoundsAssumption DEF CallTypes, Loop
  <1>3. Exclusive'
    BY DEF Exclusive, Shape, CallTypes, InLock
  <1>4. Shape'
    BY DEF Shape, Exclusive, CallTypes, InLock
  <1>5. Handed'
    BY DEF Handed, CallTypes
  <1> QED BY <1>1, <1>2, <1>3, <1>4, <1>5

\* A call takes the lock.
LEMMA AppendMessageKeeps ==
    ASSUME NEW s \in Sender, IInv, AppendMessage(s) PROVE IInv'
  <1> USE DEF AppendMessage, IInv, sending, receiver
  <1>1. FileTypes'
    BY DEF FileTypes, CallTypes, File
  <1>2. CallTypes'
    BY BoundsAssumption DEF CallTypes, Loop
  <1>3. Exclusive'
    BY FreeLock DEF Exclusive, Shape, CallTypes, InLock
  <1>4. Shape'
    BY FreeLock DEF Shape, Exclusive, CallTypes, InLock
  <1>5. Handed'
    BY DEF Handed, CallTypes
  <1> QED BY <1>1, <1>2, <1>3, <1>4, <1>5

\* It empties the file.
LEMMA SendTruncatesKeeps ==
    ASSUME NEW s \in Sender, IInv, SendTruncates(s) PROVE IInv'
  <1> USE DEF SendTruncates, IInv, sending, receiver, Truncate, TornFile
  <1>1. FileTypes'
    BY DEF FileTypes, CallTypes, File
  <1>2. CallTypes'
    BY BoundsAssumption DEF CallTypes, Loop
  <1>3. Exclusive'
    BY DEF Exclusive, Shape, CallTypes, InLock
  <1>4. Shape'
    BY DEF Shape, Exclusive, CallTypes, InLock
  <1>5. Handed'
    BY DEF Handed, CallTypes
  <1> QED BY <1>1, <1>2, <1>3, <1>4, <1>5

\* It writes the list.
LEMMA SendReturnsKeeps ==
    ASSUME NEW s \in Sender, IInv, SendReturns(s) PROVE IInv'
  <1> USE DEF SendReturns, IInv, sending, receiver, WriteOut, Holds
  <1>1. FileTypes'
    BY DEF FileTypes, CallTypes, File
  <1>2. CallTypes'
    BY BoundsAssumption DEF CallTypes, Loop
  <1>3. Exclusive'
    BY DEF Exclusive, Shape, CallTypes, InLock
  <1>4. Shape'
    BY DEF Shape, Exclusive, CallTypes, InLock
  <1>5. Handed'
    BY DEF Handed, CallTypes
  <1> QED BY <1>1, <1>2, <1>3, <1>4, <1>5

\* A call that finds no list.
LEMMA SendFailsKeeps ==
    ASSUME NEW s \in Sender, IInv, SendFails(s) PROVE IInv'
  <1> USE DEF SendFails, IInv, sending, receiver
  <1>1. FileTypes'
    BY DEF FileTypes, CallTypes, File
  <1>2. CallTypes'
    BY BoundsAssumption DEF CallTypes, Loop
  <1>3. Exclusive'
    BY FreeLock DEF Exclusive, Shape, CallTypes, InLock
  <1>4. Shape'
    BY FreeLock DEF Shape, Exclusive, CallTypes, InLock
  <1>5. Handed'
    BY DEF Handed, CallTypes
  <1> QED BY <1>1, <1>2, <1>3, <1>4, <1>5

\* The poller is started.
LEMMA StartKeeps ==
    ASSUME IInv, Start PROVE IInv'
  <1> USE DEF Start, IInv, sending, receiver
  <1>1. FileTypes'
    BY DEF FileTypes, CallTypes, File
  <1>2. CallTypes'
    BY BoundsAssumption DEF CallTypes, Loop
  <1>3. Exclusive'
    BY DEF Exclusive, Shape, CallTypes, InLock
  <1>4. Shape'
    BY DEF Shape, Exclusive, CallTypes, InLock
  <1>5. Handed'
    BY DEF Handed, CallTypes
  <1> QED BY <1>1, <1>2, <1>3, <1>4, <1>5

\* It is stopped.
LEMMA StopKeeps ==
    ASSUME IInv, Stop PROVE IInv'
  <1> USE DEF Stop, IInv, sending, receiver
  <1>1. FileTypes'
    BY DEF FileTypes, CallTypes, File
  <1>2. CallTypes'
    <2>1. starts \in Loop
      BY BoundsAssumption DEF CallTypes, Loop
    <2> QED BY <2>1 DEF CallTypes
  <1>3. Exclusive'
    BY DEF Exclusive, Shape, CallTypes, InLock
  <1>4. Shape'
    BY DEF Shape, Exclusive, CallTypes, InLock
  <1>5. Handed'
    BY DEF Handed, CallTypes
  <1> QED BY <1>1, <1>2, <1>3, <1>4, <1>5

\* A poll begins.
LEMMA TickerFiresKeeps ==
    ASSUME NEW l \in Loop, IInv, TickerFires(l) PROVE IInv'
  <1> USE DEF TickerFires, Goto, IInv, sending, receiver
  <1>1. FileTypes'
    BY DEF FileTypes, CallTypes, File
  <1>2. CallTypes'
    BY BoundsAssumption DEF CallTypes, Loop
  <1>3. Exclusive'
    BY DEF Exclusive, Shape, CallTypes, InLock
  <1>4. Shape'
    BY DEF Shape, Exclusive, CallTypes, InLock
  <1>5. Handed'
    BY DEF Handed, CallTypes
  <1> QED BY <1>1, <1>2, <1>3, <1>4, <1>5

\* A goroutine ends.
LEMMA LoopReturnsKeeps ==
    ASSUME NEW l \in Loop, IInv, LoopReturns(l) PROVE IInv'
  <1> USE DEF LoopReturns, Goto, IInv, sending, receiver
  <1>1. FileTypes'
    BY DEF FileTypes, CallTypes, File
  <1>2. CallTypes'
    BY BoundsAssumption DEF CallTypes, Loop
  <1>3. Exclusive'
    BY DEF Exclusive, Shape, CallTypes, InLock
  <1>4. Shape'
    BY DEF Shape, Exclusive, CallTypes, InLock
  <1>5. Handed'
    BY DEF Handed, CallTypes
  <1> QED BY <1>1, <1>2, <1>3, <1>4, <1>5

\* A poll reads.
LEMMA ReadUnreadKeeps ==
    ASSUME NEW l \in Loop, IInv, ReadUnread(l) PROVE IInv'
  <1> USE DEF ReadUnread, Goto, IInv, sending, receiver
  <1>1. FileTypes'
    BY DEF FileTypes, CallTypes, File
  <1>2. CallTypes'
    <2>1. Unread(inbox.messages) \subseteq Message
      BY DEF Unread, MessagesOf, FileTypes, File
    <2>2. batch' \in [Loop -> SUBSET Message]
      BY <2>1 DEF CallTypes
    <2> QED BY <2>2 DEF CallTypes
  <1>3. Exclusive'
    BY DEF Exclusive, Shape, CallTypes, InLock
  <1>4. Shape'
    BY DEF Shape, Exclusive, CallTypes, InLock
  <1>5. Handed'
    BY DEF Handed, CallTypes
  <1> QED BY <1>1, <1>2, <1>3, <1>4, <1>5

\* It hands over what it has read.
LEMMA OnMessageKeeps ==
    ASSUME NEW l \in Loop, IInv, OnMessage(l) PROVE IInv'
  <1> USE DEF OnMessage, Goto, IInv, sending, receiver
  <1>1. FileTypes'
    BY DEF FileTypes, CallTypes, File
  <1>2. CallTypes'
    BY BoundsAssumption DEF CallTypes, Loop
  <1>3. Exclusive'
    BY DEF Exclusive, Shape, CallTypes, InLock
  <1>4. Shape'
    BY DEF Shape, Exclusive, CallTypes, InLock
  <1>5. Handed'
    BY DEF Handed, CallTypes
  <1> QED BY <1>1, <1>2, <1>3, <1>4, <1>5

\* It looks whether there is something to mark.
LEMMA LookBeforeMarkingKeeps ==
    ASSUME NEW l \in Loop, IInv, LookBeforeMarking(l) PROVE IInv'
  <1> USE DEF LookBeforeMarking, Goto, IInv, sending, receiver, GiveUp
  <1>1. FileTypes'
    BY DEF FileTypes, CallTypes, File
  <1>2. CallTypes'
    <2>1. {m.id : m \in batch[l]} \subseteq 1 .. MaxMessages
      BY DEF CallTypes, Message
    <2>2. batch' \in [Loop -> SUBSET Message] /\ missed' \in SUBSET (1 .. MaxMessages)
      BY <2>1 DEF CallTypes
    <2> QED BY <2>2 DEF CallTypes
  <1>3. Exclusive'
    BY DEF Exclusive, Shape, CallTypes, InLock
  <1>4. Shape'
    BY DEF Shape, Exclusive, CallTypes, InLock
  <1>5. Handed'
    BY DEF Handed, CallTypes
  <1> QED BY <1>1, <1>2, <1>3, <1>4, <1>5

\* It takes the lock.
LEMMA MarkKeeps ==
    ASSUME NEW l \in Loop, IInv, Mark(l) PROVE IInv'
  <1> USE DEF Mark, Goto, IInv, sending, receiver, GiveUp
  <1>1. FileTypes'
    <2>1. inbox.messages \in Seq(Message) /\ batch[l] \in SUBSET Message
      BY DEF FileTypes, CallTypes, File
    <2>2. Marked(batch[l], inbox.messages) \in Seq(Message)
      BY <2>1, MarkedKeeps
    <2> QED BY <2>2 DEF FileTypes
  <1>2. CallTypes'
    <2>1. {m.id : m \in batch[l]} \subseteq 1 .. MaxMessages
      BY DEF CallTypes, Message
    <2>2. batch' \in [Loop -> SUBSET Message] /\ missed' \in SUBSET (1 .. MaxMessages)
      BY <2>1 DEF CallTypes
    <2> QED BY <2>2 DEF CallTypes
  <1>3. Exclusive'
    BY FreeLock DEF Exclusive, Shape, CallTypes, InLock
  <1>4. Shape'
    BY FreeLock DEF Shape, Exclusive, CallTypes, InLock
  <1>5. Handed'
    BY DEF Handed, CallTypes
  <1> QED BY <1>1, <1>2, <1>3, <1>4, <1>5

\* It empties the file.
LEMMA MarkTruncatesKeeps ==
    ASSUME NEW l \in Loop, IInv, MarkTruncates(l) PROVE IInv'
  <1> USE DEF MarkTruncates, Goto, IInv, sending, receiver, Truncate, TornFile
  <1>1. FileTypes'
    BY DEF FileTypes, CallTypes, File
  <1>2. CallTypes'
    BY BoundsAssumption DEF CallTypes, Loop
  <1>3. Exclusive'
    BY DEF Exclusive, Shape, CallTypes, InLock
  <1>4. Shape'
    BY DEF Shape, Exclusive, CallTypes, InLock
  <1>5. Handed'
    BY DEF Handed, CallTypes
  <1> QED BY <1>1, <1>2, <1>3, <1>4, <1>5

\* It writes the list.
LEMMA MarkReturnsKeeps ==
    ASSUME NEW l \in Loop, IInv, MarkReturns(l) PROVE IInv'
  <1> USE DEF MarkReturns, Goto, IInv, sending, receiver, WriteOut, Holds
  <1>1. FileTypes'
    BY DEF FileTypes, CallTypes, File
  <1>2. CallTypes'
    BY BoundsAssumption DEF CallTypes, Loop
  <1>3. Exclusive'
    BY DEF Exclusive, Shape, CallTypes, InLock
  <1>4. Shape'
    BY DEF Shape, Exclusive, CallTypes, InLock
  <1>5. Handed'
    BY DEF Handed, CallTypes
  <1> QED BY <1>1, <1>2, <1>3, <1>4, <1>5

\* The clock.
LEMMA TickKeeps ==
    ASSUME IInv, Tick PROVE IInv'
  <1> USE DEF Tick, IInv, sending, receiver
  <1>1. FileTypes'
    BY DEF FileTypes, CallTypes, File
  <1>2. CallTypes'
    BY BoundsAssumption DEF CallTypes, Loop
  <1>3. Exclusive'
    BY DEF Exclusive, Shape, CallTypes, InLock
  <1>4. Shape'
    BY DEF Shape, Exclusive, CallTypes, InLock
  <1>5. Handed'
    BY DEF Handed, CallTypes
  <1> QED BY <1>1, <1>2, <1>3, <1>4, <1>5

\* A sending process is killed.
LEMMA KillSenderKeeps ==
    ASSUME NEW a \in Agent, IInv, KillSender(a) PROVE IInv'
  <1> USE DEF KillSender, IInv, sending, receiver
  <1>1. FileTypes'
    BY DEF FileTypes, CallTypes, File
  <1>2. CallTypes'
    BY BoundsAssumption DEF CallTypes, Loop
  <1>3. Exclusive'
    BY DEF Exclusive, Shape, CallTypes, InLock
  <1>4. Shape'
    BY DEF Shape, Exclusive, CallTypes, InLock
  <1>5. Handed'
    BY DEF Handed, CallTypes
  <1> QED BY <1>1, <1>2, <1>3, <1>4, <1>5

\* The receiving process is killed.
LEMMA KillReceiverKeeps ==
    ASSUME IInv, KillReceiver PROVE IInv'
  <1> USE DEF KillReceiver, IInv, sending, receiver
  <1>1. FileTypes'
    BY DEF FileTypes, CallTypes, File
  <1>2. CallTypes'
    <2>1. batch' \in [Loop -> SUBSET Message]
      OBVIOUS
    <2>2. /\ loop' \in [Loop -> {"none"}]
          /\ \A l \in Loop : loop'[l] = "none"
      OBVIOUS
    <2>3. kills' \in 0 .. MaxKills /\ running' = FALSE
      BY BoundsAssumption DEF CallTypes
    <2> QED BY <2>1, <2>2, <2>3 DEF CallTypes
  <1>3. Exclusive'
    BY DEF Exclusive, Shape, CallTypes, InLock
  <1>4. Shape'
    BY DEF Shape, Exclusive, CallTypes, InLock
  <1>5. Handed'
    BY DEF Handed, CallTypes
  <1> QED BY <1>1, <1>2, <1>3, <1>4, <1>5

-----------------------------------------------------------------------------
LEMMA NextKeeps ==
    ASSUME IInv, [Next]_vars PROVE IInv'
  <1>1. ASSUME NEW s \in Sender, Send(s) PROVE IInv'
    BY <1>1, SendKeeps
  <1>2. ASSUME NEW s \in Sender, WriteEmpty(s) PROVE IInv'
    BY <1>2, WriteEmptyKeeps
  <1>3. ASSUME NEW s \in Sender, AppendMessage(s) PROVE IInv'
    BY <1>3, AppendMessageKeeps
  <1>4. ASSUME NEW s \in Sender, SendTruncates(s) PROVE IInv'
    BY <1>4, SendTruncatesKeeps
  <1>5. ASSUME NEW s \in Sender, SendReturns(s) PROVE IInv'
    BY <1>5, SendReturnsKeeps
  <1>6. ASSUME NEW s \in Sender, SendFails(s) PROVE IInv'
    BY <1>6, SendFailsKeeps
  <1>7. CASE Start
    BY <1>7, StartKeeps
  <1>8. CASE Stop
    BY <1>8, StopKeeps
  <1>9. ASSUME NEW l \in Loop, TickerFires(l) PROVE IInv'
    BY <1>9, TickerFiresKeeps
  <1>10. ASSUME NEW l \in Loop, LoopReturns(l) PROVE IInv'
    BY <1>10, LoopReturnsKeeps
  <1>11. ASSUME NEW l \in Loop, ReadUnread(l) PROVE IInv'
    BY <1>11, ReadUnreadKeeps
  <1>12. ASSUME NEW l \in Loop, OnMessage(l) PROVE IInv'
    BY <1>12, OnMessageKeeps
  <1>13. ASSUME NEW l \in Loop, LookBeforeMarking(l) PROVE IInv'
    BY <1>13, LookBeforeMarkingKeeps
  <1>14. ASSUME NEW l \in Loop, Mark(l) PROVE IInv'
    BY <1>14, MarkKeeps
  <1>15. ASSUME NEW l \in Loop, MarkTruncates(l) PROVE IInv'
    BY <1>15, MarkTruncatesKeeps
  <1>16. ASSUME NEW l \in Loop, MarkReturns(l) PROVE IInv'
    BY <1>16, MarkReturnsKeeps
  <1>17. CASE Tick
    BY <1>17, TickKeeps
  <1>18. ASSUME NEW a \in Agent, KillSender(a) PROVE IInv'
    BY <1>18, KillSenderKeeps
  <1>19. CASE KillReceiver
    BY <1>19, KillReceiverKeeps
  <1>20. CASE UNCHANGED vars
    BY <1>20 DEF IInv, FileTypes, CallTypes, Exclusive, InLock, Shape, Handed, vars, sending, receiver
  <1> QED
    BY <1>1, <1>2, <1>3, <1>4, <1>5, <1>6, <1>7, <1>8, <1>9, <1>10, <1>11, <1>12, <1>13, <1>14, <1>15,
       <1>16, <1>17, <1>18, <1>19, <1>20 DEF Next, SenderStep, LoopStep

LEMMA InvariantHolds == Spec => []IInv
  BY InitIInv, NextKeeps, PTL DEF Spec

\* The state is of its types, and one call or poll at a time is in a locked
\* section: globalMu and the flock exclude each other's holders.
THEOREM TypesHold == Spec => []TypeOK
  <1>1. IInv => TypeOK
    BY TypesOfParts
  <1> QED BY InvariantHolds, <1>1, PTL

-----------------------------------------------------------------------------
(* Why a send fails.                                                       *)

\* A step in which calls give up.
Excused ==
    \A s \in Sender :
        send[s] = "waiting" /\ send'[s] = "idle" =>
            (\E c \in Sender : send[c] = "creating") \/ kills' > 0

LEMMA StepExcused ==
    ASSUME IInv, [Next]_vars PROVE Excused
  <1> SUFFICES ASSUME NEW c \in Sender, send[c] = "waiting", send'[c] = "idle"
               PROVE  (\E d \in Sender : send[d] = "creating") \/ kills' > 0
    BY DEF Excused
  <1>1. (\E s \in Sender : SendFails(s)) \/ (\E a \in Agent : KillSender(a))
    BY DEF Next, SenderStep, LoopStep, Send, WriteEmpty, AppendMessage, SendTruncates, SendReturns,
       Start, Stop, TickerFires, LoopReturns, ReadUnread, OnMessage, LookBeforeMarking, Mark,
       MarkTruncates, MarkReturns, Tick, KillReceiver, IInv, CallTypes, sending, vars
  <1>2. CASE \E s \in Sender : SendFails(s)
    BY <1>2, FreeLock DEF SendFails, IInv, Shape, CallTypes, InLock
  <1>3. CASE \E a \in Agent : KillSender(a)
    BY <1>3 DEF KillSender, IInv, CallTypes
  <1> QED BY <1>1, <1>2, <1>3

\* SendMessage fails only while the first message of the inbox is creating it,
\* outside the lock, or when a process was killed.
THEOREM SendsGetThroughHolds == Spec => SendsGetThrough
  <1>1. IInv /\ [Next]_vars => Excused
    BY StepExcused
  <1> QED BY InvariantHolds, <1>1, PTL DEF Spec, SendsGetThrough, Excused

-----------------------------------------------------------------------------
(* What a step does to the list: an append, marks, or nothing.             *)

LEMMA FreeLockNext ==
    LockFree' <=> /\ \A s \in Sender : ~InLock(send'[s])
                  /\ \A l \in Loop : ~InLock(loop'[l])
  BY DEF LockFree, Senders, Markers, InLock

\* The steps that leave the lock and the file alone.
LEMMA Elsewhere ==
    ASSUME UNCHANGED <<inbox, rewrite>>,
           \A s \in Sender : InLock(send'[s]) <=> InLock(send[s]),
           \A l \in Loop : InLock(loop'[l]) <=> InLock(loop[l])
    PROVE  List' = List
  BY FreeLock, FreeLockNext DEF List

LEMMA CallList ==
    ASSUME NEW s \in Sender, IInv,
           Send(s) \/ WriteEmpty(s) \/ SendTruncates(s) \/ SendReturns(s) \/ SendFails(s)
    PROVE  List' = List
  <1> USE DEF IInv, CallTypes, InLock
  <1>1. CASE Send(s)
    <2>1. LockFree' = LockFree
      BY <1>1, FreeLock, FreeLockNext DEF Send, receiver
    <2>2. CASE inbox' = inbox
      BY <1>1, <2>1, <2>2 DEF Send, List
    <2>3. CASE inbox' # inbox
      <3>1. LockFree /\ inbox.messages = <<>> /\ inbox' = TornFile
        BY <1>1, <2>3, FreeLock DEF Send, Shape
      <3> QED BY <2>1, <3>1 DEF List, TornFile
    <2> QED BY <2>2, <2>3
  <1>2. CASE WriteEmpty(s)
    <2>1. LockFree /\ inbox.messages = <<>>
      BY <1>2, FreeLock DEF WriteEmpty, Shape
    <2>2. LockFree' /\ inbox' = Holds(<<>>)
      BY <1>2, <2>1, FreeLock, FreeLockNext DEF WriteEmpty, receiver
    <2> QED BY <2>1, <2>2 DEF List, Holds
  <1>3. CASE SendTruncates(s)
    <2>1. ~LockFree /\ ~LockFree'
      BY <1>3, FreeLock, FreeLockNext DEF SendTruncates
    <2> QED BY <1>3, <2>1 DEF SendTruncates, Truncate, List
  <1>4. CASE SendReturns(s)
    <2>1. ~LockFree /\ LockFree'
      BY <1>4, FreeLock, FreeLockNext DEF SendReturns, Exclusive, receiver
    <2> QED BY <1>4, <2>1 DEF SendReturns, WriteOut, Holds, List
  <1>5. CASE SendFails(s)
    BY <1>5, Elsewhere DEF SendFails, receiver
  <1> QED BY <1>1, <1>2, <1>3, <1>4, <1>5

LEMMA AppendList ==
    ASSUME NEW s \in Sender, IInv, AppendMessage(s)
    PROVE  LockFree /\ List = inbox.messages /\ List' = Append(inbox.messages, draft[s])
  <1>1. LockFree /\ ~LockFree'
    BY FreeLockNext DEF AppendMessage, IInv, CallTypes, InLock
  <1> QED BY <1>1 DEF AppendMessage, List

LEMMA PollList ==
    ASSUME NEW l \in Loop, IInv,
           \/ TickerFires(l) \/ LoopReturns(l) \/ ReadUnread(l) \/ OnMessage(l)
           \/ LookBeforeMarking(l) \/ MarkTruncates(l) \/ MarkReturns(l)
    PROVE  List' = List
  <1> USE DEF IInv, CallTypes, InLock, Goto, sending
  <1>1. CASE TickerFires(l) \/ LoopReturns(l) \/ ReadUnread(l) \/ OnMessage(l) \/ LookBeforeMarking(l)
    BY <1>1, Elsewhere DEF TickerFires, LoopReturns, ReadUnread, OnMessage, LookBeforeMarking, GiveUp
  <1>2. CASE MarkTruncates(l)
    <2>1. ~LockFree /\ ~LockFree'
      BY <1>2, FreeLock, FreeLockNext DEF MarkTruncates
    <2> QED BY <1>2, <2>1 DEF MarkTruncates, Truncate, List
  <1>3. CASE MarkReturns(l)
    <2>1. ~LockFree /\ LockFree'
      BY <1>3, FreeLock, FreeLockNext DEF MarkReturns, Exclusive
    <2> QED BY <1>3, <2>1 DEF MarkReturns, WriteOut, Holds, List
  <1> QED BY <1>1, <1>2, <1>3

LEMMA MarkList ==
    ASSUME NEW l \in Loop, IInv, Mark(l)
    PROVE  /\ LockFree /\ List = inbox.messages
           /\ \/ loop'[l] = "waiting" /\ List' = List /\ List = <<>>
                 /\ missed' = missed \cup {m.id : m \in batch[l]}
              \/ loop'[l] = "waiting" /\ List' = List /\ List = Marked(batch[l], List) /\ missed' = missed
              \/ loop'[l] = "locked" /\ List' = Marked(batch[l], List) /\ missed' = missed
  <1> USE DEF Mark, IInv, CallTypes, InLock, Goto, sending
  <1>1. LockFree /\ List = inbox.messages
    BY DEF List
  <1>2. CASE rewrite' = rewrite /\ loop'[l] = "waiting"
    <2>1. LockFree'
      BY <1>1, <1>2, FreeLock, FreeLockNext DEF GiveUp
    <2>2. List' = List
      BY <1>1, <1>2, <2>1 DEF List
    <2> QED BY <1>1, <1>2, <2>2 DEF GiveUp
  <1>3. CASE rewrite' = Marked(batch[l], inbox.messages) /\ loop'[l] = "locked"
    <2>1. ~LockFree'
      BY <1>3, FreeLockNext
    <2> QED BY <1>1, <1>3, <2>1 DEF List, GiveUp
  <1> QED BY <1>1, <1>2, <1>3 DEF GiveUp

LEMMA IdleList ==
    ASSUME IInv, Start \/ Stop \/ Tick PROVE List' = List
  <1>1. CASE Start
    <2>1. \A l \in Loop : InLock(loop'[l]) <=> InLock(loop[l])
      BY <1>1, BoundsAssumption DEF Start, IInv, CallTypes, InLock, Loop
    <2> QED BY <1>1, <2>1, Elsewhere DEF Start, sending
  <1>2. CASE Stop \/ Tick
    BY <1>2, Elsewhere DEF Stop, Tick, sending, receiver
  <1> QED BY <1>1, <1>2

-----------------------------------------------------------------------------
(* The list keeps its messages.                                            *)

\* What a step may do to the list.
Kept ==
    kills' = kills =>
        \A k \in DOMAIN List :
            /\ k \in DOMAIN List' /\ List'[k].id = List[k].id
            /\ List[k].read => List'[k].read
            /\ List'[k].read /\ ~List[k].read => \E t \in told : SameStamp(t, List[k])

LEMMA SameListKept ==
    ASSUME List' = List PROVE Kept
  BY DEF Kept

LEMMA AppendKept ==
    ASSUME NEW s \in Sender, IInv, AppendMessage(s) PROVE Kept
  <1>1. inbox.messages \in Seq(Message) /\ draft[s] \in Message
    BY DEF AppendMessage, IInv, FileTypes, CallTypes, File
  <1>2. \A k \in DOMAIN inbox.messages :
            k \in DOMAIN Append(inbox.messages, draft[s])
            /\ Append(inbox.messages, draft[s])[k] = inbox.messages[k]
    BY <1>1
  <1> QED BY <1>2, AppendList DEF Kept

LEMMA MarkKept ==
    ASSUME NEW l \in Loop, IInv, Mark(l) PROVE Kept
  <1> DEFINE M == Marked(batch[l], List)
  <1>1. CASE List' = List
    BY <1>1, SameListKept
  <1>2. CASE List' = M
    <2>1. batch[l] \in SUBSET Message /\ List \in Seq(Message) /\ batch[l] \subseteq told
      BY MarkList DEF Mark, IInv, FileTypes, CallTypes, File, Handed
    <2>2. /\ M \in Seq(Message)
          /\ Len(M) = Len(List)
          /\ \A k \in 1 .. Len(List) :
                /\ M[k].id = List[k].id
                /\ List[k].read => M[k].read
                /\ M[k].read /\ ~List[k].read => \E b \in batch[l] : SameStamp(b, List[k])
      BY <2>1, MarkedKeeps
    <2> HIDE DEF M
    <2> QED BY <1>2, <2>1, <2>2 DEF Kept
  <1> QED BY <1>1, <1>2, MarkList

LEMMA StepKept ==
    ASSUME IInv, [Next]_vars PROVE Kept
  <1>1. ASSUME NEW s \in Sender, Send(s) \/ SenderStep(s) PROVE Kept
    <2>1. CASE AppendMessage(s)
      BY <2>1, AppendKept
    <2>2. CASE ~AppendMessage(s)
      BY <1>1, <2>2, CallList, SameListKept DEF SenderStep
    <2> QED BY <2>1, <2>2
  <1>2. ASSUME NEW l \in Loop, LoopStep(l) PROVE Kept
    <2>1. CASE Mark(l)
      BY <2>1, MarkKept
    <2>2. CASE ~Mark(l)
      BY <1>2, <2>2, PollList, SameListKept DEF LoopStep
    <2> QED BY <2>1, <2>2
  <1>3. CASE Start \/ Stop \/ Tick
    BY <1>3, IdleList, SameListKept
  <1>4. CASE (\E a \in Agent : KillSender(a)) \/ KillReceiver
    BY <1>4 DEF KillSender, KillReceiver, Kept, IInv, CallTypes
  <1>5. CASE UNCHANGED vars
    BY <1>5, Elsewhere, SameListKept DEF vars, sending, receiver
  <1> QED BY <1>1, <1>2, <1>3, <1>4, <1>5 DEF Next

\* Whatever calls and polls do at the same time, no step loses a message or a
\* mark, and none marks a message unless it, or one with its sender and second,
\* was handed over; only a kill empties the list.
THEOREM NothingLostHolds == Spec => NothingLost
  <1>1. IInv /\ [Next]_vars => Kept
    BY StepKept
  <1> QED BY InvariantHolds, <1>1, PTL DEF Spec, NothingLost, Kept

-----------------------------------------------------------------------------
(* When a message is handed over again.                                    *)

\* The number of a call that has not appended its message yet is in no list,
\* and no number is above the last.
Pending(s) == send[s] \in {"creating", "waiting"}

Numbers ==
    /\ \A k \in DOMAIN inbox.messages : inbox.messages[k].id <= sent
    /\ \A k \in DOMAIN rewrite : rewrite[k].id <= sent
    /\ \A l \in Loop : \A m \in batch[l] : m.id <= sent
    /\ \A m \in told : m.id <= sent
    /\ \A s \in Sender : Pending(s) =>
          /\ draft[s].id <= sent
          /\ \A t \in Sender : Pending(t) /\ draft[t].id = draft[s].id => s = t
          /\ \A k \in DOMAIN inbox.messages : inbox.messages[k].id # draft[s].id
          /\ \A k \in DOMAIN rewrite : rewrite[k].id # draft[s].id
          /\ \A l \in Loop : \A m \in batch[l] : m.id # draft[s].id
          /\ \A m \in told : m.id # draft[s].id

\* A call that holds the lock adds to the list in the file.
Extends ==
    \A s \in Sender : send[s] = "locked" =>
        \A k \in DOMAIN inbox.messages : k \in DOMAIN rewrite /\ rewrite[k] = inbox.messages[k]

\* With a single goroutine and no kill, an unread message that was handed over
\* is about to be marked, or a poll gave up marking it; and so is what a poll
\* has read.
Accounted(m) ==
    m.id \in missed \/ \E l \in Loop : loop[l] \in {"told", "marking"} /\ m \in batch[l]

Once ==
    starts < 2 /\ kills = 0 =>
        /\ \A k \in DOMAIN List : ~List[k].read /\ List[k] \in told => Accounted(List[k])
        /\ \A l \in Loop : loop[l] = "read" => \A m \in batch[l] \cap told : m.id \in missed

OInv == IInv /\ Numbers /\ Extends /\ Once
LEMMA NumbersNext ==
    ASSUME IInv, Numbers, [Next]_vars PROVE Numbers'
  <1> USE DEF IInv, CallTypes, Pending, sending, receiver
  <1>1. ASSUME NEW s \in Sender, Send(s) PROVE Numbers'
    <2> DEFINE m == [id |-> sent + 1, from |-> AgentOf[s], time |-> now, read |-> FALSE]
    <2>1. draft' = [draft EXCEPT ![s] = m] /\ m.id = sent + 1
      BY <1>1 DEF Send
    <2> HIDE DEF m
    <2>2. draft'[s].id = sent + 1 /\ \A t \in Sender : t # s => draft'[t] = draft[t] /\ send'[t] = send[t]
      BY <1>1, <2>1 DEF Send
    <2>3. \A k \in DOMAIN inbox'.messages : k \in DOMAIN inbox.messages /\ inbox'.messages[k] = inbox.messages[k]
      BY <1>1 DEF Send, TornFile
    <2>4. UNCHANGED <<rewrite, batch, told>> /\ sent' = sent + 1 /\ sent \in Nat
      BY <1>1 DEF Send
    <2>5. \A n \in Message : n.id \in Int
      BY DEF Message
    <2>6. /\ \A k \in DOMAIN inbox.messages : inbox.messages[k] \in Message
          /\ \A k \in DOMAIN rewrite : rewrite[k] \in Message
      BY DEF FileTypes, File
    <2>7. /\ \A l \in Loop : \A n \in batch[l] : n \in Message
          /\ \A n \in told : n \in Message
          /\ \A t \in Sender : Pending(t) => draft[t] \in Message
      BY ONLY CallTypes DEF CallTypes, Pending
    <2> HIDE DEF CallTypes
    <2> QED BY <2>2, <2>3, <2>4, <2>5, <2>6, <2>7 DEF Numbers
  <1>2. ASSUME NEW s \in Sender, WriteEmpty(s) PROVE Numbers'
    BY <1>2 DEF WriteEmpty, Holds, Numbers
  <1>3. ASSUME NEW s \in Sender, AppendMessage(s) PROVE Numbers'
    <2>1. inbox.messages \in Seq(Message) /\ draft[s] \in Message
      BY <1>3 DEF AppendMessage, FileTypes, File
    <2>2. \A k \in DOMAIN Append(inbox.messages, draft[s]) :
              \/ k \in DOMAIN inbox.messages /\ Append(inbox.messages, draft[s])[k] = inbox.messages[k]
              \/ Append(inbox.messages, draft[s])[k] = draft[s]
      BY <2>1
    <2>3. rewrite' = Append(inbox.messages, draft[s]) /\ UNCHANGED <<inbox, batch, told, sent, draft>>
      BY <1>3 DEF AppendMessage
    <2>4. Pending(s) /\ \A t \in Sender : Pending(t)' => Pending(t) /\ t # s
      BY <1>3 DEF AppendMessage
    <2> QED BY <2>2, <2>3, <2>4 DEF Numbers
  <1>4. ASSUME NEW s \in Sender, SendTruncates(s) PROVE Numbers'
    BY <1>4 DEF SendTruncates, Truncate, TornFile, Numbers
  <1>5. ASSUME NEW s \in Sender, SendReturns(s) PROVE Numbers'
    BY <1>5 DEF SendReturns, WriteOut, Holds, Numbers
  <1>6. ASSUME NEW s \in Sender, SendFails(s) PROVE Numbers'
    BY <1>6 DEF SendFails, Numbers
  <1>7. CASE Start \/ Stop \/ Tick
    BY <1>7 DEF Start, Stop, Tick, Numbers
  <1>8. ASSUME NEW l \in Loop, TickerFires(l) \/ LoopReturns(l) PROVE Numbers'
    BY <1>8 DEF TickerFires, LoopReturns, Numbers
  <1>9. ASSUME NEW l \in Loop, ReadUnread(l) PROVE Numbers'
    <2>1. \A m \in Unread(inbox.messages) : \E k \in DOMAIN inbox.messages : m = inbox.messages[k]
      BY DEF Unread, MessagesOf
    <2> QED BY <1>9, <2>1 DEF ReadUnread, Numbers
  <1>10. ASSUME NEW l \in Loop, OnMessage(l) PROVE Numbers'
    BY <1>10 DEF OnMessage, Numbers
  <1>11. ASSUME NEW l \in Loop, LookBeforeMarking(l) PROVE Numbers'
    BY <1>11 DEF LookBeforeMarking, GiveUp, Numbers
  <1>12. ASSUME NEW l \in Loop, Mark(l) PROVE Numbers'
    <2> DEFINE M == Marked(batch[l], inbox.messages)
    <2>1. M \in Seq(Message) /\ DOMAIN M = DOMAIN inbox.messages
          /\ \A k \in DOMAIN M : M[k].id = inbox.messages[k].id
      <3>1. batch[l] \in SUBSET Message /\ inbox.messages \in Seq(Message)
        BY DEF FileTypes, File
      <3>2. M \in Seq(Message) /\ Len(M) = Len(inbox.messages)
            /\ \A k \in 1 .. Len(inbox.messages) : M[k].id = inbox.messages[k].id
        BY <3>1, MarkedKeeps
      <3> HIDE DEF M
      <3> QED BY <3>1, <3>2
    <2>2. rewrite' = rewrite \/ rewrite' = M
      BY <1>12 DEF Mark
    <2>3. /\ UNCHANGED <<inbox, send, draft, sent, told>>
          /\ \A k \in Loop : batch'[k] \subseteq batch[k]
      BY <1>12 DEF Mark, GiveUp
    <2> HIDE DEF M
    <2> QED BY <2>1, <2>2, <2>3 DEF Numbers
  <1>13. ASSUME NEW l \in Loop, MarkTruncates(l) PROVE Numbers'
    BY <1>13 DEF MarkTruncates, Truncate, TornFile, Numbers
  <1>14. ASSUME NEW l \in Loop, MarkReturns(l) PROVE Numbers'
    BY <1>14 DEF MarkReturns, WriteOut, Holds, Numbers
  <1>15. ASSUME NEW a \in Agent, KillSender(a) PROVE Numbers'
    BY <1>15 DEF KillSender, Numbers
  <1>16. CASE KillReceiver
    BY <1>16 DEF KillReceiver, Numbers
  <1>17. CASE UNCHANGED vars
    BY <1>17 DEF vars, Numbers
  <1> QED
    BY <1>1, <1>2, <1>3, <1>4, <1>5, <1>6, <1>7, <1>8, <1>9, <1>10, <1>11, <1>12, <1>13, <1>14, <1>15,
       <1>16, <1>17 DEF Next, SenderStep, LoopStep

LEMMA ExtendsNext ==
    ASSUME IInv, Extends, [Next]_vars PROVE Extends'
  <1> SUFFICES ASSUME NEW s \in Sender, send'[s] = "locked",
                      NEW k \in DOMAIN inbox'.messages
               PROVE  k \in DOMAIN rewrite' /\ rewrite'[k] = inbox'.messages[k]
    BY DEF Extends
  <1> USE DEF IInv, CallTypes, InLock
  <1>1. CASE AppendMessage(s)
    <2>1. inbox.messages \in Seq(Message)
      BY DEF FileTypes, File
    <2> QED BY <1>1, <2>1 DEF AppendMessage
  <1>2. CASE ~AppendMessage(s) /\ ~(\E a \in Agent : KillSender(a))
    <2>1. send[s] = "locked"
      BY <1>2 DEF Next, SenderStep, LoopStep, Send, WriteEmpty, AppendMessage, SendTruncates, SendReturns,
         SendFails, Start, Stop, TickerFires, LoopReturns, ReadUnread, OnMessage, LookBeforeMarking, Mark,
         MarkTruncates, MarkReturns, Tick, KillReceiver, sending, vars
    <2>2. inbox.form # "none" /\ \A t \in Sender : send[t] # "creating"
      BY <2>1 DEF Shape
    <2>3. UNCHANGED <<inbox, rewrite>>
      BY <1>2, <2>1, <2>2, FreeLock
      DEF Next, SenderStep, LoopStep, Send, WriteEmpty, AppendMessage, SendTruncates, SendReturns,
         SendFails, Start, Stop, TickerFires, LoopReturns, ReadUnread, OnMessage, LookBeforeMarking, Mark,
         MarkTruncates, MarkReturns, Tick, KillReceiver, Exclusive, Markers, sending, vars
    <2> QED BY <2>1, <2>3 DEF Extends
  <1>3. CASE \E a \in Agent : KillSender(a)
    <2>1. send[s] = "locked" /\ UNCHANGED <<inbox, rewrite>>
      BY <1>3 DEF KillSender, Exclusive, Senders
    <2> QED BY <2>1 DEF Extends
  <1> QED BY <1>1, <1>2, <1>3

\* What a poll reads is in the list, when no other poll is under way.
LEMMA ReadFromList ==
    ASSUME IInv, Extends, NEW l \in Loop, loop[l] = "polling",
           \A k \in Loop : loop[k] # "none" => k = l,
           NEW m \in Unread(inbox.messages)
    PROVE  ~m.read /\ \E k \in DOMAIN List : List[k] = m
  <1>1. PICK k \in DOMAIN inbox.messages : m = inbox.messages[k] /\ ~m.read
    BY DEF Unread, MessagesOf
  <1>2. CASE LockFree
    BY <1>1, <1>2 DEF List
  <1>3. CASE ~LockFree
    <2>1. PICK s \in Sender : InLock(send[s])
      BY <1>3, FreeLock DEF InLock
    <2>2. inbox.messages # <<>>
      BY <1>1
    <2>3. send[s] = "locked"
      BY <2>1, <2>2 DEF InLock, IInv, Shape
    <2>4. k \in DOMAIN rewrite /\ rewrite[k] = inbox.messages[k]
      BY <2>3 DEF Extends
    <2> QED BY <1>1, <1>3, <2>4 DEF List
  <1> QED BY <1>2, <1>3

LEMMA OnceNext ==
    ASSUME OInv, [Next]_vars PROVE Once'
  <1> SUFFICES ASSUME starts' < 2, kills' = 0
               PROVE  Once'
    BY DEF Once
  <1> USE DEF OInv
  <1>1. /\ starts < 2 /\ kills = 0
        /\ ~KillReceiver /\ \A a \in Agent : ~KillSender(a)
    BY BoundsAssumption DEF IInv, CallTypes, Next, SenderStep, LoopStep, Send, WriteEmpty, AppendMessage,
       SendTruncates, SendReturns, SendFails, Start, Stop, TickerFires, LoopReturns, ReadUnread, OnMessage,
       LookBeforeMarking, Mark, MarkTruncates, MarkReturns, Tick, KillSender, KillReceiver, sending, receiver, vars
  <1>2. \A k, l \in Loop : loop[k] # "none" /\ loop[l] # "none" => k = l
    BY <1>1 DEF IInv, CallTypes, Loop
  <1>3. /\ \A k \in DOMAIN List : ~List[k].read /\ List[k] \in told => Accounted(List[k])
        /\ \A l \in Loop : loop[l] = "read" => \A m \in batch[l] \cap told : m.id \in missed
    BY <1>1 DEF Once
  <1>4. ASSUME List' = List, UNCHANGED <<told, batch, loop, missed>> PROVE Once'
    BY <1>3, <1>4 DEF Once, Accounted
  <1>5. ASSUME NEW s \in Sender, Send(s) \/ SenderStep(s) PROVE Once'
    <2>1. UNCHANGED receiver
      BY <1>5 DEF SenderStep, Send, WriteEmpty, AppendMessage, SendTruncates, SendReturns, SendFails
    <2>2. CASE AppendMessage(s)
      <3>1. List \in Seq(Message) /\ draft[s] \in Message /\ List' = Append(List, draft[s])
        BY <2>2, AppendList DEF AppendMessage, IInv, FileTypes, CallTypes, File
      <3>2. \A k \in DOMAIN List' : (k \in DOMAIN List /\ List'[k] = List[k]) \/ List'[k] = draft[s]
        BY <3>1
      <3>3. draft[s] \notin told
        BY <2>2 DEF AppendMessage, Numbers, Pending
      <3> QED BY <1>3, <2>1, <3>2, <3>3 DEF Once, Accounted, receiver
    <2>3. CASE ~AppendMessage(s)
      <3>1. List' = List
        BY <1>5, <2>3, CallList DEF SenderStep
      <3> QED BY <1>4, <2>1, <3>1 DEF receiver
    <2> QED BY <2>2, <2>3
  <1>6. CASE Stop \/ Tick
    BY <1>4, <1>6, IdleList DEF Stop, Tick, receiver
  <1>7. CASE Start
    <2>1. \A l \in Loop : loop[l] = "none"
      BY <1>7 DEF Start, IInv, CallTypes, Loop
    <2>2. \A l \in Loop : loop'[l] \in {"none", "waiting"}
      BY <1>7, <2>1 DEF Start, IInv, CallTypes
    <2> QED BY <1>3, <1>7, <2>1, <2>2, IdleList DEF Start, Once, Accounted
  <1>8. ASSUME NEW l \in Loop, LoopStep(l) PROVE Once'
    <2>1. loop[l] # "none" /\ \A k \in Loop : k # l => loop[k] = "none" /\ loop'[k] = "none"
      BY <1>2, <1>8 DEF LoopStep, TickerFires, LoopReturns, ReadUnread, OnMessage, LookBeforeMarking, Mark,
         MarkTruncates, MarkReturns, Goto, GiveUp, IInv, CallTypes
    <2> USE DEF Goto, GiveUp, IInv, CallTypes
    <2>2. CASE TickerFires(l) \/ LoopReturns(l) \/ MarkTruncates(l) \/ MarkReturns(l)
      <3>1. List' = List /\ UNCHANGED <<told, missed>> /\ loop[l] \notin {"told", "marking"} /\ loop'[l] # "read"
        BY <2>2, PollList DEF TickerFires, LoopReturns, MarkTruncates, MarkReturns
      <3> QED BY <1>3, <2>1, <3>1 DEF Once, Accounted
    <2>3. CASE ReadUnread(l)
      <3>1. List' = List /\ UNCHANGED <<told, missed>> /\ batch'[l] = Unread(inbox.messages)
        BY <2>3, PollList DEF ReadUnread
      <3>2. \A m \in told : Accounted(m) => m.id \in missed
        BY <2>1, <2>3 DEF ReadUnread, Accounted
      <3>3. \A m \in batch'[l] \cap told : m.id \in missed
        BY <1>3, <2>1, <2>3, <3>1, <3>2, ReadFromList DEF ReadUnread
      <3> QED BY <1>3, <2>1, <3>1, <3>2, <3>3 DEF Once, Accounted
    <2>4. CASE OnMessage(l)
      <3>1. /\ List' = List /\ UNCHANGED <<batch, missed>> /\ told' = told \cup batch[l]
            /\ loop[l] = "read" /\ loop'[l] = "told"
        BY <2>4, PollList DEF OnMessage
      <3> QED BY <1>3, <2>1, <3>1 DEF Once, Accounted
    <2>5. CASE LookBeforeMarking(l)
      <3>1. /\ List' = List /\ UNCHANGED told /\ loop[l] = "told"
            /\ \/ loop'[l] = "marking" /\ UNCHANGED <<batch, missed>>
               \/ loop'[l] = "waiting" /\ missed' = missed \cup {m.id : m \in batch[l]}
        BY <2>5, PollList DEF LookBeforeMarking
      <3> QED BY <1>3, <2>1, <3>1 DEF Once, Accounted
    <2>6. CASE Mark(l)
      <3>1. UNCHANGED told /\ loop[l] = "marking"
        BY <2>6 DEF Mark
      <3>2. \A m \in Message : Accounted(m) => m.id \in missed \/ m \in batch[l]
        BY <2>1 DEF Accounted
      <3>3. batch[l] \in SUBSET Message /\ List \in Seq(Message)
        BY <2>6, MarkList DEF FileTypes, File
      <3> DEFINE M == Marked(batch[l], List)
      <3>4. /\ M \in Seq(Message) /\ Len(M) = Len(List)
            /\ \A k \in 1 .. Len(List) :
                  /\ ~M[k].read => M[k] = List[k]
                  /\ \A b \in batch[l] : SameStamp(b, List[k]) => M[k].read
        BY <3>3, MarkedKeeps
      <3>5. CASE List = <<>> /\ List' = List /\ loop'[l] = "waiting"
        BY <2>1, <3>5 DEF Once
      <3>6. CASE List' = M /\ missed' = missed /\ loop'[l] \in {"waiting", "locked"}
        <4> HIDE DEF M
        <4>1. ASSUME NEW k \in DOMAIN List', ~List'[k].read, List'[k] \in told'
              PROVE  List'[k].id \in missed
          <5>1. k \in 1 .. Len(List) /\ List'[k] = List[k] /\ List[k] \in Message
            BY <3>3, <3>4, <3>6, <4>1
          <5>2. List[k] \notin batch[l]
            BY <3>4, <3>6, <4>1, <5>1 DEF SameStamp
          <5> QED BY <1>3, <3>1, <3>2, <3>3, <4>1, <5>1, <5>2
        <4> QED BY <2>1, <3>6, <4>1 DEF Once, Accounted
      <3> QED BY <2>6, <3>5, <3>6, MarkList DEF M
    <2> QED BY <1>8, <2>2, <2>3, <2>4, <2>5, <2>6 DEF LoopStep
  <1>9. CASE UNCHANGED vars
    <2>1. List' = List
      BY <1>9, Elsewhere DEF vars, sending, receiver
    <2> QED BY <1>4, <1>9, <2>1 DEF vars, receiver
  <1> QED BY <1>1, <1>5, <1>6, <1>7, <1>8, <1>9 DEF Next

LEMMA InitOInv == Init => OInv
  <1>1. Init => Numbers /\ Extends /\ Once
    BY DEF Init, Numbers, Pending, Extends, Once, Accounted, List, NoFile
  <1> QED BY <1>1, InitIInv DEF OInv

LEMMA OnceHolds == Spec => []OInv
  <1>1. OInv /\ [Next]_vars => OInv'
    BY NextKeeps, NumbersNext, ExtendsNext, OnceNext DEF OInv
  <1> QED BY InitOInv, <1>1, PTL DEF Spec

\* A step in which polls hand over messages.
HandsOver ==
    \A l \in Loop :
        loop[l] = "read" /\ loop'[l] = "told" =>
            \A m \in batch[l] \cap told : m.id \in missed \/ starts > 1 \/ kills > 0

\* A message is handed over a second time only when a poll gave up marking it,
\* or after another start or a kill.
THEOREM HandedOnceHolds == Spec => HandedOnce
  <1>1. OInv => HandsOver
    BY BoundsAssumption DEF OInv, IInv, CallTypes, Once, HandsOver
  <1> QED BY OnceHolds, <1>1, PTL DEF Spec, HandedOnce, HandsOver

-----------------------------------------------------------------------------
(* What waits to be handed over has a poll to come.                        *)

Untold(m) == ~\E t \in told : SameStamp(t, m)

\* A draft is unread, and a goroutine is stopped after it was started.
Fresh ==
    /\ \A s \in Sender : send[s] # "idle" => ~draft[s].read
    /\ \A l \in stopped : l <= starts

\* The goroutine of a poller that runs is there, and its ticker fires.
Awake == running => starts \in Loop \ stopped /\ loop[starts] # "none"

\* A message is marked only after it, or one stamped like it, was handed over.
Unmarked == kills = 0 => \A k \in DOMAIN List : Untold(List[k]) => ~List[k].read

\* What the list becomes in a step without a kill: some messages are marked
\* that were handed over, or an unread one is appended.
ListGrows ==
    \/ List' = List
    \/ /\ List \in Seq(Message)
       /\ \E m \in Message : ~m.read /\ List' = Append(List, m)
    \/ /\ DOMAIN List' = DOMAIN List
       /\ \A k \in DOMAIN List :
             /\ SameStamp(List'[k], List[k])
             /\ List'[k].read /\ ~List[k].read => ~Untold(List[k])

LEMMA NextGrows ==
    ASSUME IInv, Fresh, [Next]_vars, kills' = kills PROVE ListGrows
  <1>1. ASSUME NEW s \in Sender, AppendMessage(s) PROVE ListGrows
    <2>1. /\ List = inbox.messages /\ List' = Append(List, draft[s])
          /\ List \in Seq(Message) /\ draft[s] \in Message
      BY <1>1, AppendList DEF AppendMessage, IInv, FileTypes, CallTypes, File
    <2>2. ~draft[s].read
      BY <1>1 DEF AppendMessage, Fresh
    <2> QED BY <2>1, <2>2 DEF ListGrows
  <1>2. ASSUME NEW s \in Sender, Send(s) \/ SenderStep(s) PROVE ListGrows
    BY <1>1, <1>2, CallList DEF SenderStep, ListGrows
  <1>3. ASSUME NEW l \in Loop, Mark(l) PROVE ListGrows
    <2> DEFINE M == Marked(batch[l], List)
    <2>1. CASE List' = List
      BY <2>1 DEF ListGrows
    <2>2. CASE List' = M
      <3>1. batch[l] \in SUBSET Message /\ List \in Seq(Message) /\ batch[l] \subseteq told
        BY <1>3, MarkList DEF Mark, IInv, FileTypes, CallTypes, File, Handed
      <3>2. /\ M \in Seq(Message)
            /\ Len(M) = Len(List)
            /\ \A k \in 1 .. Len(List) :
                  /\ SameStamp(M[k], List[k])
                  /\ M[k].read /\ ~List[k].read => \E b \in batch[l] : SameStamp(b, List[k])
        BY <3>1, MarkedKeeps
      <3> HIDE DEF M
      <3>3. DOMAIN M = 1 .. Len(List) /\ DOMAIN List = 1 .. Len(List)
        BY <3>1, <3>2
      <3> QED BY <2>2, <3>1, <3>2, <3>3 DEF ListGrows, Untold
    <2> QED BY <1>3, <2>1, <2>2, MarkList
  <1>4. ASSUME NEW l \in Loop, LoopStep(l) PROVE ListGrows
    BY <1>3, <1>4, PollList DEF LoopStep, ListGrows
  <1>5. CASE Start \/ Stop \/ Tick
    BY <1>5, IdleList DEF ListGrows
  <1>6. ASSUME (\E a \in Agent : KillSender(a)) \/ KillReceiver PROVE FALSE
    BY <1>6 DEF KillSender, KillReceiver, IInv, CallTypes
  <1>7. CASE UNCHANGED vars
    BY <1>7, Elsewhere DEF vars, sending, receiver, ListGrows
  <1> QED BY <1>2, <1>4, <1>5, <1>6, <1>7 DEF Next

LEMMA KillsGrow ==
    ASSUME IInv, [Next]_vars PROVE kills' \in Nat /\ (kills' = kills \/ kills' > 0) /\ told \subseteq told'
  <1>1. kills \in Nat
    BY BoundsAssumption DEF IInv, CallTypes
  <1>2. told \subseteq told'
    BY DEF Next, SenderStep, LoopStep, Send, WriteEmpty, AppendMessage, SendTruncates, SendReturns,
       SendFails, Start, Stop, TickerFires, LoopReturns, ReadUnread, OnMessage, LookBeforeMarking,
       Mark, MarkTruncates, MarkReturns, Tick, KillSender, KillReceiver, receiver, vars
  <1>3. kills' = kills \/ kills' = kills + 1
    BY DEF Next, SenderStep, LoopStep, Send, WriteEmpty, AppendMessage, SendTruncates, SendReturns,
       SendFails, Start, Stop, TickerFires, LoopReturns, ReadUnread, OnMessage, LookBeforeMarking,
       Mark, MarkTruncates, MarkReturns, Tick, KillSender, KillReceiver, receiver, vars
  <1> QED BY <1>1, <1>2, <1>3

LEMMA UnmarkedNext ==
    ASSUME IInv, Fresh, Unmarked, [Next]_vars PROVE Unmarked'
  <1> SUFFICES ASSUME kills' = 0, NEW k \in DOMAIN List', List'[k].read,
                      \A t \in told' : ~SameStamp(t, List'[k])
               PROVE  FALSE
    BY DEF Unmarked, Untold
  <1>1. kills' = kills /\ told \subseteq told' /\ ListGrows
    BY KillsGrow, NextGrows
  <1>2. Untold(List'[k])
    BY <1>1 DEF Untold
  <1>3. CASE List' = List
    BY <1>1, <1>2, <1>3 DEF Unmarked
  <1>4. ASSUME List \in Seq(Message), NEW m \in Message, ~m.read, List' = Append(List, m)
        PROVE  FALSE
    <2>1. (k \in DOMAIN List /\ List'[k] = List[k]) \/ List'[k] = m
      BY <1>4
    <2> QED BY <1>1, <1>2, <1>4, <2>1 DEF Unmarked
  <1>5. CASE /\ DOMAIN List' = DOMAIN List
             /\ \A i \in DOMAIN List :
                   /\ SameStamp(List'[i], List[i])
                   /\ List'[i].read /\ ~List[i].read => ~Untold(List[i])
    <2>1. Untold(List[k])
      BY <1>2, <1>5 DEF Untold, SameStamp
    <2> QED BY <1>1, <1>5, <2>1 DEF Unmarked
  <1> QED BY <1>1, <1>3, <1>4, <1>5 DEF ListGrows

LEMMA FreshNext ==
    ASSUME IInv, Fresh, [Next]_vars PROVE Fresh'
  <1> USE DEF IInv, CallTypes
  <1>1. ASSUME NEW s \in Sender, Send(s) PROVE Fresh'
    <2>1. /\ \A t \in Sender : t # s => draft'[t] = draft[t] /\ send'[t] = send[t]
          /\ draft'[s].read = FALSE
      BY <1>1 DEF Send
    <2>2. UNCHANGED <<stopped, starts>>
      BY <1>1 DEF Send, receiver
    <2> QED BY <2>1, <2>2 DEF Fresh
  <1>2. ASSUME NEW s \in Sender, SenderStep(s) PROVE Fresh'
    BY <1>2 DEF Fresh, SenderStep, WriteEmpty, AppendMessage, SendTruncates, SendReturns, SendFails,
       receiver
  <1>3. ASSUME Start \/ Stop \/ (\E l \in Loop : LoopStep(l)) \/ Tick \/ KillReceiver \/ UNCHANGED vars
        PROVE  Fresh'
    <2>1. UNCHANGED <<send, draft>>
      BY <1>3 DEF Start, Stop, LoopStep, TickerFires, LoopReturns, ReadUnread, OnMessage,
         LookBeforeMarking, Mark, MarkTruncates, MarkReturns, Tick, KillReceiver, sending, vars
    <2>2. starts \in Nat /\ stopped \subseteq Loop /\ Loop \subseteq Nat
      BY BoundsAssumption DEF Loop
    <2>3. starts' \in Nat /\ starts' >= starts /\ stopped' \subseteq stopped \cup {starts}
      BY <1>3, <2>2 DEF Start, Stop, LoopStep, TickerFires, LoopReturns, ReadUnread, OnMessage,
         LookBeforeMarking, Mark, MarkTruncates, MarkReturns, Tick, KillReceiver, receiver, vars
    <2> QED BY <2>1, <2>2, <2>3 DEF Fresh
  <1>4. ASSUME NEW a \in Agent, KillSender(a) PROVE Fresh'
    BY <1>4 DEF Fresh, KillSender, receiver
  <1> QED BY <1>1, <1>2, <1>3, <1>4 DEF Next

LEMMA AwakeNext ==
    ASSUME IInv, Fresh, Awake, [Next]_vars PROVE Awake'
  <1> USE DEF IInv, CallTypes
  <1> SUFFICES ASSUME running' PROVE starts' \in Loop \ stopped' /\ loop'[starts'] # "none"
    BY DEF Awake
  <1>1. ASSUME NEW l \in Loop, LoopStep(l) PROVE starts' \in Loop \ stopped' /\ loop'[starts'] # "none"
    <2>1. starts \in Loop \ stopped /\ loop[starts] # "none" /\ UNCHANGED <<running, starts, stopped>>
      BY <1>1 DEF Awake, LoopStep, TickerFires, LoopReturns, ReadUnread, OnMessage,
         LookBeforeMarking, Mark, MarkTruncates, MarkReturns
    <2>2. PICK place : loop' = [loop EXCEPT ![l] = place] /\ (l \notin stopped => place # "none")
      BY <1>1 DEF LoopStep, TickerFires, LoopReturns, ReadUnread, OnMessage,
         LookBeforeMarking, Mark, MarkTruncates, MarkReturns, Goto, GiveUp
    <2> QED BY <2>1, <2>2
  <1>2. CASE Start
    <2>1. starts + 1 \in Loop /\ starts + 1 \notin stopped
      BY <1>2, BoundsAssumption DEF Start, Fresh, Loop
    <2> QED BY <1>2, <2>1 DEF Start
  <1>3. CASE Stop \/ KillReceiver
    BY <1>3 DEF Stop, KillReceiver
  <1>4. ASSUME \/ \E s \in Sender : Send(s) \/ SenderStep(s)
               \/ Tick \/ (\E a \in Agent : KillSender(a)) \/ UNCHANGED vars
        PROVE  UNCHANGED <<running, starts, stopped, loop>>
    BY <1>4 DEF Send, SenderStep, WriteEmpty, AppendMessage, SendTruncates, SendReturns, SendFails,
       Tick, KillSender, receiver, vars
  <1> QED BY <1>1, <1>2, <1>3, <1>4 DEF Next, Awake

\* A poll that reads while nobody rewrites the file takes all that was not
\* handed over yet, and then hands it over unless its process is killed.
PollTakesAll ==
    \A l \in Loop : kills' = 0 =>
        /\ LockFree /\ loop[l] = "polling" /\ loop'[l] # "polling" =>
              \A k \in DOMAIN List : Untold(List[k]) => loop'[l] = "read" /\ List[k] \in batch'[l]
        /\ loop[l] = "read" =>
              \/ loop'[l] = "read" /\ batch'[l] = batch[l]
              \/ batch[l] \subseteq told'

LEMMA NextTakesAll ==
    ASSUME IInv, Unmarked, [Next]_vars PROVE PollTakesAll
  <1> USE DEF IInv, CallTypes
  <1> SUFFICES ASSUME NEW l \in Loop, kills' = 0
      PROVE  /\ LockFree /\ loop[l] = "polling" /\ loop'[l] # "polling" =>
                   \A k \in DOMAIN List : Untold(List[k]) => loop'[l] = "read" /\ List[k] \in batch'[l]
             /\ loop[l] = "read" =>
                   \/ loop'[l] = "read" /\ batch'[l] = batch[l]
                   \/ batch[l] \subseteq told'
    BY DEF PollTakesAll
  <1>1. kills = 0 /\ kills' = kills
    BY KillsGrow
  <1>2. CASE ReadUnread(l)
    <2>1. loop[l] = "polling" /\ batch'[l] = Unread(inbox.messages)
      BY <1>2 DEF ReadUnread
    <2>2. loop'[l] = IF Unread(inbox.messages) = {} THEN "waiting" ELSE "read"
      BY <1>2 DEF ReadUnread, Goto
    <2>3. ASSUME LockFree, NEW k \in DOMAIN List, Untold(List[k]) PROVE List[k] \in Unread(inbox.messages)
      BY <1>1, <2>3 DEF Unmarked, List, Unread, MessagesOf
    <2> QED BY <2>1, <2>2, <2>3
  <1>3. CASE OnMessage(l)
    BY <1>3 DEF OnMessage
  <1>4. CASE /\ loop[l] \in {"polling", "read"} => loop'[l] = loop[l] /\ batch'[l] = batch[l]
    BY <1>4
  <1>5. ASSUME NEW m \in Loop, LoopStep(m), m # l PROVE loop'[l] = loop[l] /\ batch'[l] = batch[l]
    BY <1>5 DEF LoopStep, TickerFires, LoopReturns, ReadUnread, OnMessage,
       LookBeforeMarking, Mark, MarkTruncates, MarkReturns, Goto, GiveUp
  <1>6. ASSUME LoopStep(l), ~ReadUnread(l), ~OnMessage(l) PROVE loop[l] \notin {"polling", "read"}
    BY <1>6 DEF LoopStep, TickerFires, LoopReturns, LookBeforeMarking, Mark, MarkTruncates, MarkReturns
  <1>7. ASSUME Start PROVE loop[l] # "none" => loop'[l] = loop[l] /\ batch'[l] = batch[l]
    BY <1>7, BoundsAssumption DEF Start, Loop
  <1>8. ASSUME \/ \E s \in Sender : Send(s) \/ SenderStep(s)
               \/ Stop \/ Tick \/ (\E a \in Agent : KillSender(a)) \/ UNCHANGED vars
        PROVE  UNCHANGED <<loop, batch>>
    BY <1>8 DEF Send, SenderStep, WriteEmpty, AppendMessage, SendTruncates, SendReturns, SendFails,
       Stop, Tick, KillSender, receiver, vars
  <1>9. ~KillReceiver
    BY <1>1 DEF KillReceiver
  <1> QED BY <1>2, <1>3, <1>4, <1>5, <1>6, <1>7, <1>8, <1>9 DEF Next

\* Without a kill, no message that waits is passed over: a running poller has a
\* goroutine that polls, what was not handed over is unread, and the next
\* poll that finds the file whole takes it and hands it over.
THEOREM PollsHandOver == Spec => [](Awake /\ Unmarked) /\ [][PollTakesAll]_vars
  <1> DEFINE Inv == IInv /\ Fresh /\ Awake /\ Unmarked
  <1>1. Init => Inv
    BY InitIInv DEF Init, Fresh, Awake, Unmarked, List, LockFree, Senders, Markers, NoFile
  <1>2. Inv /\ [Next]_vars => Inv' /\ PollTakesAll
    BY NextKeeps, FreshNext, AwakeNext, UnmarkedNext, NextTakesAll
  <1> QED BY <1>1, <1>2, PTL DEF Spec
=============================================================================
