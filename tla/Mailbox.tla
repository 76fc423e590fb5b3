------------------------------ MODULE Mailbox ------------------------------
(***************************************************************************)
(* The inbox of one teammate: a JSON file that SendMessage calls of any    *)
(* process append to, and that the teammate's InboxPoller reads and marks. *)
(* Reads take no lock; a rewrite holds the flock, and truncates the file   *)
(* before it writes the new list.  A poll is several steps, and a poller   *)
(* that was stopped and started again may have two polls under way.        *)
(*                                                                         *)
(* A broadcast is one such send for each teammate.                         *)
(***************************************************************************)
EXTENDS Integers, Sequences

CONSTANTS
    Sender,       \* WriteToMailbox calls in flight
    Agent,        \* names of the agents that send
    AgentOf,      \* whose call it is
    MaxMessages,  \* bound: messages sent
    MaxTime,      \* bound: the last second
    MaxStarts,    \* bound: times the poller is started
    MaxKills      \* bound: processes killed

ASSUME AgentOfAssumption == AgentOf \in [Sender -> Agent]
ASSUME BoundsAssumption ==
    MaxMessages \in Nat /\ MaxTime \in Nat /\ MaxStarts \in Nat /\ MaxKills \in Nat

Loop == 1 .. MaxStarts

Message == [id : 1 .. MaxMessages, from : Agent, time : 0 .. MaxTime, read : BOOLEAN]

\* What is in the file: "none" if there is no file, "torn" if it does not parse.
File == [form : {"none", "torn", "list"}, messages : Seq(Message)]

NoMessage == [id |-> 0, from |-> "nobody", time |-> 0, read |-> FALSE]

NoFile == [form |-> "none", messages |-> <<>>]
TornFile == [form |-> "torn", messages |-> <<>>]
Holds(messages) == [form |-> "list", messages |-> messages]

VARIABLES
    inbox,      \* the file
    rewrite,    \* the list the holder of the lock is about to write
    send,       \* where each call of WriteToMailbox is
    draft,      \* its message
    running,    \* the poller's flag
    starts,     \* goroutines it has started; the last one is the current one
    stopped,    \* those whose stop channel is closed
    loop,       \* where each goroutine is
    batch,      \* the unread messages its poll has read
    told,       \* history: messages handed to the callback
    missed,     \* history: those a poll did not get to mark
    sent,       \* messages so far
    now,        \* the second of the clock
    kills       \* processes killed

receiver == <<running, starts, stopped, loop, batch, told, missed>>
sending == <<send, draft, sent>>
vars == <<inbox, rewrite, sending, receiver, now, kills>>

\* Who holds the lock.
Senders == {s \in Sender : send[s] \in {"locked", "writing"}}
Markers == {l \in Loop : loop[l] \in {"locked", "writing"}}

\* The type invariant; one call or poll at a time rewrites the file.
TypeOK ==
    /\ \A s, t \in Senders : s = t
    /\ \A k, l \in Markers : k = l
    /\ Senders = {} \/ Markers = {}
    /\ inbox \in File
    /\ rewrite \in Seq(Message)
    /\ send \in [Sender -> {"idle", "creating", "waiting", "locked", "writing"}]
    /\ \A s \in Sender : send[s] # "idle" => draft[s] \in Message
    /\ running \in BOOLEAN
    /\ starts \in 0 .. MaxStarts
    /\ stopped \in SUBSET Loop
    /\ loop \in [Loop -> {"none", "waiting", "polling", "read", "told", "marking", "locked", "writing"}]
    /\ batch \in [Loop -> SUBSET Message]
    /\ told \in SUBSET Message
    /\ missed \in SUBSET (1 .. MaxMessages)
    /\ sent \in 0 .. MaxMessages
    /\ now \in 0 .. MaxTime
    /\ kills \in 0 .. MaxKills

Init ==
    /\ inbox = NoFile /\ rewrite = <<>>
    /\ send = [s \in Sender |-> "idle"] /\ draft = [s \in Sender |-> NoMessage]
    /\ running = FALSE /\ starts = 0 /\ stopped = {}
    /\ loop = [l \in Loop |-> "none"] /\ batch = [l \in Loop |-> {}]
    /\ told = {} /\ missed = {}
    /\ sent = 0 /\ now = 0 /\ kills = 0

\* The lock is free: globalMu among the goroutines of a process, the flock
\* among processes.
LockFree == Senders = {} /\ Markers = {}

\* os.WriteFile of the list, under the lock: first the file is truncated.
Truncate == inbox' = TornFile /\ UNCHANGED rewrite

\* ... and then written, and the lock is released.
WriteOut == inbox' = Holds(rewrite) /\ rewrite' = <<>>

-----------------------------------------------------------------------------
(* WriteToMailbox. *)

\* The message is stamped; the first call creates the file, still empty.
Send(s) ==
    /\ send[s] = "idle" /\ sent < MaxMessages
    /\ sent' = sent + 1
    /\ draft' = [draft EXCEPT ![s] =
           [id |-> sent + 1, from |-> AgentOf[s], time |-> now, read |-> FALSE]]
    /\ \/ /\ inbox.form = "none"
          /\ inbox' = TornFile
          /\ send' = [send EXCEPT ![s] = "creating"]
       \/ /\ inbox.form # "none"
          /\ send' = [send EXCEPT ![s] = "waiting"]
          /\ UNCHANGED inbox
    /\ UNCHANGED <<rewrite, receiver, now, kills>>

\* The creator writes "[]", without the lock.
WriteEmpty(s) ==
    /\ send[s] = "creating"
    /\ inbox' = Holds(<<>>)
    /\ send' = [send EXCEPT ![s] = "waiting"]
    /\ UNCHANGED <<rewrite, draft, sent, receiver, now, kills>>

\* Faulty: the lock is not awaited.
AppendUnlocked(s) ==
    /\ send[s] = "waiting" /\ inbox.form # "torn"
    /\ rewrite' = Append(inbox.messages, draft[s])
    /\ send' = [send EXCEPT ![s] = "locked"]
    /\ UNCHANGED <<inbox, draft, sent, receiver, now, kills>>

\* Under the lock the list is read, and the message appended to it.
AppendMessage(s) ==
    /\ send[s] = "waiting" /\ LockFree /\ inbox.form # "torn"
    /\ rewrite' = Append(inbox.messages, draft[s])
    /\ send' = [send EXCEPT ![s] = "locked"]
    /\ UNCHANGED <<inbox, draft, sent, receiver, now, kills>>

SendTruncates(s) ==
    /\ send[s] = "locked"
    /\ Truncate
    /\ send' = [send EXCEPT ![s] = "writing"]
    /\ UNCHANGED <<draft, sent, receiver, now, kills>>

\* Faulty: the file is read before the lock is there.
SendFailsUnlocked(s) ==
    /\ send[s] = "waiting" /\ inbox.form = "torn"
    /\ send' = [send EXCEPT ![s] = "idle"]
    /\ draft' = [draft EXCEPT ![s] = NoMessage]
    /\ UNCHANGED <<inbox, rewrite, sent, receiver, now, kills>>

\* The list does not parse: the call reports an error.
SendFails(s) ==
    /\ send[s] = "waiting" /\ LockFree /\ inbox.form = "torn"
    /\ send' = [send EXCEPT ![s] = "idle"]
    /\ draft' = [draft EXCEPT ![s] = NoMessage]
    /\ UNCHANGED <<inbox, rewrite, sent, receiver, now, kills>>

SendReturns(s) ==
    /\ send[s] = "writing"
    /\ WriteOut
    /\ send' = [send EXCEPT ![s] = "idle"]
    /\ draft' = [draft EXCEPT ![s] = NoMessage]
    /\ UNCHANGED <<sent, receiver, now, kills>>

-----------------------------------------------------------------------------
(* InboxPoller. *)

Start ==
    /\ ~running /\ starts < MaxStarts
    /\ running' = TRUE
    /\ starts' = starts + 1
    /\ loop' = [loop EXCEPT ![starts + 1] = "waiting"]
    /\ UNCHANGED <<inbox, rewrite, sending, stopped, batch, told, missed, now, kills>>

\* Stop does not wait for the goroutine.
Stop ==
    /\ running
    /\ running' = FALSE
    /\ stopped' = stopped \cup {starts}
    /\ UNCHANGED <<inbox, rewrite, sending, starts, loop, batch, told, missed, now, kills>>

Goto(l, place) == loop' = [loop EXCEPT ![l] = place]

\* The ticker fires; a stopped one does not.
TickerFires(l) ==
    /\ loop[l] = "waiting" /\ l \notin stopped
    /\ Goto(l, "polling")
    /\ UNCHANGED <<inbox, rewrite, sending, running, starts, stopped, batch, told, missed, now, kills>>

LoopReturns(l) ==
    /\ loop[l] = "waiting" /\ l \in stopped
    /\ Goto(l, "none")
    /\ UNCHANGED <<inbox, rewrite, sending, running, starts, stopped, batch, told, missed, now, kills>>

MessagesOf(messages) == {messages[k] : k \in DOMAIN messages}

\* Faulty: what was read before counts too.
Everything(messages) == MessagesOf(messages)

Unread(messages) == {m \in MessagesOf(messages) : ~m.read}

\* ReadUnreadMessages, without the lock; poll returns when there is none, no
\* file, or one that does not parse.
ReadUnread(l) ==
    /\ loop[l] = "polling"
    /\ batch' = [batch EXCEPT ![l] = Unread(inbox.messages)]
    /\ Goto(l, IF Unread(inbox.messages) = {} THEN "waiting" ELSE "read")
    /\ UNCHANGED <<inbox, rewrite, sending, running, starts, stopped, told, missed, now, kills>>

\* The callback.
OnMessage(l) ==
    /\ loop[l] = "read"
    /\ told' = told \cup batch[l]
    /\ Goto(l, "told")
    /\ UNCHANGED <<inbox, rewrite, sending, running, starts, stopped, batch, missed, now, kills>>

\* Faulty: an error ends the goroutine.
GiveUpForGood(l) ==
    /\ Goto(l, "none")
    /\ missed' = missed \cup {m.id : m \in batch[l]}
    /\ batch' = [batch EXCEPT ![l] = {}]

\* The poll is over with its messages unmarked, an error it ignores.
GiveUp(l) ==
    /\ Goto(l, "waiting")
    /\ missed' = missed \cup {m.id : m \in batch[l]}
    /\ batch' = [batch EXCEPT ![l] = {}]

\* MarkMessagesAsReadByPredicate reads the file once before it takes the lock.
LookBeforeMarking(l) ==
    /\ loop[l] = "told"
    /\ \/ /\ inbox.messages # <<>>
          /\ Goto(l, "marking") /\ UNCHANGED <<batch, missed>>
       \/ /\ inbox.messages = <<>>
          /\ GiveUp(l)
    /\ UNCHANGED <<inbox, rewrite, sending, running, starts, stopped, told, now, kills>>

\* Faulty: everything is marked, as MarkMessagesAsRead does.
MarkAll(B, messages) ==
    [k \in DOMAIN messages |-> [messages[k] EXCEPT !.read = TRUE]]

\* The messages with sender and timestamp of one of B are marked as read.
Marked(B, messages) ==
    [k \in DOMAIN messages |->
        LET m == messages[k] IN
        IF \E b \in B : b.from = m.from /\ b.time = m.time
        THEN [m EXCEPT !.read = TRUE] ELSE m]

\* Under the lock the list is read again.
Mark(l) ==
    /\ loop[l] = "marking" /\ LockFree
    /\ \/ /\ inbox.messages = <<>>
          /\ GiveUp(l) /\ UNCHANGED <<inbox, rewrite>>
       \/ /\ inbox.messages # <<>> /\ Marked(batch[l], inbox.messages) = inbox.messages
          /\ Goto(l, "waiting") /\ batch' = [batch EXCEPT ![l] = {}]
          /\ UNCHANGED <<inbox, rewrite, missed>>
       \/ /\ inbox.messages # <<>> /\ Marked(batch[l], inbox.messages) # inbox.messages
          /\ rewrite' = Marked(batch[l], inbox.messages)
          /\ Goto(l, "locked") /\ UNCHANGED <<inbox, batch, missed>>
    /\ UNCHANGED <<sending, running, starts, stopped, told, now, kills>>

MarkTruncates(l) ==
    /\ loop[l] = "locked"
    /\ Truncate
    /\ Goto(l, "writing")
    /\ UNCHANGED <<sending, running, starts, stopped, batch, told, missed, now, kills>>

MarkReturns(l) ==
    /\ loop[l] = "writing"
    /\ WriteOut
    /\ Goto(l, "waiting")
    /\ batch' = [batch EXCEPT ![l] = {}]
    /\ UNCHANGED <<sending, running, starts, stopped, told, missed, now, kills>>

-----------------------------------------------------------------------------
(* The clock, and processes that are killed: their locks are free then, and *)
(* a file that was being written does not parse.                            *)

Tick ==
    /\ now < MaxTime
    /\ now' = now + 1
    /\ UNCHANGED <<inbox, rewrite, sending, receiver, kills>>

KillSender(a) ==
    LET calls == {s \in Sender : AgentOf[s] = a} IN
    /\ kills < MaxKills /\ \E s \in calls : send[s] # "idle"
    /\ kills' = kills + 1
    /\ send' = [s \in Sender |-> IF s \in calls THEN "idle" ELSE send[s]]
    /\ draft' = [s \in Sender |-> IF s \in calls THEN NoMessage ELSE draft[s]]
    /\ rewrite' = IF Senders \cap calls # {} THEN <<>> ELSE rewrite
    /\ UNCHANGED <<inbox, sent, receiver, now>>

KillReceiver ==
    /\ kills < MaxKills /\ \E l \in Loop : loop[l] # "none"
    /\ kills' = kills + 1
    /\ running' = FALSE
    /\ loop' = [l \in Loop |-> "none"] /\ batch' = [l \in Loop |-> {}]
    /\ rewrite' = IF Markers # {} THEN <<>> ELSE rewrite
    /\ UNCHANGED <<inbox, sending, starts, stopped, told, missed, now>>

SenderStep(s) ==
    WriteEmpty(s) \/ AppendMessage(s) \/ SendTruncates(s) \/ SendReturns(s) \/ SendFails(s)

LoopStep(l) ==
    \/ TickerFires(l) \/ LoopReturns(l) \/ ReadUnread(l) \/ OnMessage(l)
    \/ LookBeforeMarking(l) \/ Mark(l) \/ MarkTruncates(l) \/ MarkReturns(l)

Next ==
    \/ \E s \in Sender : Send(s) \/ SenderStep(s)
    \/ Start \/ Stop \/ (\E l \in Loop : LoopStep(l))
    \/ Tick \/ (\E a \in Agent : KillSender(a)) \/ KillReceiver

Spec == Init /\ [][Next]_vars

\* Calls and goroutines that can go on do.
Fairness ==
    /\ \A s \in Sender : WF_vars(SenderStep(s))
    /\ \A l \in Loop : WF_vars(LoopStep(l))

FairSpec == Spec /\ Fairness

-----------------------------------------------------------------------------
(* Properties. *)

\* The inbox as it is, or as it will be when the holder has written it.
List == IF LockFree THEN inbox.messages ELSE rewrite

SameStamp(m, n) == m.from = n.from /\ m.time = n.time

\* No message is lost: writers and pollers that rewrite the file at the same
\* time keep each other's messages and marks, and a message is marked as read
\* only when it, or one with the same sender and second, was handed over.
\* Only a killed process empties the inbox.
NothingLost ==
    [][kills' = kills =>
        \A k \in DOMAIN List :
            /\ k \in DOMAIN List' /\ List'[k].id = List[k].id
            /\ List[k].read => List'[k].read
            /\ List'[k].read /\ ~List[k].read => \E t \in told : SameStamp(t, List[k])]_vars

\* SendMessage fails only while the first message is creating the inbox, or
\* after a process was killed.
SendsGetThrough ==
    [][\A s \in Sender :
        send[s] = "waiting" /\ send'[s] = "idle" =>
            (\E c \in Sender : send[c] = "creating") \/ kills' > 0]_vars

\* A message is handed over again only when a poll found the file half written
\* and gave up marking it, or when the poller was started again, or a process
\* was killed.
HandedOnce ==
    [][\A l \in Loop :
        loop[l] = "read" /\ loop'[l] = "told" =>
            \A m \in batch[l] \cap told : m.id \in missed \/ starts > 1 \/ kills > 0]_vars

\* While the poller runs and nobody is killed, every message that was sent is
\* handed over in the end, unless another of its sender and second was.
AllHanded ==
    \A i \in 1 .. MaxMessages :
        running /\ (\E m \in MessagesOf(List) : m.id = i)
            ~> \/ ~running \/ kills > 0
               \/ \E t \in told, m \in MessagesOf(List) : m.id = i /\ SameStamp(t, m)
=============================================================================
