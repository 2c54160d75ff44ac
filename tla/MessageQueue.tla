----------------------------- MODULE MessageQueue -----------------------------
(***************************************************************************)
(* The shared-memory message queue between the executor and its workers    *)
(* (vllm/distributed/device_communicators/shm_broadcast.py): a ring of     *)
(* chunks with one written flag and one flag per reader, a socket for      *)
(* messages that do not fit into a chunk, and a notification socket on     *)
(* which an idle reader sleeps.  Local readers only.                       *)
(*                                                                         *)
(* Every access to a shared flag, a chunk or a socket is a step of its     *)
(* own.  Messages are numbered in the order in which they are published.   *)
(* The fences around the flags make the steps sequentially consistent.     *)
(***************************************************************************)
EXTENDS Naturals, Sequences

CONSTANTS
    Readers,        \* the local readers
    MaxChunks,      \* max_chunks
    CanTimeOut,     \* readers that call dequeue with a timeout
    CanShutDown,    \* readers on which shutdown() may be called
    MaxMessages     \* bound: messages published

ASSUME QueueAssumption ==
    /\ MaxChunks \in Nat \ {0}
    /\ MaxMessages \in Nat

Chunks == 0 .. MaxChunks - 1
NextChunk(i) == (i + 1) % MaxChunks

VARIABLES
    written,        \* chunk -> its written flag
    readBy,         \* chunk -> the readers whose flag is set
    data,           \* chunk -> the message in it, 0 when there is none
    large,          \* messages that did not fit into a chunk
    socket,         \* reader -> large messages sent to it and not received
    pinged,         \* readers with a notification in their socket or on its way
    published,      \* number of messages published
    wpc, widx,      \* writer: where it is, current_idx
    rpc, ridx,      \* readers: where they are, current_idx
    rflag,          \* reader -> its own flag as it was read
    copy,           \* reader -> what it has found in the chunk
    shutdown,       \* reader -> "no", "set" (shutting_down) or "sent" (cancelled)
    got, ret, lost  \* what dequeue has returned (see Broadcast)

chunkVars == <<written, readBy, data>>
socketVars == <<large, socket>>
writerVars == <<published, wpc, widx>>
resultVars == <<got, ret, lost>>
localVars == <<ridx, rflag, copy>>
vars == <<chunkVars, socketVars, pinged, writerVars, rpc, localVars, shutdown, resultVars>>

Init ==
    /\ written = [c \in Chunks |-> FALSE]
    /\ readBy = [c \in Chunks |-> {}]
    /\ data = [c \in Chunks |-> 0]
    /\ large = {}
    /\ socket = [r \in Readers |-> <<>>]
    /\ pinged = {}
    /\ published = 0
    /\ wpc = "idle" /\ widx = 0
    /\ rpc = [r \in Readers |-> "idle"]
    /\ ridx = [r \in Readers |-> 0]
    /\ rflag = [r \in Readers |-> FALSE]
    /\ copy = [r \in Readers |-> 0]
    /\ shutdown = [r \in Readers |-> "no"]
    /\ got = [r \in Readers |-> 0]
    /\ ret = [r \in Readers |-> 0]
    /\ lost = {}
-------------------------------------------------------------------------------
(* enqueue and acquire_write *)

\* The message that is being written.
Message == published + 1

\* The caller has an object to send; pickling it tells whether it fits.
Enqueue(fits) ==
    /\ wpc = "idle" /\ published < MaxMessages
    /\ large' = IF fits THEN large \ {Message} ELSE large \cup {Message}
    /\ wpc' = "acquire"
    /\ UNCHANGED <<chunkVars, socket, pinged, published, widx, rpc, localVars, shutdown,
                   resultVars>>

\* Variant: one reader is waited for.
ChunkBusyUntilRead == written[widx] /\ readBy[widx] = {}

\* The chunk is written and not read by all readers.
ChunkBusy == written[widx] /\ readBy[widx] # Readers

\* The chunk is free; it is marked as not written.
AcquireWrite ==
    /\ wpc = "acquire" /\ ~ChunkBusy
    /\ written' = [written EXCEPT ![widx] = FALSE]
    /\ wpc' = "fill"
    /\ UNCHANGED <<readBy, data, socketVars, pinged, published, widx, rpc, localVars, shutdown,
                   resultVars>>

\* TimeoutError.
WriteTimesOut ==
    /\ wpc = "acquire" /\ ChunkBusy
    /\ wpc' = "idle"
    /\ UNCHANGED <<chunkVars, socketVars, pinged, published, widx, rpc, localVars, shutdown,
                   resultVars>>

FillChunk ==
    /\ wpc = "fill"
    /\ data' = [data EXCEPT ![widx] = Message]
    /\ wpc' = "clear"
    /\ UNCHANGED <<written, readBy, socketVars, pinged, published, widx, rpc, localVars,
                   shutdown, resultVars>>

\* The body raises: flags and index stay as they are.
FillFails ==
    /\ wpc = "fill"
    /\ data' = [data EXCEPT ![widx] = 0]
    /\ wpc' = "idle"
    /\ UNCHANGED <<written, readBy, socketVars, pinged, published, widx, rpc, localVars,
                   shutdown, resultVars>>

\* One reader's flag is reset; their order does not matter.
ClearFlag(r) ==
    /\ wpc = "clear" /\ r \in readBy[widx]
    /\ readBy' = [readBy EXCEPT ![widx] = @ \ {r}]
    /\ UNCHANGED <<written, data, socketVars, pinged, writerVars, rpc, localVars, shutdown,
                   resultVars>>

\* Variant: the written flag is set before the readers' flags are reset.
FlagsInWrongOrder ==
    /\ wpc = "clear"
    /\ written' = [written EXCEPT ![widx] = TRUE]
    /\ IF readBy[widx] = {}
       THEN /\ published' = Message
            /\ widx' = NextChunk(widx)
            /\ wpc' = IF Message \in large THEN "send" ELSE "notify"
       ELSE UNCHANGED writerVars
    /\ UNCHANGED <<readBy, data, socketVars, pinged, rpc, localVars, shutdown, resultVars>>

\* All flags are reset: the chunk is marked as written.
Publish ==
    /\ wpc = "clear" /\ readBy[widx] = {}
    /\ written' = [written EXCEPT ![widx] = TRUE]
    /\ published' = Message
    /\ widx' = NextChunk(widx)
    /\ wpc' = IF Message \in large THEN "send" ELSE "notify"
    /\ UNCHANGED <<readBy, data, socketVars, pinged, rpc, localVars, shutdown, resultVars>>

\* send_multipart, for a message that did not fit.
SendLarge ==
    /\ wpc = "send"
    /\ socket' = [r \in Readers |-> Append(socket[r], published)]
    /\ wpc' = "notify"
    /\ UNCHANGED <<chunkVars, large, pinged, published, widx, rpc, localVars, shutdown,
                   resultVars>>

\* send_multipart raises when the chunk is already published: nothing is sent,
\* nobody is notified, and the exception ends the writer's process or thread.
SendFails ==
    /\ wpc = "send"
    /\ wpc' = "failed"
    /\ UNCHANGED <<chunkVars, socketVars, pinged, published, widx, rpc, localVars, shutdown,
                   resultVars>>

\* Variant: only readers that sleep are notified.
NotifySleepers ==
    /\ wpc = "notify"
    /\ pinged' = pinged \cup {r \in Readers : rpc[r] = "poll"}
    /\ wpc' = "idle"
    /\ UNCHANGED <<chunkVars, socketVars, published, widx, rpc, localVars, shutdown, resultVars>>

\* SpinCondition.notify: a notification that meets another is dropped, on its
\* way (SNDHWM is 1) or in the reader's socket (CONFLATE).
Notify ==
    /\ wpc = "notify"
    /\ pinged' = Readers
    /\ wpc' = "idle"
    /\ UNCHANGED <<chunkVars, socketVars, published, widx, rpc, localVars, shutdown, resultVars>>
-------------------------------------------------------------------------------
(* dequeue, acquire_read and SpinCondition.wait *)

\* A step of reader r that takes it from one place to another and changes
\* nothing that others can see.
Goes(r, from, to) ==
    /\ rpc[r] = from
    /\ rpc' = [rpc EXCEPT ![r] = to]
    /\ UNCHANGED <<chunkVars, socketVars, writerVars, ridx, shutdown>>

\* The reader looks at its own flag: first in a call of dequeue, or again after
\* it has waited and was not cancelled.
ReadFlag(r) ==
    /\ \/ Goes(r, "idle", "flag")
       \/ shutdown[r] = "no" /\ Goes(r, "woken", "flag")
    /\ rflag' = [rflag EXCEPT ![r] = r \in readBy[ridx[r]]]
    /\ UNCHANGED <<pinged, copy, resultVars>>

\* RuntimeError("cancelled")
Cancelled(r) ==
    /\ shutdown[r] # "no"
    /\ Goes(r, "woken", "stopped")
    /\ UNCHANGED <<pinged, rflag, copy, resultVars>>

\* Then it looks at the written flag.
FindChunk(r) ==
    /\ written[ridx[r]] /\ ~rflag[r]
    /\ Goes(r, "flag", "read")
    /\ UNCHANGED <<pinged, rflag, copy, resultVars>>

\* Within busy_loop_s of the last read it yields, later it sleeps.
Wait(r) ==
    /\ ~written[ridx[r]] \/ rflag[r]
    /\ Goes(r, "flag", "woken") \/ Goes(r, "flag", "poll")
    /\ rflag' = [rflag EXCEPT ![r] = FALSE]
    /\ UNCHANGED <<pinged, copy, resultVars>>

\* timeout_ms() raises TimeoutError.
DequeueTimesOut(r) ==
    /\ r \in CanTimeOut
    /\ ~written[ridx[r]] \/ rflag[r]
    /\ Goes(r, "flag", "idle")
    /\ rflag' = [rflag EXCEPT ![r] = FALSE]
    /\ UNCHANGED <<pinged, copy, resultVars>>

\* Variant: the poller does not watch the cancel socket.
PollReturnsOnPing(r) ==
    /\ r \in pinged
    /\ Goes(r, "poll", "woken")
    /\ pinged' = pinged \ {r}
    /\ UNCHANGED <<rflag, copy, resultVars>>

\* poll returns: the cancel socket goes first and is not emptied.
PollReturns(r) ==
    /\ r \in pinged \/ shutdown[r] = "sent"
    /\ Goes(r, "poll", "woken")
    /\ pinged' = IF shutdown[r] = "sent" THEN pinged ELSE pinged \ {r}
    /\ UNCHANGED <<rflag, copy, resultVars>>

\* poll returns without an event, to log a warning or at the deadline.
PollTimesOut(r) ==
    /\ r \in CanTimeOut
    /\ Goes(r, "poll", "woken")
    /\ UNCHANGED <<pinged, rflag, copy, resultVars>>

ReadChunk(r) ==
    /\ Goes(r, "read", "mark")
    /\ copy' = [copy EXCEPT ![r] = data[ridx[r]]]
    /\ UNCHANGED <<pinged, rflag, resultVars>>

\* The body raises: the reader's flag and index stay as they are, and the
\* exception ends the loop of the worker.
ReadFails(r) ==
    /\ Goes(r, "read", "stopped")
    /\ UNCHANGED <<pinged, rflag, copy, resultVars>>

\* The reader's flag is set, and dequeue returns unless the message itself is
\* on the socket.
MarkRead(r) ==
    /\ rpc[r] = "mark"
    /\ readBy' = [readBy EXCEPT ![ridx[r]] = @ \cup {r}]
    /\ ridx' = [ridx EXCEPT ![r] = NextChunk(@)]
    /\ IF copy[r] \in large
       THEN /\ rpc' = [rpc EXCEPT ![r] = "recv"]
            /\ UNCHANGED resultVars
       ELSE /\ rpc' = [rpc EXCEPT ![r] = "idle"]
            /\ got' = [got EXCEPT ![r] = @ + 1]
            /\ ret' = [ret EXCEPT ![r] = copy[r]]
            /\ UNCHANGED lost
    /\ copy' = [copy EXCEPT ![r] = 0]
    /\ UNCHANGED <<written, data, socketVars, pinged, writerVars, rflag, shutdown>>

\* MessageQueue.recv
Recv(r) ==
    /\ rpc[r] = "recv" /\ socket[r] # <<>>
    /\ socket' = [socket EXCEPT ![r] = Tail(@)]
    /\ rpc' = [rpc EXCEPT ![r] = "idle"]
    /\ got' = [got EXCEPT ![r] = @ + 1]
    /\ ret' = [ret EXCEPT ![r] = Head(socket[r])]
    /\ UNCHANGED <<chunkVars, large, pinged, writerVars, localVars, shutdown, lost>>

\* TimeoutError, when the chunk was already given back.
RecvTimesOut(r) ==
    /\ r \in CanTimeOut
    /\ rpc[r] = "recv"
    /\ rpc' = [rpc EXCEPT ![r] = "idle"]
    /\ got' = [got EXCEPT ![r] = @ + 1]
    /\ lost' = lost \cup {r}
    /\ UNCHANGED <<chunkVars, socketVars, pinged, writerVars, localVars, shutdown, ret>>

\* The message is taken from the socket and cannot be unpickled; as in ReadFails,
\* the exception ends the loop of the worker.
RecvFails(r) ==
    /\ rpc[r] = "recv" /\ socket[r] # <<>>
    /\ socket' = [socket EXCEPT ![r] = Tail(@)]
    /\ rpc' = [rpc EXCEPT ![r] = "stopped"]
    /\ got' = [got EXCEPT ![r] = @ + 1]
    /\ lost' = lost \cup {r}
    /\ UNCHANGED <<chunkVars, large, pinged, writerVars, localVars, shutdown, ret>>

\* shutdown, by a monitor thread in the reader's process: the flag first, then
\* the cancel socket.
SetShuttingDown(r) ==
    /\ r \in CanShutDown /\ shutdown[r] = "no"
    /\ shutdown' = [shutdown EXCEPT ![r] = "set"]
    /\ UNCHANGED <<chunkVars, socketVars, pinged, writerVars, rpc, localVars, resultVars>>

Cancel(r) ==
    /\ shutdown[r] = "set"
    /\ shutdown' = [shutdown EXCEPT ![r] = "sent"]
    /\ UNCHANGED <<chunkVars, socketVars, pinged, writerVars, rpc, localVars, resultVars>>
-------------------------------------------------------------------------------
WriterStep ==
    \/ AcquireWrite \/ FillChunk \/ Publish \/ SendLarge \/ Notify
    \/ \E r \in Readers : ClearFlag(r)

ReaderStep(r) ==
    \/ ReadFlag(r) \/ Cancelled(r) \/ FindChunk(r) \/ Wait(r) \/ PollReturns(r)
    \/ ReadChunk(r) \/ MarkRead(r) \/ Recv(r)

\* What nothing obliges to happen.
Mishap ==
    \/ WriteTimesOut \/ FillFails \/ SendFails
    \/ \E r \in Readers : \/ DequeueTimesOut(r) \/ PollTimesOut(r) \/ ReadFails(r)
                          \/ RecvTimesOut(r) \/ RecvFails(r) \/ SetShuttingDown(r)

Next ==
    \/ \E fits \in BOOLEAN : Enqueue(fits)
    \/ WriterStep
    \/ \E r \in Readers : ReaderStep(r) \/ Cancel(r)
    \/ Mishap

Spec == Init /\ [][Next]_vars

\* The writer finishes an enqueue that it can finish, every reader calls
\* dequeue in a loop, sockets deliver, and shutdown runs to its end.
Fairness ==
    /\ WF_vars(WriterStep)
    /\ \A r \in Readers : WF_vars(ReaderStep(r)) /\ WF_vars(Cancel(r))

FairSpec == Spec /\ Fairness
-------------------------------------------------------------------------------
(* Properties *)

\* The queue implements Broadcast: every reader gets every message once and in
\* order, whatever raises and however the flags are interleaved, until it
\* loses a message between its chunk and the socket; and nothing is
\* published while a reader is more than MaxChunks messages behind.
B == INSTANCE Broadcast WITH Lag <- MaxChunks

ImplementsBroadcast == B!Spec

\* Flow control: the writer never touches a chunk that a reader is reading, and
\* what is pending on a reader's socket stays within the ring's size, far
\* below the high-water mark at which the socket would drop messages.
FlowControl ==
    \A r \in Readers :
        /\ rpc[r] \in {"read", "mark"} /\ ridx[r] = widx => wpc \notin {"fill", "clear"}
        /\ r \notin lost => Len(socket[r]) <= MaxChunks + 1

\* No wake-up is lost: when a reader sleeps although its next chunk is
\* written, a notification is there, on its way, or about to be sent, unless
\* the writer has failed before it.
NoLostWakeup ==
    \A r \in Readers :
        rpc[r] = "poll" /\ written[ridx[r]] /\ r \notin readBy[ridx[r]] =>
            r \in pinged \/ wpc \in {"send", "notify", "failed"}

\* The reader has all published messages but the one whose sending has failed,
\* for which recv waits although the reader is shut down.
OneMissing(r) ==
    /\ wpc = "failed" /\ got[r] + 1 = published
    /\ shutdown[r] = "no" \/ rpc[r] = "recv"

\* The writer has its chunk, unless a reader has stopped reading; every other
\* reader has all published messages that were sent; and shutdown got through
\* to its reader.
Settled ==
    /\ wpc \in {"idle", "failed"} \/ \E r \in Readers : rpc[r] = "stopped"
    /\ \A r \in Readers :
          \/ rpc[r] = "stopped"
          \/ got[r] = published /\ (shutdown[r] = "no" \/ rpc[r] = "idle")
          \/ OneMissing(r)

\* Nobody waits for ever, but for a message that could not be sent: however
\* readers sleep, time out, fail or are shut down, the queue settles again and
\* again.
NobodyWaitsForever == []<>Settled
===============================================================================
