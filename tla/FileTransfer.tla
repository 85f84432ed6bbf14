---------------------------- MODULE FileTransfer ----------------------------
(***************************************************************************)
(* Files that go from page to page over WebRTC data channels: sendFile and *)
(* _receiveFile of static/js/filetransfer.js for two pages, and the        *)
(* channels of the connection between them.                                *)
(*                                                                         *)
(* The sender gives its channel the meta message, the chunks and the end,  *)
(* and yields in two places: while a chunk is read from the file, and      *)
(* while the channel's buffer is too full.  What it does between two       *)
(* awaits is one step.  A channel is ordered and reliable until the        *)
(* connection breaks; the sender may not notice that for a while.          *)
(*                                                                         *)
(* Amounts are counted in messages, a chunk being the number of its place. *)
(* The specification's own names say Transfer: a module that proves things *)
(* about the connection extends this one and PerfectNegotiation.           *)
(***************************************************************************)
EXTENDS Integers, Sequences

CONSTANTS
    Transfer,    \* calls of sendFile; each opens a channel of its own
    Size,        \* Transfer -> the number of chunks of its file
    MaxBuffer,   \* MAX_BUFFER
    LowWater     \* bufferedAmountLowThreshold

ASSUME FileTransferAssumption ==
    /\ Size \in [Transfer -> Nat]
    /\ MaxBuffer \in Nat \ {0} /\ LowWater \in Nat
    /\ LowWater <= MaxBuffer

VARIABLES
    phase,      \* where the call of sendFile is
    offset,     \* chunks given to the channel
    readyState, \* of the sender's end of the channel
    buffer,     \* what bufferedAmount counts
    wire,       \* on its way to the receiving page
    broken,     \* the connection carries nothing any more
    connected,  \* the sender has the connection in _peers
    meta,       \* _receiveFile has the meta of a file that has not ended
    chunks,     \* _receiveFile's chunks
    received    \* the files onFileReceived was called with

senderVars   == <<phase, offset>>
channelVars  == <<readyState, buffer, wire>>
linkVars     == <<broken, connected>>
receiverVars == <<meta, chunks, received>>
transferVars == <<senderVars, channelVars, linkVars, receiverVars>>

\* The messages; a positive number is a chunk.
Meta == 0
End  == -1

TransferTypeOK ==
    /\ phase \in [Transfer -> {"new", "opening", "reading", "paused", "flushing",
                               "done", "failed", "refused"}]
    /\ offset \in [Transfer -> Nat]
    /\ readyState \in [Transfer -> {"connecting", "open", "closing", "closed"}]
    /\ buffer \in [Transfer -> Seq(Int)]
    /\ wire \in [Transfer -> Seq(Int)]
    /\ broken \in BOOLEAN /\ connected \in BOOLEAN
    /\ meta \in [Transfer -> BOOLEAN]
    /\ chunks \in [Transfer -> Seq(Nat)]
    /\ received \in [Transfer -> Seq(Seq(Nat))]

TransferInit ==
    /\ phase = [t \in Transfer |-> "new"]
    /\ offset = [t \in Transfer |-> 0]
    /\ readyState = [t \in Transfer |-> "connecting"]
    /\ buffer = [t \in Transfer |-> <<>>]
    /\ wire = [t \in Transfer |-> <<>>]
    /\ broken = FALSE
    /\ connected = TRUE
    /\ meta = [t \in Transfer |-> FALSE]
    /\ chunks = [t \in Transfer |-> <<>>]
    /\ received = [t \in Transfer |-> <<>>]

-----------------------------------------------------------------------------
(* Helpers *)

Goto(t, p) == phase' = [phase EXCEPT ![t] = p]

\* bufferedAmount exceeds MAX_BUFFER.
MutTooFull(b) == Len(b) > 0
MutNeverFull(b) == FALSE
TooFull(b) == Len(b) > MaxBuffer

\* bufferedamountlow fires when the amount falls to the threshold.
FallsLow(b) == Len(b) = LowWater + 1

\* Whether a sender that has sent n chunks has another one.
MutMore(t, n) == n + 1 < Size[t]
More(t, n) == n < Size[t]

\* From the loop's condition to the next await, with n chunks sent and b in the
\* buffer of an open channel.
Proceed(t, n, b) ==
    /\ offset' = [offset EXCEPT ![t] = n]
    /\ IF More(t, n)
       THEN /\ buffer' = [buffer EXCEPT ![t] = b]
            /\ Goto(t, IF TooFull(b) THEN "paused" ELSE "reading")
       ELSE /\ buffer' = [buffer EXCEPT ![t] = Append(b, End)]
            /\ Goto(t, "flushing")

-----------------------------------------------------------------------------
(* The sender *)

\* Without a connection to the other user nothing happens.
SendFile(t) ==
    /\ phase[t] = "new"
    /\ Goto(t, IF connected THEN "opening" ELSE "refused")
    /\ UNCHANGED <<offset, channelVars, linkVars, receiverVars>>

\* onopen.
OnOpen(t) ==
    /\ phase[t] = "opening" /\ ~broken
    /\ readyState[t] = "connecting"
    /\ readyState' = [readyState EXCEPT ![t] = "open"]
    /\ Proceed(t, 0, <<Meta>>)
    /\ UNCHANGED <<wire, linkVars, receiverVars>>

\* A chunk has been read.  Nobody has looked at readyState since before the
\* read, and send throws on a channel that is not open.
ChunkRead(t) ==
    /\ phase[t] = "reading"
    /\ IF readyState[t] = "open"
       THEN Proceed(t, offset[t] + 1, Append(buffer[t], offset[t] + 1))
       ELSE Goto(t, "failed") /\ UNCHANGED <<offset, buffer>>
    /\ UNCHANGED <<readyState, wire, linkVars, receiverVars>>

\* The file has changed or gone since it was chosen.  The promise is rejected and
\* nothing that follows runs: the channel stays open.
ReadFails(t) ==
    /\ phase[t] = "reading"
    /\ Goto(t, "failed")
    /\ UNCHANGED <<offset, channelVars, linkVars, receiverVars>>

\* The 600 ms are over.
CloseChannel(t) ==
    /\ phase[t] = "flushing"
    /\ Goto(t, "done")
    /\ readyState' = [readyState EXCEPT
                          ![t] = IF @ = "open" THEN "closing" ELSE @]
    /\ UNCHANGED <<offset, buffer, wire, linkVars, receiverVars>>

-----------------------------------------------------------------------------
(* The channels and the connection *)

\* A message leaves the buffer; a sender that waits for it to drain goes on.
Drain(t) ==
    /\ ~broken /\ buffer[t] # <<>>
    /\ buffer' = [buffer EXCEPT ![t] = Tail(@)]
    /\ wire' = [wire EXCEPT ![t] = Append(@, Head(buffer[t]))]
    /\ Goto(t, IF phase[t] = "paused" /\ FallsLow(buffer[t]) THEN "reading"
               ELSE phase[t])
    /\ UNCHANGED <<offset, readyState, linkVars, receiverVars>>

\* A channel that is closing closes when all it had was delivered.
Closed(t) ==
    /\ readyState[t] = "closing" /\ buffer[t] = <<>> /\ wire[t] = <<>>
    /\ readyState' = [readyState EXCEPT ![t] = "closed"]
    /\ UNCHANGED <<senderVars, buffer, wire, linkVars, receiverVars>>

\* The network fails, or the other page closes its end: what is on its way is
\* lost, and the sender goes on unaware.
Break ==
    /\ ~broken
    /\ broken' = TRUE
    /\ wire' = [t \in Transfer |-> <<>>]
    /\ UNCHANGED <<senderVars, readyState, buffer, connected, receiverVars>>

\* A connection that is gone closes its channels.
CloseChannels ==
    /\ broken' = TRUE
    /\ readyState' = [t \in Transfer |-> IF phase[t] \in {"new", "refused"}
                                         THEN readyState[t] ELSE "closed"]
    /\ wire' = [t \in Transfer |-> <<>>]
    /\ UNCHANGED <<senderVars, buffer, receiverVars>>

\* The sender runs closePeer: user_left came, the connection's state became
\* "failed", or its own page left the room.
SenderClosesPeer ==
    /\ connected
    /\ connected' = FALSE
    /\ CloseChannels

\* The transport ends before that: onerror and close.
TransportEnds ==
    /\ broken /\ connected
    /\ \E t \in Transfer : readyState[t] \in {"open", "closing"}
    /\ CloseChannels
    /\ UNCHANGED connected

-----------------------------------------------------------------------------
(* The receiver *)

OnWire(t) == wire[t] # <<>>

Consume(t) ==
    /\ wire' = [wire EXCEPT ![t] = Tail(@)]
    /\ UNCHANGED <<senderVars, readyState, buffer, linkVars>>

OnMeta(t) ==
    /\ OnWire(t) /\ Head(wire[t]) = Meta
    /\ Consume(t)
    /\ meta' = [meta EXCEPT ![t] = TRUE]
    /\ chunks' = [chunks EXCEPT ![t] = <<>>]
    /\ UNCHANGED received

OnChunk(t) ==
    /\ OnWire(t) /\ Head(wire[t]) > 0
    /\ Consume(t)
    /\ chunks' = [chunks EXCEPT ![t] = Append(@, Head(wire[t]))]
    /\ UNCHANGED <<meta, received>>

\* Without a meta message before it the end of a file means nothing.
OnEnd(t) ==
    /\ OnWire(t) /\ Head(wire[t]) = End
    /\ Consume(t)
    /\ received' = [received EXCEPT
                        ![t] = IF meta[t] THEN Append(@, chunks[t]) ELSE @]
    /\ meta' = [meta EXCEPT ![t] = FALSE]
    /\ chunks' = [chunks EXCEPT ![t] = IF meta[t] THEN <<>> ELSE @]

OnMessage(t) == OnMeta(t) \/ OnChunk(t) \/ OnEnd(t)

-----------------------------------------------------------------------------
TransferNext ==
    \/ \E t \in Transfer :
          \/ SendFile(t) \/ OnOpen(t) \/ ChunkRead(t) \/ ReadFails(t)
          \/ CloseChannel(t)
          \/ Drain(t) \/ Closed(t)
          \/ OnMessage(t)
    \/ Break
    \/ SenderClosesPeer
    \/ TransportEnds

\* Channels open and drain while the connection carries anything, reads end, and
\* messages that arrive are handled.  Nobody has to send a file, and a connection
\* need not break.
Fairness ==
    \A t \in Transfer :
        /\ WF_transferVars(OnOpen(t))
        /\ WF_transferVars(ChunkRead(t))
        /\ WF_transferVars(Drain(t))
        /\ WF_transferVars(OnMessage(t))

TransferSpec == TransferInit /\ [][TransferNext]_transferVars

FairSpec == TransferSpec /\ Fairness

-----------------------------------------------------------------------------
(* Properties *)

WholeFile(t) == [i \in 1..Size[t] |-> i]

\* A file that is shown as received is the whole file with its chunks in their
\* order, and is shown once, whenever the connection breaks, a read fails or the
\* channel is closed under the sender (filetransfer.js:113-121: file_end stands
\* for a file all of whose chunks have come).
OnlyWholeFiles == \A t \in Transfer : received[t] \in {<<>>, <<WholeFile(t)>>}

\* filetransfer.js:13 "pause when buffered amount exceeds this": however slowly
\* the channel drains, also when it has stopped for good, the buffer never has
\* more than one chunk above MAX_BUFFER, and the end.
BufferBounded == \A t \in Transfer : Len(buffer[t]) <= MaxBuffer + 2

\* A sender that pauses is woken and a file that was begun arrives, or there was
\* a reason: its reads failed or the connection broke.  In the last case a sender
\* that has paused (filetransfer.js:76) waits for ever, since neither closing
\* nor an error resolves its promise.
BegunFilesArrive ==
    \A t \in Transfer :
        phase[t] \in {"opening", "reading", "paused"} ~>
            received[t] # <<>> \/ phase[t] = "failed" \/ broken

=============================================================================
