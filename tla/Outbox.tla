------------------------------- MODULE Outbox -------------------------------
(***************************************************************************)
(* The way out of the hub: the send channel of a connection, the writePump *)
(* that empties it, trySend that fills it from any goroutine, and the end  *)
(* of a connection, which is reached once (Client.once) but asked for from *)
(* four places.                                                            *)
(*                                                                         *)
(* sync.Once makes every later caller of close wait until the first one is *)
(* through with handleDisconnect, and handleDisconnect itself sends to     *)
(* other connections: the waits could go round in a circle.                *)
(*                                                                         *)
(* Names that other modules use too begin with the module's, so that       *)
(* theorems can be proved beside those of another component.               *)
(***************************************************************************)
EXTENDS Integers

CONSTANTS
    Conn,
    SendBufSize,   \* capacity of Client.send
    MaxSends       \* bound: messages the handlers of all connections send

ASSUME OutboxAssumption ==
    /\ SendBufSize \in Nat \ {0}
    /\ MaxSends \in Nat

VARIABLES
    send,      \* how many messages are in Client.send
    writer,    \* where the writePump is
    reader,    \* where the readPump is
    closer,    \* where the body of once.Do is
    kicks,     \* a `go c.close()` has been started and has not begun
    telling,   \* connections handleDisconnect has still to send to
    dropped,   \* history: trySend dropped a message
    sends      \* messages sent by handlers so far

outboxVars == <<send, writer, reader, closer, kicks, telling, dropped, sends>>

\* "text" and "ping" are writes under way; "failed" is a goroutine that runs
\* its deferred close.
OutboxTypeOK ==
    /\ send \in [Conn -> 0..SendBufSize]
    /\ writer \in [Conn -> {"select", "text", "ping", "failed", "ended"}]
    /\ reader \in [Conn -> {"reading", "failed", "ended"}]
    /\ closer \in [Conn -> {"no", "closing", "done"}]
    /\ kicks \in [Conn -> BOOLEAN]
    /\ telling \in [Conn -> SUBSET Conn]
    /\ dropped \in [Conn -> BOOLEAN]
    /\ sends \in 0..MaxSends
    \* Only a body of once.Do that runs sends, and never to its own connection.
    /\ \A c \in Conn : telling[c] # {} => closer[c] = "closing" /\ c \notin telling[c]

OutboxInit ==
    /\ send = [c \in Conn |-> 0]
    /\ writer = [c \in Conn |-> "select"]
    /\ reader = [c \in Conn |-> "reading"]
    /\ closer = [c \in Conn |-> "no"]
    /\ kicks = [c \in Conn |-> FALSE]
    /\ telling = [c \in Conn |-> {}]
    /\ dropped = [c \in Conn |-> FALSE]
    /\ sends = 0

-----------------------------------------------------------------------------
Full(d) == send[d] = SendBufSize

\* `select { case c.send <- data: default: go c.close() }` returns at once; the
\* faulty one would close the slow connection before it returns.
MutTrySendReturns(d) == ~Full(d) \/ closer[d] = "done"
TrySendReturns(d) == TRUE

\* Whether the default branch starts a close.
MutStartsClose(d) == send[d] > SendBufSize
StartsClose(d) == Full(d)

TrySend(d) ==
    /\ TrySendReturns(d)
    /\ send' = IF Full(d) THEN send ELSE [send EXCEPT ![d] = @ + 1]
    /\ dropped' = [dropped EXCEPT ![d] = @ \/ Full(d)]
    /\ kicks' = [kicks EXCEPT ![d] = @ \/ (StartsClose(d) /\ closer[d] = "no")]

\* A handler of some other goroutine sends to d: it found d in a room or in the
\* registry, perhaps before d was closed.
HandlerSends(d) ==
    /\ sends < MaxSends
    /\ TrySend(d)
    /\ sends' = sends + 1
    /\ UNCHANGED <<writer, reader, closer, telling>>

-----------------------------------------------------------------------------
(* writePump *)

TakeMessage(c) ==
    /\ writer[c] = "select"
    /\ send[c] > 0
    /\ writer' = [writer EXCEPT ![c] = "text"]
    /\ send' = [send EXCEPT ![c] = @ - 1]
    /\ UNCHANGED <<reader, closer, kicks, telling, dropped, sends>>

\* pingInterval has passed.
TakeTick(c) ==
    /\ writer[c] = "select"
    /\ writer' = [writer EXCEPT ![c] = "ping"]
    /\ UNCHANGED <<send, reader, closer, kicks, telling, dropped, sends>>

Written(c) ==
    /\ writer[c] \in {"text", "ping"}
    /\ closer[c] = "no"
    /\ writer' = [writer EXCEPT ![c] = "select"]
    /\ UNCHANGED <<send, reader, closer, kicks, telling, dropped, sends>>

\* The socket is closed, the peer is gone, or writeWait has passed.
WriteFails(c) ==
    /\ writer[c] \in {"text", "ping"}
    /\ writer' = [writer EXCEPT ![c] = "failed"]
    /\ UNCHANGED <<send, reader, closer, kicks, telling, dropped, sends>>

-----------------------------------------------------------------------------
(* readPump: the peer closes, pongWait passes, or the socket was closed.   *)
(* What its handlers send is HandlerSends.                                 *)

ReadFails(c) ==
    /\ reader[c] = "reading"
    /\ reader' = [reader EXCEPT ![c] = "failed"]
    /\ UNCHANGED <<send, writer, closer, kicks, telling, dropped, sends>>

-----------------------------------------------------------------------------
(* Client.close *)

\* The first caller, a pump or a kick (of an overflow or of a newer login),
\* closes the socket and goes on to handleDisconnect, which sends user_left and
\* room_list to connections it finds in rooms and in the registry.
EnterClose(c, told) ==
    /\ closer[c] = "no"
    /\ told \subseteq {d \in Conn \ {c} : closer[d] # "done"}
    /\ closer' = [closer EXCEPT ![c] = "closing"]
    /\ telling' = [telling EXCEPT ![c] = told]
    /\ kicks' = [kicks EXCEPT ![c] = FALSE]
    /\ UNCHANGED <<send, writer, reader, dropped, sends>>

\* A login of the same user on another connection: `go old.close()`.
Evict(c) ==
    /\ closer[c] = "no"
    /\ kicks' = [kicks EXCEPT ![c] = TRUE]
    /\ UNCHANGED <<send, writer, reader, closer, telling, dropped, sends>>

AsksToClose(c) == kicks[c] \/ writer[c] = "failed" \/ reader[c] = "failed"

Close(c) == \E told \in SUBSET Conn : AsksToClose(c) /\ EnterClose(c, told)

CloserSends(c, d) ==
    /\ closer[c] = "closing"
    /\ d \in telling[c]
    /\ TrySend(d)
    /\ telling' = [telling EXCEPT ![c] = @ \ {d}]
    /\ UNCHANGED <<writer, reader, closer, sends>>

CloserDone(c) ==
    /\ closer[c] = "closing"
    /\ telling[c] = {}
    /\ closer' = [closer EXCEPT ![c] = "done"]
    /\ UNCHANGED <<send, writer, reader, kicks, telling, dropped, sends>>

\* A pump's close returns when the body of once.Do has, whoever ran it.
WriterEnds(c) ==
    /\ writer[c] = "failed" /\ closer[c] = "done"
    /\ writer' = [writer EXCEPT ![c] = "ended"]
    /\ UNCHANGED <<send, reader, closer, kicks, telling, dropped, sends>>

ReaderEnds(c) ==
    /\ reader[c] = "failed" /\ closer[c] = "done"
    /\ reader' = [reader EXCEPT ![c] = "ended"]
    /\ UNCHANGED <<send, writer, closer, kicks, telling, dropped, sends>>

-----------------------------------------------------------------------------
WriterStep(c) == TakeMessage(c) \/ TakeTick(c) \/ Written(c) \/ WriteFails(c)
                 \/ WriterEnds(c)

ReaderStep(c) == ReadFails(c) \/ ReaderEnds(c)

CloserStep(c) == CloserDone(c) \/ \E d \in Conn : CloserSends(c, d)

OutboxNext == \E c \in Conn : \/ HandlerSends(c)
                        \/ WriterStep(c)
                        \/ ReaderStep(c)
                        \/ Evict(c)
                        \/ Close(c)
                        \/ CloserStep(c)

OutboxSpec == OutboxInit /\ [][OutboxNext]_outboxVars

\* Go runs every goroutine that can run; the ticker ticks, a write returns
\* within writeWait, and a read of a closed socket fails.  Nothing makes a
\* healthy peer go away or a handler send.
Fairness == \A c \in Conn : /\ WF_outboxVars(WriterStep(c))
                            /\ WF_outboxVars(closer[c] # "no" /\ ReaderStep(c))
                            /\ WF_outboxVars(ReaderEnds(c))
                            /\ WF_outboxVars(Close(c))
                            /\ WF_outboxVars(CloserStep(c))

FairSpec == OutboxSpec /\ Fairness

-----------------------------------------------------------------------------
(* Properties *)

\* "Never silently dropped" (client.go:153): a connection that lost a message is
\* being closed, or a close of it has been started.
NeverSilentlyDropped ==
    \A c \in Conn : dropped[c] => kicks[c] \/ closer[c] # "no"

\* A slow client, and one that a newer login evicts, is in the end closed, and its
\* clean-up ends, although clean-ups send to one another's full buffers and every
\* caller of close waits.
AskedIsClosed ==
    \A c \in Conn : dropped[c] \/ kicks[c] ~> closer[c] = "done"

\* No goroutine of a connection outlives it for ever: nobody closes the send
\* channel, so an idle writePump learns of the end from its next ping.
PumpsEnd ==
    \A c \in Conn :
        closer[c] # "no" ~> writer[c] = "ended" /\ reader[c] = "ended"

=============================================================================
