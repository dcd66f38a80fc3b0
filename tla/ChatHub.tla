------------------------------ MODULE ChatHub -------------------------------
(***************************************************************************)
(* The WebSocket hub of the backend (chat_ws.rs): for each connection a    *)
(* send_task, a recv_task and the `select!` that ends both when one ends,  *)
(* around one tokio broadcast channel and the connection pool through      *)
(* which SendMessage persists a message before it is broadcast.            *)
(*                                                                         *)
(* Each step is the code between two awaits of one task.  Aborting a task  *)
(* that is between two awaits takes effect at its next await, which is the *)
(* same as `select!` noticing the end of its sibling a little later, so an *)
(* abort is one step of Select.                                            *)
(*                                                                         *)
(* Abstracted: what is in a frame.  Whether it parses and whether its      *)
(* self-destruct delay overflows is chosen when it is read.  A frame       *)
(* stands for one occurrence, so each is sent once, and the message a      *)
(* SendMessage frame makes is named after the frame.  The channel keeps    *)
(* every value in `log`; a receiver may read the last Slots of them.       *)
(***************************************************************************)
EXTENDS Naturals, Sequences, FiniteSets

CONSTANTS
    Conn,      \* WebSocket connections; a client that reconnects is a new one
    Texts,     \* SendMessage frames
    Relays,    \* WebRtcSignal, SystemEvent and all other frames
    Close,     \* the Close frame
    Slots,     \* values the channel keeps: broadcast::channel(100) rounds up
    PoolSize   \* PgPoolOptions::max_connections(5)

Frames == Texts \cup Relays

ASSUME FramesAssumption ==
    /\ Texts \cap Relays = {}
    /\ Close \notin Frames
ASSUME SlotsAssumption == Slots \in Nat \ {0}
ASSUME PoolSizeAssumption == PoolSize \in Nat \ {0}

VARIABLES
    log,        \* values sent through AppState.tx, oldest first
    conn,       \* handle_socket: "new", "open" (in select!), "closed"
    link,       \* whether the TCP connection is up
    sent,       \* frames the client has sent
    read,       \* how many of them recv_task has taken
    recvTask,   \* "none", "reading", "creating" (in send_message), "done"
    sendTask,   \* "none", "receiving" (rx.recv), "sending" (sender.send), "done"
    start,      \* Len(log) at tx.subscribe()
    pos,        \* index of the last value rx.recv returned
    delivered,  \* values written to the client's socket
    insert,     \* progress of the INSERT for each text
    table       \* committed messages, in commit order

hubVars == <<log, conn, link, sent, read, recvTask, sendTask, start, pos, delivered>>
vars == <<log, conn, link, sent, read, recvTask, sendTask, start, pos, delivered,
          insert, table>>

Occurs(x, seq) == \E i \in 1..Len(seq) : seq[i] = x

(* The frame recv_task took last, and the one it takes next.               *)
Current(c) == sent[c][read[c]]
Upcoming(c) == sent[c][read[c] + 1]
HasUpcoming(c) == read[c] < Len(sent[c])

Init ==
    /\ log = <<>>
    /\ conn = [c \in Conn |-> "new"]
    /\ link = [c \in Conn |-> FALSE]
    /\ sent = [c \in Conn |-> <<>>]
    /\ read = [c \in Conn |-> 0]
    /\ recvTask = [c \in Conn |-> "none"]
    /\ sendTask = [c \in Conn |-> "none"]
    /\ start = [c \in Conn |-> 0]
    /\ pos = [c \in Conn |-> 0]
    /\ delivered = [c \in Conn |-> <<>>]
    /\ insert = [t \in Texts |-> "none"]
    /\ table = <<>>

-----------------------------------------------------------------------------
(* The client and the network.                                             *)

(* Faulty: the subscription is off by one, or replays the channel. *)
ConnectAt(c, p) ==
    /\ conn[c] = "new"
    /\ conn' = [conn EXCEPT ![c] = "open"]
    /\ link' = [link EXCEPT ![c] = TRUE]
    /\ recvTask' = [recvTask EXCEPT ![c] = "reading"]
    /\ sendTask' = [sendTask EXCEPT ![c] = "receiving"]
    /\ start' = [start EXCEPT ![c] = Len(log)]
    /\ pos' = [pos EXCEPT ![c] = p]
    /\ UNCHANGED <<log, sent, read, delivered, insert, table>>
ConnectPastTail(c) == ConnectAt(c, Len(log) + 1)
ConnectReplays(c) == ConnectAt(c, 0)

(* ws_handler accepts the token, handle_socket subscribes and spawns both  *)
(* tasks.  A refused token leaves no state behind.                         *)
Connect(c) ==
    /\ conn[c] = "new"
    /\ conn' = [conn EXCEPT ![c] = "open"]
    /\ link' = [link EXCEPT ![c] = TRUE]
    /\ recvTask' = [recvTask EXCEPT ![c] = "reading"]
    /\ sendTask' = [sendTask EXCEPT ![c] = "receiving"]
    /\ start' = [start EXCEPT ![c] = Len(log)]
    /\ pos' = [pos EXCEPT ![c] = Len(log)]
    /\ UNCHANGED <<log, sent, read, delivered, insert, table>>

ClientSends(c, f) ==
    /\ conn[c] = "open" /\ link[c]
    /\ ~Occurs(Close, sent[c])
    /\ f \in Frames => \A d \in Conn : ~Occurs(f, sent[d])
    /\ sent' = [sent EXCEPT ![c] = Append(@, f)]
    /\ UNCHANGED <<log, conn, link, read, recvTask, sendTask, start, pos, delivered,
                   insert, table>>

LinkBreaks(c) ==
    /\ link[c]
    /\ link' = [link EXCEPT ![c] = FALSE]
    /\ UNCHANGED <<log, conn, sent, read, recvTask, sendTask, start, pos, delivered,
                   insert, table>>

-----------------------------------------------------------------------------
(* recv_task                                                               *)

(* tx.send: never refused, because main keeps `_rx` for as long as it runs *)
Publish(v) == log' = Append(log, v)

(* Faulty: the next text is read without awaiting `create`. *)
ReadsAhead(c) ==
    /\ HasUpcoming(c)
    /\ recvTask[c] = "reading" \/ (recvTask[c] = "creating" /\ Upcoming(c) \in Texts)
    /\ read' = [read EXCEPT ![c] = @ + 1]

Reads(c) ==
    /\ recvTask[c] = "reading" /\ HasUpcoming(c)
    /\ read' = [read EXCEPT ![c] = @ + 1]

(* A SendMessage frame: send_message.execute builds the message and awaits *)
(* `create`, which first waits for a pooled connection.                    *)
ReadText(c) ==
    /\ Reads(c)
    /\ Upcoming(c) \in Texts
    /\ recvTask' = [recvTask EXCEPT ![c] = "creating"]
    /\ insert' = [insert EXCEPT ![Upcoming(c)] = "waiting"]
    /\ UNCHANGED <<log, conn, link, sent, sendTask, start, pos, delivered, table>>

(* with_self_destruct overflows: the task panics, which ends it.           *)
ReadPanics(c) ==
    /\ Reads(c)
    /\ Upcoming(c) \in Texts
    /\ recvTask' = [recvTask EXCEPT ![c] = "done"]
    /\ UNCHANGED <<log, conn, link, sent, sendTask, start, pos, delivered, insert, table>>

ReadRelay(c) ==
    /\ Reads(c)
    /\ Upcoming(c) \in Relays
    /\ Publish(Upcoming(c))
    /\ UNCHANGED <<conn, link, sent, recvTask, sendTask, start, pos, delivered, insert, table>>

(* Binary, ping, pong, an unknown type, or JSON that does not parse.       *)
ReadIgnored(c) ==
    /\ Reads(c)
    /\ Upcoming(c) \in Frames
    /\ UNCHANGED <<log, conn, link, sent, recvTask, sendTask, start, pos, delivered,
                   insert, table>>

ReadClose(c) ==
    /\ Reads(c)
    /\ Upcoming(c) = Close
    /\ recvTask' = [recvTask EXCEPT ![c] = "done"]
    /\ UNCHANGED <<log, conn, link, sent, sendTask, start, pos, delivered, insert, table>>

(* receiver.next() yields an error or None; frames in transit are lost.    *)
ReadFails(c) ==
    /\ recvTask[c] = "reading" /\ ~link[c]
    /\ recvTask' = [recvTask EXCEPT ![c] = "done"]
    /\ UNCHANGED <<log, conn, link, sent, read, sendTask, start, pos, delivered, insert, table>>

(* Faulty: the message is stored and not broadcast. *)
CreateSucceedsQuietly(c) ==
    /\ recvTask[c] = "creating" /\ insert[Current(c)] = "committed"
    /\ recvTask' = [recvTask EXCEPT ![c] = "reading"]
    /\ UNCHANGED <<log, conn, link, sent, read, sendTask, start, pos, delivered, insert, table>>

(* `create` returns Ok: broadcast in the same poll, then read on.          *)
CreateSucceeds(c) ==
    /\ recvTask[c] = "creating" /\ insert[Current(c)] = "committed"
    /\ Publish(Current(c))
    /\ recvTask' = [recvTask EXCEPT ![c] = "reading"]
    /\ UNCHANGED <<conn, link, sent, read, sendTask, start, pos, delivered, insert, table>>

(* Faulty: the result of `create` is not looked at. *)
CreateFailsLoudly(c) ==
    /\ recvTask[c] = "creating" /\ insert[Current(c)] \in {"failed", "unreported"}
    /\ Publish(Current(c))
    /\ recvTask' = [recvTask EXCEPT ![c] = "reading"]
    /\ UNCHANGED <<conn, link, sent, read, sendTask, start, pos, delivered, insert, table>>

(* Faulty: a lost answer is waited for. *)
CreateFailsIfTold(c) ==
    /\ recvTask[c] = "creating" /\ insert[Current(c)] = "failed"
    /\ recvTask' = [recvTask EXCEPT ![c] = "reading"]
    /\ UNCHANGED <<log, conn, link, sent, read, sendTask, start, pos, delivered, insert, table>>

(* `create` returns Err: the frame is dropped without a word to the client *)
CreateFails(c) ==
    /\ recvTask[c] = "creating" /\ insert[Current(c)] \in {"failed", "unreported"}
    /\ recvTask' = [recvTask EXCEPT ![c] = "reading"]
    /\ UNCHANGED <<log, conn, link, sent, read, sendTask, start, pos, delivered, insert, table>>

-----------------------------------------------------------------------------
(* The pool and PostgreSQL, which run on whatever becomes of recv_task.    *)

Acquire(t) ==
    /\ insert[t] = "waiting"
    /\ Cardinality({u \in Texts : insert[u] = "sent"}) < PoolSize
    /\ insert' = [insert EXCEPT ![t] = "sent"]
    /\ UNCHANGED <<hubVars, table>>

(* The pool's acquire timeout, or a statement PostgreSQL refuses.          *)
InsertFails(t) ==
    /\ insert[t] \in {"waiting", "sent"}
    /\ insert' = [insert EXCEPT ![t] = "failed"]
    /\ UNCHANGED <<hubVars, table>>

Commit(t) ==
    /\ insert[t] = "sent"
    /\ insert' = [insert EXCEPT ![t] = "committed"]
    /\ table' = Append(table, t)
    /\ UNCHANGED hubVars

(* The row is committed but the answer is lost with the database link.     *)
CommitUnreported(t) ==
    /\ insert[t] = "sent"
    /\ insert' = [insert EXCEPT ![t] = "unreported"]
    /\ table' = Append(table, t)
    /\ UNCHANGED hubVars

-----------------------------------------------------------------------------
(* send_task                                                               *)

Lagged(c) == pos[c] + Slots < Len(log)

(* rx.recv() returns the next value.                                       *)
Receive(c) ==
    /\ sendTask[c] = "receiving"
    /\ pos[c] < Len(log) /\ ~Lagged(c)
    /\ pos' = [pos EXCEPT ![c] = @ + 1]
    /\ sendTask' = [sendTask EXCEPT ![c] = "sending"]
    /\ UNCHANGED <<log, conn, link, sent, read, recvTask, start, delivered, insert, table>>

(* rx.recv() returns Err(Lagged): `while let Ok` ends.                     *)
ReceiveLagged(c) ==
    /\ sendTask[c] = "receiving" /\ Lagged(c)
    /\ sendTask' = [sendTask EXCEPT ![c] = "done"]
    /\ UNCHANGED <<log, conn, link, sent, read, recvTask, start, pos, delivered, insert, table>>

Write(c) ==
    /\ sendTask[c] = "sending" /\ link[c]
    /\ delivered' = [delivered EXCEPT ![c] = Append(@, log[pos[c]])]
    /\ sendTask' = [sendTask EXCEPT ![c] = "receiving"]
    /\ UNCHANGED <<log, conn, link, sent, read, recvTask, start, pos, insert, table>>

(* sender.send() fails: the link is down, or the Close handshake began.    *)
WriteFails(c) ==
    /\ sendTask[c] = "sending"
    /\ ~link[c] \/ Occurs(Close, SubSeq(sent[c], 1, read[c]))
    /\ sendTask' = [sendTask EXCEPT ![c] = "done"]
    /\ UNCHANGED <<log, conn, link, sent, read, recvTask, start, pos, delivered, insert, table>>

-----------------------------------------------------------------------------
(* Faulty: `select!` waits for both tasks, or for recv_task alone. *)
SelectWhen(c, ended) ==
    /\ conn[c] = "open"
    /\ ended
    /\ conn' = [conn EXCEPT ![c] = "closed"]
    /\ link' = [link EXCEPT ![c] = FALSE]
    /\ recvTask' = [recvTask EXCEPT ![c] = "done"]
    /\ sendTask' = [sendTask EXCEPT ![c] = "done"]
    /\ UNCHANGED <<log, sent, read, start, pos, delivered, insert, table>>
SelectJoins(c) == SelectWhen(c, recvTask[c] = "done" /\ sendTask[c] = "done")
SelectOnRecv(c) == SelectWhen(c, recvTask[c] = "done")

(* tokio::select!: one task has ended, the other is aborted.  abort() is   *)
(* not awaited: the task ends at its next await, and only then is its half *)
(* of the socket dropped.  The step stands for that moment, so a poll that *)
(* handle_socket does not wait for comes before it.  An aborted recv_task  *)
(* gives up its place in the pool's queue; a statement already with        *)
(* PostgreSQL runs on.                                                     *)
Select(c) ==
    /\ conn[c] = "open"
    /\ recvTask[c] = "done" \/ sendTask[c] = "done"
    /\ conn' = [conn EXCEPT ![c] = "closed"]
    /\ link' = [link EXCEPT ![c] = FALSE]
    /\ recvTask' = [recvTask EXCEPT ![c] = "done"]
    /\ sendTask' = [sendTask EXCEPT ![c] = "done"]
    /\ insert' = [t \in Texts |->
                    IF recvTask[c] = "creating" /\ t = Current(c) /\ insert[t] = "waiting"
                    THEN "abandoned" ELSE insert[t]]
    /\ UNCHANGED <<log, sent, read, start, pos, delivered, table>>

ReadStep(c) ==
    ReadText(c) \/ ReadPanics(c) \/ ReadRelay(c) \/ ReadIgnored(c) \/ ReadClose(c) \/ ReadFails(c)

RecvStep(c) == ReadStep(c) \/ CreateSucceeds(c) \/ CreateFails(c)

SendStep(c) == Receive(c) \/ ReceiveLagged(c) \/ Write(c) \/ WriteFails(c)

DatabaseStep(t) == Acquire(t) \/ InsertFails(t) \/ Commit(t) \/ CommitUnreported(t)

Next ==
    \/ \E c \in Conn : Connect(c) \/ LinkBreaks(c) \/ Select(c)
    \/ \E c \in Conn, f \in Frames \cup {Close} : ClientSends(c, f)
    \/ \E c \in Conn : RecvStep(c) \/ SendStep(c)
    \/ \E t \in Texts : DatabaseStep(t)

Spec == Init /\ [][Next]_vars

(* Fairness: tokio polls every task that can go on; PostgreSQL answers; a  *)
(* client reads its socket as long as the link is up (nothing in the code  *)
(* enforces that: there is no write timeout).  Clients need not send, and  *)
(* links need not break.                                                   *)
Fairness ==
    /\ \A c \in Conn : WF_vars(RecvStep(c)) /\ WF_vars(SendStep(c)) /\ WF_vars(Select(c))
    /\ \A t \in Texts : WF_vars(DatabaseStep(t))

FairSpec == Spec /\ Fairness
-----------------------------------------------------------------------------
TypeOK ==
    /\ log \in Seq(Texts \cup Relays)
    /\ conn \in [Conn -> {"new", "open", "closed"}]
    /\ link \in [Conn -> BOOLEAN]
    /\ sent \in [Conn -> Seq(Frames \cup {Close})]
    /\ read \in [Conn -> Nat]
    /\ recvTask \in [Conn -> {"none", "reading", "creating", "done"}]
    /\ sendTask \in [Conn -> {"none", "receiving", "sending", "done"}]
    /\ start \in [Conn -> Nat]
    /\ pos \in [Conn -> Nat]
    /\ delivered \in [Conn -> Seq(Texts \cup Relays)]
    /\ insert \in [Texts -> {"none", "waiting", "sent", "committed", "unreported",
                             "failed", "abandoned"}]
    /\ table \in Seq(Texts)
    /\ \A c \in Conn : read[c] <= Len(sent[c]) /\ pos[c] <= Len(log)

(* What a client has been given is a run of the publication order that     *)
(* begins where it subscribed: no gap, no repetition, nothing out of order *)
(* up to the end of the connection, lag included (send_task).              *)
NothingSkipped ==
    \A c \in Conn :
      /\ start[c] + Len(delivered[c]) <= Len(log)
      /\ delivered[c] = SubSeq(log, start[c] + 1, start[c] + Len(delivered[c]))

(* A chat message is broadcast only after its row is committed.            *)
PersistedBeforeBroadcast ==
    \A t \in Texts : Occurs(t, log) => insert[t] = "committed" /\ Occurs(t, table)

(* No frame is broadcast twice, and no message is stored twice, whatever   *)
(* fails in between: recv_task never retries.                              *)
NoDuplicates ==
    /\ \A i, j \in 1..Len(log) : log[i] = log[j] => i = j
    /\ \A i, j \in 1..Len(table) : table[i] = table[j] => i = j

Before(x, y, seq) == \E i, j \in 1..Len(seq) : i < j /\ seq[i] = x /\ seq[j] = y

(* The frames of one client are committed and broadcast in the order in    *)
(* which the client sent them, because recv_task awaits each `create`.     *)
OrderKept ==
    \A c \in Conn : \A i, j \in 1..Len(sent[c]) :
      i < j => /\ ~Before(sent[c][j], sent[c][i], log)
               /\ ~Before(sent[c][j], sent[c][i], table)

(* Of a client's messages that were stored and reported as such, only the  *)
(* last one it sent can be missing from the broadcast: the one in progress *)
(* when recv_task is aborted.                                              *)
OnlyLastUnbroadcast ==
    \A c \in Conn : \A i \in 1..read[c] :
      sent[c][i] \in Texts =>
        (insert[sent[c][i]] = "committed" /\ ~Occurs(sent[c][i], log) => i = read[c])

Membership ==
    [c \in Conn |-> CASE sendTask[c] = "none" -> "outside"
                      [] sendTask[c] \in {"receiving", "sending"} -> "member"
                      [] sendTask[c] = "done" -> "left"]

OB == INSTANCE OrderedBroadcast WITH
        Subscriber <- Conn, Value <- Texts \cup Relays,
        published <- log, member <- Membership, heard <- delivered

(* The hub implements OrderedBroadcast: a lagging or failing connection    *)
(* leaves, it never misses a value and stays.                              *)
HubIsOrderedBroadcast == OB!Spec

(* "If any one of the tasks exit, abort the other": no task and no socket  *)
(* half outlives its sibling.                                              *)
TasksEndTogether ==
    \A c \in Conn :
      (recvTask[c] = "done" \/ sendTask[c] = "done")
        ~> (conn[c] = "closed" /\ recvTask[c] = "done" /\ sendTask[c] = "done")

FrameNumbers == 1..Cardinality(Frames)

(* Every value broadcast while a client is connected reaches it, or its    *)
(* connection ends: a client that cannot keep up is disconnected.          *)
EveryoneHears ==
    \A c \in Conn : \A n \in FrameNumbers :
      (conn[c] = "open" /\ start[c] < n /\ n <= Len(log))
        ~> (start[c] + Len(delivered[c]) >= n \/ conn[c] = "closed")

(* A frame a client has sent is read, or the connection ends: a failing    *)
(* INSERT, a lost answer or a busy pool does not wedge recv_task.          *)
FramesHandled ==
    \A c \in Conn : \A n \in FrameNumbers :
      Len(sent[c]) >= n ~> (read[c] >= n \/ conn[c] = "closed")
=============================================================================
