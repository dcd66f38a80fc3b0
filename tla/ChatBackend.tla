---------------------------- MODULE ChatBackend -----------------------------
(***************************************************************************)
(* What main.rs puts together for the chat: the WebSocket hub, the message *)
(* store behind SendMessage, and the MessageCleanupJob, on one database.   *)
(* The variables of ChatHub and MessageStore are side by side, and a step  *)
(* that concerns both is a step of both: a SendMessage frame builds a      *)
(* message, its INSERT writes the row, and an INSERT that fails or is      *)
(* given up leaves none.                                                   *)
(*                                                                         *)
(* No route and no job calls the other writing operations of the two       *)
(* repositories (update, delete, mark_as_read, add_reaction, the deletion  *)
(* of users), so they are not steps here.  Nothing in the program writes   *)
(* the table conversations, to which every message refers: its rows are a  *)
(* constant.                                                               *)
(*                                                                         *)
(* A text of the hub is the UUID of the message its frame becomes.         *)
(***************************************************************************)
EXTENDS ChatHub, Integers

CONSTANTS
    UserId, Content, Empty, Reaction, Delay, MaxTime, Null,   \* of MessageStore
    UserOf,          \* the subject of the token that opened each connection,
                     \* which need not be, or no longer, in table users
    ConversationId,  \* the values of conversation_id in frames
    Conversations    \* ids in table conversations

ASSUME UserOfAssumption == UserOf \in [Conn -> UserId]
ASSUME StoreAssumption ==
    /\ Null \notin Texts \cup UserId \cup Int \cup ConversationId
    /\ Delay \subseteq Int
    /\ MaxTime \in Nat

VARIABLES
    now, issued, pending, users, messages, reactions, receipts, cleanup, \* of MessageStore
    message,          \* the message each text became; Null before       (history)
    conversation_id   \* the conversation it names; Null before          (history)

Store == INSTANCE MessageStore WITH MessageId <- Texts

store == <<now, issued, pending, users, messages, reactions, receipts, cleanup>>
naming == <<message, conversation_id>>
backendVars == <<vars, store, naming>>

BackendInit ==
    /\ Init
    /\ Store!Init
    /\ message = [t \in Texts |-> Null]
    /\ conversation_id = [t \in Texts |-> Null]

-----------------------------------------------------------------------------
(* SendMessage                                                             *)

(* Faulty: the server tells an id when it has stored the message. *)
KnownWhenStored == {t \in Texts : insert[t] = "committed"}

(* Faulty: the server tells an id when it has read the frame. *)
KnownWhenRead == issued

(* The messages a client can name in reply_to_id: the id is made by the    *)
(* server, the broadcast is the only thing that tells it, and clients may  *)
(* tell each other.                                                        *)
Known == {t \in Texts : \E c \in Conn : Occurs(t, delivered[c])}

(* A SendMessage frame: execute builds the message and awaits `create`.    *)
SendMessage(c, content, reply, delay, k) ==
    /\ ReadText(c)
    /\ reply \in Known \cup {Null}
    /\ Store!BuildMessage(Upcoming(c), UserOf[c], content, reply, delay)
    /\ message' = [message EXCEPT ![Upcoming(c)] =
                     Store!NewMessage(Upcoming(c), UserOf[c], content, reply, delay)]
    /\ conversation_id' = [conversation_id EXCEPT ![Upcoming(c)] = k]

(* The INSERT commits, which its foreign keys allow; it is reported or not. *)
Inserts(t) ==
    /\ Commit(t) \/ CommitUnreported(t)
    /\ conversation_id[t] \in Conversations
    /\ Store!InsertMessage(message[t])
    /\ UNCHANGED naming

(* It is refused, or the pool or the database does not answer.             *)
InsertRefused(t) ==
    /\ InsertFails(t)
    /\ Store!InsertFails(message[t])
    /\ UNCHANGED naming

(* The connection ends; the message whose INSERT waits for a connection of *)
(* the pool is given up with it.                                           *)
Disconnects(c) ==
    /\ Select(c)
    /\ IF recvTask[c] = "creating" /\ insert[Current(c)] = "waiting"
       THEN Store!InsertFails(message[Current(c)])
       ELSE UNCHANGED store
    /\ UNCHANGED naming

(* Steps of the hub that do not concern the store, and the converse.       *)
HubStep ==
    /\ \/ \E c \in Conn :
            \/ Connect(c) \/ LinkBreaks(c) \/ SendStep(c)
            \/ ReadPanics(c) \/ ReadRelay(c) \/ ReadIgnored(c) \/ ReadClose(c) \/ ReadFails(c)
            \/ CreateSucceeds(c) \/ CreateFails(c)
       \/ \E c \in Conn, f \in Frames \cup {Close} : ClientSends(c, f)
       \/ \E t \in Texts : Acquire(t)
    /\ UNCHANGED <<store, naming>>

StoreStep ==
    /\ Store!CleanupRuns \/ Store!CleanupFails \/ Store!Tick
    /\ UNCHANGED <<vars, naming>>

BackendNext ==
    \/ \E c \in Conn, content \in Content, reply \in Texts \cup {Null},
          delay \in Delay \cup {Null}, k \in ConversationId :
         SendMessage(c, content, reply, delay, k)
    \/ \E t \in Texts : Inserts(t) \/ InsertRefused(t)
    \/ \E c \in Conn : Disconnects(c)
    \/ HubStep
    \/ StoreStep

BackendSpec == BackendInit /\ [][BackendNext]_backendVars
-----------------------------------------------------------------------------
ReplyTo(t) == message[t].reply_to_id

(* Its timer has run out. *)
Gone(t) == Store!Expired(message[t])

(* The state of the hub and of the tables, and the message of each text    *)
(* whose frame has been read (send_message.rs).                            *)
BackendTypeOK ==
    /\ TypeOK
    /\ Store!TypeOK
    /\ message \in [Texts -> Store!MessageRow \cup {Null}]
    /\ conversation_id \in [Texts -> ConversationId \cup {Null}]

(* What any client has been shown stays in the table as it was sent until  *)
(* its own timer runs out: no purge, abort, lost answer or reply takes it  *)
(* away earlier, however these fall between INSERT and broadcast.          *)
ShownUntilExpired ==
    \A c \in Conn : \A i \in 1..Len(delivered[c]) :
      LET t == delivered[c][i]
      IN  t \in Texts => message[t] \in messages \/ Gone(t)

(* A client hears a message before the replies to it, unless the message   *)
(* was broadcast before the client connected.                              *)
ThreadsInOrder ==
    \A c \in Conn : \A i \in 1..Len(delivered[c]) :
      LET t == delivered[c][i]
      IN  t \in Texts /\ ReplyTo(t) # Null =>
            Occurs(ReplyTo(t), SubSeq(log, 1, start[c]))
            \/ Before(ReplyTo(t), t, delivered[c])

(* The foreign keys of sender and reply refuse a message on its way only   *)
(* because its sender is no user (the socket asks only for a signed token) *)
(* or the message it replies to has run out: what a user answers to was    *)
(* stored before anyone could have heard of it.                            *)
RefusedOnlyForCause ==
    \A t \in Texts : insert[t] \in {"waiting", "sent"} /\ ~Store!InsertAllowed(message[t]) =>
      \/ message[t].sender_id \notin users
      \/ ReplyTo(t) # Null /\ Gone(ReplyTo(t))

(* The backend is a hub and a message store: what is said of either alone  *)
(* holds of them together.                                                 *)
BackendIsHub == Spec
BackendIsStore == Store!Spec
=============================================================================
