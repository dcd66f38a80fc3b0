---------------------------- MODULE MessageStore ----------------------------
(***************************************************************************)
(* The messages table of the chat backend, its reply links, reactions and  *)
(* read receipts, every operation of PostgresMessageRepository that writes *)
(* them, and the MessageCleanupJob that purges self-destructing messages.  *)
(*                                                                         *)
(* A table is a set of records.  One SQL statement is one step: PostgreSQL *)
(* runs it atomically and undoes it when a constraint fails.  Building a   *)
(* Message and inserting it are two steps, because `create` awaits a       *)
(* pooled connection in between, so the clock may have moved on.           *)
(*                                                                         *)
(* Abstracted: conversation, type and is_encrypted (copied, never read).   *)
(* A failed connection or a foreign key outside these tables is a          *)
(* statement that may fail at any time.                                    *)
(***************************************************************************)
EXTENDS Integers, FiniteSets

CONSTANTS
    MessageId,  \* the UUIDs that Uuid::new_v4 may return
    UserId,     \* UUIDs that sender_id and user_id may hold
    Content,    \* ciphertexts
    Empty,      \* the empty string that a soft delete leaves behind
    Reaction,   \* emoji
    Delay,      \* values of self_destruct_in_seconds; the client sends an i64
    MaxTime,    \* bound on the clock
    Null        \* SQL NULL

ASSUME NullAssumption == Null \notin MessageId \cup UserId \cup Int
ASSUME DelayAssumption == Delay \subseteq Int
ASSUME MaxTimeAssumption == MaxTime \in Nat

VARIABLES
    now,        \* NOW() and Utc::now()
    issued,     \* UUIDs given to a message so far
    pending,    \* messages built by SendMessage whose INSERT has not run
    users,      \* ids in table users: who has registered before the run starts
    messages,   \* table messages
    reactions,  \* table message_reactions
    receipts,   \* table message_read_receipts
    cleanup     \* whether the last run of MessageCleanupJob logged an error

tables == <<users, messages, reactions, receipts>>
vars == <<now, issued, pending, users, messages, reactions, receipts, cleanup>>

MessageRow ==
    [id : MessageId, sender_id : UserId \cup {Null}, content : Content \cup {Empty},
     reply_to_id : MessageId \cup {Null}, self_destruct_at : Int \cup {Null},
     created_at : Nat, is_deleted : BOOLEAN]

ReactionRow == [message_id : MessageId, user_id : UserId, reaction : Reaction]
ReceiptRow == [message_id : MessageId, user_id : UserId, read_at : Nat]

Ids(table) == {r.id : r \in table}

(* Faulty: soft-deleted messages are skipped by the purge. *)
ExpiredAndVisible(row) ==
    row.self_destruct_at # Null /\ row.self_destruct_at < now /\ ~row.is_deleted

(* The condition of the DELETE and of Message::is_expired; a comparison    *)
(* with NULL is not true.                                                  *)
Expired(row) == row.self_destruct_at # Null /\ row.self_destruct_at < now

ExpiredRows == {r \in messages : Expired(r)}

(* Foreign key messages.reply_to_id, declared without ON DELETE.           *)
ReplyTargetsIn(table) ==
    \A r \in table : r.reply_to_id # Null => r.reply_to_id \in Ids(table)

(* An expired message that a message which is not expired replies to: the  *)
(* statement that would purge it violates the foreign key.                 *)
CleanupBlocked == ~ReplyTargetsIn(messages \ ExpiredRows)

Init ==
    /\ now = 0
    /\ issued = {}
    /\ pending = {}
    /\ users \in SUBSET UserId
    /\ messages = {}
    /\ reactions = {}
    /\ receipts = {}
    /\ cleanup = "ok"

-----------------------------------------------------------------------------
(* Message::new, reply_to_id as assigned by SendMessage::execute, and      *)
(* with_self_destruct if the request has a delay.                          *)
NewMessage(id, sender, content, reply, delay) ==
    [id |-> id, sender_id |-> sender, content |-> content, reply_to_id |-> reply,
     self_destruct_at |-> IF delay = Null THEN Null ELSE now + delay,
     created_at |-> now, is_deleted |-> FALSE]

(* SendMessage::execute up to the await of `create`; the UUID is fresh.    *)
(* The client may reply to any message it can know of: one whose UUID has  *)
(* been issued, whether or not its row is still, or was ever, in the table.*)
(* Bound: no timer runs out at or after MaxTime, where the clock stops.    *)
BuildMessage(id, sender, content, reply, delay) ==
    /\ id \notin issued
    /\ reply \in issued \cup {Null}
    /\ delay # Null => now + delay < MaxTime
    /\ issued' = issued \cup {id}
    /\ pending' = pending \cup {NewMessage(id, sender, content, reply, delay)}
    /\ UNCHANGED <<now, cleanup, tables>>

(* Foreign keys of an INSERT INTO messages, checked by the statement.      *)
InsertAllowed(row) ==
    /\ row.sender_id \in users
    /\ row.reply_to_id # Null => row.reply_to_id \in Ids(messages)

InsertMessage(row) ==
    /\ row \in pending
    /\ InsertAllowed(row)
    /\ pending' = pending \ {row}
    /\ messages' = messages \cup {row}
    /\ UNCHANGED <<now, issued, users, reactions, receipts, cleanup>>

(* `create` returns an error, or its caller was aborted before the INSERT  *)
(* was sent.                                                               *)
InsertFails(row) ==
    /\ row \in pending
    /\ pending' = pending \ {row}
    /\ UNCHANGED <<now, issued, cleanup, tables>>

(* Faulty: the UPDATE also writes the copy's reply_to_id. *)
updateMovesThread(id, content, deleted) ==
    /\ id \in Ids(messages)
    /\ \E target \in Ids(messages) :
         messages' = {IF r.id = id
                      THEN [r EXCEPT !.content = content, !.is_deleted = deleted,
                                     !.reply_to_id = target]
                      ELSE r : r \in messages}
    /\ UNCHANGED <<now, issued, pending, users, reactions, receipts, cleanup>>

(* UPDATE ... WHERE id = $1: the caller's copy supplies these columns only *)
update(id, content, deleted) ==
    /\ id \in Ids(messages)
    /\ messages' = {IF r.id = id
                    THEN [r EXCEPT !.content = content, !.is_deleted = deleted]
                    ELSE r : r \in messages}
    /\ UNCHANGED <<now, issued, pending, users, reactions, receipts, cleanup>>

(* Faulty: the soft delete disarms the timer. *)
deleteDisarms(id) ==
    /\ id \in Ids(messages)
    /\ messages' = {IF r.id = id
                    THEN [r EXCEPT !.content = Empty, !.is_deleted = TRUE,
                                   !.self_destruct_at = Null]
                    ELSE r : r \in messages}
    /\ UNCHANGED <<now, issued, pending, users, reactions, receipts, cleanup>>

(* The soft delete: the row stays, and so does its timer.                  *)
delete(id) ==
    /\ id \in Ids(messages)
    /\ messages' = {IF r.id = id
                    THEN [r EXCEPT !.content = Empty, !.is_deleted = TRUE]
                    ELSE r : r \in messages}
    /\ UNCHANGED <<now, issued, pending, users, reactions, receipts, cleanup>>

(* ON CONFLICT (message_id, user_id) DO NOTHING                            *)
mark_as_read(id, user) ==
    /\ id \in Ids(messages) /\ user \in users
    /\ ~\E r \in receipts : r.message_id = id /\ r.user_id = user
    /\ receipts' = receipts \cup {[message_id |-> id, user_id |-> user, read_at |-> now]}
    /\ UNCHANGED <<now, issued, pending, users, messages, reactions, cleanup>>

(* ON CONFLICT (message_id, user_id) DO UPDATE SET reaction = $3           *)
add_reaction(id, user, reaction) ==
    /\ id \in Ids(messages) /\ user \in users
    /\ reactions' = {r \in reactions : r.message_id # id \/ r.user_id # user}
                    \cup {[message_id |-> id, user_id |-> user, reaction |-> reaction]}
    /\ UNCHANGED <<now, issued, pending, users, messages, receipts, cleanup>>

(* PostgresUserRepository::delete with the actions of the foreign keys:    *)
(* the user's messages lose their sender, reactions and receipts go.       *)
DeleteUser(user) ==
    /\ user \in users
    /\ users' = users \ {user}
    /\ messages' = {IF r.sender_id = user THEN [r EXCEPT !.sender_id = Null] ELSE r
                    : r \in messages}
    /\ reactions' = {r \in reactions : r.user_id # user}
    /\ receipts' = {r \in receipts : r.user_id # user}
    /\ UNCHANGED <<now, issued, pending, cleanup>>

-----------------------------------------------------------------------------
(* Faulty: reply_to_id declared ON DELETE CASCADE. *)
delete_expired_cascading ==
    LET gone == {r \in messages : Expired(r) \/ r.reply_to_id \in Ids(ExpiredRows)}
    IN  /\ ReplyTargetsIn(messages \ gone)
        /\ messages' = messages \ gone
        /\ reactions' = {r \in reactions : r.message_id \notin Ids(gone)}
        /\ receipts' = {r \in receipts : r.message_id \notin Ids(gone)}
        /\ UNCHANGED users

(* Faulty: receipts do not cascade. *)
delete_expired_only ==
    /\ ReplyTargetsIn(messages \ ExpiredRows)
    /\ messages' = messages \ ExpiredRows
    /\ reactions' = {r \in reactions : r.message_id \notin Ids(ExpiredRows)}
    /\ UNCHANGED <<users, receipts>>

(* delete_expired: one DELETE for every expired row.  Reactions and        *)
(* receipts cascade; reply_to_id does not, and is checked at the end.      *)
delete_expired ==
    /\ ReplyTargetsIn(messages \ ExpiredRows)
    /\ messages' = messages \ ExpiredRows
    /\ reactions' = {r \in reactions : r.message_id \notin Ids(ExpiredRows)}
    /\ receipts' = {r \in receipts : r.message_id \notin Ids(ExpiredRows)}
    /\ UNCHANGED users

(* Faulty: the loop ends on the first error. *)
CleanupRunsUntilError ==
    /\ cleanup # "error"
    /\ delete_expired
    /\ cleanup' = "ok"
    /\ UNCHANGED <<now, issued, pending>>

(* One tick of MessageCleanupJob.run that succeeds.                        *)
CleanupRuns ==
    /\ delete_expired
    /\ cleanup' = "ok"
    /\ UNCHANGED <<now, issued, pending>>

(* One tick whose statement is refused: the error is logged and the loop   *)
(* waits for the next tick.  A tick that does not reach the database logs  *)
(* one too and touches no table; such ticks are left out.                  *)
CleanupFails ==
    /\ CleanupBlocked
    /\ cleanup' = "error"
    /\ UNCHANGED <<now, issued, pending, tables>>

(* The clock.                                                              *)
Tick ==
    /\ now < MaxTime
    /\ now' = now + 1
    /\ UNCHANGED <<issued, pending, cleanup, tables>>

Next ==
    \/ \E id \in MessageId, u \in UserId, c \in Content,
          reply \in MessageId \cup {Null}, d \in Delay \cup {Null} :
            BuildMessage(id, u, c, reply, d)
    \/ \E row \in pending : InsertMessage(row) \/ InsertFails(row)
    \/ \E id \in MessageId, c \in Content, del \in BOOLEAN : update(id, c, del)
    \/ \E id \in MessageId : delete(id)
    \/ \E id \in MessageId, u \in UserId : mark_as_read(id, u)
    \/ \E id \in MessageId, u \in UserId, x \in Reaction : add_reaction(id, u, x)
    \/ \E u \in UserId : DeleteUser(u)
    \/ CleanupRuns
    \/ CleanupFails
    \/ Tick

Spec == Init /\ [][Next]_vars

(* Fairness: the job's loop never ends and its interval fires every        *)
(* minute; time passes.  Nothing obliges a user to do anything.            *)
Fairness == WF_vars(CleanupRuns) /\ WF_vars(CleanupFails) /\ WF_vars(Tick)

FairSpec == Spec /\ Fairness
-----------------------------------------------------------------------------
(* Every table holds rows of its declared columns; `pending` messages are  *)
(* rows that INSERT has yet to write (message.rs, 20240101_init.sql).      *)
TypeOK ==
    /\ now \in 0..MaxTime
    /\ issued \subseteq MessageId
    /\ pending \subseteq MessageRow
    /\ users \subseteq UserId
    /\ messages \subseteq MessageRow
    /\ reactions \subseteq ReactionRow
    /\ receipts \subseteq ReceiptRow
    /\ cleanup \in {"ok", "error"}

(* Primary keys: a message id names one row, in the table or on its way to *)
(* it, and a user reacts to and reads a message once (the ON CONFLICT      *)
(* clauses of mark_as_read and add_reaction).                              *)
KeysUnique ==
    /\ \A r, s \in messages \cup pending : r.id = s.id => r = s
    /\ messages \cap pending = {}
    /\ Ids(messages \cup pending) \subseteq issued
    /\ \A r, s \in reactions : r.message_id = s.message_id /\ r.user_id = s.user_id => r = s
    /\ \A r, s \in receipts : r.message_id = s.message_id /\ r.user_id = s.user_id => r = s

(* No reply, reaction or receipt outlives what it refers to, through any   *)
(* interleaving of inserts, soft deletes, user deletion and cleanup runs.  *)
ReferentialIntegrity ==
    /\ ReplyTargetsIn(messages)
    /\ \A r \in messages : r.sender_id # Null => r.sender_id \in users
    /\ \A r \in reactions \cup receipts :
         r.message_id \in Ids(messages) /\ r.user_id \in users

(* A thread has a beginning: every set of messages has a member that does  *)
(* not reply into the set.  A cycle of replies could never be purged row   *)
(* by row, and a client following reply_to_id would not stop.              *)
RepliesAcyclic ==
    \A S \in SUBSET messages : S # {} => \E r \in S : r.reply_to_id \notin Ids(S)

(* A step that takes a row out of the table takes every row whose timer    *)
(* has run out and no other: no reply drags its parent along, no timer is  *)
(* early, and nothing expired is left behind (delete_expired).             *)
PurgeIsExact ==
    [][(\E r \in messages : r.id \notin Ids(messages'))
         => Ids(messages') = Ids(messages) \ Ids(ExpiredRows)]_vars

(* Editing, soft deletion and the deletion of its sender leave a message's *)
(* timer, reply link and creation time alone, so none of them postpones    *)
(* the purge or moves the message to another thread.                       *)
TimerAndThreadFixed ==
    [][\A r \in messages, s \in messages' : r.id = s.id =>
         /\ s.self_destruct_at = r.self_destruct_at
         /\ s.reply_to_id = r.reply_to_id
         /\ s.created_at = r.created_at]_vars

(* An expired message has a reply without a timer. *)
Stuck == \E r \in messages : r.self_destruct_at = Null /\ r.reply_to_id \in Ids(ExpiredRows)

(* One such reply stops the purge of the whole table for good: no edit,    *)
(* soft delete, deletion of a user or further message frees the statement, *)
(* and no row of any conversation goes any more (delete_expired and the    *)
(* foreign key of reply_to_id).                                            *)
PurgeStopsForGood == [][Stuck => Stuck' /\ Ids(messages) \subseteq Ids(messages')]_vars

(* The time at which a user first read a message is never overwritten by a *)
(* later mark_as_read (ON CONFLICT DO NOTHING).                            *)
FirstReadKept ==
    [][\A r \in receipts, s \in receipts' :
         r.message_id = s.message_id /\ r.user_id = s.user_id => r = s]_vars

ExpiredIn(id) == \E r \in ExpiredRows : r.id = id

(* A message whose timer has run out leaves the table, unless a message    *)
(* that is still alive replies to an expired one: one refused statement is *)
(* logged and the job tries again (MessageCleanupJob::run).                *)
ExpiredPurgedOrBlocked ==
    \A id \in MessageId : ExpiredIn(id) ~> (id \notin Ids(messages) \/ CleanupBlocked)

(* When every message is sent with a timer, every message is purged in the *)
(* end: a reply can only delay its thread until its own timer runs out,    *)
(* and no edit or soft delete, in any order with the runs of the job,      *)
(* disarms a timer or puts it off.                                         *)
TimedMessagesPurged ==
    [](\A r \in pending : r.self_destruct_at # Null)
      => \A id \in MessageId : id \in Ids(messages) ~> id \notin Ids(messages)

(* The README's "Background message cleanup (self-destruct)": a message    *)
(* whose timer has run out is purged.                                      *)
ExpiredPurged == \A id \in MessageId : ExpiredIn(id) ~> id \notin Ids(messages)
=============================================================================
