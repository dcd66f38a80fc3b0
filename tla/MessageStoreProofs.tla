------------------------- MODULE MessageStoreProofs -------------------------
(* Proofs about MessageStore that hold for every set of messages, users    *)
(* and delays, and every horizon of the clock.                             *)
EXTENDS MessageStore, TLAPS

(***************************************************************************)
(* The four state properties together are inductive: a reply's target is   *)
(* in the table only because keys are unique, and a new row closes no      *)
(* cycle only because nothing in the table refers to it yet.               *)
(***************************************************************************)
StoreInv == TypeOK /\ KeysUnique /\ ReferentialIntegrity /\ RepliesAcyclic

LEMMA StoreInit == Init => StoreInv
  BY MaxTimeAssumption
     DEF Init, StoreInv, TypeOK, KeysUnique, ReferentialIntegrity, RepliesAcyclic, Ids, ReplyTargetsIn

(* The row s is the row r, with another text, sender or deletion mark.     *)
SameLinks(r, s) ==
    /\ s.id = r.id
    /\ s.reply_to_id = r.reply_to_id
    /\ s.self_destruct_at = r.self_destruct_at
    /\ s.created_at = r.created_at

(* What update, delete and DeleteUser do to the table: rows change in      *)
(* place, and none comes or goes.                                          *)
InPlace ==
    /\ messages' \subseteq MessageRow
    /\ \A s \in messages' : \E r \in messages : SameLinks(r, s)
    /\ \A r \in messages : \E s \in messages' : s.id = r.id
    /\ \A s, t \in messages' : s.id = t.id => s = t

(* The table after an UPDATE by update or delete.                          *)
Edited(id, content, deleted) ==
    {IF r.id = id THEN [r EXCEPT !.content = content, !.is_deleted = deleted] ELSE r
     : r \in messages}

LEMMA EditedInPlace ==
  ASSUME StoreInv, NEW id \in MessageId, NEW content \in Content \cup {Empty}, NEW deleted \in BOOLEAN,
         messages' = Edited(id, content, deleted)
  PROVE  /\ InPlace
         /\ \A s \in messages' : \E r \in messages : s.id = r.id /\ s.sender_id = r.sender_id
<1> DEFINE f(r) == IF r.id = id THEN [r EXCEPT !.content = content, !.is_deleted = deleted] ELSE r
<1>1. ASSUME NEW r \in messages
      PROVE  f(r) \in MessageRow /\ SameLinks(r, f(r)) /\ f(r).sender_id = r.sender_id
  <2>1. r \in MessageRow
    BY DEF StoreInv, TypeOK
  <2>2. QED
    BY <2>1 DEF MessageRow, SameLinks
<1>2. messages' = {f(r) : r \in messages}
  BY DEF Edited
<1> HIDE DEF f
<1>3. \A s \in messages' : \E r \in messages : s = f(r)
  BY <1>2
<1>4. \A r \in messages : f(r) \in messages'
  BY <1>2
<1>5. \A r, q \in messages : r.id = q.id => r = q
  BY DEF StoreInv, KeysUnique
<1>6. messages' \subseteq MessageRow
  BY <1>1, <1>3
<1>7. \A s \in messages' : \E r \in messages : SameLinks(r, s)
  BY <1>1, <1>3
<1>8. \A r \in messages : \E s \in messages' : s.id = r.id
  BY <1>1, <1>4 DEF SameLinks
<1>9. ASSUME NEW s \in messages', NEW t \in messages', s.id = t.id PROVE s = t
  <2>1. PICK r \in messages : s = f(r)
    BY <1>3
  <2>2. PICK q \in messages : t = f(q)
    BY <1>3
  <2>3. r.id = q.id
    BY <1>1, <1>9, <2>1, <2>2 DEF SameLinks
  <2>4. QED
    BY <1>5, <2>1, <2>2, <2>3
<1>10. InPlace
  BY <1>6, <1>7, <1>8, <1>9 DEF InPlace
<1>11. QED
  BY <1>1, <1>3, <1>10 DEF SameLinks

LEMMA DeleteUserInPlace ==
  ASSUME StoreInv, NEW user \in UserId,
         messages' = {IF r.sender_id = user THEN [r EXCEPT !.sender_id = Null] ELSE r
                      : r \in messages}
  PROVE  /\ InPlace
         /\ \A s \in messages' : \E r \in messages :
              s.id = r.id /\ (s.sender_id = Null \/ (s.sender_id = r.sender_id /\ s.sender_id # user))
<1> DEFINE f(r) == IF r.sender_id = user THEN [r EXCEPT !.sender_id = Null] ELSE r
<1>1. ASSUME NEW r \in messages
      PROVE  /\ f(r) \in MessageRow /\ SameLinks(r, f(r))
             /\ f(r).sender_id = Null \/ (f(r).sender_id = r.sender_id /\ f(r).sender_id # user)
  <2>1. r \in MessageRow
    BY DEF StoreInv, TypeOK
  <2>2. QED
    BY <2>1 DEF MessageRow, SameLinks
<1>2. messages' = {f(r) : r \in messages}
  OBVIOUS
<1> HIDE DEF f
<1>3. \A s \in messages' : \E r \in messages : s = f(r)
  BY <1>2
<1>4. \A r \in messages : f(r) \in messages'
  BY <1>2
<1>5. \A r, q \in messages : r.id = q.id => r = q
  BY DEF StoreInv, KeysUnique
<1>6. messages' \subseteq MessageRow
  BY <1>1, <1>3
<1>7. \A s \in messages' : \E r \in messages : SameLinks(r, s)
  BY <1>1, <1>3
<1>8. \A r \in messages : \E s \in messages' : s.id = r.id
  BY <1>1, <1>4 DEF SameLinks
<1>9. ASSUME NEW s \in messages', NEW t \in messages', s.id = t.id PROVE s = t
  <2>1. PICK r \in messages : s = f(r)
    BY <1>3
  <2>2. PICK q \in messages : t = f(q)
    BY <1>3
  <2>3. r.id = q.id
    BY <1>1, <1>9, <2>1, <2>2 DEF SameLinks
  <2>4. QED
    BY <1>5, <2>1, <2>2, <2>3
<1>10. InPlace
  BY <1>6, <1>7, <1>8, <1>9 DEF InPlace
<1>11. QED
  BY <1>1, <1>3, <1>10 DEF SameLinks

(* Neither changing rows in place nor removing rows closes a reply cycle.  *)
LEMMA NoNewCycle ==
  ASSUME RepliesAcyclic, \A s \in messages' : \E r \in messages : SameLinks(r, s)
  PROVE  RepliesAcyclic'
<1> SUFFICES ASSUME NEW S \in SUBSET messages', S # {}
             PROVE  \E s \in S : s.reply_to_id \notin Ids(S)
  BY DEF RepliesAcyclic, Ids
<1> DEFINE R == {r \in messages : \E s \in S : SameLinks(r, s)}
<1>1. PICK r \in R : r.reply_to_id \notin Ids(R)
  BY DEF RepliesAcyclic
<1>2. PICK s \in S : SameLinks(r, s)
  OBVIOUS
<1>3. Ids(S) \subseteq Ids(R)
  BY DEF Ids, SameLinks
<1>4. s.reply_to_id \notin Ids(S)
  BY <1>1, <1>2, <1>3 DEF SameLinks
<1>5. QED
  BY <1>4

(* A new row closes no cycle: nothing in the table replies to it.          *)
LEMMA NoCycleOnInsert ==
  ASSUME StoreInv, NEW row \in pending, InsertAllowed(row), messages' = messages \cup {row}
  PROVE  RepliesAcyclic'
<1> SUFFICES ASSUME NEW S \in SUBSET messages', S # {}
             PROVE  \E s \in S : s.reply_to_id \notin Ids(S)
  BY DEF RepliesAcyclic, Ids
<1>1. row.id \in MessageId /\ row.id \notin Ids(messages)
  BY DEF StoreInv, TypeOK, KeysUnique, Ids, MessageRow
<1>2. \A r \in messages : r.reply_to_id # row.id
  BY <1>1, NullAssumption DEF StoreInv, ReferentialIntegrity, ReplyTargetsIn
<1>3. CASE \E r \in S : r # row
  <2> DEFINE R == S \ {row}
  <2>1. PICK r \in R : r.reply_to_id \notin Ids(R)
    <3>1. R \in SUBSET messages /\ R # {}
      BY <1>3
    <3>2. QED
      BY <3>1 DEF StoreInv, RepliesAcyclic
  <2>2. r \in S /\ r \in messages
    OBVIOUS
  <2>3. r.reply_to_id \notin Ids(S)
    BY <2>1, <2>2, <1>2 DEF Ids
  <2>4. QED
    BY <2>2, <2>3
<1>4. CASE S = {row}
  <2>1. row.reply_to_id # row.id
    BY <1>1, NullAssumption DEF InsertAllowed
  <2>2. QED
    BY <1>4, <2>1 DEF Ids
<1>5. QED
  BY <1>3, <1>4

LEMMA StoreStep == StoreInv /\ [Next]_vars => StoreInv'
<1> SUFFICES ASSUME StoreInv, [Next]_vars PROVE StoreInv'
  OBVIOUS
<1> USE DEF StoreInv, TypeOK, KeysUnique, ReferentialIntegrity, ReplyTargetsIn, Ids, tables
<1>1. ASSUME NEW id \in MessageId, NEW u \in UserId, NEW c \in Content,
             NEW reply \in MessageId \cup {Null}, NEW d \in Delay \cup {Null},
             BuildMessage(id, u, c, reply, d)
      PROVE  StoreInv'
  <2>1. NewMessage(id, u, c, reply, d) \in MessageRow
    BY DelayAssumption DEF NewMessage, MessageRow
  <2>2. NewMessage(id, u, c, reply, d).id = id
    BY DEF NewMessage
  <2>3. /\ pending' = pending \cup {NewMessage(id, u, c, reply, d)}
        /\ issued' = issued \cup {id} /\ id \notin issued
        /\ UNCHANGED <<now, cleanup, users, messages, reactions, receipts>>
    BY <1>1 DEF BuildMessage
  <2> HIDE DEF RepliesAcyclic
  <2>4. RepliesAcyclic'
    BY <2>3 DEF RepliesAcyclic
  <2>5. TypeOK'
    BY <2>1, <2>3
  <2>6. KeysUnique'
    BY <2>2, <2>3
  <2>7. ReferentialIntegrity'
    BY <2>3
  <2>8. QED
    BY <2>4, <2>5, <2>6, <2>7
<1>2. ASSUME NEW row \in pending, InsertMessage(row) PROVE StoreInv'
  <2>1. /\ InsertAllowed(row) /\ messages' = messages \cup {row} /\ pending' = pending \ {row}
        /\ UNCHANGED <<now, issued, users, reactions, receipts, cleanup>>
    BY <1>2 DEF InsertMessage
  <2>2. RepliesAcyclic'
    BY <2>1, NoCycleOnInsert
  <2>3. TypeOK'
    BY <2>1
  <2>4. KeysUnique'
    BY <2>1
  <2>5. ReferentialIntegrity'
    BY <2>1 DEF InsertAllowed
  <2>6. QED
    BY <2>2, <2>3, <2>4, <2>5
<1>3. ASSUME NEW row \in pending, InsertFails(row) PROVE StoreInv'
  BY <1>3 DEF InsertFails, RepliesAcyclic
(* rows changed in place *)
<1>4. ASSUME InPlace, UNCHANGED <<now, issued, pending, cleanup>>, users' \subseteq users,
             reactions' \subseteq reactions, receipts' \subseteq receipts
      PROVE  TypeOK' /\ KeysUnique' /\ RepliesAcyclic' /\ ReplyTargetsIn(messages')
             /\ Ids(messages') = Ids(messages)
  <2>1. Ids(messages') = Ids(messages)
    BY <1>4 DEF InPlace, SameLinks
  <2>2. TypeOK'
    BY <1>4 DEF InPlace
  <2>3. KeysUnique'
    <3>1. \A r \in messages, t \in pending : r.id # t.id
      OBVIOUS
    <3>2. \A r \in messages', t \in pending' : r.id # t.id
      BY <1>4, <3>1 DEF InPlace, SameLinks
    <3>3. messages' \cap pending' = {}
      BY <3>2
    <3>4. \A r, t \in messages' \cup pending' : r.id = t.id => r = t
      BY <1>4, <3>2 DEF InPlace
    <3>5. Ids(messages' \cup pending') \subseteq issued'
      BY <1>4, <2>1
    <3>6. QED
      BY <1>4, <3>3, <3>4, <3>5
  <2>4. RepliesAcyclic'
    BY <1>4, NoNewCycle DEF InPlace
  <2>5. ReplyTargetsIn(messages')
    BY <1>4, <2>1 DEF InPlace, SameLinks
  <2>6. QED
    BY <2>1, <2>2, <2>3, <2>4, <2>5
<1>5. ASSUME NEW id \in MessageId, NEW c \in Content \cup {Empty}, NEW del \in BOOLEAN,
             messages' = Edited(id, c, del),
             UNCHANGED <<now, issued, pending, users, reactions, receipts, cleanup>>
      PROVE  StoreInv'
  <2>1. /\ InPlace
        /\ \A s \in messages' : \E r \in messages : s.id = r.id /\ s.sender_id = r.sender_id
    BY <1>5, EditedInPlace
  <2>2. /\ TypeOK' /\ KeysUnique' /\ RepliesAcyclic' /\ ReplyTargetsIn(messages')
        /\ Ids(messages') = Ids(messages)
    <3> HIDE DEF StoreInv, TypeOK, KeysUnique, ReferentialIntegrity, ReplyTargetsIn, Ids
    <3>1. QED
      BY <2>1, <1>4, <1>5
  <2>3. \A s \in messages' : s.sender_id # Null => s.sender_id \in users'
    BY <2>1, <1>5
  <2>4. \A r \in reactions' \cup receipts' : r.message_id \in Ids(messages') /\ r.user_id \in users'
    BY <2>2, <1>5
  <2>5. QED
    BY <2>2, <2>3, <2>4
<1>6. ASSUME NEW id \in MessageId, NEW c \in Content, NEW del \in BOOLEAN, update(id, c, del)
      PROVE  StoreInv'
  <2>1. messages' = Edited(id, c, del)
    BY <1>6 DEF update, Edited
  <2>2. QED
    BY <2>1, <1>6, <1>5 DEF update
<1>7. ASSUME NEW id \in MessageId, delete(id) PROVE StoreInv'
  <2>1. messages' = Edited(id, Empty, TRUE)
    BY <1>7 DEF delete, Edited
  <2>2. QED
    BY <2>1, <1>7, <1>5 DEF delete
<1>8. ASSUME NEW id \in MessageId, NEW u \in UserId, mark_as_read(id, u) PROVE StoreInv'
  BY <1>8 DEF mark_as_read, RepliesAcyclic, ReceiptRow
<1>9. ASSUME NEW id \in MessageId, NEW u \in UserId, NEW x \in Reaction, add_reaction(id, u, x)
      PROVE  StoreInv'
  BY <1>9 DEF add_reaction, RepliesAcyclic, ReactionRow
<1>10. ASSUME NEW u \in UserId, DeleteUser(u) PROVE StoreInv'
  <2>1. /\ InPlace
        /\ \A s \in messages' : \E r \in messages :
             s.id = r.id /\ (s.sender_id = Null \/ (s.sender_id = r.sender_id /\ s.sender_id # u))
    BY <1>10, DeleteUserInPlace DEF DeleteUser
  <2>2. /\ TypeOK' /\ KeysUnique' /\ RepliesAcyclic' /\ ReplyTargetsIn(messages')
        /\ Ids(messages') = Ids(messages)
    BY <2>1, <1>4, <1>10 DEF DeleteUser
  <2>3. /\ users' = users \ {u}
        /\ reactions' = {r \in reactions : r.user_id # u}
        /\ receipts' = {r \in receipts : r.user_id # u}
    BY <1>10 DEF DeleteUser
  <2>4. \A s \in messages' : s.sender_id # Null => s.sender_id \in users'
    <3>1. \A r, q \in messages : r.id = q.id => r = q
      OBVIOUS
    <3>2. QED
      BY <2>1, <2>3, <3>1
  <2>5. \A r \in reactions' \cup receipts' : r.message_id \in Ids(messages') /\ r.user_id \in users'
    BY <2>2, <2>3
  <2>6. QED
    BY <2>2, <2>4, <2>5
<1>11. ASSUME CleanupRuns PROVE StoreInv'
  <2>1. /\ messages' \subseteq messages /\ ReplyTargetsIn(messages')
        /\ reactions' = {r \in reactions : r.message_id \notin Ids(ExpiredRows)}
        /\ receipts' = {r \in receipts : r.message_id \notin Ids(ExpiredRows)}
        /\ messages' = messages \ ExpiredRows
        /\ UNCHANGED <<now, issued, pending, users>> /\ cleanup' = "ok"
    BY <1>11 DEF CleanupRuns, delete_expired
  <2>2. RepliesAcyclic'
    BY <2>1, NoNewCycle DEF SameLinks
  <2>3. TypeOK' /\ KeysUnique'
    BY <2>1
  <2>4. ReferentialIntegrity'
    BY <2>1
  <2>5. QED
    BY <2>2, <2>3, <2>4
<1>12. ASSUME CleanupFails PROVE StoreInv'
  BY <1>12 DEF CleanupFails, RepliesAcyclic
<1>13. ASSUME Tick PROVE StoreInv'
  <2>1. now' \in 0..MaxTime /\ UNCHANGED <<issued, pending, cleanup, tables>>
    BY <1>13, MaxTimeAssumption DEF Tick
  <2>2. TypeOK'
    BY <2>1
  <2>3. QED
    BY <2>1, <2>2 DEF RepliesAcyclic
<1>14. ASSUME UNCHANGED vars PROVE StoreInv'
  BY <1>14 DEF vars, RepliesAcyclic
<1> HIDE DEF StoreInv, TypeOK, KeysUnique, ReferentialIntegrity, ReplyTargetsIn, Ids, tables
<1>15. QED
  BY <1>1, <1>2, <1>3, <1>6, <1>7, <1>8, <1>9, <1>10, <1>11, <1>12, <1>13, <1>14 DEF Next

LEMMA StoreInvariant == Spec => []StoreInv
  BY StoreInit, StoreStep, PTL DEF Spec

(* The tables hold rows of their declared columns.                         *)
THEOREM StoreTypeCorrect == Spec => []TypeOK
<1>1. StoreInv => TypeOK
  BY DEF StoreInv
<1>2. QED
  BY <1>1, StoreInvariant, PTL

(* Keys stay unique, with any number of sends, retries and purges.         *)
THEOREM StoreKeysUnique == Spec => []KeysUnique
<1>1. StoreInv => KeysUnique
  BY DEF StoreInv
<1>2. QED
  BY <1>1, StoreInvariant, PTL

(* No operation leaves a dangling reply, reaction, receipt or sender.      *)
THEOREM NothingDangles == Spec => []ReferentialIntegrity
<1>1. StoreInv => ReferentialIntegrity
  BY DEF StoreInv
<1>2. QED
  BY <1>1, StoreInvariant, PTL

(* Replies never form a cycle, in threads of any length.                   *)
THEOREM ThreadsAcyclic == Spec => []RepliesAcyclic
<1>1. StoreInv => RepliesAcyclic
  BY DEF StoreInv
<1>2. QED
  BY <1>1, StoreInvariant, PTL

-----------------------------------------------------------------------------
(* How a step changes the tables. *)

(* A step changes the table in place, adds a row, purges, or leaves it.    *)
LEMMA MessageSteps ==
  StoreInv /\ [Next]_vars =>
    \/ InPlace
    \/ \E row \in pending : InsertMessage(row)
    \/ CleanupRuns
    \/ UNCHANGED messages
<1> SUFFICES ASSUME StoreInv, [Next]_vars
             PROVE  InPlace \/ (\E row \in pending : InsertMessage(row)) \/ CleanupRuns
                    \/ UNCHANGED messages
  OBVIOUS
<1>1. ASSUME NEW id \in MessageId, NEW c \in Content, NEW del \in BOOLEAN, update(id, c, del)
      PROVE  InPlace
  <2>1. messages' = Edited(id, c, del)
    BY <1>1 DEF update, Edited
  <2>2. QED
    BY <2>1, EditedInPlace
<1>2. ASSUME NEW id \in MessageId, delete(id) PROVE InPlace
  <2>1. messages' = Edited(id, Empty, TRUE)
    BY <1>2 DEF delete, Edited
  <2>2. QED
    BY <2>1, EditedInPlace
<1>3. ASSUME NEW u \in UserId, DeleteUser(u) PROVE InPlace
  BY <1>3, DeleteUserInPlace DEF DeleteUser
<1>4. QED
  BY <1>1, <1>2, <1>3
     DEF Next, vars, tables, BuildMessage, InsertFails, mark_as_read, add_reaction, CleanupFails, Tick

(* A purge takes every expired row and no other.                           *)
THEOREM PurgeExact == Spec => PurgeIsExact
<1> DEFINE Exact == (\E r \in messages : r.id \notin Ids(messages'))
                      => Ids(messages') = Ids(messages) \ Ids(ExpiredRows)
<1>1. StoreInv /\ [Next]_vars => Exact
  <2> SUFFICES ASSUME StoreInv, [Next]_vars PROVE Exact
    OBVIOUS
  <2>1. CASE InPlace
    BY <2>1 DEF InPlace, Ids
  <2>2. CASE \E row \in pending : InsertMessage(row)
    BY <2>2 DEF InsertMessage, Ids
  <2>3. CASE CleanupRuns
    <3>1. messages' = messages \ ExpiredRows /\ ExpiredRows \subseteq messages
      BY <2>3 DEF CleanupRuns, delete_expired, ExpiredRows
    <3>2. \A r, s \in messages : r.id = s.id => r = s
      BY DEF StoreInv, KeysUnique
    <3>3. QED
      BY <3>1, <3>2 DEF Ids
  <2>4. CASE UNCHANGED messages
    BY <2>4 DEF Ids
  <2>5. QED
    BY <2>1, <2>2, <2>3, <2>4, MessageSteps
<1>2. StoreInv /\ [Next]_vars => [Exact]_vars
  BY <1>1
<1>3. QED
  BY <1>2, StoreInvariant, PTL DEF Spec, PurgeIsExact

(* Nothing postpones a message's timer or moves it to another thread.      *)
THEOREM TimerAndThreadKept == Spec => TimerAndThreadFixed
<1> DEFINE Fixed == \A r \in messages, s \in messages' : r.id = s.id =>
                      /\ s.self_destruct_at = r.self_destruct_at
                      /\ s.reply_to_id = r.reply_to_id
                      /\ s.created_at = r.created_at
<1>1. StoreInv /\ [Next]_vars => Fixed
  <2> SUFFICES ASSUME StoreInv, [Next]_vars PROVE Fixed
    OBVIOUS
  <2>1. \A r, s \in messages : r.id = s.id => r = s
    BY DEF StoreInv, KeysUnique
  <2>2. CASE InPlace
    BY <2>1, <2>2 DEF InPlace, SameLinks
  <2>3. CASE \E row \in pending : InsertMessage(row)
    <3>1. PICK row \in pending : messages' = messages \cup {row}
      BY <2>3 DEF InsertMessage
    <3>2. \A r \in messages : r.id # row.id
      BY DEF StoreInv, KeysUnique
    <3>3. QED
      BY <2>1, <3>1, <3>2
  <2>4. CASE CleanupRuns
    BY <2>1, <2>4 DEF CleanupRuns, delete_expired
  <2>5. CASE UNCHANGED messages
    BY <2>1, <2>5
  <2>6. QED
    BY <2>2, <2>3, <2>4, <2>5, MessageSteps
<1>2. StoreInv /\ [Next]_vars => [Fixed]_vars
  BY <1>1
<1>3. QED
  BY <1>2, StoreInvariant, PTL DEF Spec, TimerAndThreadFixed

(* The time of a user's first reading is never overwritten.                *)
THEOREM FirstReadStays == Spec => FirstReadKept
<1> DEFINE Kept == \A r \in receipts, s \in receipts' :
                     r.message_id = s.message_id /\ r.user_id = s.user_id => r = s
<1>1. StoreInv /\ [Next]_vars => Kept
  <2> SUFFICES ASSUME StoreInv, [Next]_vars PROVE Kept
    OBVIOUS
  <2>1. \A r, s \in receipts : r.message_id = s.message_id /\ r.user_id = s.user_id => r = s
    BY DEF StoreInv, KeysUnique
  <2>2. CASE receipts' \subseteq receipts
    BY <2>1, <2>2
  <2>3. ASSUME NEW id \in MessageId, NEW u \in UserId, mark_as_read(id, u) PROVE Kept
    BY <2>1, <2>3 DEF mark_as_read
  <2>4. QED
    BY <2>2, <2>3
       DEF Next, vars, tables, BuildMessage, InsertMessage, InsertFails, update, delete,
           add_reaction, DeleteUser, CleanupRuns, delete_expired, CleanupFails, Tick
<1>2. StoreInv /\ [Next]_vars => [Kept]_vars
  BY <1>1
<1>3. QED
  BY <1>2, StoreInvariant, PTL DEF Spec, FirstReadKept
-----------------------------------------------------------------------------
(* An untimed reply to an expired message.                                 *)

(* Its target is among the rows that would go, and it would stay.          *)
LEMMA StuckIsBlocked == StoreInv /\ Stuck => CleanupBlocked
<1> SUFFICES ASSUME StoreInv, NEW r \in messages, r.self_destruct_at = Null,
                    r.reply_to_id \in Ids(ExpiredRows)
             PROVE  CleanupBlocked
  BY DEF Stuck
<1>1. PICK t \in messages : Expired(t) /\ t.id = r.reply_to_id
  BY DEF Ids, ExpiredRows
<1>2. r \in messages \ ExpiredRows
  BY DEF ExpiredRows, Expired
<1>3. r.reply_to_id # Null
  <2>1. t \in MessageRow
    BY DEF StoreInv, TypeOK
  <2>2. QED
    BY <1>1, <2>1, NullAssumption DEF MessageRow
<1>4. ASSUME NEW s \in messages \ ExpiredRows PROVE s.id # r.reply_to_id
  <2>1. s # t
    BY <1>1, <1>4 DEF ExpiredRows
  <2>2. QED
    BY <1>1, <1>4, <2>1 DEF StoreInv, KeysUnique
<1>5. QED
  BY <1>2, <1>3, <1>4 DEF CleanupBlocked, ReplyTargetsIn, Ids

LEMMA ClockGoesOn == StoreInv /\ [Next]_vars => now \in Nat /\ now' \in Nat /\ now <= now'
<1> SUFFICES ASSUME StoreInv, [Next]_vars PROVE now \in Nat /\ now' \in Nat /\ now <= now'
  OBVIOUS
<1>1. now \in Nat
  BY MaxTimeAssumption DEF StoreInv, TypeOK
<1>2. now' = now \/ now' = now + 1
  BY DEF Next, vars, tables, BuildMessage, InsertMessage, InsertFails, update, delete, mark_as_read,
         add_reaction, DeleteUser, CleanupRuns, CleanupFails, Tick
<1>3. QED
  BY <1>1, <1>2

(* The rows of a step that does not purge keep their links and timers.     *)
LEMMA StuckStep == StoreInv /\ [Next]_vars /\ Stuck => Stuck' /\ Ids(messages) \subseteq Ids(messages')
<1> SUFFICES ASSUME StoreInv, [Next]_vars, Stuck
             PROVE  Stuck' /\ Ids(messages) \subseteq Ids(messages')
  OBVIOUS
<1>1. PICK r \in messages : r.self_destruct_at = Null /\ r.reply_to_id \in Ids(ExpiredRows)
  BY DEF Stuck
<1>2. PICK t \in messages : Expired(t) /\ t.id = r.reply_to_id
  BY <1>1 DEF Ids, ExpiredRows
<1>3. \A q \in messages : \E s \in messages' : SameLinks(q, s)
  <2>1. CASE InPlace
    <3>1. \A q \in messages : \E s \in messages' : s.id = q.id
      BY <2>1 DEF InPlace
    <3>2. \A s \in messages' : \E q \in messages : SameLinks(q, s)
      BY <2>1 DEF InPlace
    <3>3. \A p, q \in messages : p.id = q.id => p = q
      BY DEF StoreInv, KeysUnique
    <3>4. QED
      BY <3>1, <3>2, <3>3 DEF SameLinks
  <2>2. CASE messages \subseteq messages'
    BY <2>2 DEF SameLinks
  <2>3. ~CleanupRuns
    BY StuckIsBlocked DEF CleanupRuns, delete_expired, CleanupBlocked
  <2>4. QED
    BY <2>1, <2>2, <2>3, MessageSteps DEF InsertMessage
<1>4. PICK r1 \in messages' : SameLinks(r, r1)
  BY <1>3
<1>5. PICK t1 \in messages' : SameLinks(t, t1)
  BY <1>3
<1>6. t1.self_destruct_at # Null /\ t1.self_destruct_at < now'
  <2>1. t \in MessageRow
    BY DEF StoreInv, TypeOK
  <2>2. t.self_destruct_at # Null /\ t.self_destruct_at \in Int /\ t.self_destruct_at < now
    BY <1>2, <2>1 DEF Expired, MessageRow
  <2>3. QED
    BY <1>5, <2>2, ClockGoesOn DEF SameLinks
<1>7. Stuck'
  BY <1>1, <1>2, <1>4, <1>5, <1>6 DEF Stuck, Ids, ExpiredRows, Expired, SameLinks
<1>8. QED
  BY <1>3, <1>7 DEF Ids, SameLinks

(* Nothing a user does frees the purge again, and nothing is purged.       *)
THEOREM StuckStops == Spec => PurgeStopsForGood
<1>1. StoreInv /\ [Next]_vars => [Stuck => Stuck' /\ Ids(messages) \subseteq Ids(messages')]_vars
  BY StuckStep
<1>2. QED
  BY <1>1, StoreInvariant, PTL DEF Spec, PurgeStopsForGood

(* From then on every run of the job is refused (MessageCleanupJob::run).  *)
THEOREM BlockedForGood == Spec => [](Stuck => []CleanupBlocked)
<1>1. StoreInv /\ [Next]_vars /\ Stuck => Stuck'
  BY StuckStep
<1>2. StoreInv /\ Stuck => CleanupBlocked
  BY StuckIsBlocked
<1>3. QED
  BY <1>1, <1>2, StoreInvariant, PTL DEF Spec
=============================================================================
