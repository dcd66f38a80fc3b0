------------------------- MODULE ChatBackendProofs --------------------------
(* Proofs about ChatBackend: the hub and the store keep their promises     *)
(* when main.rs puts them together, and what only holds of them together.  *)
EXTENDS ChatBackend, ChatHubOrderProofs

StoreProofs == INSTANCE MessageStoreProofs WITH MessageId <- Texts

-----------------------------------------------------------------------------
(* The parts. *)

LEMMA HubStepOfBackend == [BackendNext]_backendVars => [Next]_vars
<1>1. ASSUME NEW c \in Conn, Select(c) \/ ReadText(c) PROVE Next
  BY <1>1 DEF Next, RecvStep, ReadStep
<1>2. ASSUME NEW t \in Texts, Commit(t) \/ CommitUnreported(t) \/ InsertFails(t) PROVE Next
  BY <1>2 DEF Next, DatabaseStep
<1>3. HubStep => Next
  BY DEF HubStep, Next, RecvStep, ReadStep, DatabaseStep
<1>4. StoreStep => UNCHANGED vars
  BY DEF StoreStep
<1>5. UNCHANGED backendVars => UNCHANGED vars
  BY DEF backendVars
<1>6. QED
  BY <1>1, <1>2, <1>3, <1>4, <1>5 DEF BackendNext, SendMessage, Inserts, InsertRefused, Disconnects

(* The backend runs the hub: no step of the store or of the cleanup job    *)
(* makes recv_task, send_task or the pool do what they would not do alone. *)
THEOREM BackendImplementsHub == BackendSpec => BackendIsHub
<1>1. BackendInit => Init
  BY DEF BackendInit
<1>2. QED
  BY <1>1, HubStepOfBackend, PTL DEF BackendSpec, BackendIsHub, Spec

LEMMA StoreStepOfBackend == [BackendNext]_backendVars => [Store!Next]_(Store!vars)
<1>v. UNCHANGED store => UNCHANGED Store!vars
  BY DEF store, Store!vars
<1>1. ASSUME NEW c \in Conn, NEW content \in Content, NEW reply \in Texts \cup {Null},
             NEW delay \in Delay \cup {Null}, NEW k \in ConversationId,
             SendMessage(c, content, reply, delay, k)
      PROVE  Store!Next
  <2>1. Upcoming(c) \in Texts /\ UserOf[c] \in UserId
    BY <1>1, UserOfAssumption DEF SendMessage, ReadText
  <2>2. Store!BuildMessage(Upcoming(c), UserOf[c], content, reply, delay)
    BY <1>1 DEF SendMessage
  <2>3. QED
    BY <2>1, <2>2 DEF Store!Next
<1>2. ASSUME NEW t \in Texts, Inserts(t) \/ InsertRefused(t) PROVE Store!Next
  <2>1. Store!InsertMessage(message[t]) \/ Store!InsertFails(message[t])
    BY <1>2 DEF Inserts, InsertRefused
  <2>2. message[t] \in pending
    BY <2>1 DEF Store!InsertMessage, Store!InsertFails
  <2>3. QED
    BY <2>1, <2>2 DEF Store!Next
<1>3. ASSUME NEW c \in Conn, Disconnects(c) PROVE Store!Next \/ UNCHANGED store
  <2>1. CASE Store!InsertFails(message[Current(c)])
    <3>1. message[Current(c)] \in pending
      BY <2>1 DEF Store!InsertFails
    <3>2. QED
      BY <2>1, <3>1 DEF Store!Next
  <2>2. CASE UNCHANGED store
    BY <2>2
  <2>3. QED
    BY <1>3, <2>1, <2>2 DEF Disconnects
<1>4. HubStep => UNCHANGED store
  BY DEF HubStep
<1>5. StoreStep => Store!Next
  BY DEF StoreStep, Store!Next
<1>6. UNCHANGED backendVars => UNCHANGED store
  BY DEF backendVars
<1>7. QED
  BY <1>v, <1>1, <1>2, <1>3, <1>4, <1>5, <1>6 DEF BackendNext

(* The backend runs the store: what recv_task does with `create` is what   *)
(* PostgresMessageRepository is written for, abort and lost answer         *)
(* included.                                                               *)
THEOREM BackendImplementsStore == BackendSpec => BackendIsStore
<1>1. BackendInit => Store!Init
  BY DEF BackendInit
<1>2. QED
  BY <1>1, StoreStepOfBackend, PTL DEF BackendSpec, BackendIsStore, Store!Spec

-----------------------------------------------------------------------------
(* What carries over. *)

(* The definitions that the two instances of MessageStore share.           *)
LEMMA SameStore ==
  /\ Store!Spec <=> StoreProofs!Spec
  /\ Store!TypeOK <=> StoreProofs!TypeOK
  /\ Store!ReferentialIntegrity <=> StoreProofs!ReferentialIntegrity
  /\ Store!RepliesAcyclic <=> StoreProofs!RepliesAcyclic
  /\ Store!PurgeIsExact <=> StoreProofs!PurgeIsExact
  /\ Store!PurgeStopsForGood <=> StoreProofs!PurgeStopsForGood
<1> USE DEF
      Store!tables, Store!vars, Store!MessageRow, Store!ReactionRow, Store!ReceiptRow, Store!Ids,
      Store!Expired, Store!ExpiredRows, Store!ReplyTargetsIn, Store!CleanupBlocked, Store!Stuck,
      Store!NewMessage, Store!BuildMessage, Store!InsertAllowed, Store!InsertMessage,
      Store!InsertFails, Store!update, Store!delete, Store!mark_as_read, Store!add_reaction,
      Store!DeleteUser, Store!delete_expired, Store!CleanupRuns, Store!CleanupFails, Store!Tick,
      StoreProofs!tables, StoreProofs!vars, StoreProofs!MessageRow, StoreProofs!ReactionRow,
      StoreProofs!ReceiptRow, StoreProofs!Ids, StoreProofs!Expired, StoreProofs!ExpiredRows,
      StoreProofs!ReplyTargetsIn, StoreProofs!CleanupBlocked, StoreProofs!Stuck,
      StoreProofs!NewMessage, StoreProofs!BuildMessage, StoreProofs!InsertAllowed,
      StoreProofs!InsertMessage, StoreProofs!InsertFails, StoreProofs!update, StoreProofs!delete,
      StoreProofs!mark_as_read, StoreProofs!add_reaction, StoreProofs!DeleteUser,
      StoreProofs!delete_expired, StoreProofs!CleanupRuns, StoreProofs!CleanupFails,
      StoreProofs!Tick
<1>1. Store!Init <=> StoreProofs!Init
  BY DEF Store!Init, StoreProofs!Init
<1>2. Store!vars = StoreProofs!vars
  OBVIOUS
<1>3. Store!Next <=> StoreProofs!Next
  BY DEF Store!Next, StoreProofs!Next
<1>4. Store!Spec <=> StoreProofs!Spec
  BY <1>1, <1>2, <1>3, PTL DEF Store!Spec, StoreProofs!Spec
<1>5. Store!TypeOK <=> StoreProofs!TypeOK
  BY DEF Store!TypeOK, StoreProofs!TypeOK
<1>6. Store!ReferentialIntegrity <=> StoreProofs!ReferentialIntegrity
  BY DEF Store!ReferentialIntegrity, StoreProofs!ReferentialIntegrity
<1>7. Store!RepliesAcyclic <=> StoreProofs!RepliesAcyclic
  BY DEF Store!RepliesAcyclic, StoreProofs!RepliesAcyclic
<1>8. Store!PurgeIsExact <=> StoreProofs!PurgeIsExact
  BY PTL DEF Store!PurgeIsExact, StoreProofs!PurgeIsExact
<1>9. Store!PurgeStopsForGood <=> StoreProofs!PurgeStopsForGood
  BY PTL DEF Store!PurgeStopsForGood, StoreProofs!PurgeStopsForGood
<1>10. QED
  BY <1>4, <1>5, <1>6, <1>7, <1>8, <1>9

(* What is proved of the store alone holds of the tables of the backend,   *)
(* under any traffic of the hub.                                           *)
THEOREM BackendKeepsStore ==
  BackendSpec => /\ []Store!TypeOK
                 /\ []Store!ReferentialIntegrity
                 /\ []Store!RepliesAcyclic
                 /\ Store!PurgeIsExact
                 /\ Store!PurgeStopsForGood
<1>1. BackendSpec => StoreProofs!Spec
  BY BackendImplementsStore, SameStore, PTL DEF BackendIsStore
<1>2. StoreProofs!Spec => []StoreProofs!TypeOK
  BY StoreProofs!StoreTypeCorrect, StoreAssumption
<1>3. StoreProofs!Spec => []StoreProofs!ReferentialIntegrity
  BY StoreProofs!NothingDangles, StoreAssumption
<1>4. StoreProofs!Spec => []StoreProofs!RepliesAcyclic
  BY StoreProofs!ThreadsAcyclic, StoreAssumption
<1>5. StoreProofs!Spec => StoreProofs!PurgeIsExact
  BY StoreProofs!PurgeExact, StoreAssumption
<1>6. StoreProofs!Spec => StoreProofs!PurgeStopsForGood
  BY StoreProofs!StuckStops, StoreAssumption
<1>7. QED
  BY <1>1, <1>2, <1>3, <1>4, <1>5, <1>6, SameStore, PTL

(* What is proved of the hub alone holds while the job purges: order, no   *)
(* gap, no duplicate, nothing broadcast that was not committed.            *)
THEOREM BackendKeepsHub ==
  BackendSpec => /\ [](NothingSkipped /\ PersistedBeforeBroadcast /\ NoDuplicates)
                 /\ [](OrderKept /\ OnlyLastUnbroadcast)
                 /\ HubIsOrderedBroadcast
  BY BackendImplementsHub, DeliveryIsARun, BroadcastIsPersisted, BroadcastOnce, ClientOrderKept,
     OnlyLastIsUnbroadcast, HubImplementsBroadcast, PTL DEF BackendIsHub

(* The invariants of the two parts that the proofs below start from.       *)
Parts == TypeInv /\ FrameInv /\ RunInv /\ Store!TypeOK

LEMMA PartsInvariant == BackendSpec => []Parts
<1>1. Spec => [](TypeInv /\ FrameInv /\ RunInv)
  BY FrameInvariant, TypeInit, TypeStep, RunInit, RunStep, PTL DEF Spec
<1>2. QED
  BY <1>1, BackendImplementsHub, BackendKeepsStore, PTL DEF BackendIsHub, Parts

-----------------------------------------------------------------------------
(***************************************************************************)
(* The coupling.  The hub knows a message by its INSERT, the store by its  *)
(* row; Linked says which states of the two go together.  A row that is    *)
(* missing after its INSERT has committed was purged, and stays expired.   *)
(***************************************************************************)
Issued == {t \in Texts : insert[t] # "none"}
OnItsWay(t) == insert[t] \in {"waiting", "sent"}
Stored(t) == insert[t] \in {"committed", "unreported"}

MessagesNamed ==
    /\ message \in [Texts -> Store!MessageRow \cup {Null}]
    /\ conversation_id \in [Texts -> ConversationId \cup {Null}]
    /\ \A t \in Issued : /\ message[t] \in Store!MessageRow
                         /\ message[t].id = t
                         /\ message[t].sender_id \in UserId

RowsLinked ==
    /\ issued = Issued
    /\ pending = {message[t] : t \in {u \in Issued : OnItsWay(u)}}
    /\ \A r \in messages : \E t \in Issued : r = message[t] /\ Stored(t)
    /\ \A t \in Issued : Stored(t) => message[t] \in messages \/ Gone(t)

Linked == MessagesNamed /\ RowsLinked

LEMMA LinkedInit == BackendInit => Linked
  BY DEF BackendInit, Init, Store!Init, Linked, MessagesNamed, RowsLinked, Issued

(* A message keeps its record once its frame has been read, and an expired *)
(* message stays expired.                                                  *)
LEMMA GoneStays ==
  ASSUME Store!TypeOK, Store!TypeOK', NEW t \in Texts, message[t] \in Store!MessageRow,
         message'[t] = message[t], now <= now', Gone(t)
  PROVE  Gone(t)'
<1>1. now \in Nat /\ now' \in Nat
  BY StoreAssumption DEF Store!TypeOK
<1>2. message[t].self_destruct_at \in Int \cup {Null}
  BY DEF Store!MessageRow
<1>3. QED
  BY <1>1, <1>2, StoreAssumption DEF Gone, Store!Expired

(* A row that MessageStore builds is a row of its type.                    *)
LEMMA BuiltRow ==
  ASSUME Store!TypeOK, NEW t \in Texts, NEW u \in UserId, NEW content \in Content,
         NEW reply \in Texts \cup {Null}, NEW delay \in Delay \cup {Null}
  PROVE  /\ Store!NewMessage(t, u, content, reply, delay) \in Store!MessageRow
         /\ Store!NewMessage(t, u, content, reply, delay).id = t
         /\ Store!NewMessage(t, u, content, reply, delay).sender_id = u
         /\ Store!NewMessage(t, u, content, reply, delay).reply_to_id = reply
<1>1. now \in Nat /\ (delay # Null => now + delay \in Int)
  BY StoreAssumption DEF Store!TypeOK
<1>2. QED
  BY <1>1 DEF Store!NewMessage, Store!MessageRow

(* A step that leaves the tables and the messages of the store alone, and  *)
(* every INSERT in its half of the way.                                    *)
LEMMA SameRows ==
  ASSUME Parts, Parts', Linked, UNCHANGED <<issued, pending, users, messages>>, UNCHANGED naming,
         now <= now',
         \A t \in Texts : /\ insert'[t] # "none" <=> insert[t] # "none"
                          /\ OnItsWay(t)' <=> OnItsWay(t)
                          /\ Stored(t)' <=> Stored(t)
  PROVE  Linked'
<1>1. Issued' = Issued
  BY DEF Issued
<1>2. {u \in Issued : OnItsWay(u)}' = {u \in Issued : OnItsWay(u)}
  BY <1>1 DEF Issued
<1>3. MessagesNamed'
  BY <1>1 DEF Linked, MessagesNamed, naming
<1>4. \A t \in Issued : Gone(t) => Gone(t)'
  BY GoneStays DEF Linked, MessagesNamed, naming, Parts, Issued
<1>5. RowsLinked'
  BY <1>1, <1>2, <1>4 DEF Linked, RowsLinked, naming, Issued
<1>6. QED
  BY <1>3, <1>5 DEF Linked

LEMMA SendLinked ==
  ASSUME Parts, Parts', Linked, NEW c \in Conn, NEW content \in Content,
         NEW reply \in Texts \cup {Null}, NEW delay \in Delay \cup {Null},
         NEW k \in ConversationId, SendMessage(c, content, reply, delay, k)
  PROVE  Linked'
<1>1. PICK t \in Texts : t = Upcoming(c)
  BY DEF SendMessage, ReadText
<1>2. PICK row \in Store!MessageRow :
        row = Store!NewMessage(t, UserOf[c], content, reply, delay)
        /\ row.id = t /\ row.sender_id \in UserId
  <2>1. UserOf[c] \in UserId /\ Store!TypeOK
    BY UserOfAssumption DEF Parts
  <2>2. PICK u \in UserId : u = UserOf[c]
    BY <2>1
  <2>3. /\ Store!NewMessage(t, u, content, reply, delay) \in Store!MessageRow
        /\ Store!NewMessage(t, u, content, reply, delay).id = t
        /\ Store!NewMessage(t, u, content, reply, delay).sender_id = u
    BY <2>1, BuiltRow
  <2>4. QED
    BY <2>2, <2>3
<1>3. /\ t \notin issued /\ issued' = issued \cup {t}
      /\ pending' = pending \cup {row}
      /\ UNCHANGED <<now, users, messages>>
  BY <1>1, <1>2 DEF SendMessage, Store!BuildMessage, Store!tables
<1>4. /\ message' = [message EXCEPT ![t] = row]
      /\ conversation_id' = [conversation_id EXCEPT ![t] = k]
      /\ insert' = [insert EXCEPT ![t] = "waiting"]
  BY <1>1, <1>2 DEF SendMessage, ReadText
<1>5. insert \in [Texts -> {"none", "waiting", "sent", "committed", "unreported", "failed",
                            "abandoned"}]
  BY DEF Parts, TypeInv, TypeOK
<1>6. /\ insert'[t] = "waiting" /\ t \notin Issued
      /\ \A u \in Texts \ {t} : insert'[u] = insert[u]
  BY <1>3, <1>4, <1>5 DEF Linked, RowsLinked
<1>7. Issued' = Issued \cup {t} /\ OnItsWay(t)' /\ ~Stored(t)'
  BY <1>6 DEF Issued, OnItsWay, Stored
<1>8. /\ message'[t] = row
      /\ \A u \in Issued : /\ message'[u] = message[u]
                           /\ OnItsWay(u)' <=> OnItsWay(u)
                           /\ Stored(u)' <=> Stored(u)
  BY <1>4, <1>6 DEF Issued, OnItsWay, Stored, Linked, MessagesNamed
<1>9. MessagesNamed'
  BY <1>2, <1>4, <1>7, <1>8 DEF Linked, MessagesNamed
<1>10. pending' = {message'[u] : u \in {v \in Issued' : OnItsWay(v)'}}
  BY <1>3, <1>7, <1>8 DEF Linked, RowsLinked
<1>11. \A u \in Issued : Gone(u) => Gone(u)'
  BY <1>3, <1>8 DEF Gone, Store!Expired
<1>12. RowsLinked'
  BY <1>3, <1>7, <1>8, <1>10, <1>11 DEF Linked, RowsLinked
<1>13. QED
  BY <1>9, <1>12 DEF Linked

(* An INSERT that ends: it was the only one for its row.                   *)
LEMMA EndsLinked ==
  ASSUME Parts, Parts', Linked, NEW t \in Texts, message[t] \in pending, OnItsWay(t),
         pending' = pending \ {message[t]}, UNCHANGED <<now, issued, users>>, UNCHANGED naming,
         insert'[t] # "none", ~OnItsWay(t)',
         IF Stored(t)' THEN messages' = messages \cup {message[t]} ELSE UNCHANGED messages,
         \A u \in Texts \ {t} : insert'[u] = insert[u]
  PROVE  Linked'
<1>1. t \in Issued /\ Issued' = Issued
  BY DEF Issued, OnItsWay
<1>2. \A u \in Issued : message[u] = message[t] => u = t
  BY <1>1 DEF Linked, MessagesNamed
<1>3. \A u \in Issued \ {t} : (OnItsWay(u)' <=> OnItsWay(u)) /\ (Stored(u)' <=> Stored(u))
  BY DEF Issued, OnItsWay, Stored
<1>4. MessagesNamed'
  BY <1>1 DEF Linked, MessagesNamed, naming
<1>5. pending' = {message[u] : u \in {v \in Issued : OnItsWay(v)'}}
  BY <1>1, <1>2, <1>3 DEF Linked, RowsLinked
<1>6. \A u \in Issued : Gone(u) => Gone(u)'
  BY DEF Gone, Store!Expired, naming
<1>7. ~Stored(t)
  BY DEF Stored, OnItsWay
<1>8. RowsLinked'
  BY <1>1, <1>3, <1>5, <1>6, <1>7 DEF Linked, RowsLinked, naming
<1>9. QED
  BY <1>4, <1>8 DEF Linked

LEMMA LinkedStep == Parts /\ Parts' /\ Linked /\ [BackendNext]_backendVars => Linked'
<1> SUFFICES ASSUME Parts, Parts', Linked, [BackendNext]_backendVars PROVE Linked'
  OBVIOUS
<1>t. /\ insert \in [Texts -> {"none", "waiting", "sent", "committed", "unreported", "failed",
                               "abandoned"}]
      /\ now \in Nat
      /\ \A c \in Conn : recvTask[c] = "creating" => Current(c) \in Texts
  BY StoreAssumption DEF Parts, TypeInv, TypeOK, InHand, Store!TypeOK
<1>1. ASSUME NEW c \in Conn, NEW content \in Content, NEW reply \in Texts \cup {Null},
             NEW delay \in Delay \cup {Null}, NEW k \in ConversationId,
             SendMessage(c, content, reply, delay, k)
      PROVE  Linked'
  BY <1>1, SendLinked
<1>2. ASSUME NEW t \in Texts, Inserts(t) PROVE Linked'
  <2>1. /\ insert[t] = "sent" /\ insert'[t] \in {"committed", "unreported"}
        /\ \A u \in Texts \ {t} : insert'[u] = insert[u]
    BY <1>2, <1>t DEF Inserts, Commit, CommitUnreported
  <2>2. /\ message[t] \in pending /\ pending' = pending \ {message[t]}
        /\ messages' = messages \cup {message[t]} /\ UNCHANGED <<now, issued, users>>
        /\ UNCHANGED naming
    BY <1>2 DEF Inserts, Store!InsertMessage
  <2>3. OnItsWay(t) /\ ~OnItsWay(t)' /\ Stored(t)' /\ insert'[t] # "none"
    BY <2>1 DEF OnItsWay, Stored
  <2>4. QED
    BY <2>1, <2>2, <2>3, EndsLinked
<1>3. ASSUME NEW t \in Texts, InsertRefused(t) PROVE Linked'
  <2>1. /\ insert[t] \in {"waiting", "sent"} /\ insert'[t] = "failed"
        /\ \A u \in Texts \ {t} : insert'[u] = insert[u]
    BY <1>3, <1>t DEF InsertRefused, InsertFails
  <2>2. /\ message[t] \in pending /\ pending' = pending \ {message[t]}
        /\ UNCHANGED <<now, issued, users, messages>> /\ UNCHANGED naming
    BY <1>3 DEF InsertRefused, Store!InsertFails, Store!tables
  <2>3. OnItsWay(t) /\ ~OnItsWay(t)' /\ ~Stored(t)' /\ insert'[t] # "none"
    BY <2>1 DEF OnItsWay, Stored
  <2>4. QED
    BY <2>1, <2>2, <2>3, EndsLinked
<1>4. ASSUME NEW c \in Conn, Disconnects(c) PROVE Linked'
  <2>1. CASE recvTask[c] = "creating" /\ insert[Current(c)] = "waiting"
    <3>0. PICK t \in Texts : t = Current(c)
      BY <1>t, <2>1
    <3>1. /\ insert[t] = "waiting" /\ insert'[t] = "abandoned"
          /\ \A u \in Texts \ {t} : insert'[u] = insert[u]
      BY <1>4, <1>t, <2>1, <3>0 DEF Disconnects, Select
    <3>2. /\ message[t] \in pending /\ pending' = pending \ {message[t]}
          /\ UNCHANGED <<now, issued, users, messages>> /\ UNCHANGED naming
      BY <1>4, <2>1, <3>0 DEF Disconnects, Store!InsertFails, Store!tables
    <3>3. OnItsWay(t) /\ ~OnItsWay(t)' /\ ~Stored(t)' /\ insert'[t] # "none"
      BY <3>1 DEF OnItsWay, Stored
    <3>4. QED
      BY <3>1, <3>2, <3>3, EndsLinked
  <2>2. CASE ~(recvTask[c] = "creating" /\ insert[Current(c)] = "waiting")
    <3>1. UNCHANGED store /\ UNCHANGED naming /\ \A u \in Texts : insert'[u] = insert[u]
      BY <1>4, <2>2 DEF Disconnects, Select
    <3>2. QED
      BY <3>1, <1>t, SameRows DEF store, OnItsWay, Stored
  <2>3. QED
    BY <2>1, <2>2
<1>5. CASE HubStep
  <2>1. UNCHANGED store /\ UNCHANGED naming
    BY <1>5 DEF HubStep
  <2>2. UNCHANGED insert \/ \E t \in Texts : Acquire(t)
    BY <1>5 DEF HubStep, Connect, LinkBreaks, SendStep, ReadPanics, ReadRelay, ReadIgnored,
                ReadClose, ReadFails, CreateSucceeds, CreateFails, ClientSends, Receive,
                ReceiveLagged, Write, WriteFails
  <2>3. \A u \in Texts : /\ insert'[u] # "none" <=> insert[u] # "none"
                         /\ OnItsWay(u)' <=> OnItsWay(u)
                         /\ Stored(u)' <=> Stored(u)
    BY <2>2, <1>t DEF Acquire, OnItsWay, Stored
  <2>4. QED
    BY <2>1, <2>3, <1>t, SameRows DEF store
<1>6. CASE StoreStep
  <2>1. UNCHANGED insert /\ UNCHANGED naming /\ UNCHANGED <<issued, pending>>
    BY <1>6 DEF StoreStep, vars, Store!CleanupRuns, Store!CleanupFails, Store!Tick
  <2>2. CASE Store!CleanupRuns
    <3>1. /\ messages' = messages \ Store!ExpiredRows /\ UNCHANGED <<now, users>>
      BY <2>2 DEF Store!CleanupRuns, Store!delete_expired
    <3>2. \A t \in Texts : Gone(t)' <=> Gone(t)
      BY <2>1, <3>1 DEF Gone, Store!Expired, naming
    <3>3. \A t \in Issued : Stored(t) => message[t] \in messages' \/ Gone(t)
      BY <3>1 DEF Linked, RowsLinked, Gone, Store!ExpiredRows
    <3>4. Issued' = Issued /\ \A t \in Texts : (OnItsWay(t)' <=> OnItsWay(t)) /\ (Stored(t)' <=> Stored(t))
      BY <2>1 DEF Issued, OnItsWay, Stored
    <3>5. MessagesNamed'
      BY <2>1, <3>4 DEF Linked, MessagesNamed, naming
    <3>6. RowsLinked'
      BY <2>1, <3>1, <3>2, <3>3, <3>4 DEF Linked, RowsLinked, naming, Issued, OnItsWay
    <3>7. QED
      BY <3>5, <3>6 DEF Linked
  <2>3. CASE Store!CleanupFails \/ Store!Tick
    <3>1. UNCHANGED <<users, messages>> /\ now <= now'
      BY <2>3, <1>t DEF Store!CleanupFails, Store!Tick, Store!tables
    <3>2. QED
      BY <2>1, <3>1, SameRows DEF OnItsWay, Stored
  <2>4. QED
    BY <1>6, <2>2, <2>3 DEF StoreStep
<1>7. CASE UNCHANGED backendVars
  <2>1. UNCHANGED insert /\ UNCHANGED store /\ UNCHANGED naming
    BY <1>7 DEF backendVars, vars
  <2>2. QED
    BY <2>1, <1>t, SameRows DEF store, OnItsWay, Stored
<1>8. QED
  BY <1>1, <1>2, <1>3, <1>4, <1>5, <1>6, <1>7 DEF BackendNext

LEMMA LinkedInvariant == BackendSpec => [](Parts /\ Linked)
  BY PartsInvariant, LinkedInit, LinkedStep, PTL DEF BackendSpec

(* Type correctness: every row on its way or in the table is the message   *)
(* of the frame whose text is its id (send_message.rs).                    *)
THEOREM BackendTypeCorrect == BackendSpec => []BackendTypeOK
<1>1. Parts /\ Linked => BackendTypeOK
  BY DEF Parts, TypeInv, Linked, MessagesNamed, BackendTypeOK
<1>2. QED
  BY <1>1, LinkedInvariant, PTL

-----------------------------------------------------------------------------
(* What a client has heard was in the log, at the place it was heard from. *)
LEMMA HeardWasLogged ==
  ASSUME Parts, NothingSkipped, NEW c \in Conn, NEW i \in 1..Len(delivered[c])
  PROVE  /\ start[c] \in Nat /\ Len(log) \in Nat /\ Len(delivered[c]) \in Nat
         /\ start[c] + i \in 1..Len(log)
         /\ delivered[c][i] = log[start[c] + i]
         /\ Occurs(delivered[c][i], log)
<1>1. /\ start[c] \in Nat /\ Len(log) \in Nat /\ Len(delivered[c]) \in Nat
      /\ start[c] + Len(delivered[c]) <= Len(log)
  BY LenProperties DEF Parts, TypeInv, TypeOK, NothingSkipped
<1>2. delivered[c][i] = log[start[c] + i]
  BY DEF Parts, RunInv, RunOf
<1>3. QED
  BY <1>1, <1>2 DEF Occurs

(* Whatever falls between the INSERT and the broadcast, a message shown to *)
(* a client is in the table until its own timer has run out.               *)
THEOREM ShownStays == BackendSpec => []ShownUntilExpired
<1>1. ASSUME Parts, Linked, NothingSkipped, PersistedBeforeBroadcast, NEW c \in Conn,
             NEW i \in 1..Len(delivered[c]), NEW t \in Texts, delivered[c][i] = t
      PROVE  message[t] \in messages \/ Gone(t)
  <2>1. Occurs(t, log)
    BY <1>1, HeardWasLogged
  <2>2. insert[t] = "committed"
    BY <1>1, <2>1 DEF PersistedBeforeBroadcast
  <2>3. QED
    BY <1>1, <2>2 DEF Linked, RowsLinked, Issued, Stored
<1>2. Parts /\ Linked /\ NothingSkipped /\ PersistedBeforeBroadcast => ShownUntilExpired
  BY <1>1 DEF ShownUntilExpired
<1>3. QED
  BY <1>2, LinkedInvariant, BackendKeepsHub, PTL

-----------------------------------------------------------------------------
(***************************************************************************)
(* Threads.  A client can reply to what it has heard, and what was heard   *)
(* was in the log: so the target of a reply is in the log when the reply   *)
(* is built, and before the reply when that is broadcast.                  *)
(***************************************************************************)
TargetLogged ==
    \A t \in Issued : ReplyTo(t) # Null => ReplyTo(t) \in Texts /\ Occurs(ReplyTo(t), log)

RepliesAfterTargets ==
    \A t \in Texts : Occurs(t, log) /\ ReplyTo(t) # Null => Before(ReplyTo(t), t, log)

Threaded == TargetLogged /\ RepliesAfterTargets

LEMMA ThreadedInit == BackendInit => Threaded
  BY DEF BackendInit, Init, Threaded, TargetLogged, RepliesAfterTargets, Issued, Occurs

(* A step changes neither the log nor the message of a frame already read, *)
(* or it gives a name to one frame, or it appends one value to the log.    *)
LEMMA ReadNames ==
  ASSUME Parts, Linked, NothingSkipped, NEW c \in Conn, NEW content \in Content,
         NEW reply \in Texts \cup {Null}, NEW delay \in Delay \cup {Null},
         NEW k \in ConversationId, SendMessage(c, content, reply, delay, k)
  PROVE  \E t \in Texts : /\ t \notin Issued /\ Issued' = Issued \cup {t}
                          /\ \A u \in Texts \ {t} : message'[u] = message[u]
                          /\ message'[t].reply_to_id = reply
                          /\ UNCHANGED log
<1>1. PICK t \in Texts : t = Upcoming(c)
  BY DEF SendMessage, ReadText
<1>2. message' = [message EXCEPT ![t] = Store!NewMessage(t, UserOf[c], content, reply, delay)]
  BY <1>1 DEF SendMessage
<1>3. insert' = [insert EXCEPT ![t] = "waiting"] /\ UNCHANGED log
  BY <1>1 DEF SendMessage, ReadText
<1>4. insert \in [Texts -> {"none", "waiting", "sent", "committed", "unreported", "failed",
                            "abandoned"}]
  BY DEF Parts, TypeInv, TypeOK
<1>5. message \in [Texts -> Store!MessageRow \cup {Null}]
  BY DEF Linked, MessagesNamed
<1>6. t \notin Issued
  BY <1>1 DEF SendMessage, Store!BuildMessage, Linked, RowsLinked
<1>7. insert'[t] = "waiting" /\ \A u \in Texts \ {t} : insert'[u] = insert[u]
  BY <1>3, <1>4
<1>8. Issued' = Issued \cup {t}
  BY <1>7 DEF Issued
<1>9. /\ message'[t] = Store!NewMessage(t, UserOf[c], content, reply, delay)
      /\ \A u \in Texts \ {t} : message'[u] = message[u]
  BY <1>2, <1>5
<1>10. message'[t].reply_to_id = reply
  BY <1>9 DEF Store!NewMessage
<1>11. QED
  BY <1>3, <1>6, <1>8, <1>9, <1>10

(* Every other step. *)
LEMMA OthersKeepNames ==
  ASSUME Parts, [BackendNext]_backendVars,
         ~\E c \in Conn, content \in Content, reply \in Texts \cup {Null},
             delay \in Delay \cup {Null}, k \in ConversationId :
            SendMessage(c, content, reply, delay, k)
  PROVE  UNCHANGED naming /\ Issued' = Issued
<1>t. insert \in [Texts -> {"none", "waiting", "sent", "committed", "unreported", "failed",
                            "abandoned"}]
  BY DEF Parts, TypeInv, TypeOK
<1>1. ASSUME NEW t \in Texts, Inserts(t) \/ InsertRefused(t) PROVE UNCHANGED naming /\ Issued' = Issued
  BY <1>1, <1>t DEF Inserts, InsertRefused, Commit, CommitUnreported, InsertFails, Issued
<1>2. ASSUME NEW c \in Conn, Disconnects(c) PROVE UNCHANGED naming /\ Issued' = Issued
  <2>1. \A t \in Texts : insert'[t] # "none" <=> insert[t] # "none"
    BY <1>2 DEF Disconnects, Select
  <2>2. QED
    BY <1>2, <2>1 DEF Disconnects, Issued
<1>3. CASE HubStep
  <2>1. UNCHANGED insert \/ \E t \in Texts : Acquire(t)
    BY <1>3 DEF HubStep, Connect, LinkBreaks, SendStep, ReadPanics, ReadRelay, ReadIgnored,
                ReadClose, ReadFails, CreateSucceeds, CreateFails, ClientSends, Receive,
                ReceiveLagged, Write, WriteFails
  <2>2. \A t \in Texts : insert'[t] # "none" <=> insert[t] # "none"
    BY <1>t, <2>1 DEF Acquire
  <2>3. QED
    BY <1>3, <2>2 DEF HubStep, Issued
<1>4. CASE StoreStep
  BY <1>4 DEF StoreStep, vars, Issued
<1>5. CASE UNCHANGED backendVars
  BY <1>5 DEF backendVars, vars, naming, Issued
<1>6. QED
  BY <1>1, <1>2, <1>3, <1>4, <1>5 DEF BackendNext

(* A broadcast appends a relayed frame, or a text whose row is committed.  *)
LEMMA LogSteps ==
  ASSUME Parts, [BackendNext]_backendVars
  PROVE  \/ UNCHANGED log
         \/ \E v \in Texts \cup Relays : log' = Append(log, v) /\ (v \in Texts => v \in Issued)
<1>1. ASSUME NEW c \in Conn, CreateSucceeds(c)
      PROVE  \E v \in Texts \cup Relays : log' = Append(log, v) /\ (v \in Texts => v \in Issued)
  BY <1>1 DEF CreateSucceeds, Publish, Parts, TypeInv, InHand, Issued
<1>2. ASSUME NEW c \in Conn, ReadRelay(c)
      PROVE  \E v \in Texts \cup Relays : log' = Append(log, v) /\ (v \in Texts => v \in Issued)
  BY <1>2, FramesAssumption DEF ReadRelay, Publish
<1>3. [Next]_vars
  BY HubStepOfBackend
<1>4. QED
  BY <1>1, <1>2, <1>3
     DEF Next, vars, hubVars, RecvStep, ReadStep, SendStep, DatabaseStep, Connect, LinkBreaks,
         ClientSends, Select, ReadText, ReadPanics, ReadIgnored, ReadClose, ReadFails,
         CreateFails, Acquire, InsertFails, Commit, CommitUnreported, Receive, ReceiveLagged,
         Write, WriteFails

LEMMA AppendBefore ==
  ASSUME NEW S, NEW s \in Seq(S), NEW e \in S, NEW x, NEW y,
         Before(x, y, s) \/ (y = e /\ Occurs(x, s))
  PROVE  Before(x, y, Append(s, e))
<1>1. /\ Len(s) \in Nat /\ Len(Append(s, e)) = Len(s) + 1
      /\ \A i \in 1..Len(s) : Append(s, e)[i] = s[i]
      /\ Append(s, e)[Len(s) + 1] = e
  BY AppendProperties, LenProperties
<1>2. CASE Before(x, y, s)
  <2>1. PICK i \in 1..Len(s), j \in 1..Len(s) : i < j /\ s[i] = x /\ s[j] = y
    BY <1>2 DEF Before
  <2>2. /\ i \in 1..Len(Append(s, e)) /\ j \in 1..Len(Append(s, e))
        /\ Append(s, e)[i] = x /\ Append(s, e)[j] = y
    BY <1>1, <2>1
  <2>3. QED
    BY <2>1, <2>2 DEF Before
<1>3. CASE y = e /\ Occurs(x, s)
  <2>1. PICK i \in 1..Len(s) : s[i] = x
    BY <1>3 DEF Occurs
  <2>2. /\ i \in 1..Len(Append(s, e)) /\ Len(s) + 1 \in 1..Len(Append(s, e)) /\ i < Len(s) + 1
        /\ Append(s, e)[i] = x /\ Append(s, e)[Len(s) + 1] = y
    BY <1>1, <1>3, <2>1
  <2>3. QED
    BY <2>2 DEF Before
<1>4. QED
  BY <1>2, <1>3

LEMMA ThreadedStep ==
  Parts /\ Linked /\ NothingSkipped /\ Threaded /\ [BackendNext]_backendVars => Threaded'
<1> SUFFICES ASSUME Parts, Linked, NothingSkipped, Threaded, [BackendNext]_backendVars
             PROVE  Threaded'
  OBVIOUS
<1>t. log \in Seq(Texts \cup Relays)
  BY DEF Parts, TypeInv, TypeOK
<1>1. ASSUME NEW c \in Conn, NEW content \in Content, NEW reply \in Texts \cup {Null},
             NEW delay \in Delay \cup {Null}, NEW k \in ConversationId,
             SendMessage(c, content, reply, delay, k)
      PROVE  Threaded'
  <2>1. PICK t \in Texts : /\ t \notin Issued /\ Issued' = Issued \cup {t}
                           /\ \A u \in Texts \ {t} : message'[u] = message[u]
                           /\ message'[t].reply_to_id = reply
                           /\ UNCHANGED log
    BY <1>1, ReadNames
  <2>2. reply # Null => reply \in Texts /\ Occurs(reply, log)
    <3>1. ASSUME reply # Null PROVE Occurs(reply, log)
      <4>1. PICK d \in Conn : Occurs(reply, delivered[d])
        BY <1>1, <3>1 DEF SendMessage, Known
      <4>2. PICK i \in 1..Len(delivered[d]) : delivered[d][i] = reply
        BY <4>1 DEF Occurs
      <4>3. QED
        BY <4>2, HeardWasLogged
    <3>2. QED
      BY <3>1
  <2>3. \A u \in Issued : ReplyTo(u)' = ReplyTo(u)
    BY <2>1 DEF ReplyTo, Issued
  <2>4. TargetLogged'
    BY <2>1, <2>2, <2>3 DEF Threaded, TargetLogged, ReplyTo
  <2>5. \A u \in Texts : Occurs(u, log) => u \in Issued
    BY DEF Parts, FrameInv, LoggedOnce, Issued
  <2>6. RepliesAfterTargets'
    BY <2>1, <2>3, <2>5 DEF Threaded, RepliesAfterTargets
  <2>7. QED
    BY <2>4, <2>6 DEF Threaded
<1>2. ASSUME ~\E c \in Conn, content \in Content, reply \in Texts \cup {Null},
                delay \in Delay \cup {Null}, k \in ConversationId :
               SendMessage(c, content, reply, delay, k)
      PROVE  Threaded'
  <2>1. Issued' = Issued /\ Issued \subseteq Texts /\ \A u \in Texts : ReplyTo(u)' = ReplyTo(u)
    <3>1. UNCHANGED message /\ Issued' = Issued
      BY <1>2, OthersKeepNames DEF naming
    <3>2. QED
      BY <3>1 DEF ReplyTo, Issued
  <2>2. CASE UNCHANGED log
    BY <2>1, <2>2 DEF Threaded, TargetLogged, RepliesAfterTargets
  <2>3. ASSUME NEW v \in Texts \cup Relays, log' = Append(log, v), v \in Texts => v \in Issued
        PROVE  Threaded'
    <3>1. \A x : Occurs(x, log') <=> Occurs(x, log) \/ x = v
      BY <1>t, <2>3, OccursAppend
    <3>2. TargetLogged'
      BY <2>1, <3>1 DEF Threaded, TargetLogged
    <3>3. ASSUME NEW u \in Texts, Occurs(u, log'), ReplyTo(u) # Null
          PROVE  Before(ReplyTo(u), u, log')
      <4>1. Before(ReplyTo(u), u, log) \/ (u = v /\ Occurs(ReplyTo(u), log))
        BY <2>3, <3>1, <3>3 DEF Threaded, TargetLogged, RepliesAfterTargets
      <4>2. QED
        BY <1>t, <2>3, <4>1, AppendBefore
    <3>4. RepliesAfterTargets'
      BY <2>1, <3>3 DEF RepliesAfterTargets
    <3>5. QED
      BY <3>2, <3>4 DEF Threaded
  <2>4. QED
    BY <2>2, <2>3, LogSteps
<1>3. QED
  BY <1>1, <1>2

LEMMA ThreadedInvariant == BackendSpec => [](Parts /\ Linked /\ NothingSkipped /\ Threaded)
  BY LinkedInvariant, BackendKeepsHub, ThreadedInit, ThreadedStep, PTL DEF BackendSpec

(* Every client hears a thread from its beginning, as far as it was        *)
(* connected when that was broadcast.                                      *)
THEOREM ThreadsHeardInOrder == BackendSpec => []ThreadsInOrder
<1>1. ASSUME Parts, NothingSkipped, Threaded, NEW c \in Conn, NEW i \in 1..Len(delivered[c]),
             NEW t \in Texts, delivered[c][i] = t, ReplyTo(t) # Null
      PROVE  Occurs(ReplyTo(t), SubSeq(log, 1, start[c])) \/ Before(ReplyTo(t), t, delivered[c])
  <2>1. /\ start[c] \in Nat /\ Len(log) \in Nat /\ Len(delivered[c]) \in Nat
        /\ start[c] + i \in 1..Len(log)
        /\ Occurs(t, log) /\ log[start[c] + i] = t
    BY <1>1, HeardWasLogged
  <2>2. PICK k \in 1..Len(log), j \in 1..Len(log) : k < j /\ log[k] = ReplyTo(t) /\ log[j] = t
    BY <1>1, <2>1 DEF Threaded, RepliesAfterTargets, Before
  <2>3. j = start[c] + i
    BY <1>1, <2>1, <2>2 DEF Parts, FrameInv, LoggedOnce, Distinct
  <2>4. CASE k <= start[c]
    <3>1. log \in Seq(Texts \cup Relays) /\ start[c] <= Len(log)
      BY <1>1, <2>1 DEF Parts, TypeInv, TypeOK
    <3>2. /\ Len(SubSeq(log, 1, start[c])) = start[c]
          /\ \A m \in 1..start[c] : SubSeq(log, 1, start[c])[m] = log[m]
      BY <2>1, <3>1, SubSeqProperties
    <3>3. QED
      BY <2>1, <2>2, <2>4, <3>2 DEF Occurs
  <2>5. CASE k > start[c]
    <3>1. k - start[c] \in 1..Len(delivered[c]) /\ k - start[c] < i
      BY <2>1, <2>2, <2>3, <2>5
    <3>2. delivered[c][k - start[c]] = log[start[c] + (k - start[c])]
      BY <1>1, <3>1, HeardWasLogged
    <3>3. delivered[c][k - start[c]] = ReplyTo(t)
      BY <2>1, <2>2, <3>2
    <3>4. QED
      BY <1>1, <3>1, <3>3 DEF Before
  <2>6. QED
    BY <2>1, <2>4, <2>5
<1>2. Parts /\ NothingSkipped /\ Threaded => ThreadsInOrder
  BY <1>1 DEF ThreadsInOrder
<1>3. QED
  BY <1>2, ThreadedInvariant, PTL

(* The parent of a user's reply is in the table when `create` gets to its  *)
(* INSERT, unless the parent's timer ran out first.                        *)
THEOREM RefusalHasACause == BackendSpec => []RefusedOnlyForCause
<1>1. ASSUME Linked, Threaded, PersistedBeforeBroadcast, NEW t \in Texts,
             insert[t] \in {"waiting", "sent"}, ~Store!InsertAllowed(message[t]),
             message[t].sender_id \in users
      PROVE  ReplyTo(t) # Null /\ Gone(ReplyTo(t))
  <2>1. t \in Issued
    BY <1>1 DEF Issued
  <2>2. ReplyTo(t) # Null /\ ReplyTo(t) \notin Store!Ids(messages)
    BY <1>1, <2>1 DEF Store!InsertAllowed, ReplyTo
  <2>3. PICK u \in Texts : u = ReplyTo(t) /\ insert[u] = "committed"
    BY <1>1, <2>1, <2>2 DEF Threaded, TargetLogged, PersistedBeforeBroadcast
  <2>4. u \in Issued /\ Stored(u) /\ message[u].id = u
    BY <1>1, <2>3 DEF Issued, Stored, Linked, MessagesNamed
  <2>5. message[u] \notin messages
    BY <2>2, <2>3, <2>4 DEF Store!Ids
  <2>6. QED
    BY <1>1, <2>2, <2>3, <2>4, <2>5 DEF Linked, RowsLinked
<1>2. Linked /\ Threaded /\ PersistedBeforeBroadcast => RefusedOnlyForCause
  BY <1>1 DEF RefusedOnlyForCause
<1>3. QED
  BY <1>2, ThreadedInvariant, BackendKeepsHub, PTL

-----------------------------------------------------------------------------
(* A row is stored under a conversation that exists, for a user.           *)
Filed ==
    \A t \in Texts :
      Stored(t) => conversation_id[t] \in Conversations /\ message[t].sender_id \in users

LEMMA FiledInit == BackendInit => Filed
  BY DEF BackendInit, Init, Filed, Stored

LEMMA FiledStep ==
  Parts /\ Linked /\ Filed /\ [BackendNext]_backendVars => Filed'
<1> SUFFICES ASSUME Parts, Linked, Filed, [BackendNext]_backendVars
             PROVE  Filed'
  OBVIOUS
<1>t. /\ insert \in [Texts -> {"none", "waiting", "sent", "committed", "unreported", "failed",
                               "abandoned"}]
      /\ conversation_id \in [Texts -> ConversationId \cup {Null}]
      /\ message \in [Texts -> Store!MessageRow \cup {Null}]
  BY DEF Parts, TypeInv, TypeOK, Linked, MessagesNamed
<1>1. ASSUME UNCHANGED naming, UNCHANGED users, \A t \in Texts : Stored(t)' => Stored(t)
      PROVE  Filed'
  BY <1>1 DEF Filed, naming
<1>2. ASSUME NEW c \in Conn, NEW content \in Content, NEW reply \in Texts \cup {Null},
             NEW delay \in Delay \cup {Null}, NEW k \in ConversationId,
             SendMessage(c, content, reply, delay, k)
      PROVE  Filed'
  <2>1. PICK t \in Texts : t = Upcoming(c)
    BY <1>2 DEF SendMessage, ReadText
  <2>2. /\ insert' = [insert EXCEPT ![t] = "waiting"]
        /\ conversation_id' = [conversation_id EXCEPT ![t] = k]
    BY <1>2, <2>1 DEF SendMessage, ReadText
  <2>3. /\ insert'[t] = "waiting"
        /\ \A u \in Texts \ {t} : insert'[u] = insert[u] /\ conversation_id'[u] = conversation_id[u]
    BY <1>t, <2>2
  <2>4. UNCHANGED users /\ \A u \in Texts \ {t} : message'[u] = message[u]
    BY <1>2, <1>t, <2>1 DEF SendMessage, Store!BuildMessage, Store!tables
  <2>5. QED
    BY <2>3, <2>4 DEF Filed, Stored
<1>3. ASSUME NEW t \in Texts, Inserts(t) PROVE Filed'
  <2>1. /\ conversation_id[t] \in Conversations /\ UNCHANGED naming
        /\ \A u \in Texts \ {t} : insert'[u] = insert[u]
        /\ message[t].sender_id \in users /\ UNCHANGED users
    BY <1>3, <1>t DEF Inserts, Commit, CommitUnreported, Store!InsertMessage, Store!InsertAllowed
  <2>2. QED
    BY <2>1 DEF Filed, Stored, naming
<1>4. ASSUME NEW t \in Texts, InsertRefused(t) PROVE Filed'
  BY <1>1, <1>4, <1>t DEF InsertRefused, InsertFails, Stored, Store!InsertFails, Store!tables
<1>5. ASSUME NEW c \in Conn, Disconnects(c) PROVE Filed'
  <2>1. \A t \in Texts : Stored(t)' => Stored(t)
    BY <1>5 DEF Disconnects, Select, Stored
  <2>2. UNCHANGED users
    BY <1>5 DEF Disconnects, Store!InsertFails, Store!tables, store
  <2>3. QED
    BY <1>1, <1>5, <2>1, <2>2 DEF Disconnects
<1>6. CASE HubStep
  <2>1. UNCHANGED insert \/ \E t \in Texts : Acquire(t)
    BY <1>6 DEF HubStep, Connect, LinkBreaks, SendStep, ReadPanics, ReadRelay, ReadIgnored,
                ReadClose, ReadFails, CreateSucceeds, CreateFails, ClientSends, Receive,
                ReceiveLagged, Write, WriteFails
  <2>2. \A t \in Texts : Stored(t)' => Stored(t)
    BY <1>t, <2>1 DEF Acquire, Stored
  <2>3. QED
    BY <1>1, <1>6, <2>2 DEF HubStep, store
<1>7. CASE StoreStep \/ UNCHANGED backendVars
  <2>1. UNCHANGED naming /\ UNCHANGED insert /\ UNCHANGED users
    BY <1>7 DEF StoreStep, backendVars, vars, store, Store!CleanupRuns, Store!delete_expired,
                Store!CleanupFails, Store!Tick, Store!tables
  <2>2. QED
    BY <1>1, <2>1 DEF Stored
<1>8. QED
  BY <1>2, <1>3, <1>4, <1>5, <1>6, <1>7 DEF BackendNext

LEMMA FiledInvariant == BackendSpec => [](Parts /\ Linked /\ Filed)
  BY LinkedInvariant, FiledInit, FiledStep, PTL DEF BackendSpec

(* No code of the program writes the table conversations.  As long as      *)
(* nobody else does, the chat is silent: no message is ever stored, and so *)
(* none is broadcast, whatever the clients send (send_message.rs, and the  *)
(* foreign key of messages.conversation_id).                               *)
THEOREM NothingWithoutConversation ==
  ASSUME Conversations = {}
  PROVE  BackendSpec => [](table = <<>> /\ messages = {} /\ \A t \in Texts : ~Occurs(t, log))
<1>1. ASSUME Parts, Linked, Filed
      PROVE  table = <<>> /\ messages = {} /\ \A t \in Texts : ~Occurs(t, log)
  <2>1. \A t \in Texts : ~Stored(t)
    BY <1>1 DEF Filed
  <2>2. messages = {}
    BY <1>1, <2>1 DEF Linked, RowsLinked, Issued
  <2>3. \A t \in Texts : ~Occurs(t, log) /\ ~Occurs(t, table)
    BY <1>1, <2>1 DEF Parts, FrameInv, LoggedOnce, StoredOnce, Stored
  <2>4. table = <<>>
    <3>1. table \in Seq(Texts) /\ \A i \in 1..Len(table) : table[i] \in Texts
      BY <1>1, ElementOfSeq DEF Parts, TypeInv, TypeOK
    <3>2. Len(table) \in Nat /\ ~\E i \in 1..Len(table) : TRUE
      BY <2>3, <3>1, LenProperties DEF Occurs
    <3>3. Len(table) = 0
      BY <3>2
    <3>4. QED
      BY <3>1, <3>3, EmptySeq
  <2>5. QED
    BY <2>2, <2>3, <2>4
<1>2. QED
  BY <1>1, FiledInvariant, PTL

(* A message whose sender is no user comes to nothing.                     *)
Unheard ==
    \A t \in Texts : message[t] # Null /\ message[t].sender_id \notin users =>
                      ~Occurs(t, table) /\ ~Occurs(t, log)

(* The socket takes any signed token.  What is sent with a token whose     *)
(* subject is no user, the nil UUID that chat_ws.rs puts for one that is   *)
(* no UUID among them, is neither stored nor broadcast, whoever else is    *)
(* connected (the foreign key of messages.sender_id).                      *)
THEOREM StrangersUnheard == BackendSpec => []Unheard
<1>1. Parts /\ Filed => Unheard
  BY DEF Filed, Unheard, Parts, FrameInv, LoggedOnce, StoredOnce, Stored
<1>2. QED
  BY <1>1, FiledInvariant, PTL
=============================================================================
