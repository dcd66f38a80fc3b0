------------------------ MODULE ChatHubOrderProofs ------------------------
(* Proofs about ChatHub that need what a connection is doing: the order of *)
(* a client's frames, which of them may lack their broadcast, and that the *)
(* hub implements OrderedBroadcast.                                        *)
EXTENDS ChatHubProofs

(***************************************************************************)
(* A connection that has not begun has read nothing; one that has ended    *)
(* has no task left.                                                       *)
(***************************************************************************)
LifeInv ==
    \A c \in Conn :
      /\ conn[c] = "new" => recvTask[c] = "none" /\ read[c] = 0
      /\ conn[c] = "closed" => recvTask[c] = "done" /\ sendTask[c] = "done"

(* An INSERT that may still commit, or a row whose broadcast is still due, *)
(* belongs to the last frame its recv_task took; and recv_task is waiting  *)
(* for it, or has ended.                                                   *)
Unfinished(t) == insert[t] \in {"waiting", "sent"} \/ (insert[t] = "committed" /\ ~Occurs(t, log))

LastOnly ==
    \A c \in Conn : \A i \in 1..read[c] :
      sent[c][i] \in Texts /\ Unfinished(sent[c][i]) => i = read[c] /\ recvTask[c] # "reading"

LEMMA LifeInit == Init => LifeInv
  BY DEF Init, LifeInv

LEMMA LifeStep == TypeInv /\ LifeInv /\ [Next]_vars => LifeInv'
<1> SUFFICES ASSUME TypeInv, LifeInv, [Next]_vars PROVE LifeInv'
  OBVIOUS
<1>t. /\ conn \in [Conn -> {"new", "open", "closed"}] /\ read \in [Conn -> Nat]
      /\ recvTask \in [Conn -> {"none", "reading", "creating", "done"}]
      /\ sendTask \in [Conn -> {"none", "receiving", "sending", "done"}]
  BY DEF TypeInv, TypeOK
<1>1. ASSUME NEW c \in Conn, Connect(c) \/ Select(c) PROVE LifeInv'
  BY <1>1, <1>t DEF Connect, Select, LifeInv
<1>2. ASSUME NEW c \in Conn, Reads(c), UNCHANGED <<conn, sendTask>>,
             \A d \in Conn \ {c} : recvTask'[d] = recvTask[d]
      PROVE  LifeInv'
  <2>1. recvTask[c] = "reading" /\ \A d \in Conn \ {c} : read'[d] = read[d]
    BY <1>2, ReadsOne
  <2>2. QED
    BY <2>1, <1>2 DEF LifeInv
<1>3. ASSUME NEW c \in Conn, ReadStep(c) PROVE LifeInv'
  <2>1. CASE ReadFails(c)
    BY <2>1, <1>t DEF ReadFails, LifeInv
  <2>2. CASE ReadText(c) \/ ReadPanics(c) \/ ReadRelay(c) \/ ReadIgnored(c) \/ ReadClose(c)
    BY <2>2, <1>2, <1>t DEF ReadText, ReadPanics, ReadRelay, ReadIgnored, ReadClose
  <2>3. QED
    BY <1>3, <2>1, <2>2 DEF ReadStep
<1>4. ASSUME NEW c \in Conn, CreateSucceeds(c) \/ CreateFails(c) PROVE LifeInv'
  BY <1>4, <1>t DEF CreateSucceeds, CreateFails, LifeInv
<1>5. ASSUME NEW c \in Conn, SendStep(c) PROVE LifeInv'
  BY <1>5, <1>t DEF SendStep, Receive, ReceiveLagged, Write, WriteFails, LifeInv
<1>6. CASE UNCHANGED <<conn, read, recvTask, sendTask>>
  BY <1>6 DEF LifeInv
<1>7. QED
  BY <1>1, <1>3, <1>4, <1>5, <1>6
     DEF Next, vars, hubVars, RecvStep, DatabaseStep, LinkBreaks, ClientSends, Acquire,
         InsertFails, Commit, CommitUnreported

-----------------------------------------------------------------------------
(* The refinement. *)
LEMMA AbstractInit == Init => OB!Init
  BY DEF Init, OB!Init, Membership

LEMMA AbstractStep ==
  TypeInv /\ RunInv /\ FrameInv /\ [Next]_vars => [OB!Next]_(OB!vars)
<1> SUFFICES ASSUME TypeInv, RunInv, FrameInv, [Next]_vars PROVE [OB!Next]_(OB!vars)
  OBVIOUS
<1>t. /\ conn \in [Conn -> {"new", "open", "closed"}]
      /\ sendTask \in [Conn -> {"none", "receiving", "sending", "done"}]
      /\ delivered \in [Conn -> Seq(Texts \cup Relays)]
      /\ \A c \in Conn : start[c] \in Nat /\ Len(delivered[c]) \in Nat /\ pos[c] \in Nat
      /\ \A c \in Conn : pos[c] <= Len(log) /\ Len(log) \in Nat
      /\ \A c \in Conn : recvTask[c] = "creating" => Current(c) \in Texts
  BY LenProperties DEF TypeInv, TypeOK, InHand
<1>1. ASSUME NEW c \in Conn, Connect(c) PROVE OB!Join(c)
  <2>1. Membership[c] = "outside"
    BY <1>1 DEF Connect, RunInv, RunOf, Membership
  <2>2. Membership' = [Membership EXCEPT ![c] = "member"]
    BY <1>1, <1>t DEF Connect, Membership
  <2>3. QED
    BY <1>1, <2>1, <2>2 DEF Connect, OB!Join
<1>2. ASSUME NEW v \in Texts \cup Relays, Publish(v), ~Occurs(v, log),
             UNCHANGED <<sendTask, start, delivered>>
      PROVE  OB!Publish(v)
  BY <1>2 DEF Publish, OB!Publish, Membership, Occurs
<1>3. ASSUME NEW c \in Conn, ReadRelay(c) PROVE \E v \in Texts \cup Relays : OB!Publish(v)
  <2>1. /\ Reads(c) /\ Upcoming(c) \in Relays /\ Publish(Upcoming(c))
        /\ UNCHANGED <<sendTask, start, delivered>>
    BY <1>3 DEF ReadRelay
  <2>2. ~Occurs(Upcoming(c), log)
    BY <2>1, StepAdvances, TakenNow DEF FrameInv, TakenFirst, Occurs, Frames
  <2>3. QED
    BY <2>1, <2>2, <1>2
<1>4. ASSUME NEW c \in Conn, CreateSucceeds(c) PROVE \E v \in Texts \cup Relays : OB!Publish(v)
  <2>1. /\ Current(c) \in Texts /\ Publish(Current(c)) /\ ~Occurs(Current(c), log)
        /\ UNCHANGED <<sendTask, start, delivered>>
    BY <1>4, <1>t DEF CreateSucceeds, FrameInv, LoggedOnce
  <2>2. QED
    BY <2>1, <1>2
<1>5. ASSUME NEW c \in Conn, Write(c) PROVE OB!Hear(c)
  <2>1. /\ Membership[c] = "member" /\ pos[c] = start[c] + Len(delivered[c]) + 1
        /\ delivered' = [delivered EXCEPT ![c] = Append(@, log[pos[c]])]
        /\ UNCHANGED <<log, start>>
    BY <1>5 DEF Write, RunInv, RunOf, Membership
  <2>2. Membership' = Membership
    BY <1>5, <1>t DEF Write, Membership
  <2>3. QED
    BY <2>1, <2>2, <1>t DEF OB!Hear
<1>6. ASSUME NEW c \in Conn, sendTask' = [sendTask EXCEPT ![c] = "done"],
             sendTask[c] \in {"receiving", "sending"}, UNCHANGED <<log, start, delivered>>
      PROVE  OB!Leave(c)
  BY <1>6, <1>t DEF OB!Leave, Membership
<1>7. ASSUME NEW c \in Conn, ReceiveLagged(c) \/ WriteFails(c) PROVE OB!Leave(c)
  BY <1>7, <1>6 DEF ReceiveLagged, WriteFails
<1>8. ASSUME NEW c \in Conn, Select(c) PROVE OB!Leave(c) \/ UNCHANGED OB!vars
  <2>1. /\ sendTask' = [sendTask EXCEPT ![c] = "done"] /\ UNCHANGED <<log, start, delivered>>
        /\ sendTask[c] # "none"
    BY <1>8 DEF Select, RunInv, RunOf
  <2>2. CASE sendTask[c] = "done"
    BY <2>1, <2>2, <1>t DEF OB!vars, Membership
  <2>3. CASE sendTask[c] \in {"receiving", "sending"}
    BY <2>1, <2>3, <1>6
  <2>4. QED
    BY <2>1, <2>2, <2>3, <1>t
<1>9. ASSUME NEW c \in Conn, Receive(c) PROVE UNCHANGED OB!vars
  BY <1>9, <1>t DEF Receive, OB!vars, Membership
<1>10. CASE UNCHANGED <<log, sendTask, start, delivered>>
  BY <1>10 DEF OB!vars, Membership
<1>11. QED
  BY <1>1, <1>3, <1>4, <1>5, <1>7, <1>8, <1>9, <1>10
     DEF OB!Next, Next, vars, hubVars, RecvStep, ReadStep, SendStep, DatabaseStep, LinkBreaks,
         ClientSends, ReadText, ReadPanics, ReadIgnored, ReadClose, ReadFails, CreateFails,
         Acquire, InsertFails, Commit, CommitUnreported

(* The hub implements OrderedBroadcast: nobody stays subscribed and misses *)
(* a value, hears one twice or hears two in another order.                 *)
THEOREM HubImplementsBroadcast == Spec => HubIsOrderedBroadcast
<1>1. Spec => [](TypeInv /\ RunInv /\ FrameInv)
  BY FrameInvariant, TypeInit, TypeStep, RunInit, RunStep, PTL DEF Spec
<1>2. QED
  BY <1>1, AbstractInit, AbstractStep, PTL DEF Spec, HubIsOrderedBroadcast, OB!Spec

-----------------------------------------------------------------------------
(* Who may still be unfinished. *)
LEMMA LastOnlyInit == Init => LastOnly
  BY DEF Init, LastOnly

LEMMA LastOnlyStep ==
  TypeInv /\ FrameInv /\ LifeInv /\ LastOnly /\ [Next]_vars => LastOnly'
<1> SUFFICES ASSUME TypeInv, FrameInv, LifeInv, LastOnly, [Next]_vars PROVE LastOnly'
  OBVIOUS
<1>t. /\ insert \in [Texts -> {"none", "waiting", "sent", "committed", "unreported", "failed",
                               "abandoned"}]
      /\ recvTask \in [Conn -> {"none", "reading", "creating", "done"}]
      /\ log \in Seq(Texts \cup Relays)
      /\ \A c \in Conn : Len(sent[c]) \in Nat /\ read[c] \in Nat /\ read[c] <= Len(sent[c])
      /\ \A c \in Conn : recvTask[c] = "creating" =>
           read[c] \in 1..Len(sent[c]) /\ Current(c) \in Texts
  BY LenProperties DEF TypeInv, TypeOK, InHand
<1>a. Advances
  BY StepAdvances
(* a step in which nothing becomes unfinished and recv_task reads nothing *)
<1>1. ASSUME UNCHANGED read,
             \A t \in Texts : Unfinished(t)' => Unfinished(t),
             \A c \in Conn : recvTask'[c] = "reading" =>
               \/ recvTask[c] = "reading" \/ read[c] = 0
               \/ ~(sent[c][read[c]] \in Texts /\ Unfinished(sent[c][read[c]])')
      PROVE  LastOnly'
  <2> SUFFICES ASSUME NEW c \in Conn, NEW i \in 1..read[c], NEW t \in Texts, sent'[c][i] = t,
                      Unfinished(t)'
               PROVE  i = read[c] /\ recvTask'[c] # "reading"
    BY <1>1 DEF LastOnly, Unfinished
  <2>1. sent[c][i] = t /\ read[c] # 0
    BY <1>t, <1>a DEF Advances
  <2>2. Unfinished(t)
    BY <1>1
  <2>3. i = read[c] /\ recvTask[c] # "reading"
    BY <2>1, <2>2 DEF LastOnly
  <2>4. QED
    BY <1>1, <2>1, <2>3 DEF Unfinished
(* a step in which recv_task takes a frame: only that one may become unfinished *)
<1>2. ASSUME NEW c \in Conn, Reads(c), Upcoming(c) \in Frames \cup {Close}, UNCHANGED sent,
             \A t \in Texts : Unfinished(t)' => Unfinished(t) \/ t = Upcoming(c),
             recvTask'[c] = "reading" =>
               \A t \in Texts : t = Upcoming(c) => ~Unfinished(t)',
             \A d \in Conn \ {c} : recvTask'[d] = recvTask[d]
      PROVE  LastOnly'
  <2>1. /\ recvTask[c] = "reading" /\ read'[c] = read[c] + 1 /\ read'[c] \in 1..Len(sent[c])
        /\ \A d \in Conn \ {c} : read'[d] = read[d]
    BY <1>2, ReadsOne
  <2> SUFFICES ASSUME NEW d \in Conn, NEW i \in 1..read'[d], NEW t \in Texts, sent[d][i] = t,
                      Unfinished(t)'
               PROVE  i = read'[d] /\ recvTask'[d] # "reading"
    BY <1>2 DEF LastOnly, Unfinished
  <2>2. i \in 1..Len(sent[d])
    BY <2>1, <1>t
  <2>3. t = Upcoming(c) => d = c /\ i = read'[c]
    <3>1. sent[c][read'[c]] = Upcoming(c)
      BY <2>1 DEF Upcoming
    <3>2. QED
      BY <2>1, <2>2, <3>1 DEF FrameInv, SentOnce, Frames
  <2>4. CASE d = c /\ i = read'[c]
    BY <2>1, <2>4, <1>2 DEF Upcoming
  <2>5. CASE d = c /\ i # read'[c]
    <3>1. i \in 1..read[c] /\ Unfinished(t)
      BY <2>1, <2>3, <2>5, <1>2, <1>t
    <3>2. QED
      BY <3>1, <2>1, <2>5 DEF LastOnly
  <2>6. CASE d # c
    BY <2>1, <2>3, <2>6, <1>2 DEF LastOnly
  <2>7. QED
    BY <2>4, <2>5, <2>6
<1>3. ASSUME UNCHANGED <<log, insert>> PROVE \A t \in Texts : Unfinished(t)' => Unfinished(t)
  BY <1>3 DEF Unfinished
<1>4. ASSUME NEW v \in Texts \cup Relays, Publish(v), UNCHANGED insert
      PROVE  \A t \in Texts : Unfinished(t)' => Unfinished(t) /\ ~(t = v /\ insert[t] = "committed")
  <2>1. \A t \in Texts : Occurs(t, log') <=> Occurs(t, log) \/ t = v
    BY <1>4, <1>t, OccursAppend DEF Publish
  <2>2. QED
    BY <2>1, <1>4 DEF Unfinished
<1>5. ASSUME NEW c \in Conn, ReadText(c) PROVE LastOnly'
  <2>1. /\ Reads(c) /\ Upcoming(c) \in Texts /\ UNCHANGED <<sent, log>>
        /\ insert' = [insert EXCEPT ![Upcoming(c)] = "waiting"]
        /\ recvTask' = [recvTask EXCEPT ![c] = "creating"]
    BY <1>5 DEF ReadText
  <2>2. \A t \in Texts : Unfinished(t)' => Unfinished(t) \/ t = Upcoming(c)
    BY <2>1, <1>t DEF Unfinished
  <2>3. QED
    BY <2>1, <2>2, <1>2, <1>t DEF Frames
<1>6. ASSUME NEW c \in Conn, ReadPanics(c) \/ ReadClose(c) PROVE LastOnly'
  <2>1. /\ Reads(c) /\ Upcoming(c) \in Frames \cup {Close} /\ UNCHANGED <<sent, log, insert>>
        /\ recvTask' = [recvTask EXCEPT ![c] = "done"]
    BY <1>6 DEF ReadPanics, ReadClose, Frames
  <2>2. QED
    BY <2>1, <1>2, <1>3, <1>t
<1>7. ASSUME NEW c \in Conn, ReadIgnored(c) PROVE LastOnly'
  <2>1. Reads(c) /\ Upcoming(c) \in Frames /\ UNCHANGED <<sent, log, insert, recvTask>>
    BY <1>7 DEF ReadIgnored
  <2>2. \A t \in Texts : t = Upcoming(c) => insert[t] = "none"
    BY <2>1, <1>a, TakenNow DEF FrameInv, TakenFirst
  <2>3. \A t \in Texts : t = Upcoming(c) => ~Unfinished(t)'
    BY <2>1, <2>2 DEF Unfinished
  <2>4. QED
    BY <2>1, <2>3, <1>2, <1>3
<1>8. ASSUME NEW c \in Conn, ReadRelay(c) PROVE LastOnly'
  <2>1. /\ Reads(c) /\ Upcoming(c) \in Relays /\ Upcoming(c) \notin Texts
        /\ Publish(Upcoming(c)) /\ UNCHANGED <<sent, insert, recvTask>>
    BY <1>8, FramesAssumption DEF ReadRelay
  <2>2. QED
    BY <2>1, <1>2, <1>4 DEF Frames
<1>9. ASSUME NEW c \in Conn, CreateSucceeds(c) PROVE LastOnly'
  <2>1. /\ Current(c) \in Texts /\ insert[Current(c)] = "committed" /\ Publish(Current(c))
        /\ UNCHANGED <<sent, read, insert>> /\ recvTask' = [recvTask EXCEPT ![c] = "reading"]
    BY <1>9, <1>t DEF CreateSucceeds
  <2>2. \A t \in Texts : Unfinished(t)' => Unfinished(t) /\ t # Current(c)
    BY <2>1, <1>4
  <2>3. QED
    BY <2>1, <2>2, <1>1, <1>t DEF Current, Unfinished
<1>10. ASSUME NEW c \in Conn, CreateFails(c) PROVE LastOnly'
  <2>1. /\ insert[Current(c)] \in {"failed", "unreported"}
        /\ UNCHANGED <<sent, read, insert, log>> /\ recvTask' = [recvTask EXCEPT ![c] = "reading"]
    BY <1>10 DEF CreateFails
  <2>2. QED
    BY <2>1, <1>1, <1>3, <1>t DEF Current, Unfinished
<1>11. ASSUME NEW c \in Conn, Connect(c) PROVE LastOnly'
  <2>1. /\ read[c] = 0 /\ UNCHANGED <<read, insert, log>>
        /\ recvTask' = [recvTask EXCEPT ![c] = "reading"]
    BY <1>11 DEF Connect, LifeInv
  <2>2. QED
    BY <2>1, <1>1, <1>3, <1>t
<1>12. ASSUME NEW c \in Conn, Select(c) PROVE LastOnly'
  <2>1. \A t \in Texts : Unfinished(t)' => Unfinished(t)
    BY <1>12, <1>t DEF Select, Unfinished
  <2>2. QED
    BY <1>12, <2>1, <1>1, <1>t DEF Select
<1>13. ASSUME NEW t \in Texts, DatabaseStep(t) PROVE LastOnly'
  <2>1. \A u \in Texts : Unfinished(u)' => Unfinished(u)
    BY <1>13, <1>t DEF DatabaseStep, Acquire, InsertFails, Commit, CommitUnreported, hubVars,
                       Unfinished
  <2>2. UNCHANGED <<read, recvTask>>
    BY <1>13 DEF DatabaseStep, Acquire, InsertFails, Commit, CommitUnreported, hubVars
  <2>3. QED
    BY <2>1, <2>2, <1>1
<1>14. ASSUME NEW c \in Conn, ReadFails(c) PROVE LastOnly'
  <2>1. UNCHANGED <<read, log, insert>> /\ recvTask' = [recvTask EXCEPT ![c] = "done"]
    BY <1>14 DEF ReadFails
  <2>2. QED
    BY <2>1, <1>1, <1>3, <1>t
<1>15. CASE UNCHANGED <<log, read, recvTask, insert>>
  BY <1>15, <1>1, <1>3
<1>16. QED
  BY <1>5, <1>6, <1>7, <1>8, <1>9, <1>10, <1>11, <1>12, <1>13, <1>14, <1>15
     DEF Next, vars, RecvStep, ReadStep, SendStep, LinkBreaks, ClientSends, Receive,
         ReceiveLagged, Write, WriteFails

LEMMA LastOnlyInvariant == Spec => [](TypeInv /\ FrameInv /\ LifeInv /\ LastOnly)
  BY FrameInvariant, LifeInit, LifeStep, LastOnlyInit, LastOnlyStep, PTL DEF Spec

(* Whatever fails or is aborted, a stored message of a client is broadcast *)
(* unless it is the last frame recv_task took.                             *)
THEOREM OnlyLastIsUnbroadcast == Spec => []OnlyLastUnbroadcast
<1>1. LastOnly => OnlyLastUnbroadcast
  BY DEF LastOnly, OnlyLastUnbroadcast, Unfinished
<1>2. QED
  BY <1>1, LastOnlyInvariant, PTL

-----------------------------------------------------------------------------
(* Order. *)
LEMMA BeforeAppend ==
  ASSUME NEW S, NEW s \in Seq(S), NEW e \in S, NEW x, NEW y, Before(x, y, Append(s, e))
  PROVE  Before(x, y, s) \/ (y = e /\ Occurs(x, s))
<1>1. /\ Len(s) \in Nat /\ Len(Append(s, e)) = Len(s) + 1
      /\ \A i \in 1..Len(s) : Append(s, e)[i] = s[i]
      /\ Append(s, e)[Len(s) + 1] = e
  BY AppendProperties, LenProperties
<1>2. PICK i \in 1..(Len(s) + 1), j \in 1..(Len(s) + 1) :
        i < j /\ Append(s, e)[i] = x /\ Append(s, e)[j] = y
  BY <1>1 DEF Before
<1>3. i \in 1..Len(s) /\ s[i] = x
  BY <1>1, <1>2
<1>4. CASE j = Len(s) + 1
  BY <1>1, <1>2, <1>3, <1>4 DEF Occurs
<1>5. CASE j \in 1..Len(s)
  BY <1>1, <1>2, <1>3, <1>5 DEF Before
<1>6. QED
  BY <1>1, <1>4, <1>5

(* A value enters the log as the frame its recv_task took last.            *)
LEMMA NewInLog ==
  TypeInv /\ [Next]_vars =>
    \/ UNCHANGED log
    \/ \E c \in Conn : /\ recvTask[c] \in {"reading", "creating"}
                       /\ read'[c] \in 1..Len(sent'[c]) /\ sent'[c][read'[c]] \in Frames
                       /\ log' = Append(log, sent'[c][read'[c]])
<1> SUFFICES ASSUME TypeInv, [Next]_vars
             PROVE  \/ UNCHANGED log
                    \/ \E c \in Conn :
                         /\ recvTask[c] \in {"reading", "creating"}
                         /\ read'[c] \in 1..Len(sent'[c]) /\ sent'[c][read'[c]] \in Frames
                         /\ log' = Append(log, sent'[c][read'[c]])
  OBVIOUS
<1>1. ASSUME NEW c \in Conn, ReadRelay(c)
      PROVE  /\ recvTask[c] = "reading" /\ read'[c] \in 1..Len(sent'[c])
             /\ sent'[c][read'[c]] \in Frames /\ log' = Append(log, sent'[c][read'[c]])
  BY <1>1, ReadsOne DEF ReadRelay, Publish, Upcoming, Frames
<1>2. ASSUME NEW c \in Conn, CreateSucceeds(c)
      PROVE  /\ recvTask[c] = "creating" /\ read'[c] \in 1..Len(sent'[c])
             /\ sent'[c][read'[c]] \in Frames /\ log' = Append(log, sent'[c][read'[c]])
  BY <1>2 DEF CreateSucceeds, Publish, Current, TypeInv, InHand, Frames
<1>3. QED
  BY <1>1, <1>2
     DEF Next, vars, hubVars, RecvStep, ReadStep, SendStep, DatabaseStep, Connect, LinkBreaks,
         ClientSends, Select, ReadText, ReadPanics, ReadIgnored, ReadClose, ReadFails,
         CreateFails, Acquire, InsertFails, Commit, CommitUnreported, Receive, ReceiveLagged,
         Write, WriteFails

(* A row is appended when an INSERT that was with PostgreSQL commits.      *)
LEMMA NewInTable ==
  [Next]_vars =>
    UNCHANGED table \/ \E t \in Texts : insert[t] = "sent" /\ table' = Append(table, t)
  BY DEF Next, vars, hubVars, RecvStep, ReadStep, SendStep, DatabaseStep, Connect, LinkBreaks,
         ClientSends, Select, ReadText, ReadPanics, ReadRelay, ReadIgnored, ReadClose, ReadFails,
         CreateSucceeds, CreateFails, Acquire, InsertFails, Commit, CommitUnreported, Receive,
         ReceiveLagged, Write, WriteFails

LEMMA OrderInit == Init => OrderKept
  BY DEF Init, OrderKept

LEMMA OrderStep ==
  /\ TypeInv /\ FrameInv /\ LastOnly /\ OrderKept
  /\ FrameInv'
  /\ [Next]_vars
  => OrderKept'
<1> SUFFICES ASSUME TypeInv, FrameInv, LastOnly, OrderKept, FrameInv', [Next]_vars,
                    NEW c \in Conn, NEW i \in 1..Len(sent'[c]), NEW j \in 1..Len(sent'[c]),
                    i < j
             PROVE  /\ ~Before(sent'[c][j], sent'[c][i], log')
                    /\ ~Before(sent'[c][j], sent'[c][i], table')
  BY DEF OrderKept, Before
<1>a. Advances /\ log \in Seq(Texts \cup Relays) /\ table \in Seq(Texts)
  BY StepAdvances DEF TypeInv, TypeOK
<1>1. ASSUME NEW d \in Conn, NEW k \in 1..Len(sent'[d]), NEW m \in 1..Len(sent'[c]),
             sent'[c][m] = sent'[d][k], sent'[c][m] \in Frames
      PROVE  c = d /\ m = k
  BY <1>1 DEF FrameInv, SentOnce
(* what is in the log or in the table has been read *)
<1>2. ASSUME NEW m \in 1..Len(sent'[c]), sent'[c][m] \in TakenFrames
      PROVE  m <= read[c] /\ m \in 1..Len(sent[c]) /\ sent'[c][m] = sent[c][m]
  <2>1. PICK d \in Conn : \E k \in 1..read[d] : sent[d][k] = sent'[c][m]
    BY <1>2 DEF TakenFrames
  <2>2. PICK k \in 1..read[d] : sent[d][k] = sent'[c][m]
    BY <2>1
  <2>3. k \in 1..Len(sent'[d]) /\ k \in 1..Len(sent[d]) /\ sent'[d][k] = sent'[c][m]
    BY <2>2, <1>a DEF Advances
  <2>4. sent'[c][m] \in Frames
    BY <1>2 DEF TakenFrames
  <2>5. d = c /\ k = m
    BY <2>3, <2>4, <1>1
  <2>6. QED
    BY <2>2, <2>3, <2>5
<1>3. \A x : Occurs(x, log) => x \in TakenFrames
  BY DEF FrameInv, TakenFirst, Occurs
<1>4. \A x : Occurs(x, table) => x \in TakenFrames
  <2>1. \A x : Occurs(x, table) => x \in Texts
    BY <1>a, ElementOfSeq DEF Occurs
  <2>2. QED
    BY <2>1 DEF FrameInv, TakenFirst, StoredOnce
<1>5. \A x, y, seq : Before(x, y, seq) => Occurs(x, seq) /\ Occurs(y, seq)
  BY DEF Before, Occurs
<1>6. ~Before(sent'[c][j], sent'[c][i], log)
  <2> SUFFICES ASSUME Before(sent'[c][j], sent'[c][i], log) PROVE FALSE
    OBVIOUS
  <2>1. sent'[c][j] \in TakenFrames /\ sent'[c][i] \in TakenFrames
    BY <1>3, <1>5
  <2>2. QED
    BY <2>1, <1>2 DEF OrderKept
<1>7. ~Before(sent'[c][j], sent'[c][i], table)
  <2> SUFFICES ASSUME Before(sent'[c][j], sent'[c][i], table) PROVE FALSE
    OBVIOUS
  <2>1. sent'[c][j] \in TakenFrames /\ sent'[c][i] \in TakenFrames
    BY <1>4, <1>5
  <2>2. QED
    BY <2>1, <1>2 DEF OrderKept
<1>8. ~Before(sent'[c][j], sent'[c][i], log')
  <2> SUFFICES ASSUME Before(sent'[c][j], sent'[c][i], log') PROVE FALSE
    OBVIOUS
  <2>1. PICK d \in Conn : /\ read'[d] \in 1..Len(sent'[d]) /\ sent'[d][read'[d]] \in Frames
                          /\ log' = Append(log, sent'[d][read'[d]])
    BY <1>6, NewInLog
  <2>2. sent'[c][i] = sent'[d][read'[d]] /\ Occurs(sent'[c][j], log)
    BY <1>6, <1>a, <2>1, BeforeAppend DEF Frames
  <2>3. i = read'[c]
    BY <2>1, <2>2, <1>1
  <2>4. j <= read[c]
    BY <2>2, <1>2, <1>3
  <2>5. QED
    BY <2>3, <2>4, <1>a DEF Advances
<1>9. ~Before(sent'[c][j], sent'[c][i], table')
  <2> SUFFICES ASSUME Before(sent'[c][j], sent'[c][i], table') PROVE FALSE
    OBVIOUS
  <2>1. PICK t \in Texts : insert[t] = "sent" /\ table' = Append(table, t)
    BY <1>7, NewInTable
  <2>2. sent'[c][i] = t /\ Occurs(sent'[c][j], table)
    BY <1>7, <1>a, <2>1, BeforeAppend
  <2>3. sent'[c][i] \in TakenFrames
    BY <2>1, <2>2 DEF FrameInv, TakenFirst
  <2>4. i \in 1..read[c] /\ sent[c][i] = t
    BY <2>2, <2>3, <1>2
  <2>5. i = read[c]
    BY <2>1, <2>4 DEF LastOnly, Unfinished
  <2>6. j <= read[c]
    BY <2>2, <1>2, <1>4
  <2>7. QED
    BY <2>5, <2>6, <1>a DEF Advances
<1>10. QED
  BY <1>8, <1>9

(* A client's frames are stored and broadcast in the order it sent them.   *)
THEOREM ClientOrderKept == Spec => []OrderKept
<1>1. FrameInv /\ TypeInv /\ LastOnly /\ [Next]_vars => FrameInv'
  BY SentOnceStep, TakenFirstStep, StoredOnceStep, LoggedOnceStep DEF FrameInv
<1>2. QED
  BY <1>1, LastOnlyInvariant, OrderInit, OrderStep, PTL DEF Spec
=============================================================================
