--------------------------- MODULE ChatHubProofs ---------------------------
(* Proofs about ChatHub that hold for every number of connections, frames,
   channel slots and pooled connections. *)
EXTENDS ChatHub, SequenceTheorems, TLAPS

(***************************************************************************)
(* Type correctness.  What TypeOK lacks to be inductive is what a task has *)
(* in hand while it awaits: recv_task a text in `create`, send_task a      *)
(* value of the log in sender.send.                                        *)
(***************************************************************************)
InHand ==
    \A c \in Conn :
      /\ recvTask[c] = "creating" => read[c] \in 1..Len(sent[c]) /\ Current(c) \in Texts
      /\ sendTask[c] = "sending" => pos[c] \in 1..Len(log)

TypeInv == TypeOK /\ InHand

(* The tasks, the database and the client only ever put values of their    *)
(* types into the hub's state.                                             *)
LEMMA TypeInit == Init => TypeInv
  BY DEF Init, TypeInv, TypeOK, InHand

(* recv_task takes one more frame and no other connection does. *)
LEMMA ReadsOne ==
  ASSUME TypeInv, NEW c \in Conn, Reads(c)
  PROVE  /\ recvTask[c] = "reading"
         /\ read' \in [Conn -> Nat]
         /\ read'[c] = read[c] + 1
         /\ read'[c] \in 1..Len(sent[c])
         /\ \A d \in Conn \ {c} : read'[d] = read[d]
         /\ \A d \in Conn : read'[d] <= Len(sent[d])
<1>1. /\ recvTask[c] = "reading" /\ read[c] < Len(sent[c])
      /\ read' = [read EXCEPT ![c] = @ + 1]
  BY DEF Reads, HasUpcoming
<1>2. /\ read \in [Conn -> Nat] /\ Len(sent[c]) \in Nat
      /\ \A d \in Conn : read[d] <= Len(sent[d])
  BY LenProperties DEF TypeInv, TypeOK
<1>3. QED
  BY <1>1, <1>2

(* The log grows at its end. *)
LEMMA LogGrows ==
  ASSUME TypeInv, NEW v \in Texts \cup Relays, Publish(v)
  PROVE  /\ log' \in Seq(Texts \cup Relays)
         /\ Len(log) \in Nat
         /\ Len(log') = Len(log) + 1
         /\ \A i \in 1..Len(log) : log'[i] = log[i]
         /\ log'[Len(log) + 1] = v
<1>1. log \in Seq(Texts \cup Relays) /\ log' = Append(log, v)
  BY DEF TypeInv, TypeOK, Publish
<1>2. QED
  BY <1>1, AppendProperties, LenProperties

LEMMA TypeStep == TypeInv /\ [Next]_vars => TypeInv'
<1> SUFFICES ASSUME TypeInv, [Next]_vars PROVE TypeInv'
  OBVIOUS
<1> USE DEF TypeInv, TypeOK, InHand, Frames, Current
<1>1. ASSUME NEW c \in Conn, Connect(c) PROVE TypeInv'
  BY <1>1, SMTT(30) DEF Connect
<1>2. ASSUME NEW c \in Conn, LinkBreaks(c) PROVE TypeInv'
  BY <1>2 DEF LinkBreaks
<1>3. ASSUME NEW c \in Conn, Select(c) PROVE TypeInv'
  BY <1>3 DEF Select
<1>4. ASSUME NEW c \in Conn, NEW f \in Frames \cup {Close}, ClientSends(c, f) PROVE TypeInv'
  <2>1. sent[c] \in Seq(Frames \cup {Close}) /\ sent' = [sent EXCEPT ![c] = Append(@, f)]
    BY <1>4 DEF ClientSends
  <2>2. /\ sent' \in [Conn -> Seq(Frames \cup {Close})]
        /\ \A d \in Conn : Len(sent'[d]) >= Len(sent[d])
        /\ \A d \in Conn : \A i \in 1..Len(sent[d]) : sent'[d][i] = sent[d][i]
    BY <2>1, AppendProperties, LenProperties, SMTT(30)
  <2>3. TypeOK'
    BY <1>4, <2>2, LenProperties, SMTT(30) DEF ClientSends
  <2>4. InHand'
    BY <1>4, <2>2, LenProperties DEF ClientSends
  <2>5. QED
    BY <2>3, <2>4
<1>5. ASSUME NEW c \in Conn, ReadText(c) PROVE TypeInv'
  <2>1. Reads(c) /\ sent[c][read[c] + 1] \in Texts
    BY <1>5 DEF ReadText, Upcoming
  <2>2. TypeOK'
    BY <1>5, <2>1, ReadsOne DEF ReadText
  <2>3. InHand'
    BY <1>5, <2>1, ReadsOne, ZenonT(40) DEF ReadText
  <2>4. QED
    BY <2>2, <2>3
<1>6. ASSUME NEW c \in Conn, ReadPanics(c) \/ ReadClose(c) PROVE TypeInv'
  <2>1. Reads(c)
    BY <1>6 DEF ReadPanics, ReadClose
  <2>2. /\ UNCHANGED <<log, conn, link, sent, sendTask, start, pos, delivered, insert, table>>
        /\ recvTask' = [recvTask EXCEPT ![c] = "done"]
    BY <1>6 DEF ReadPanics, ReadClose
  <2>3. QED
    BY <2>1, <2>2, ReadsOne, ZenonT(40)
<1>7. ASSUME NEW c \in Conn, ReadRelay(c) PROVE TypeInv'
  <2>1. Reads(c) /\ Upcoming(c) \in Texts \cup Relays /\ Publish(Upcoming(c))
    BY <1>7 DEF ReadRelay
  <2>2. /\ log' \in Seq(Texts \cup Relays)
        /\ Len(log) \in Nat /\ Len(log') = Len(log) + 1
    BY <2>1, LogGrows
  <2>3. /\ recvTask[c] = "reading"
        /\ read' \in [Conn -> Nat]
        /\ \A d \in Conn : read'[d] <= Len(sent[d])
        /\ \A d \in Conn \ {c} : read'[d] = read[d]
    BY <2>1, ReadsOne
  <2>4. TypeOK'
    <3>1. pos' = pos /\ sent' = sent /\ \A d \in Conn : pos[d] \in Nat /\ pos[d] <= Len(log)
      BY <1>7 DEF ReadRelay
    <3>2. \A d \in Conn : read'[d] <= Len(sent'[d]) /\ pos'[d] <= Len(log')
      BY <2>2, <2>3, <3>1, SMTT(30)
    <3>3. QED
      BY <1>7, <2>2, <2>3, <3>2 DEF ReadRelay
  <2>5. InHand'
    BY <1>7, <2>2, <2>3, SMTT(30) DEF ReadRelay
  <2>6. QED
    BY <2>4, <2>5
<1>8. ASSUME NEW c \in Conn, ReadIgnored(c) PROVE TypeInv'
  <2>1. Reads(c)
    BY <1>8 DEF ReadIgnored
  <2>2. QED
    BY <1>8, <2>1, ReadsOne DEF ReadIgnored
<1>9. ASSUME NEW c \in Conn, ReadFails(c) PROVE TypeInv'
  BY <1>9 DEF ReadFails
<1>10. ASSUME NEW c \in Conn, CreateSucceeds(c) PROVE TypeInv'
  <2>1. Current(c) \in Texts \cup Relays /\ Publish(Current(c))
    BY <1>10 DEF CreateSucceeds
  <2>2. /\ log' \in Seq(Texts \cup Relays)
        /\ Len(log) \in Nat /\ Len(log') = Len(log) + 1
    BY <2>1, LogGrows
  <2>3. TypeOK'
    BY <1>10, <2>2, SMTT(30) DEF CreateSucceeds
  <2>4. InHand'
    BY <1>10, <2>2, SMTT(30) DEF CreateSucceeds
  <2>5. QED
    BY <2>3, <2>4
<1>11. ASSUME NEW c \in Conn, CreateFails(c) PROVE TypeInv'
  BY <1>11 DEF CreateFails
<1>12. ASSUME NEW c \in Conn, Receive(c) PROVE TypeInv'
  <2>1. Len(log) \in Nat /\ pos'[c] = pos[c] + 1 /\ pos' \in [Conn -> Nat]
    BY <1>12, LenProperties DEF Receive
  <2>2. TypeOK'
    BY <1>12, <2>1, SMTT(30) DEF Receive
  <2>3. InHand'
    BY <1>12, <2>1, SMTT(30) DEF Receive
  <2>4. QED
    BY <2>2, <2>3
<1>13. ASSUME NEW c \in Conn, ReceiveLagged(c) \/ WriteFails(c) PROVE TypeInv'
  BY <1>13 DEF ReceiveLagged, WriteFails
<1>14. ASSUME NEW c \in Conn, Write(c) PROVE TypeInv'
  <2>1. log[pos[c]] \in Texts \cup Relays
    BY <1>14, ElementOfSeq DEF Write
  <2>2. delivered' \in [Conn -> Seq(Texts \cup Relays)]
    BY <1>14, <2>1, AppendProperties DEF Write
  <2>3. QED
    BY <1>14, <2>2 DEF Write
<1>15. ASSUME NEW t \in Texts, Acquire(t) \/ InsertFails(t) PROVE TypeInv'
  BY <1>15 DEF Acquire, InsertFails, hubVars
<1>16. ASSUME NEW t \in Texts, Commit(t) \/ CommitUnreported(t) PROVE TypeInv'
  <2>1. table' = Append(table, t) /\ UNCHANGED hubVars
    BY <1>16 DEF Commit, CommitUnreported
  <2>2. table' \in Seq(Texts)
    BY <2>1
  <2>3. insert' \in [Texts -> {"none", "waiting", "sent", "committed", "unreported",
                              "failed", "abandoned"}]
    BY <1>16, ZenonT(40) DEF Commit, CommitUnreported
  <2>4. QED
    BY <2>1, <2>2, <2>3 DEF hubVars
<1>17. ASSUME UNCHANGED vars PROVE TypeInv'
  BY <1>17 DEF vars
<1>18. QED
  BY <1>1, <1>2, <1>3, <1>4, <1>5, <1>6, <1>7, <1>8, <1>9, <1>10, <1>11, <1>12, <1>13,
     <1>14, <1>15, <1>16, <1>17
     DEF Next, RecvStep, ReadStep, SendStep, DatabaseStep

(* The hub's state stays within its types, whatever the clients, the       *)
(* network and the database do.                                            *)
THEOREM TypeCorrect == Spec => []TypeOK
<1>1. Spec => []TypeInv
  BY TypeInit, TypeStep, PTL DEF Spec
<1>2. TypeInv => TypeOK
  BY DEF TypeInv
<1>3. QED
  BY <1>1, <1>2, PTL

(***************************************************************************)
(* Delivery.  What send_task has written is the run of the log between the *)
(* subscription and its receive position, short of the one value it may    *)
(* have in hand; NothingSkipped alone says nothing about that position.    *)
(***************************************************************************)
RunOf(c) ==
    /\ conn[c] = "new" <=> sendTask[c] = "none"
    /\ conn[c] = "new" => delivered[c] = <<>>
    /\ sendTask[c] = "receiving" => pos[c] = start[c] + Len(delivered[c])
    /\ sendTask[c] = "sending" => pos[c] = start[c] + Len(delivered[c]) + 1
    /\ start[c] + Len(delivered[c]) <= pos[c]
    /\ \A i \in 1..Len(delivered[c]) : delivered[c][i] = log[start[c] + i]

RunInv == \A c \in Conn : RunOf(c)

LogExtends ==
    /\ Len(log) <= Len(log')
    /\ \A i \in 1..Len(log) : log'[i] = log[i]

(* A step that lets the log grow, and only ends connections and tasks.     *)
Quiet ==
    /\ LogExtends
    /\ UNCHANGED <<start, pos, delivered>>
    /\ \A c \in Conn : conn'[c] = "new" <=> conn[c] = "new"
    /\ \A c \in Conn :
         sendTask'[c] = sendTask[c] \/ (sendTask'[c] = "done" /\ conn'[c] # "new")

LEMMA RunInit == Init => RunInv
  BY DEF Init, RunInv, RunOf

LEMMA QuietKeepsRun == TypeInv /\ RunInv /\ Quiet => RunInv'
<1> SUFFICES ASSUME TypeInv, RunInv, Quiet, NEW c \in Conn PROVE RunOf(c)'
  BY DEF RunInv
<1>1. /\ start[c] \in Nat /\ pos[c] \in Nat /\ pos[c] <= Len(log)
      /\ Len(log) \in Nat /\ Len(delivered[c]) \in Nat
  BY LenProperties DEF TypeInv, TypeOK
<1>2. RunOf(c)
  BY DEF RunInv
<1>3. start'[c] = start[c] /\ pos'[c] = pos[c] /\ delivered'[c] = delivered[c]
  BY DEF Quiet
<1>4. ASSUME NEW i \in 1..Len(delivered[c]) PROVE delivered[c][i] = log'[start[c] + i]
  <2>1. start[c] + i \in 1..Len(log)
    BY <1>1, <1>2 DEF RunOf
  <2>2. log'[start[c] + i] = log[start[c] + i]
    BY <2>1 DEF Quiet, LogExtends
  <2>3. QED
    BY <1>2, <2>2 DEF RunOf
<1>5. /\ conn'[c] = "new" <=> conn[c] = "new"
      /\ sendTask'[c] = sendTask[c] \/ (sendTask'[c] = "done" /\ conn'[c] # "new")
  BY DEF Quiet
<1>6. QED
  BY <1>2, <1>3, <1>4, <1>5 DEF RunOf

LEMMA PublishExtends ==
  ASSUME TypeInv, NEW v \in Texts \cup Relays, Publish(v)
  PROVE  LogExtends
  BY LogGrows DEF LogExtends

LEMMA SameLogExtends == TypeInv /\ UNCHANGED log => LogExtends
  BY LenProperties DEF TypeInv, TypeOK, LogExtends

LEMMA RunStep == TypeInv /\ RunInv /\ [Next]_vars => RunInv'
<1> SUFFICES ASSUME TypeInv, RunInv, [Next]_vars PROVE RunInv'
  OBVIOUS
<1>t. /\ start \in [Conn -> Nat] /\ pos \in [Conn -> Nat]
      /\ delivered \in [Conn -> Seq(Texts \cup Relays)]
      /\ conn \in [Conn -> {"new", "open", "closed"}]
      /\ sendTask \in [Conn -> {"none", "receiving", "sending", "done"}]
      /\ log \in Seq(Texts \cup Relays) /\ Len(log) \in Nat
      /\ \A c \in Conn : Len(delivered[c]) \in Nat /\ pos[c] <= Len(log)
  BY LenProperties DEF TypeInv, TypeOK
<1>1. ASSUME NEW c \in Conn, Connect(c) PROVE RunInv'
  <2>1. /\ start' = [start EXCEPT ![c] = Len(log)] /\ pos' = [pos EXCEPT ![c] = Len(log)]
        /\ conn' = [conn EXCEPT ![c] = "open"] /\ sendTask' = [sendTask EXCEPT ![c] = "receiving"]
        /\ UNCHANGED <<log, delivered>>
        /\ delivered[c] = <<>>
    BY <1>1 DEF Connect, RunInv, RunOf
  <2>2. QED
    BY <2>1, <1>t DEF RunInv, RunOf
<1>2. ASSUME NEW c \in Conn, Receive(c) PROVE RunInv'
  <2>1. /\ pos' = [pos EXCEPT ![c] = @ + 1] /\ sendTask' = [sendTask EXCEPT ![c] = "sending"]
        /\ UNCHANGED <<log, conn, start, delivered>>
        /\ sendTask[c] = "receiving"
    BY <1>2 DEF Receive
  <2>2. RunOf(c)'
    BY <2>1, <1>t DEF RunInv, RunOf
  <2>3. ASSUME NEW d \in Conn \ {c} PROVE RunOf(d)'
    BY <2>1, <1>t DEF RunInv, RunOf
  <2>4. QED
    BY <2>2, <2>3 DEF RunInv
<1>3. ASSUME NEW c \in Conn, Write(c) PROVE RunInv'
  <2>1. /\ delivered' = [delivered EXCEPT ![c] = Append(@, log[pos[c]])]
        /\ sendTask' = [sendTask EXCEPT ![c] = "receiving"]
        /\ UNCHANGED <<log, conn, start, pos>>
        /\ pos[c] = start[c] + Len(delivered[c]) + 1
        /\ conn[c] # "new"
    BY <1>3 DEF Write, RunInv, RunOf
  <2>2. log[pos[c]] \in Texts \cup Relays
    BY <2>1, <1>t, ElementOfSeq
  <2>3. /\ Len(delivered'[c]) = Len(delivered[c]) + 1
        /\ \A i \in 1..Len(delivered[c]) : delivered'[c][i] = delivered[c][i]
        /\ delivered'[c][Len(delivered[c]) + 1] = log[pos[c]]
        /\ \A d \in Conn \ {c} : delivered'[d] = delivered[d]
    BY <2>1, <2>2, <1>t, AppendProperties
  <2>4. RunOf(c)'
    <3>1. \A i \in 1..Len(delivered'[c]) : delivered'[c][i] = log[start[c] + i]
      BY <2>1, <2>3, <1>t DEF RunInv, RunOf
    <3>2. /\ sendTask'[c] = "receiving" /\ conn'[c] # "new" /\ log' = log
          /\ start'[c] = start[c] /\ start[c] \in Nat /\ Len(delivered[c]) \in Nat
          /\ pos'[c] = start[c] + Len(delivered'[c])
      BY <2>1, <2>3, <1>t
    <3>3. QED
      BY <2>3, <3>1, <3>2 DEF RunOf
  <2>5. ASSUME NEW d \in Conn \ {c} PROVE RunOf(d)'
    BY <2>1, <2>3, <1>t DEF RunInv, RunOf
  <2>6. QED
    BY <2>4, <2>5 DEF RunInv
<1>4. ASSUME NEW c \in Conn,
             LinkBreaks(c) \/ (\E f \in Frames \cup {Close} : ClientSends(c, f))
             \/ ReadText(c) \/ ReadPanics(c) \/ ReadIgnored(c) \/ ReadClose(c) \/ ReadFails(c)
             \/ CreateFails(c)
      PROVE  RunInv'
  <2>1. UNCHANGED <<log, conn, sendTask, start, pos, delivered>>
    BY <1>4 DEF LinkBreaks, ClientSends, ReadText, ReadPanics, ReadIgnored, ReadClose,
                ReadFails, CreateFails
  <2>2. QED
    BY <2>1, SameLogExtends, QuietKeepsRun DEF Quiet
<1>5. ASSUME NEW c \in Conn, ReadRelay(c) \/ CreateSucceeds(c) PROVE RunInv'
  <2>1. /\ UNCHANGED <<conn, sendTask, start, pos, delivered>>
        /\ \E v \in Texts \cup Relays : Publish(v)
    BY <1>5 DEF ReadRelay, CreateSucceeds, TypeInv, InHand
  <2>2. QED
    BY <2>1, PublishExtends, QuietKeepsRun DEF Quiet
<1>6. ASSUME NEW c \in Conn, ReceiveLagged(c) \/ WriteFails(c) PROVE RunInv'
  <2>1. /\ UNCHANGED <<log, conn, start, pos, delivered>>
        /\ sendTask' = [sendTask EXCEPT ![c] = "done"] /\ conn[c] # "new"
    BY <1>6 DEF ReceiveLagged, WriteFails, RunInv, RunOf
  <2>2. QED
    BY <2>1, <1>t, SameLogExtends, QuietKeepsRun DEF Quiet
<1>7. ASSUME NEW c \in Conn, Select(c) PROVE RunInv'
  <2>1. /\ UNCHANGED <<log, start, pos, delivered>>
        /\ sendTask' = [sendTask EXCEPT ![c] = "done"] /\ conn' = [conn EXCEPT ![c] = "closed"]
        /\ conn[c] = "open"
    BY <1>7 DEF Select
  <2>2. QED
    BY <2>1, <1>t, SameLogExtends, QuietKeepsRun DEF Quiet
<1>8. ASSUME NEW t \in Texts, DatabaseStep(t) PROVE RunInv'
  <2>1. UNCHANGED <<log, conn, sendTask, start, pos, delivered>>
    BY <1>8 DEF DatabaseStep, Acquire, InsertFails, Commit, CommitUnreported, hubVars
  <2>2. QED
    BY <2>1, SameLogExtends, QuietKeepsRun DEF Quiet
<1>9. ASSUME UNCHANGED vars PROVE RunInv'
  BY <1>9, SameLogExtends, QuietKeepsRun DEF Quiet, vars
<1>10. QED
  BY <1>1, <1>2, <1>3, <1>4, <1>5, <1>6, <1>7, <1>8, <1>9 DEF Next, RecvStep, ReadStep, SendStep

(* A sequence that agrees with a stretch of another is that stretch.       *)
LEMMA StretchIsSubSeq ==
  ASSUME NEW S, NEW s \in Seq(S), NEW d \in Seq(S), NEW m \in Nat,
         m + Len(d) <= Len(s),
         \A i \in 1..Len(d) : d[i] = s[m + i]
  PROVE  d = SubSeq(s, m + 1, m + Len(d))
<1> DEFINE r == SubSeq(s, m + 1, m + Len(d))
<1>1. Len(d) \in Nat /\ Len(s) \in Nat
  BY LenProperties
<1>2. \A i \in (m + 1)..(m + Len(d)) : s[i] \in S
  BY <1>1, ElementOfSeq
<1>3. /\ r \in Seq(S)
      /\ Len(r) = Len(d)
      /\ \A i \in 1..Len(d) : r[i] = s[m + i]
  BY <1>1, <1>2, SubSeqProperties
<1>4. QED
  BY <1>3, SeqEqual

LEMMA RunNotSkipped == TypeInv /\ RunInv => NothingSkipped
<1> SUFFICES ASSUME TypeInv, RunInv, NEW c \in Conn
             PROVE  /\ start[c] + Len(delivered[c]) <= Len(log)
                    /\ delivered[c] = SubSeq(log, start[c] + 1, start[c] + Len(delivered[c]))
  BY DEF NothingSkipped
<1>1. /\ start[c] \in Nat /\ pos[c] \in Nat /\ pos[c] <= Len(log)
      /\ log \in Seq(Texts \cup Relays) /\ delivered[c] \in Seq(Texts \cup Relays)
      /\ Len(log) \in Nat /\ Len(delivered[c]) \in Nat
  BY LenProperties DEF TypeInv, TypeOK
<1>2. start[c] + Len(delivered[c]) <= Len(log)
  BY <1>1 DEF RunInv, RunOf
<1>3. \A i \in 1..Len(delivered[c]) : delivered[c][i] = log[start[c] + i]
  BY DEF RunInv, RunOf
<1>4. QED
  BY <1>1, <1>2, <1>3, StretchIsSubSeq

(* What any client is given, over any number of connections, messages and  *)
(* lags, is a gapless run of the publication order from its subscription.  *)
THEOREM DeliveryIsARun == Spec => []NothingSkipped
<1>1. Spec => [](TypeInv /\ RunInv)
  BY TypeInit, TypeStep, RunInit, RunStep, PTL DEF Spec
<1>2. QED
  BY <1>1, RunNotSkipped, PTL

-----------------------------------------------------------------------------
(***************************************************************************)
(* The way of a frame: from the client to recv_task, the database and the  *)
(* log, once and in this order.  The properties speak of the log and the   *)
(* table only; what makes them inductive is which frames recv_task has     *)
(* taken so far, and that it takes each one once.                          *)
(***************************************************************************)
SentOnce ==
    \A c, d \in Conn : \A i \in 1..Len(sent[c]), j \in 1..Len(sent[d]) :
      sent[c][i] = sent[d][j] /\ sent[c][i] \in Frames => c = d /\ i = j

TakenFrames ==
    {f \in Frames : \E c \in Conn : \E i \in 1..read[c] : sent[c][i] = f}

TakenFirst ==
    /\ \A t \in Texts : insert[t] # "none" => t \in TakenFrames
    /\ \A i \in 1..Len(log) : log[i] \in TakenFrames

Distinct(seq) == \A i, j \in 1..Len(seq) : seq[i] = seq[j] => i = j

StoredOnce ==
    /\ \A t \in Texts : insert[t] \in {"committed", "unreported"} <=> Occurs(t, table)
    /\ Distinct(table)

LoggedOnce ==
    /\ \A t \in Texts : Occurs(t, log) => insert[t] = "committed"
    /\ \A c \in Conn : recvTask[c] = "creating" => ~Occurs(Current(c), log)
    /\ Distinct(log)

FrameInv == SentOnce /\ TakenFirst /\ StoredOnce /\ LoggedOnce

-----------------------------------------------------------------------------
(* What an append does to membership and distinctness.                     *)
LEMMA OccursAppend ==
  ASSUME NEW S, NEW s \in Seq(S), NEW e \in S, NEW x
  PROVE  Occurs(x, Append(s, e)) <=> Occurs(x, s) \/ x = e
<1>1. /\ Len(s) \in Nat /\ Len(Append(s, e)) = Len(s) + 1
      /\ \A i \in 1..Len(s) : Append(s, e)[i] = s[i]
      /\ Append(s, e)[Len(s) + 1] = e
  BY AppendProperties, LenProperties
<1>2. QED
  BY <1>1 DEF Occurs

LEMMA DistinctAppend ==
  ASSUME NEW S, NEW s \in Seq(S), NEW e \in S, Distinct(s), ~Occurs(e, s)
  PROVE  Distinct(Append(s, e))
<1>1. /\ Len(s) \in Nat /\ Len(Append(s, e)) = Len(s) + 1
      /\ \A i \in 1..Len(s) : Append(s, e)[i] = s[i]
      /\ Append(s, e)[Len(s) + 1] = e
  BY AppendProperties, LenProperties
<1>2. QED
  BY <1>1 DEF Occurs, Distinct

-----------------------------------------------------------------------------
(* A client only adds to what it has sent, and recv_task only reads on.    *)
Advances ==
    \A c \in Conn :
      /\ read[c] \in Nat /\ read'[c] \in Nat /\ read[c] <= read'[c]
      /\ Len(sent[c]) \in Nat /\ read[c] <= Len(sent[c])
      /\ Len(sent'[c]) \in Nat /\ Len(sent[c]) <= Len(sent'[c])
      /\ \A i \in 1..Len(sent[c]) : sent'[c][i] = sent[c][i]

LEMMA StepAdvances == TypeInv /\ [Next]_vars => Advances
<1> SUFFICES ASSUME TypeInv, [Next]_vars PROVE Advances
  OBVIOUS
<1>t. /\ sent \in [Conn -> Seq(Frames \cup {Close})] /\ read \in [Conn -> Nat]
      /\ \A c \in Conn : Len(sent[c]) \in Nat /\ read[c] <= Len(sent[c])
  BY LenProperties DEF TypeInv, TypeOK
<1>1. CASE UNCHANGED <<sent, read>>
  BY <1>1, <1>t DEF Advances
<1>2. ASSUME NEW c \in Conn, NEW f \in Frames \cup {Close}, ClientSends(c, f) PROVE Advances
  <2>1. sent' = [sent EXCEPT ![c] = Append(@, f)] /\ read' = read
    BY <1>2 DEF ClientSends
  <2>2. /\ \A i \in 1..Len(sent[c]) : Append(sent[c], f)[i] = sent[c][i]
        /\ Len(Append(sent[c], f)) = Len(sent[c]) + 1
    BY <1>t, AppendProperties
  <2>3. QED
    BY <2>1, <2>2, <1>t DEF Advances
<1>3. ASSUME NEW c \in Conn, Reads(c), UNCHANGED sent PROVE Advances
  <2>1. /\ read' \in [Conn -> Nat]
        /\ read'[c] = read[c] + 1
        /\ \A d \in Conn \ {c} : read'[d] = read[d]
    BY <1>3, ReadsOne
  <2>2. /\ sent' = sent /\ read[c] \in Nat
        /\ \A d \in Conn : read[d] \in Nat /\ read'[d] \in Nat
    BY <2>1, <1>3, <1>t
  <2>3. \A d \in Conn : read[d] <= read'[d]
    BY <2>1, <2>2
  <2>4. QED
    BY <2>2, <2>3, <1>t DEF Advances
<1>4. QED
  BY <1>1, <1>2, <1>3
     DEF Next, vars, hubVars, RecvStep, ReadStep, SendStep, DatabaseStep, Connect, LinkBreaks,
         Select, ReadText, ReadPanics, ReadRelay, ReadIgnored, ReadClose, ReadFails,
         CreateSucceeds, CreateFails, Acquire, InsertFails, Commit, CommitUnreported,
         Receive, ReceiveLagged, Write, WriteFails

LEMMA TakenStays == Advances => TakenFrames \subseteq TakenFrames'
<1> SUFFICES ASSUME Advances, NEW f \in TakenFrames PROVE f \in TakenFrames'
  OBVIOUS
<1>1. PICK c \in Conn : \E i \in 1..read[c] : sent[c][i] = f
  BY DEF TakenFrames
<1>2. PICK i \in 1..read[c] : sent[c][i] = f
  BY <1>1
<1>3. i \in 1..read'[c] /\ sent'[c][i] = f
  BY <1>2 DEF Advances
<1>4. QED
  BY <1>3 DEF TakenFrames

(* A frame that recv_task takes has not been taken before.                 *)
LEMMA TakenNow ==
  ASSUME TypeInv, SentOnce, Advances, NEW c \in Conn, Reads(c), Upcoming(c) \in Frames
  PROVE  Upcoming(c) \notin TakenFrames /\ Upcoming(c) \in TakenFrames'
<1>1. read'[c] = read[c] + 1 /\ read'[c] \in 1..Len(sent[c])
  BY ReadsOne
<1>2. sent[c][read'[c]] = Upcoming(c)
  BY <1>1 DEF Upcoming
<1>3. Upcoming(c) \in TakenFrames'
  <2>1. sent'[c][read'[c]] = Upcoming(c)
    BY <1>1, <1>2 DEF Advances
  <2>2. read'[c] \in 1..read'[c]
    BY <1>1 DEF Advances
  <2>3. QED
    BY <2>1, <2>2 DEF TakenFrames
<1>4. ASSUME NEW d \in Conn, NEW i \in 1..read[d], sent[d][i] = Upcoming(c) PROVE FALSE
  <2>1. i \in 1..Len(sent[d]) /\ i <= read[d]
    BY DEF Advances
  <2>2. d = c /\ i = read'[c]
    BY <1>1, <1>2, <1>4, <2>1 DEF SentOnce
  <2>3. QED
    BY <1>1, <2>1, <2>2 DEF Advances
<1>5. QED
  BY <1>3, <1>4 DEF TakenFrames

-----------------------------------------------------------------------------
(* Each frame is sent once, so it sits in one place of one connection.     *)
LEMMA SentOnceStep == TypeInv /\ SentOnce /\ [Next]_vars => SentOnce'
<1> SUFFICES ASSUME TypeInv, SentOnce, [Next]_vars PROVE SentOnce'
  OBVIOUS
<1>1. CASE UNCHANGED sent
  BY <1>1 DEF SentOnce
<1>2. ASSUME NEW c \in Conn, NEW f \in Frames \cup {Close}, ClientSends(c, f) PROVE SentOnce'
  <2>1. /\ sent \in [Conn -> Seq(Frames \cup {Close})]
        /\ sent' = [sent EXCEPT ![c] = Append(@, f)]
        /\ f \in Frames => \A d \in Conn : ~Occurs(f, sent[d])
    BY <1>2 DEF ClientSends, TypeInv, TypeOK
  <2>2. /\ \A d \in Conn : Len(sent[d]) \in Nat
        /\ Len(sent'[c]) = Len(sent[c]) + 1
        /\ \A i \in 1..Len(sent[c]) : sent'[c][i] = sent[c][i]
        /\ sent'[c][Len(sent[c]) + 1] = f
        /\ \A d \in Conn \ {c} : sent'[d] = sent[d]
    BY <2>1, AppendProperties, LenProperties
  <2> SUFFICES ASSUME NEW d \in Conn, NEW e \in Conn,
                      NEW i \in 1..Len(sent'[d]), NEW j \in 1..Len(sent'[e]),
                      sent'[d][i] = sent'[e][j], sent'[d][i] \in Frames
               PROVE  d = e /\ i = j
    BY DEF SentOnce
  <2>3. \/ i \in 1..Len(sent[d]) /\ sent'[d][i] = sent[d][i]
        \/ d = c /\ i = Len(sent[c]) + 1 /\ sent'[d][i] = f
    BY <2>2, SMTT(30)
  <2>4. \/ j \in 1..Len(sent[e]) /\ sent'[e][j] = sent[e][j]
        \/ e = c /\ j = Len(sent[c]) + 1 /\ sent'[e][j] = f
    BY <2>2
  <2>5. QED
    BY <2>1, <2>3, <2>4 DEF SentOnce, Occurs
<1>3. QED
  BY <1>1, <1>2
     DEF Next, vars, hubVars, RecvStep, ReadStep, SendStep, DatabaseStep, Connect, LinkBreaks,
         Select, ReadText, ReadPanics, ReadRelay, ReadIgnored, ReadClose, ReadFails,
         CreateSucceeds, CreateFails, Acquire, InsertFails, Commit, CommitUnreported,
         Receive, ReceiveLagged, Write, WriteFails

(* Nothing is inserted or broadcast that recv_task has not taken.          *)
LEMMA TakenFirstStep == TypeInv /\ SentOnce /\ TakenFirst /\ [Next]_vars => TakenFirst'
<1> SUFFICES ASSUME TypeInv, SentOnce, TakenFirst, [Next]_vars PROVE TakenFirst'
  OBVIOUS
<1>a. Advances /\ TakenFrames \subseteq TakenFrames'
  BY StepAdvances, TakenStays
<1>1. ASSUME UNCHANGED log, \A t \in Texts : insert'[t] # "none" => insert[t] # "none"
      PROVE  TakenFirst'
  BY <1>1, <1>a DEF TakenFirst
<1>2. ASSUME NEW c \in Conn, ReadText(c) PROVE TakenFirst'
  <2>1. Upcoming(c) \in TakenFrames'
    BY <1>2, <1>a, TakenNow DEF ReadText, Frames
  <2>2. log' = log /\ insert' = [insert EXCEPT ![Upcoming(c)] = "waiting"]
    BY <1>2 DEF ReadText
  <2>3. \A t \in Texts : insert'[t] # "none" => insert[t] # "none" \/ t = Upcoming(c)
    BY <2>2 DEF TypeInv, TypeOK
  <2>4. QED
    BY <2>1, <2>2, <2>3, <1>a DEF TakenFirst
<1>3. ASSUME NEW v \in Texts \cup Relays, v \in TakenFrames', Publish(v), UNCHANGED insert
      PROVE  TakenFirst'
  <2>1. /\ Len(log) \in Nat /\ Len(log') = Len(log) + 1
        /\ \A i \in 1..Len(log) : log'[i] = log[i]
        /\ log'[Len(log) + 1] = v
    BY <1>3, LogGrows
  <2>2. \A i \in 1..Len(log') : log'[i] \in TakenFrames'
    BY <2>1, <1>3, <1>a DEF TakenFirst
  <2>3. QED
    BY <2>2, <1>3, <1>a DEF TakenFirst
<1>4. ASSUME NEW c \in Conn, ReadRelay(c) PROVE TakenFirst'
  <2>1. Upcoming(c) \in Relays /\ Upcoming(c) \in TakenFrames'
    BY <1>4, <1>a, TakenNow DEF ReadRelay, Frames
  <2>2. QED
    BY <2>1, <1>4, <1>3 DEF ReadRelay
<1>5. ASSUME NEW c \in Conn, CreateSucceeds(c) PROVE TakenFirst'
  <2>1. Current(c) \in Texts /\ insert[Current(c)] # "none"
    BY <1>5 DEF CreateSucceeds, TypeInv, InHand
  <2>2. Current(c) \in TakenFrames'
    BY <2>1, <1>a DEF TakenFirst
  <2>3. QED
    BY <2>1, <2>2, <1>5, <1>3 DEF CreateSucceeds
<1>6. ASSUME NEW c \in Conn, Select(c) PROVE TakenFirst'
  <2>1. UNCHANGED log /\ \A t \in Texts : insert'[t] # "none" => insert[t] # "none"
    BY <1>6 DEF Select
  <2>2. QED
    BY <2>1, <1>1
<1>7. ASSUME NEW t \in Texts, DatabaseStep(t) PROVE TakenFirst'
  <2>1. UNCHANGED log /\ \A u \in Texts : insert'[u] # "none" => insert[u] # "none"
    BY <1>7 DEF DatabaseStep, Acquire, InsertFails, Commit, CommitUnreported, hubVars, TypeInv, TypeOK
  <2>2. QED
    BY <2>1, <1>1
<1>8. CASE UNCHANGED <<log, insert>>
  BY <1>8, <1>1
<1>9. QED
  BY <1>2, <1>4, <1>5, <1>6, <1>7, <1>8
     DEF Next, vars, RecvStep, ReadStep, SendStep, Connect, LinkBreaks, ClientSends, ReadPanics,
         ReadIgnored, ReadClose, ReadFails, CreateFails, Receive, ReceiveLagged, Write, WriteFails

(* A row is written once, when its INSERT commits.                         *)
LEMMA StoredOnceStep ==
  TypeInv /\ SentOnce /\ TakenFirst /\ StoredOnce /\ [Next]_vars => StoredOnce'
<1> SUFFICES ASSUME TypeInv, SentOnce, TakenFirst, StoredOnce, [Next]_vars PROVE StoredOnce'
  OBVIOUS
<1>t. insert \in [Texts -> {"none", "waiting", "sent", "committed", "unreported", "failed",
                            "abandoned"}]
  BY DEF TypeInv, TypeOK
<1>1. ASSUME UNCHANGED table,
             \A t \in Texts : insert'[t] \in {"committed", "unreported"}
                             <=> insert[t] \in {"committed", "unreported"}
      PROVE  StoredOnce'
  BY <1>1 DEF StoredOnce
<1>2. ASSUME NEW c \in Conn, ReadText(c) PROVE StoredOnce'
  <2>1. insert[Upcoming(c)] = "none"
    BY <1>2, StepAdvances, TakenNow DEF ReadText, Frames, TakenFirst
  <2>2. QED
    BY <2>1, <1>2, <1>1, <1>t DEF ReadText
<1>3. ASSUME NEW c \in Conn, Select(c) PROVE StoredOnce'
  BY <1>3, <1>1, <1>t DEF Select
<1>4. ASSUME NEW t \in Texts, Acquire(t) \/ InsertFails(t) PROVE StoredOnce'
  BY <1>4, <1>1, <1>t DEF Acquire, InsertFails
<1>5. ASSUME NEW t \in Texts, Commit(t) \/ CommitUnreported(t) PROVE StoredOnce'
  <2>1. /\ insert[t] = "sent" /\ table' = Append(table, t) /\ table \in Seq(Texts)
        /\ insert'[t] \in {"committed", "unreported"}
        /\ \A u \in Texts \ {t} : insert'[u] = insert[u]
    BY <1>5, <1>t DEF Commit, CommitUnreported, TypeInv, TypeOK
  <2>2. ~Occurs(t, table)
    BY <2>1 DEF StoredOnce
  <2>3. Distinct(table')
    BY <2>1, <2>2, DistinctAppend DEF StoredOnce
  <2>4. \A u \in Texts : Occurs(u, table') <=> Occurs(u, table) \/ u = t
    BY <2>1, OccursAppend
  <2>5. QED
    BY <2>1, <2>3, <2>4 DEF StoredOnce
<1>6. CASE UNCHANGED <<insert, table>>
  BY <1>6, <1>1
<1>7. QED
  BY <1>2, <1>3, <1>4, <1>5, <1>6
     DEF Next, vars, RecvStep, ReadStep, SendStep, DatabaseStep, Connect, LinkBreaks, ClientSends,
         ReadPanics, ReadRelay, ReadIgnored, ReadClose, ReadFails, CreateSucceeds, CreateFails,
         Receive, ReceiveLagged, Write, WriteFails

(* A frame is broadcast once, a text only when its INSERT has committed.   *)
LEMMA LoggedOnceStep ==
  TypeInv /\ SentOnce /\ TakenFirst /\ LoggedOnce /\ [Next]_vars => LoggedOnce'
<1> SUFFICES ASSUME TypeInv, SentOnce, TakenFirst, LoggedOnce, [Next]_vars PROVE LoggedOnce'
  OBVIOUS
<1>t. /\ insert \in [Texts -> {"none", "waiting", "sent", "committed", "unreported", "failed",
                               "abandoned"}]
      /\ recvTask \in [Conn -> {"none", "reading", "creating", "done"}]
      /\ log \in Seq(Texts \cup Relays)
      /\ \A c \in Conn : Len(sent[c]) \in Nat /\ read[c] \in Nat /\ read[c] <= Len(sent[c])
      /\ \A c \in Conn : recvTask[c] = "creating" =>
           read[c] \in 1..Len(sent[c]) /\ Current(c) \in Texts
  BY LenProperties DEF TypeInv, TypeOK, InHand
<1>a. Advances
  BY StepAdvances
(* what the log holds has been taken, so what is taken now is not in it *)
<1>b. ASSUME NEW c \in Conn, Reads(c), Upcoming(c) \in Frames PROVE ~Occurs(Upcoming(c), log)
  BY <1>a, <1>b, TakenNow DEF TakenFirst, Occurs
<1>1. ASSUME UNCHANGED log,
             \A t \in Texts : insert[t] = "committed" => insert'[t] = "committed",
             \A c \in Conn : recvTask'[c] = "creating" =>
               \/ recvTask[c] = "creating" /\ read'[c] = read[c]
               \/ ~Occurs(sent'[c][read'[c]], log)
      PROVE  LoggedOnce'
  <2>1. ASSUME NEW c \in Conn, recvTask'[c] = "creating" PROVE ~Occurs(sent'[c][read'[c]], log')
    <3>1. CASE recvTask[c] = "creating" /\ read'[c] = read[c]
      <4>1. sent'[c][read'[c]] = Current(c)
        BY <3>1, <1>t, <1>a DEF Advances, Current
      <4>2. QED
        BY <3>1, <4>1, <1>1 DEF LoggedOnce
    <3>2. CASE ~Occurs(sent'[c][read'[c]], log)
      BY <3>2, <1>1
    <3>3. QED
      BY <3>1, <3>2, <2>1, <1>1
  <2>2. QED
    BY <2>1, <1>1 DEF LoggedOnce, Current
<1>2. ASSUME NEW c \in Conn, ReadText(c) PROVE LoggedOnce'
  <2>1. /\ ~Occurs(Upcoming(c), log)
        /\ insert[Upcoming(c)] = "none" /\ Upcoming(c) \in Texts
    BY <1>2, <1>a, <1>b, TakenNow DEF ReadText, Frames, TakenFirst
  <2>2. /\ UNCHANGED <<log, sent>>
        /\ insert' = [insert EXCEPT ![Upcoming(c)] = "waiting"]
        /\ recvTask' = [recvTask EXCEPT ![c] = "creating"]
        /\ read'[c] = read[c] + 1 /\ \A d \in Conn \ {c} : read'[d] = read[d]
    BY <1>2, ReadsOne DEF ReadText
  <2>3. ~Occurs(sent'[c][read'[c]], log)
    BY <2>1, <2>2 DEF Upcoming
  <2>4. QED
    BY <2>1, <2>2, <2>3, <1>1, <1>t
<1>3. ASSUME NEW c \in Conn, ReadPanics(c) \/ ReadIgnored(c) \/ ReadClose(c) PROVE LoggedOnce'
  <2>1. /\ Reads(c) /\ UNCHANGED <<log, insert>>
        /\ recvTask' = [recvTask EXCEPT ![c] = "done"] \/ UNCHANGED recvTask
    BY <1>3 DEF ReadPanics, ReadIgnored, ReadClose
  <2>2. recvTask[c] = "reading" /\ \A d \in Conn \ {c} : read'[d] = read[d]
    BY <2>1, ReadsOne
  <2>3. QED
    BY <2>1, <2>2, <1>1, <1>t
<1>4. ASSUME NEW v \in Texts \cup Relays, Publish(v), ~Occurs(v, log),
             v \in Texts => insert[v] = "committed", UNCHANGED <<sent, insert>>,
             \A d \in Conn : recvTask'[d] = "creating" =>
               recvTask[d] = "creating" /\ read'[d] = read[d] /\ Current(d) # v
      PROVE  LoggedOnce'
  <2>1. log' = Append(log, v)
    BY <1>4 DEF Publish
  <2>2. Distinct(log')
    BY <2>1, <1>4, <1>t, DistinctAppend DEF LoggedOnce
  <2>3. \A x : Occurs(x, log') <=> Occurs(x, log) \/ x = v
    BY <2>1, <1>t, OccursAppend
  <2>4. QED
    BY <2>2, <2>3, <1>4 DEF LoggedOnce, Current
<1>5. ASSUME NEW c \in Conn, ReadRelay(c) PROVE LoggedOnce'
  <2>1. /\ Reads(c) /\ Upcoming(c) \in Relays /\ Publish(Upcoming(c))
        /\ UNCHANGED <<sent, insert, recvTask>>
    BY <1>5 DEF ReadRelay
  <2>2. /\ Upcoming(c) \notin Texts /\ ~Occurs(Upcoming(c), log)
    BY <2>1, <1>b, FramesAssumption DEF Frames
  <2>3. recvTask[c] = "reading" /\ \A d \in Conn \ {c} : read'[d] = read[d]
    BY <2>1, ReadsOne
  <2>4. QED
    BY <2>1, <2>2, <2>3, <1>4, <1>t
<1>6. ASSUME NEW c \in Conn, CreateSucceeds(c) PROVE LoggedOnce'
  <2>1. /\ recvTask[c] = "creating" /\ insert[Current(c)] = "committed" /\ Publish(Current(c))
        /\ UNCHANGED <<sent, read, insert>> /\ recvTask' = [recvTask EXCEPT ![c] = "reading"]
    BY <1>6 DEF CreateSucceeds
  <2>2. ~Occurs(Current(c), log)
    BY <2>1 DEF LoggedOnce
  <2>3. ASSUME NEW d \in Conn, recvTask'[d] = "creating"
        PROVE  recvTask[d] = "creating" /\ read'[d] = read[d] /\ Current(d) # Current(c)
    <3>1. d # c /\ recvTask[d] = "creating"
      BY <2>1, <2>3, <1>t
    <3>2. QED
      BY <3>1, <2>1, <1>t DEF SentOnce, Current, Frames
  <2>4. QED
    BY <2>1, <2>2, <2>3, <1>4, <1>t
<1>7. ASSUME NEW c \in Conn, Select(c) PROVE LoggedOnce'
  BY <1>7, <1>1, <1>t DEF Select
<1>8. ASSUME NEW t \in Texts, DatabaseStep(t) PROVE LoggedOnce'
  BY <1>8, <1>1, <1>t DEF DatabaseStep, Acquire, InsertFails, Commit, CommitUnreported, hubVars
<1>9. ASSUME NEW c \in Conn, Connect(c) \/ ReadFails(c) \/ CreateFails(c) PROVE LoggedOnce'
  BY <1>9, <1>1, <1>t DEF Connect, ReadFails, CreateFails
<1>10. CASE UNCHANGED <<log, read, recvTask, insert>>
  BY <1>10, <1>1
<1>11. QED
  BY <1>2, <1>3, <1>5, <1>6, <1>7, <1>8, <1>9, <1>10
     DEF Next, vars, RecvStep, ReadStep, SendStep, LinkBreaks, ClientSends,
         Receive, ReceiveLagged, Write, WriteFails

LEMMA FrameInit == Init => FrameInv
  BY DEF Init, FrameInv, SentOnce, TakenFirst, StoredOnce, LoggedOnce, Occurs, Distinct

(* The invariant holds in every behaviour.                                 *)
LEMMA FrameInvariant == Spec => [](TypeInv /\ FrameInv)
<1>1. TypeInv /\ FrameInv /\ [Next]_vars => FrameInv'
  BY SentOnceStep, TakenFirstStep, StoredOnceStep, LoggedOnceStep DEF FrameInv
<1>2. QED
  BY <1>1, TypeInit, TypeStep, FrameInit, PTL DEF Spec

(* No client is ever shown a message whose row is not committed.           *)
THEOREM BroadcastIsPersisted == Spec => []PersistedBeforeBroadcast
<1>1. FrameInv => PersistedBeforeBroadcast
  BY DEF FrameInv, LoggedOnce, StoredOnce, PersistedBeforeBroadcast
<1>2. QED
  BY <1>1, FrameInvariant, PTL

(* No failure makes recv_task broadcast or store a frame twice.            *)
THEOREM BroadcastOnce == Spec => []NoDuplicates
<1>1. FrameInv => NoDuplicates
  BY DEF FrameInv, LoggedOnce, StoredOnce, Distinct, NoDuplicates
<1>2. QED
  BY <1>1, FrameInvariant, PTL
=============================================================================
