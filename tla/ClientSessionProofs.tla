------------------------ MODULE ClientSessionProofs ------------------------
(***************************************************************************)
(* Theorems about ClientSession, for any number of accounts, overlapping   *)
(* calls, tokens and key pairs, and any fields in the server's answer.     *)
(***************************************************************************)
EXTENDS ClientSession, TLAPS

CallRecord ==
    [pc : CallPc, kind : {"register", "login", "other"}, who : User \cup {Nobody},
     token : Token \cup {None}, key : Key \cup {None}, shared : BOOLEAN]

(* A register or login in progress. *)
Working(c) == ~At(c, "idle") /\ call[c].kind # "other"

(* What a call has in hand where it is.                                    *)
InHand(c) ==
    /\ At(c, "idle") => call[c] = NoCall
    /\ At(c, "sent") => call[c].kind = "other"
    /\ call[c].kind = "other" => call[c].pc \in {"sent", "done", "refused"} /\ call[c].key = None
    /\ Working(c) => call[c].who \in User
    /\ Working(c) /\ call[c].pc \notin {"posted", "denied"} =>
         call[c].token \in DOMAIN issued /\ issued[call[c].token] = call[c].who
    /\ call[c].pc \in {"posted", "denied", "answered", "stored", "private"} => call[c].key = None
    /\ call[c].pc \in {"public", "send", "uploading"} => call[c].key # None
    /\ call[c].key # None => call[c].key \in DOMAIN maker /\ maker[call[c].key] = call[c].who

(* Every token in use has been issued, every key in use has been made.     *)
InUse ==
    /\ auth_token \in DOMAIN issued \cup {None}
    /\ "token" \notin Answer => auth_token \in DOMAIN Bootstrap \cup {None}
    /\ \A t \in DOMAIN Bootstrap : t \in DOMAIN issued /\ issued[t] = Bootstrap[t]
    /\ \A t \in DOMAIN issued : issued[t] \in members \cup {Nobody}
    /\ private_key \in DOMAIN maker \cup {None} /\ public_key \in DOMAIN maker \cup {None}
    /\ uploads \subseteq [header : DOMAIN issued \cup {None}, key : DOMAIN maker]
    /\ \A u \in User : serverKey[u] \in Key => serverKey[u] \in DOMAIN maker
    /\ \A u \in User : serverKey[u] # None => u \in members
    /\ confirmed \subseteq DOMAIN maker

TypeInv == TypeOK /\ (\A c \in Call : InHand(c)) /\ InUse

-----------------------------------------------------------------------------
(* What steps do to the calls                                              *)

(* A longer sequence keeps what it had. *)
LEMMA Longer ==
    ASSUME NEW S, NEW s \in Seq(S), NEW e \in S
    PROVE  /\ Append(s, e) \in Seq(S)
           /\ Len(s) \in Nat /\ DOMAIN s = 1..Len(s)
           /\ Len(Append(s, e)) = Len(s) + 1
           /\ DOMAIN Append(s, e) = 1..(Len(s) + 1)
           /\ \A i \in 1..Len(s) : Append(s, e)[i] = s[i] /\ s[i] \in S
           /\ Append(s, e)[Len(s) + 1] = e
  OBVIOUS

(* A call goes on, with a token or key in hand or without, or it ends; the *)
(* others stay where they are.                                             *)
Alone(c) == \A d \in Call : d # c => call'[d] = call[d]
After(c, pc, token, key) ==
    /\ call'[c].pc = pc /\ call'[c].token = token /\ call'[c].key = key
    /\ call'[c].kind = call[c].kind /\ call'[c].who = call[c].who
    /\ call'[c].shared = call[c].shared
    /\ Alone(c)
Ended(c) == call'[c] = NoCall /\ Alone(c)

LEMMA GotoMoves ==
    ASSUME TypeOK, NEW c \in Call, NEW pc \in CallPc, Goto(c, pc)
    PROVE  After(c, pc, call[c].token, call[c].key) /\ call' \in [Call -> CallRecord]
<1>1. call \in [Call -> CallRecord] /\ call[c] \in CallRecord
  BY DEF TypeOK, CallRecord
<1>2. call' = [call EXCEPT ![c] = [call[c] EXCEPT !.pc = pc]]
  BY DEF Goto
<1>3. [call[c] EXCEPT !.pc = pc] \in CallRecord
  BY <1>1 DEF CallRecord
<1>4. call' \in [Call -> CallRecord]
  BY <1>1, <1>2, <1>3
<1>5. After(c, pc, call[c].token, call[c].key)
  <2>1. call'[c] = [call[c] EXCEPT !.pc = pc] /\ Alone(c)
    BY <1>1, <1>2 DEF Alone
  <2>2. QED
    BY <1>1, <2>1 DEF After, CallRecord
<1>6. QED
  BY <1>4, <1>5

LEMMA ReturnClears ==
    ASSUME TypeOK, NEW c \in Call, Return(c)
    PROVE  Ended(c) /\ call' \in [Call -> CallRecord]
  BY DEF TypeOK, Return, Ended, Alone, NoCall, CallRecord, CallPc, None

LEMMA CallsAfter ==
    ASSUME TypeOK, NEW c \in Call
    PROVE  /\ ServerAnswers(c) => After(c, "answered", Len(issued) + 1, call[c].key)
           /\ ServerRefuses(c) => After(c, "denied", call[c].token, call[c].key)
           /\ StoreToken(c) => After(c, "stored", call[c].token, call[c].key) \/ Ended(c)
           /\ CheckKeys(c) => After(c, "private", call[c].token, call[c].key) \/ Ended(c)
           /\ WritePrivate(c) => After(c, "public", call[c].token, Len(maker) + 1)
           /\ WritePublic(c) => After(c, "send", call[c].token, call[c].key)
           /\ SendUpload(c) => After(c, "uploading", call[c].token, call[c].key)
           /\ ServeRequest(c) => \E pc \in {"done", "refused"} :
                                   After(c, pc, call[c].token, call[c].key)
           /\ Succeeds(c) \/ Refused(c) \/ CallFails(c) => Ended(c)
<1> USE DEF CallPc
<1>1. ServerAnswers(c) => After(c, "answered", Len(issued) + 1, call[c].key)
  BY DEF TypeOK, ServerAnswers, ServerRefuses, After, Alone
<1>2. WritePrivate(c) => After(c, "public", call[c].token, Len(maker) + 1)
  BY DEF TypeOK, WritePrivate, After, Alone
<1>3. QED
  BY <1>1, <1>2, GotoMoves, ReturnClears
     DEF ServerRefuses, StoreToken, CheckKeys, WritePublic, SendUpload, ServeRequest, Succeeds,
         Refused, CallFails

LEMMA StartsAfter ==
    ASSUME TypeOK, NEW c \in Call, NEW kind \in {"register", "login"}, NEW u \in User,
           StartCall(c, kind, u)
    PROVE  /\ call'[c].pc = "posted" /\ call'[c].kind = kind /\ call'[c].who = u
           /\ call'[c].token = auth_token /\ call'[c].key = None
           /\ call'[c].shared <=> Others(c) # {}
           /\ \A d \in Others(c) : call'[d] = [call[d] EXCEPT !.shared = TRUE]
           /\ \A d \in Call \ Others(c) : d # c => call'[d] = call[d]
  BY DEF StartCall, Others, NoCall

LEMMA RequestAfter ==
    ASSUME TypeOK, NEW c \in Call, StartRequest(c)
    PROVE  /\ call'[c].pc = "sent" /\ call'[c].kind = "other" /\ call'[c].token = auth_token
           /\ call'[c].key = None /\ call'[c].shared = FALSE
           /\ Alone(c)
  BY DEF TypeOK, StartRequest, NoCall, Alone

(* Tokens and keys keep their accounts.                                    *)
Grown ==
    /\ \A t \in DOMAIN issued : t \in DOMAIN issued' /\ issued'[t] = issued[t]
    /\ \A k \in DOMAIN maker : k \in DOMAIN maker' /\ maker'[k] = maker[k]

LEMMA NothingForgotten == TypeInv /\ Next => Grown
<1> SUFFICES ASSUME TypeInv, Next PROVE Grown
  OBVIOUS
<1>1. ASSUME NEW c \in Call, ServerAnswers(c) PROVE Grown
  <2>1. call[c].who \in User
    BY <1>1 DEF TypeInv, InHand, Working, At, ServerAnswers
  <2>2. QED
    BY <1>1, <2>1, Longer DEF TypeInv, TypeOK, ServerAnswers, ServerRefuses, Grown, keyHistory
<1>2. ASSUME NEW c \in Call, WritePrivate(c) PROVE Grown
  <2>1. call[c].who \in User
    BY <1>2 DEF TypeInv, InHand, Working, At, WritePrivate
  <2>2. QED
    BY <1>2, <2>1, Longer DEF TypeInv, TypeOK, WritePrivate, Grown, server
<1>3. ASSUME issued' = issued, maker' = maker PROVE Grown
  BY <1>3 DEF Grown
<1>4. QED
  BY <1>1, <1>2, <1>3 DEF Next, CallStep, WorldStep, StartCall, ServerRefuses, StoreToken,
    CheckKeys, WritePublic, SendUpload, StartRequest, ServeRequest, Succeeds, Refused, CallFails,
    logout, ServeUpload, RefuseUpload, LoseUpload, Expire, OtherDevice, Crash, server, keyHistory

-----------------------------------------------------------------------------
(* The type                                                                *)

LEMMA TypeInit == Init => TypeInv
<1> SUFFICES ASSUME Init PROVE TypeInv
  OBVIOUS
<1>1. TypeOK
  <2>1. DOMAIN Bootstrap = 1..Len(Bootstrap) /\ Len(Bootstrap) \in 0..MaxTokens
    BY BoundsAssumption, BootstrapAssumption
  <2>2. DOMAIN Bootstrap \subseteq Token
    BY <2>1, BoundsAssumption DEF Token
  <2>3. {Bootstrap[t] : t \in DOMAIN Bootstrap} \ {Nobody} \subseteq User
    BY BootstrapAssumption
  <2>4. issued \in Seq(User \cup {Nobody}) /\ Len(issued) <= MaxTokens
    BY BootstrapAssumption DEF Init
  <2>5. call \in [Call -> CallRecord]
    BY DEF Init, NoCall, CallRecord, CallPc, None
  <2>6. auth_token \in Token \cup {None} /\ members \subseteq User
    BY <2>2, <2>3 DEF Init
  <2>7. /\ private_key \in Key \cup {None} /\ public_key \in Key \cup {None}
        /\ serverKey \in [User -> Key \cup {None, Elsewhere}]
        /\ maker \in Seq(User) /\ Len(maker) <= MaxKeys
        /\ expired = {} /\ uploads = {} /\ confirmed = {} /\ raced = {} /\ torn = {}
        /\ crossed = FALSE
    BY BoundsAssumption DEF Init
  <2>8. QED
    BY <2>4, <2>5, <2>6, <2>7 DEF TypeOK, CallRecord
<1>2. InUse
  <2>1. DOMAIN maker = {}
    BY DEF Init
  <2>2. None \notin Key
    BY BoundsAssumption DEF Key, None
  <2>3. QED
    BY <2>1, <2>2 DEF Init, InUse
<1>3. \A c \in Call : InHand(c)
  BY DEF Init, InHand, At, NoCall, Working, None
<1>4. QED
  BY <1>1, <1>2, <1>3 DEF TypeInv

(* The requests of the calls themselves.                                   *)
LEMMA CallType ==
    ASSUME TypeInv, NEW c \in Call, CallStep(c)
    PROVE  TypeOK'
<1> USE DEF TypeOK, CallRecord, CallPc
<1>0. TypeOK
  BY DEF TypeInv
<1>1. ASSUME NEW kind \in {"register", "login"}, NEW u \in User, StartCall(c, kind, u)
      PROVE  TypeOK'
  <2>1. call' \in [Call -> CallRecord]
    <3> DEFINE first == [NoCall EXCEPT !.pc = "posted", !.kind = kind, !.who = u,
                                       !.token = auth_token, !.shared = Others(c) # {}]
               beside(d) == [call[d] EXCEPT !.shared = TRUE]
    <3>1. first \in CallRecord
      <4>1. (Others(c) # {}) \in BOOLEAN
        OBVIOUS
      <4>2. QED
        BY <1>0, <4>1 DEF NoCall, None
    <3>2. \A d \in Call : beside(d) \in CallRecord
      BY <1>0, ZenonT(40)
    <3>3. call' = [d \in Call |-> IF d = c THEN first ELSE IF d \in Others(c) THEN beside(d)
                                  ELSE call[d]]
      BY <1>1 DEF StartCall
    <3> HIDE DEF first, beside
    <3>4. QED
      BY <1>0, <3>1, <3>2, <3>3
  <2>2. raced' \subseteq Key
    <3>1. \A d \in Others(c) : call[d].key \in Key \cup {None}
      BY <1>0 DEF Others
    <3>2. QED
      BY <1>0, <1>1, <3>1 DEF StartCall
  <2>3. QED
    BY <1>0, <1>1, <2>1, <2>2 DEF StartCall, storage, server
<1>2. CASE ServerAnswers(c)
  <2>1. call[c].who \in User
    BY <1>2 DEF TypeInv, InHand, Working, At, ServerAnswers
  <2>2. /\ issued' \in Seq(User \cup {Nobody}) /\ Len(issued') <= MaxTokens
        /\ Len(issued) + 1 \in Token
    BY <1>0, <1>2, <2>1, Longer, BoundsAssumption DEF ServerAnswers, ServerRefuses, Token
  <2>3. call' \in [Call -> CallRecord]
    <3>1. [call[c] EXCEPT !.pc = "answered", !.token = Len(issued) + 1] \in CallRecord
      BY <1>0, <2>2, ZenonT(40)
    <3>2. call' = [call EXCEPT ![c] = [call[c] EXCEPT !.pc = "answered", !.token = Len(issued) + 1]]
      BY <1>0, <1>2 DEF ServerAnswers
    <3>3. QED
      BY <1>0, <3>1, <3>2
  <2>4. QED
    BY <1>0, <1>2, <2>1, <2>2, <2>3 DEF ServerAnswers, ServerRefuses, storage, keyHistory
<1>14. CASE ServerRefuses(c)
  <2>1. call' \in [Call -> CallRecord]
    BY <1>0, <1>14, GotoMoves DEF ServerRefuses
  <2>2. QED
    BY <1>0, <1>14, <2>1 DEF ServerRefuses, storage, server, keyHistory
<1>3. CASE StoreToken(c)
  <2>1. call[c].token \in Token
    <3>1. call[c].token \in DOMAIN issued
      BY <1>3 DEF TypeInv, InHand, Working, At, StoreToken
    <3>2. QED
      BY <1>0, <3>1, Longer, BoundsAssumption DEF Token
  <2>2. call' \in [Call -> CallRecord]
    BY <1>0, <1>3, GotoMoves, ReturnClears DEF StoreToken
  <2>3. crossed' \in BOOLEAN
    BY <1>0, <1>3 DEF StoreToken, Unanswered
  <2>4. QED
    BY <1>0, <1>3, <2>1, <2>2, <2>3 DEF StoreToken, server, keyHistory
<1>4. CASE CheckKeys(c)
  <2>1. call' \in [Call -> CallRecord]
    BY <1>0, <1>4, GotoMoves, ReturnClears DEF CheckKeys
  <2>2. QED
    BY <1>0, <1>4, <2>1 DEF CheckKeys, storage, server, keyHistory
<1>5. CASE WritePrivate(c)
  <2>1. call[c].who \in User
    BY <1>5 DEF TypeInv, InHand, Working, At, WritePrivate
  <2>2. maker' \in Seq(User) /\ Len(maker') <= MaxKeys /\ Len(maker) + 1 \in Key
    BY <1>0, <1>5, <2>1, Longer, BoundsAssumption DEF WritePrivate, Key
  <2>3. call' \in [Call -> CallRecord]
    <3>1. [call[c] EXCEPT !.pc = "public", !.key = Len(maker) + 1] \in CallRecord
      BY <1>0, <2>2, ZenonT(40)
    <3>2. call' = [call EXCEPT ![c] = [call[c] EXCEPT !.pc = "public", !.key = Len(maker) + 1]]
      BY <1>0, <1>5 DEF WritePrivate
    <3>3. QED
      BY <1>0, <3>1, <3>2
  <2>4. QED
    BY <1>0, <1>5, <2>1, <2>2, <2>3 DEF WritePrivate, server
<1>6. CASE WritePublic(c)
  <2>1. call' \in [Call -> CallRecord]
    BY <1>0, <1>6, GotoMoves DEF WritePublic
  <2>2. QED
    BY <1>0, <1>6, <2>1 DEF WritePublic, server, keyHistory
<1>7. CASE SendUpload(c)
  <2>1. call' \in [Call -> CallRecord]
    BY <1>0, <1>7, GotoMoves DEF SendUpload
  <2>2. call[c].key \in Key
    BY <1>0, <1>7 DEF TypeInv, InHand, At, SendUpload
  <2>3. uploads' \subseteq [header : Token \cup {None}, key : Key]
    BY <1>0, <1>7, <2>2 DEF SendUpload
  <2>4. QED
    BY <1>0, <1>7, <2>1, <2>3 DEF SendUpload, storage, keyHistory
<1>8. CASE StartRequest(c)
  <2>1. call' \in [Call -> CallRecord]
    BY <1>0, <1>8 DEF StartRequest, NoCall, None
  <2>2. QED
    BY <1>0, <1>8, <2>1 DEF StartRequest, storage, server, keyHistory
<1>9. CASE ServeRequest(c)
  <2>1. call' \in [Call -> CallRecord]
    BY <1>0, <1>9, GotoMoves DEF ServeRequest
  <2>2. QED
    BY <1>0, <1>9, <2>1 DEF ServeRequest, storage, server, keyHistory
<1>10. CASE Succeeds(c)
  <2>1. call' \in [Call -> CallRecord]
    BY <1>0, <1>10, ReturnClears DEF Succeeds
  <2>2. QED
    BY <1>0, <1>10, <2>1 DEF Succeeds, storage, server
<1>11. CASE Refused(c)
  <2>1. call' \in [Call -> CallRecord]
    BY <1>0, <1>11, ReturnClears DEF Refused
  <2>2. QED
    BY <1>0, <1>11, <2>1 DEF Refused, Unauthorized, server, keyHistory
<1>12. CASE CallFails(c)
  <2>1. call' \in [Call -> CallRecord]
    BY <1>0, <1>12, ReturnClears DEF CallFails
  <2>2. QED
    BY <1>0, <1>12, <2>1 DEF CallFails, TornBy, storage, server
<1>13. QED
  BY <1>1, <1>2, <1>3, <1>4, <1>5, <1>6, <1>7, <1>8, <1>9, <1>10, <1>11, <1>12, <1>14
     DEF CallStep

(* The server, the network and the device.                                 *)
LEMMA NotifyChanges ==
    ASSUME TypeOK, NEW up, NEW answer \in {"done", "refused"}, Notify(up, answer)
    PROVE  /\ call' \in [Call -> CallRecord]
           /\ \A c \in Call : \/ call'[c] = call[c]
                              \/ Awaits(c, up) /\ call'[c] = [call[c] EXCEPT !.pc = answer]
<1> DEFINE told(c) == [call[c] EXCEPT !.pc = answer]
<1>1. call \in [Call -> CallRecord]
  BY DEF TypeOK, CallRecord
<1>2. \A c \in Call : told(c) \in CallRecord
  BY <1>1, ZenonT(40) DEF CallRecord, CallPc
<1>3. call' = [c \in Call |-> IF Awaits(c, up) THEN told(c) ELSE call[c]]
  BY DEF Notify
<1>4. \A c \in Call : call'[c] = call[c] \/ (Awaits(c, up) /\ call'[c] = told(c))
  BY <1>3
<1> HIDE DEF told
<1>5. call' \in [Call -> CallRecord]
  BY <1>1, <1>2, <1>3
<1>6. QED
  BY <1>4, <1>5 DEF told

LEMMA WorldType == ASSUME TypeInv, WorldStep \/ logout \/ Crash PROVE TypeOK'
<1> USE DEF TypeOK, CallRecord
<1>0. TypeOK
  BY DEF TypeInv
<1>1. ASSUME NEW up \in uploads, ServeUpload(up) PROVE TypeOK'
  <2>1. call' \in [Call -> CallRecord]
    BY <1>0, <1>1, NotifyChanges DEF ServeUpload
  <2>2. up.key \in Key
    BY <1>0
  <2>3. QED
    BY <1>0, <1>1, <2>1, <2>2 DEF ServeUpload, storage, keyHistory
<1>2. ASSUME NEW up \in uploads, RefuseUpload(up) \/ LoseUpload(up) PROVE TypeOK'
  <2>1. call' \in [Call -> CallRecord]
    BY <1>0, <1>2, NotifyChanges DEF RefuseUpload, LoseUpload
  <2>2. QED
    BY <1>0, <1>2, <2>1 DEF RefuseUpload, LoseUpload, storage, keyHistory
<1>3. ASSUME NEW t \in Token, Expire(t) PROVE TypeOK'
  BY <1>0, <1>3 DEF Expire, storage, keyHistory
<1>4. ASSUME NEW u \in User, OtherDevice(u) PROVE TypeOK'
  BY <1>0, <1>4 DEF OtherDevice, storage, keyHistory
<1>5. CASE logout
  BY <1>0, <1>5 DEF logout, server, keyHistory
<1>6. CASE Crash
  BY <1>0, <1>6 DEF Crash, TornBy, NoCall, CallPc, None, storage, server
<1>7. QED
  BY <1>1, <1>2, <1>3, <1>4, <1>5, <1>6 DEF WorldStep

-----------------------------------------------------------------------------
(* What is in hand                                                         *)

(* A call that takes no step keeps what it has, beside others or not.      *)
LEMMA HandsStay ==
    ASSUME TypeOK, Grown, NEW d \in Call, InHand(d),
           \/ call'[d] = call[d]
           \/ Working(d) /\ call'[d] = [call[d] EXCEPT !.shared = TRUE]
    PROVE  InHand(d)'
<1>1. CASE call'[d] = call[d]
  BY <1>1 DEF Grown, InHand, At, Working
<1>2. CASE Working(d) /\ call'[d] = [call[d] EXCEPT !.shared = TRUE]
  <2>1. /\ call'[d].pc = call[d].pc /\ call'[d].kind = call[d].kind /\ call'[d].who = call[d].who
        /\ call'[d].token = call[d].token /\ call'[d].key = call[d].key
    BY <1>2 DEF TypeOK
  <2>2. QED
    BY <1>2, <2>1 DEF Grown, InHand, At, Working
<1>3. QED
  BY <1>1, <1>2

LEMMA NoCallInHand == ASSUME NEW c \in Call, call'[c] = NoCall PROVE InHand(c)'
  BY DEF InHand, At, Working, NoCall, None

LEMMA CallHands ==
    ASSUME TypeInv, NEW c \in Call, CallStep(c), Grown
    PROVE  \A d \in Call : InHand(d)'
<1>0. TypeOK /\ (\A d \in Call : InHand(d))
  BY DEF TypeInv
<1>1. ASSUME InHand(c)', \A d \in Call : d # c => call'[d] = call[d]
      PROVE  \A d \in Call : InHand(d)'
  BY <1>0, <1>1, HandsStay
<1>2. ASSUME NEW kind \in {"register", "login"}, NEW u \in User, StartCall(c, kind, u)
      PROVE  \A d \in Call : InHand(d)'
  <2>1. InHand(c)'
    <3>1. /\ call'[c].pc = "posted" /\ call'[c].kind = kind /\ call'[c].who = u
          /\ call'[c].key = None
      BY <1>2 DEF StartCall, NoCall
    <3>2. QED
      BY <3>1 DEF InHand, At, Working
  <2>2. ASSUME NEW d \in Call, d # c PROVE InHand(d)'
    <3>1. \/ call'[d] = call[d]
          \/ Working(d) /\ call'[d] = [call[d] EXCEPT !.shared = TRUE]
      BY <1>2, <2>2 DEF StartCall, Others, Working
    <3>2. QED
      BY <1>0, <3>1, HandsStay
  <2>3. QED
    BY <2>1, <2>2
<1>3. CASE ServerAnswers(c)
  <2>1. Working(c) /\ call[c].who \in User /\ call[c].key = None
    BY <1>0, <1>3 DEF InHand, Working, At, ServerAnswers
  <2>2. (Len(issued) + 1) \in DOMAIN issued' /\ issued'[Len(issued) + 1] = call[c].who
    BY <1>0, <1>3, <2>1, Longer DEF TypeOK, ServerAnswers
  <2>3. /\ call'[c].pc = "answered" /\ call'[c].kind = call[c].kind /\ call'[c].who = call[c].who
        /\ call'[c].token = Len(issued) + 1 /\ call'[c].key = call[c].key
        /\ \A d \in Call : d # c => call'[d] = call[d]
    BY <1>0, <1>3 DEF TypeOK, ServerAnswers
  <2>4. InHand(c)'
    BY <2>1, <2>2, <2>3 DEF InHand, At, Working
  <2>5. QED
    BY <1>1, <2>3, <2>4
<1>14. CASE ServerRefuses(c)
  <2>1. Working(c) /\ call[c].who \in User /\ call[c].key = None
    BY <1>0, <1>14 DEF InHand, Working, At, ServerRefuses
  <2>2. After(c, "denied", call[c].token, call[c].key)
    BY <1>0, <1>14, CallsAfter
  <2>3. InHand(c)'
    BY <2>1, <2>2 DEF After, InHand, At, Working
  <2>4. QED
    BY <1>1, <2>2, <2>3 DEF After, Alone
<1>4. ASSUME NEW pc \in {"stored", "private", "send", "uploading"}, Goto(c, pc), Working(c),
             pc \in {"stored", "private"} => call[c].key = None,
             pc \in {"send", "uploading"} => call[c].key # None,
             call[c].pc \notin {"posted", "denied"}
      PROVE  \A d \in Call : InHand(d)'
  <2>1. /\ call'[c].pc = pc /\ call'[c].kind = call[c].kind /\ call'[c].who = call[c].who
        /\ call'[c].token = call[c].token /\ call'[c].key = call[c].key
        /\ \A d \in Call : d # c => call'[d] = call[d]
    BY <1>0, <1>4 DEF TypeOK, Goto
  <2>2. InHand(c)'
    BY <1>0, <1>4, <2>1 DEF InHand, At, Working, Grown
  <2>3. QED
    BY <1>1, <2>1, <2>2
<1>5. ASSUME Return(c) PROVE \A d \in Call : InHand(d)'
  BY <1>0, <1>1, <1>5, ReturnClears, NoCallInHand DEF Ended, Alone
<1>6. CASE StoreToken(c)
  <2>1. Working(c) /\ call[c].pc \notin {"posted", "denied"} /\ call[c].key = None
    BY <1>0, <1>6 DEF InHand, At, Working, StoreToken
  <2>2. QED
    BY <1>4, <1>5, <1>6, <2>1 DEF StoreToken
<1>7. CASE CheckKeys(c)
  <2>1. Working(c) /\ call[c].pc \notin {"posted", "denied"} /\ call[c].key = None
    BY <1>0, <1>7 DEF InHand, At, Working, CheckKeys
  <2>2. QED
    BY <1>4, <1>5, <1>7, <2>1 DEF CheckKeys
<1>8. CASE WritePrivate(c)
  <2>1. Working(c) /\ call[c].pc \notin {"posted", "denied"} /\ call[c].who \in User
    BY <1>0, <1>8 DEF InHand, Working, At, WritePrivate
  <2>2. (Len(maker) + 1) \in DOMAIN maker' /\ maker'[Len(maker) + 1] = call[c].who
    BY <1>0, <1>8, <2>1, Longer DEF TypeOK, WritePrivate
  <2>3. /\ call'[c].pc = "public" /\ call'[c].kind = call[c].kind /\ call'[c].who = call[c].who
        /\ call'[c].token = call[c].token /\ call'[c].key = Len(maker) + 1
        /\ \A d \in Call : d # c => call'[d] = call[d]
    BY <1>0, <1>8 DEF TypeOK, WritePrivate
  <2>4. Len(maker) + 1 # None
    BY <1>0, Longer DEF TypeOK, None
  <2>5. InHand(c)'
    BY <1>0, <2>1, <2>2, <2>3, <2>4 DEF InHand, At, Working, Grown
  <2>6. QED
    BY <1>1, <2>3, <2>5
<1>9. CASE WritePublic(c)
  <2>1. Working(c) /\ call[c].pc \notin {"posted", "denied"} /\ call[c].key # None
    BY <1>0, <1>9 DEF InHand, At, Working, WritePublic
  <2>2. QED
    BY <1>4, <1>9, <2>1 DEF WritePublic
<1>10. CASE SendUpload(c)
  <2>1. Working(c) /\ call[c].pc \notin {"posted", "denied"} /\ call[c].key # None
    BY <1>0, <1>10 DEF InHand, At, Working, SendUpload
  <2>2. QED
    BY <1>4, <1>10, <2>1 DEF SendUpload
<1>11. CASE StartRequest(c)
  <2>1. /\ call'[c].pc = "sent" /\ call'[c].kind = "other" /\ call'[c].key = None
        /\ \A d \in Call : d # c => call'[d] = call[d]
    BY <1>0, <1>11 DEF TypeOK, StartRequest, NoCall
  <2>2. InHand(c)'
    BY <2>1 DEF InHand, At, Working
  <2>3. QED
    BY <1>1, <2>1, <2>2
<1>12. CASE ServeRequest(c)
  <2>1. /\ call'[c].pc \in {"done", "refused"} /\ call'[c].kind = call[c].kind
        /\ call'[c].key = call[c].key
        /\ \A d \in Call : d # c => call'[d] = call[d]
    BY <1>0, <1>12 DEF TypeOK, ServeRequest, Goto
  <2>2. InHand(c)'
    BY <1>0, <1>12, <2>1 DEF InHand, At, Working, ServeRequest
  <2>3. QED
    BY <1>1, <2>1, <2>2
<1>13. QED
  BY <1>2, <1>3, <1>5, <1>6, <1>7, <1>8, <1>9, <1>10, <1>11, <1>12, <1>14
     DEF CallStep, Succeeds, Refused, CallFails

LEMMA WorldHands ==
    ASSUME TypeInv, WorldStep \/ logout \/ Crash, Grown
    PROVE  \A c \in Call : InHand(c)'
<1>0. TypeOK /\ (\A d \in Call : InHand(d))
  BY DEF TypeInv
<1>1. ASSUME NEW up \in uploads, NEW answer \in {"done", "refused"}, Notify(up, answer)
      PROVE  \A c \in Call : InHand(c)'
  <2>1. SUFFICES ASSUME NEW c \in Call PROVE InHand(c)'
    OBVIOUS
  <2>2. CASE call'[c] = call[c]
    BY <1>0, <2>2, HandsStay
  <2>3. CASE Awaits(c, up) /\ call'[c] = [call[c] EXCEPT !.pc = answer]
    <3>1. /\ call'[c].pc = answer /\ call'[c].kind = call[c].kind /\ call'[c].who = call[c].who
          /\ call'[c].token = call[c].token /\ call'[c].key = call[c].key
      BY <1>0, <2>3 DEF TypeOK
    <3>2. QED
      BY <1>0, <2>3, <3>1 DEF InHand, At, Working, Awaits, Grown
  <2>4. QED
    BY <1>0, <1>1, <2>2, <2>3, NotifyChanges
<1>2. ASSUME call' = call PROVE \A c \in Call : InHand(c)'
  BY <1>0, <1>2, HandsStay
<1>3. CASE Crash
  BY <1>3, NoCallInHand DEF Crash
<1>4. QED
  BY <1>1, <1>2, <1>3
     DEF WorldStep, ServeUpload, RefuseUpload, LoseUpload, Expire, OtherDevice, logout

-----------------------------------------------------------------------------
(* What is in use                                                          *)

(* A step that makes no token and no key, and stores nothing.              *)
LEMMA UseStays ==
    ASSUME InUse, UNCHANGED <<storage, server, maker, confirmed>>
    PROVE  InUse'
  BY DEF InUse, storage, server

LEMMA CallUse == ASSUME TypeInv, NEW c \in Call, CallStep(c), Grown PROVE InUse'
<1>0. TypeOK /\ (\A d \in Call : InHand(d)) /\ InUse
  BY DEF TypeInv
<1>1. CASE ServerAnswers(c)
  <2>1. Working(c) /\ call[c].who \in User
    BY <1>0, <1>1 DEF InHand, Working, At, ServerAnswers
  <2>2. /\ DOMAIN issued' = DOMAIN issued \cup {Len(issued) + 1}
        /\ issued'[Len(issued) + 1] = call[c].who
    BY <1>0, <1>1, <2>1, Longer DEF TypeOK, ServerAnswers
  <2>3. QED
    BY <1>0, <1>1, <2>2 DEF InUse, Grown, ServerAnswers, ServerRefuses, storage, keyHistory
<1>2. CASE StoreToken(c)
  <2>1. call[c].token \in DOMAIN issued
    BY <1>0, <1>2 DEF InHand, Working, At, StoreToken
  <2>2. QED
    BY <1>0, <1>2, <2>1 DEF InUse, StoreToken, server, keyHistory
<1>3. CASE WritePrivate(c)
  <2>1. call[c].who \in User
    BY <1>0, <1>3 DEF InHand, Working, At, WritePrivate
  <2>2. DOMAIN maker' = DOMAIN maker \cup {Len(maker) + 1}
    BY <1>0, <1>3, <2>1, Longer DEF TypeOK, WritePrivate
  <2>3. QED
    BY <1>0, <1>3, <2>2 DEF InUse, WritePrivate, server
<1>4. CASE WritePublic(c)
  <2>1. call[c].key \in DOMAIN maker
    BY <1>0, <1>4 DEF InHand, At, WritePublic
  <2>2. QED
    BY <1>0, <1>4, <2>1 DEF InUse, WritePublic, server, keyHistory
<1>5. CASE SendUpload(c)
  <2>1. call[c].key \in DOMAIN maker
    BY <1>0, <1>5 DEF InHand, At, SendUpload
  <2>2. QED
    BY <1>0, <1>5, <2>1 DEF InUse, SendUpload, storage, keyHistory
<1>6. CASE Succeeds(c)
  <2>1. call[c].key \in DOMAIN maker \cup {None}
    BY <1>0 DEF InHand
  <2>2. QED
    BY <1>0, <1>6, <2>1 DEF InUse, Succeeds, storage, server
<1>7. CASE Refused(c)
  BY <1>0, <1>7 DEF InUse, Refused, Unauthorized, server, keyHistory
<1>8. QED
  BY <1>0, <1>1, <1>2, <1>3, <1>4, <1>5, <1>6, <1>7, UseStays
     DEF CallStep, StartCall, ServerRefuses, CheckKeys, StartRequest, ServeRequest, CallFails,
         keyHistory

LEMMA WorldUse == ASSUME TypeInv, WorldStep \/ logout \/ Crash, Grown PROVE InUse'
<1>0. TypeOK /\ InUse
  BY DEF TypeInv
<1>1. ASSUME NEW up \in uploads, ServeUpload(up) PROVE InUse'
  <2>1. up.key \in DOMAIN maker /\ up.header \in DOMAIN issued
    BY <1>0, <1>1 DEF InUse, ServeUpload, Accepted
  <2>2. \A u \in User :
          \/ serverKey'[u] = serverKey[u]
          \/ u = issued[up.header] /\ serverKey'[u] = up.key
    BY <1>0, <1>1 DEF TypeOK, ServeUpload
  <2>3. QED
    <3>1. \A u \in User : serverKey'[u] # None => u \in members
      BY <1>0, <2>1, <2>2, NobodyAssumption DEF InUse
    <3>2. QED
      BY <1>0, <1>1, <2>1, <2>2, <3>1 DEF InUse, ServeUpload, storage, keyHistory
<1>2. ASSUME NEW up \in uploads, RefuseUpload(up) \/ LoseUpload(up) PROVE InUse'
  BY <1>0, <1>2 DEF InUse, RefuseUpload, LoseUpload, storage, keyHistory
<1>3. ASSUME NEW t \in Token, Expire(t) PROVE InUse'
  BY <1>0, <1>3 DEF InUse, Expire, storage, keyHistory
<1>4. ASSUME NEW u \in User, OtherDevice(u) PROVE InUse'
  <2>1. \A v \in User : serverKey'[v] = serverKey[v] \/ (v = u /\ serverKey'[v] = Elsewhere)
    BY <1>0, <1>4 DEF TypeOK, OtherDevice
  <2>2. Elsewhere \notin Key
    BY BoundsAssumption DEF Elsewhere, Key
  <2>3. QED
    BY <1>0, <1>4, <2>1, <2>2 DEF InUse, OtherDevice, storage, keyHistory
<1>5. CASE logout
  BY <1>0, <1>5 DEF InUse, logout, server, keyHistory
<1>6. CASE Crash
  BY <1>0, <1>6, UseStays DEF Crash
<1>7. QED
  BY <1>1, <1>2, <1>3, <1>4, <1>5, <1>6 DEF WorldStep

LEMMA TypeInvStep == TypeInv /\ [Next]_vars => TypeInv'
<1> SUFFICES ASSUME TypeInv, [Next]_vars PROVE TypeInv'
  OBVIOUS
<1>1. CASE UNCHANGED vars
  BY <1>1 DEF TypeInv, TypeOK, InHand, InUse, Working, At, vars, storage, server, keyHistory
<1>2. CASE Next
  <2>1. Grown
    BY <1>2, NothingForgotten
  <2>2. ASSUME NEW c \in Call, CallStep(c) PROVE TypeInv'
    BY <2>1, <2>2, CallType, CallHands, CallUse DEF TypeInv
  <2>3. CASE WorldStep \/ logout \/ Crash
    BY <2>1, <2>3, WorldType, WorldHands, WorldUse DEF TypeInv
  <2>4. QED
    BY <1>2, <2>2, <2>3 DEF Next
<1>3. QED
  BY <1>1, <1>2

LEMMA TypeAlways == Spec => []TypeInv
  BY TypeInit, TypeInvStep, PTL DEF Spec

(* Storage, calls, server and histories always have their types; this      *)
(* needs that what a call has in hand was issued or made (ClientSession's  *)
(* StoreToken, SendUpload).                                                *)
THEOREM SessionTypeCorrect == Spec => []TypeOK
<1>1. TypeInv => TypeOK
  BY DEF TypeInv
<1>2. QED
  BY <1>1, TypeAlways, PTL

-----------------------------------------------------------------------------
(* A key whose upload has failed                                           *)

(* A call gets a key only by making it.                                    *)
LEMMA KeysInHand ==
    ASSUME TypeInv, Next, NEW d \in Call
    PROVE  \/ call'[d].key \in {call[d].key, None}
           \/ WritePrivate(d) /\ call'[d].key = Len(maker) + 1
<1>0. TypeOK
  BY DEF TypeInv
<1>1. ASSUME NEW c \in Call, NEW kind \in {"register", "login"}, NEW u \in User,
             StartCall(c, kind, u)
      PROVE  call'[d].key \in {call[d].key, None}
  <2>1. CASE d \in Others(c)
    <3>1. call'[d] = [call[d] EXCEPT !.shared = TRUE]
      BY <1>0, <1>1, <2>1, StartsAfter
    <3>2. QED
      BY <1>0, <3>1 DEF TypeOK
  <2>2. CASE d \notin Others(c)
    BY <1>0, <1>1, <2>2, StartsAfter
  <2>3. QED
    BY <2>1, <2>2
<1>2. ASSUME NEW c \in Call, StartRequest(c) PROVE call'[d].key \in {call[d].key, None}
  BY <1>0, <1>2, RequestAfter DEF Alone
<1>3. ASSUME NEW c \in Call, CallStep(c)
      PROVE  \/ call'[d].key \in {call[d].key, None}
             \/ WritePrivate(d) /\ call'[d].key = Len(maker) + 1
  BY <1>0, <1>1, <1>2, <1>3, CallsAfter DEF CallStep, After, Ended, Alone, NoCall
<1>4. ASSUME NEW up, NEW answer \in {"done", "refused"}, Notify(up, answer)
      PROVE  call'[d].key = call[d].key
  <2>1. call'[d] = call[d] \/ call'[d] = [call[d] EXCEPT !.pc = answer]
    BY <1>0, <1>4, NotifyChanges
  <2>2. QED
    BY <1>0, <2>1 DEF TypeOK
<1>5. ASSUME WorldStep \/ logout \/ Crash PROVE call'[d].key \in {call[d].key, None}
  BY <1>4, <1>5 DEF WorldStep, ServeUpload, RefuseUpload, LoseUpload, Expire, OtherDevice, logout,
    Crash, NoCall
<1>6. QED
  BY <1>3, <1>5 DEF Next

(* An upload carries the key of the call that sends it.                    *)
LEMMA UploadsSent ==
    ASSUME Next, NEW up \in uploads', up \notin uploads
    PROVE  \E c \in Call : SendUpload(c) /\ up = [header |-> auth_token, key |-> call[c].key]
<1>1. ASSUME UNCHANGED uploads \/ uploads' \subseteq uploads PROVE FALSE
  BY <1>1
<1>2. PICK c \in Call : SendUpload(c)
  BY <1>1 DEF Next, CallStep, WorldStep, StartCall, ServerAnswers, ServerRefuses, StoreToken,
    CheckKeys, WritePrivate, WritePublic, StartRequest, ServeRequest, Succeeds, Refused,
    CallFails, logout, ServeUpload, RefuseUpload, LoseUpload, Expire, OtherDevice, Crash, server
<1>3. QED
  BY <1>2 DEF SendUpload

(* The server files only what is uploaded.                                 *)
LEMMA KeysFiled ==
    ASSUME TypeOK, Next, NEW u \in User
    PROVE  \/ serverKey'[u] \in {serverKey[u], Elsewhere}
           \/ \E up \in uploads : /\ ServeUpload(up) /\ u = issued[up.header]
                                  /\ serverKey'[u] = up.key
<1>1. ASSUME NEW up \in uploads, ServeUpload(up)
      PROVE  serverKey'[u] = serverKey[u] \/ (u = issued[up.header] /\ serverKey'[u] = up.key)
  BY <1>1 DEF TypeOK, ServeUpload
<1>2. ASSUME NEW v \in User, OtherDevice(v) PROVE serverKey'[u] \in {serverKey[u], Elsewhere}
  BY <1>2 DEF TypeOK, OtherDevice
<1>3. QED
  BY <1>1, <1>2 DEF Next, CallStep, WorldStep, StartCall, ServerAnswers, ServerRefuses,
    StoreToken, CheckKeys, WritePrivate, WritePublic, SendUpload, StartRequest, ServeRequest,
    Succeeds, Refused, CallFails, logout, RefuseUpload, LoseUpload, Expire, Crash, server

(* A key whose upload has failed never reaches the server                  *)
(* (auth_repository_impl.dart:45): no step of login, of an older upload or *)
(* of another device sends it.                                             *)
THEOREM FailedUploadStays == Spec => FailedUploadIsFinal
<1>1. ASSUME TypeInv, Next, NEW k \in Key, Unsent(k) PROVE Unsent(k)'
  <2>0. TypeOK /\ k # Elsewhere /\ k # None /\ k # Len(maker) + 1
    BY <1>1, BoundsAssumption, Longer DEF TypeInv, TypeOK, Key, Elsewhere, None, Unsent
  <2>1. k \in DOMAIN maker'
    BY <1>1, NothingForgotten DEF Grown, Unsent
  <2>2. \A u \in User : serverKey'[u] # k
    BY <1>1, <2>0, KeysFiled DEF Unsent
  <2>3. \A up \in uploads' : up.key # k
    BY <1>1, UploadsSent DEF Unsent
  <2>4. \A c \in Call : call'[c].key # k
    BY <1>1, <2>0, KeysInHand DEF Unsent
  <2>5. QED
    BY <2>1, <2>2, <2>3, <2>4 DEF Unsent
<1>2. TypeInv /\ [Next]_vars => [\A k \in Key : Unsent(k) => Unsent(k)']_vars
  BY <1>1
<1>3. QED
  BY <1>2, TypeAlways, PTL DEF Spec, FailedUploadIsFinal

-----------------------------------------------------------------------------
(* What a step does to one call and to each variable                       *)

(* A call starts, or stays as it is, beside others or not, or takes the    *)
(* step its place allows.                                                  *)
Steps(d) ==
    \/ call'[d].pc = call[d].pc /\ call'[d].token = call[d].token /\ call'[d].key = call[d].key
    \/ ServerAnswers(d) /\ call'[d].pc = "answered" /\ call'[d].key = call[d].key
    \/ /\ \/ ServerRefuses(d) /\ call'[d].pc = "denied"
          \/ StoreToken(d) /\ call'[d].pc = "stored"
          \/ CheckKeys(d) /\ call'[d].pc = "private"
          \/ WritePublic(d) /\ call'[d].pc = "send"
          \/ SendUpload(d) /\ call'[d].pc = "uploading"
          \/ \E up \in uploads :
               /\ Awaits(d, up)
               /\ \/ ServeUpload(up) /\ call'[d].pc = "done"
                  \/ RefuseUpload(up) /\ call'[d].pc = "refused"
       /\ call'[d].token = call[d].token /\ call'[d].key = call[d].key
    \/ /\ WritePrivate(d) /\ call'[d].pc = "public"
       /\ call'[d].token = call[d].token /\ call'[d].key = Len(maker) + 1

Starts(d) == \E kind \in {"register", "login"}, u \in User : StartCall(d, kind, u)
(* A call that another one joins. *)
Joined(d) == call'[d].shared /\ \E c \in Call \ {d} : Starts(c)

Ongoing(d) ==
    /\ Working(d)
    /\ call'[d].kind = call[d].kind /\ call'[d].who = call[d].who
    /\ call'[d].shared = call[d].shared \/ Joined(d)
    /\ Steps(d)

LEMMA CallGoesOn ==
    ASSUME TypeInv, Next, NEW d \in Call, Working(d)'
    PROVE  Starts(d) \/ Ongoing(d)
<1>0. TypeOK /\ InHand(d)
  BY DEF TypeInv
<1>1. ASSUME call'[d] = call[d] PROVE Ongoing(d)
  BY <1>1 DEF Ongoing, Working, At, Steps
<1>2. ASSUME NEW c \in Call, Starts(c), c # d PROVE Ongoing(d)
  <2>1. PICK kind \in {"register", "login"}, u \in User : StartCall(c, kind, u)
    BY <1>2 DEF Starts
  <2>2. CASE d \in Others(c)
    <3>1. call'[d] = [call[d] EXCEPT !.shared = TRUE]
      BY <1>0, <2>1, <2>2, StartsAfter
    <3>2. /\ call'[d].pc = call[d].pc /\ call'[d].kind = call[d].kind
          /\ call'[d].who = call[d].who /\ call'[d].token = call[d].token
          /\ call'[d].key = call[d].key /\ call'[d].shared
      BY <1>0, <3>1 DEF TypeOK
    <3>3. QED
      BY <1>2, <3>2 DEF Ongoing, Working, At, Steps, Joined
  <2>3. CASE d \notin Others(c)
    BY <1>0, <1>1, <1>2, <2>1, <2>3, StartsAfter
  <2>4. QED
    BY <2>2, <2>3
<1>3. ASSUME NEW c \in Call, CallStep(c), ~Starts(c), c # d PROVE Ongoing(d)
  <2>1. call'[d] = call[d]
    BY <1>0, <1>3, CallsAfter, RequestAfter DEF CallStep, Starts, After, Ended, Alone
  <2>2. QED
    BY <1>1, <2>1
<1>4. ~Ended(d) /\ ~StartRequest(d)
  <2>1. call'[d].pc # "idle" /\ call'[d].kind # "other"
    BY DEF Working, At
  <2>2. NoCall.pc = "idle"
    BY DEF NoCall
  <2>3. QED
    BY <1>0, <2>1, <2>2, RequestAfter DEF Ended
<1>5. ASSUME CallStep(d), ~Starts(d) PROVE Ongoing(d)
  <2>1. call[d].kind # "other"
    BY <1>0, <1>4, <1>5, CallsAfter DEF CallStep, Starts, After, Working
  <2>2. ~ServeRequest(d)
    BY <1>0, <2>1 DEF InHand, ServeRequest
  <2>3. ~At(d, "idle")
    BY <1>4, <1>5, <2>2
       DEF CallStep, Starts, ServerAnswers, ServerRefuses, StoreToken, CheckKeys, WritePrivate,
           WritePublic, SendUpload, Succeeds, Refused, CallFails, At
  <2>4. QED
    BY <1>0, <1>4, <1>5, <2>1, <2>2, <2>3, CallsAfter
       DEF CallStep, Starts, After, Ongoing, Working, Steps
<1>6. ASSUME NEW up \in uploads, NEW answer \in {"done", "refused"}, Notify(up, answer),
             (ServeUpload(up) /\ answer = "done") \/ (RefuseUpload(up) /\ answer = "refused")
      PROVE  Ongoing(d)
  <2>1. CASE Awaits(d, up) /\ call'[d] = [call[d] EXCEPT !.pc = answer]
    <3>1. /\ call'[d].pc = answer /\ call'[d].kind = call[d].kind
          /\ call'[d].who = call[d].who /\ call'[d].token = call[d].token
          /\ call'[d].key = call[d].key /\ call'[d].shared = call[d].shared
      BY <1>0, <2>1 DEF TypeOK
    <3>2. QED
      BY <1>6, <2>1, <3>1 DEF Ongoing, Working, At, Steps, Awaits
  <2>2. QED
    BY <1>0, <1>1, <1>6, <2>1, NotifyChanges
<1>7. ASSUME WorldStep \/ logout \/ Crash PROVE Ongoing(d)
  <2>1. ~Crash
    BY DEF Crash, NoCall, Working, At
  <2>2. QED
    BY <1>1, <1>6, <1>7, <2>1
       DEF WorldStep, ServeUpload, RefuseUpload, LoseUpload, Expire, OtherDevice, logout
<1>8. QED
  BY <1>2, <1>3, <1>5, <1>7 DEF Next

LEMMA TokenChanges ==
    ASSUME Next, auth_token' # auth_token, auth_token' # None
    PROVE  \E c \in Call : StoreToken(c) /\ auth_token' = call[c].token
  BY DEF Next, CallStep, WorldStep, StartCall, ServerAnswers, ServerRefuses, StoreToken,
    CheckKeys, WritePrivate, WritePublic, SendUpload, StartRequest, ServeRequest, Succeeds,
    Refused, Unauthorized, CallFails, logout, ServeUpload, RefuseUpload, LoseUpload, Expire,
    OtherDevice, Crash, storage

LEMMA PublicChanges ==
    ASSUME Next, public_key' # public_key
    PROVE  \E c \in Call : WritePublic(c) /\ public_key' = call[c].key
  BY DEF Next, CallStep, WorldStep, StartCall, ServerAnswers, ServerRefuses, StoreToken,
    CheckKeys, WritePrivate, WritePublic, SendUpload, StartRequest, ServeRequest, Succeeds,
    Refused, Unauthorized, CallFails, logout, ServeUpload, RefuseUpload, LoseUpload, Expire,
    OtherDevice, Crash, storage

LEMMA PrivateChanges ==
    ASSUME Next, private_key' # private_key
    PROVE  \E c \in Call : WritePrivate(c) /\ private_key' = Len(maker) + 1
  BY DEF Next, CallStep, WorldStep, StartCall, ServerAnswers, ServerRefuses, StoreToken,
    CheckKeys, WritePrivate, WritePublic, SendUpload, StartRequest, ServeRequest, Succeeds,
    Refused, Unauthorized, CallFails, logout, ServeUpload, RefuseUpload, LoseUpload, Expire,
    OtherDevice, Crash, storage

LEMMA ConfirmedChanges ==
    ASSUME Next, NEW k \in confirmed', k \notin confirmed
    PROVE  \E c \in Call : Succeeds(c) /\ k = call[c].key
  BY DEF Next, CallStep, WorldStep, StartCall, ServerAnswers, ServerRefuses, StoreToken,
    CheckKeys, WritePrivate, WritePublic, SendUpload, StartRequest, ServeRequest, Succeeds,
    Refused, Unauthorized, CallFails, logout, ServeUpload, RefuseUpload, LoseUpload, Expire,
    OtherDevice, Crash, keyHistory

LEMMA HistoryGrows ==
    ASSUME Next
    PROVE  raced \subseteq raced' /\ torn \subseteq torn'
  BY DEF Next, CallStep, WorldStep, StartCall, ServerAnswers, ServerRefuses, StoreToken,
    CheckKeys, WritePrivate, WritePublic, SendUpload, StartRequest, ServeRequest, Succeeds,
    Refused, Unauthorized, CallFails, logout, ServeUpload, RefuseUpload, LoseUpload, Expire,
    OtherDevice, Crash, keyHistory

-----------------------------------------------------------------------------
(* Calls that overlap                                                      *)

OverlapInv ==
    \A c \in Call :
      /\ Working(c) => \A d \in Call \ {c} : Working(d) => call[c].shared
      /\ Working(c) /\ call[c].shared /\ call[c].key # None => call[c].key \in raced

(* Keys are in the hands of one call, and not yet uploaded before `send`.  *)
UniqueInv ==
    /\ \A c \in Call : \A d \in Call \ {c} : call[c].key # None => call[d].key # call[c].key
    /\ \A c \in Call : call[c].pc \in {"public", "send"} =>
         \A up \in uploads : up.key # call[c].key
    /\ \A c \in Call : At(c, "public") => call[c].key \notin confirmed

LEMMA OverlapStep == TypeInv /\ OverlapInv /\ Next => OverlapInv'
<1> SUFFICES ASSUME TypeInv, OverlapInv, Next PROVE OverlapInv'
  OBVIOUS
<1>0. TypeOK
  BY DEF TypeInv
<1>1. ASSUME NEW c \in Call, NEW kind \in {"register", "login"}, NEW u \in User,
             StartCall(c, kind, u), NEW d \in Call, Working(d)', c # d
      PROVE  call'[c].shared /\ call'[d].shared /\ (call'[d].key # None => call'[d].key \in raced')
  <2>1. d \in Others(c)
    <3>1. d \notin Others(c) => call'[d] = call[d]
      BY <1>0, <1>1, StartsAfter
    <3>2. QED
      BY <1>1, <3>1 DEF Working, At, Others
  <2>2. call'[d] = [call[d] EXCEPT !.shared = TRUE]
    BY <1>0, <1>1, <2>1, StartsAfter
  <2>3. call'[d].shared /\ call'[d].key = call[d].key
    BY <1>0, <2>2 DEF TypeOK
  <2>4. call[d].key # None => call[d].key \in raced'
    BY <1>1, <2>1 DEF StartCall
  <2>5. QED
    BY <1>0, <1>1, <2>1, <2>3, <2>4, StartsAfter
<1>2. ASSUME NEW c \in Call, NEW d \in Call \ {c}, Working(c)', Working(d)'
      PROVE  call'[c].shared
  <2>1. CASE Starts(c) \/ Starts(d)
    BY <1>1, <1>2, <2>1 DEF Starts
  <2>2. CASE Ongoing(c) /\ Ongoing(d)
    BY <1>2, <2>2 DEF OverlapInv, Ongoing, Joined
  <2>3. QED
    BY <1>2, <2>1, <2>2, CallGoesOn
<1>3. ASSUME NEW c \in Call, Working(c)', call'[c].shared, call'[c].key # None
      PROVE  call'[c].key \in raced'
  <2>1. CASE Starts(c)
    BY <1>0, <1>3, <2>1, StartsAfter DEF Starts
  <2>2. CASE Ongoing(c)
    <3>1. CASE \E d \in Call \ {c} : Starts(d)
      <4>1. PICK d \in Call \ {c} : Starts(d)
        BY <3>1
      <4>2. PICK kind \in {"register", "login"}, u \in User : StartCall(d, kind, u)
        BY <4>1 DEF Starts
      <4>3. QED
        BY <1>1, <1>3, <4>2
    <3>2. CASE WritePrivate(c)
      <4>1. call'[c].shared = call[c].shared /\ call'[c].key = Len(maker) + 1
        BY <1>0, <3>2, CallsAfter DEF After
      <4>2. QED
        BY <1>3, <3>2, <4>1 DEF WritePrivate
    <3>3. CASE ~WritePrivate(c) /\ ~(\E d \in Call \ {c} : Starts(d))
      <4>1. Working(c) /\ call[c].shared /\ call'[c].key = call[c].key
        BY <1>3, <2>2, <3>3 DEF Ongoing, Joined, Steps
      <4>2. QED
        BY <1>3, <4>1, HistoryGrows DEF OverlapInv
    <3>4. QED
      BY <3>1, <3>2, <3>3
  <2>3. QED
    BY <1>3, <2>1, <2>2, CallGoesOn
<1>4. QED
  BY <1>2, <1>3 DEF OverlapInv

LEMMA UniqueStep == TypeInv /\ UniqueInv /\ Next => UniqueInv'
<1> SUFFICES ASSUME TypeInv, UniqueInv, Next PROVE UniqueInv'
  OBVIOUS
<1>0. TypeOK /\ InUse /\ (\A c \in Call : InHand(c))
  BY DEF TypeInv
<1>1. Len(maker) + 1 # None /\ Len(maker) + 1 \notin DOMAIN maker
  BY <1>0, Longer DEF TypeOK, None
<1>2. \A c \in Call : call[c].key # Len(maker) + 1
  BY <1>0, <1>1 DEF InHand
<1>3. ASSUME NEW c \in Call, NEW d \in Call \ {c}, call'[c].key # None
      PROVE  call'[d].key # call'[c].key
  <2>1. ~(WritePrivate(c) /\ WritePrivate(d))
    BY <1>0, <1>3, CallsAfter, SMTT(30) DEF WritePrivate, After, Alone, At
  <2>2. QED
    BY <1>1, <1>2, <1>3, <2>1, KeysInHand DEF UniqueInv
<1>4. ASSUME NEW c \in Call, call'[c].pc \in {"public", "send"}, NEW up \in uploads'
      PROVE  up.key # call'[c].key
  <2>1. Ongoing(c)
    <3>1. InHand(c)' /\ ~At(c, "idle")'
      BY <1>4, TypeInvStep DEF TypeInv, At
    <3>2. Working(c)'
      BY <1>4, <3>1 DEF InHand, Working, At
    <3>3. ~Starts(c)
      BY <1>0, <1>4, StartsAfter DEF Starts
    <3>4. QED
      BY <3>2, <3>3, CallGoesOn
  <2>2. CASE WritePrivate(c)
    <3>1. call'[c].key = Len(maker) + 1
      BY <1>0, <2>2, CallsAfter DEF After
    <3>2. up \in uploads
      BY <1>4, <2>2 DEF WritePrivate, server
    <3>3. up.key \in DOMAIN maker
      BY <1>0, <3>2 DEF InUse
    <3>4. QED
      BY <1>1, <3>1, <3>3
  <2>3. CASE ~WritePrivate(c)
    <3>1. call[c].pc \in {"public", "send"} /\ call'[c].key = call[c].key
      BY <1>4, <2>1, <2>3 DEF Ongoing, Steps, WritePublic, At
    <3>2. CASE up \in uploads
      BY <3>1, <3>2 DEF UniqueInv
    <3>3. CASE up \notin uploads
      <4>1. PICK d \in Call : SendUpload(d) /\ up.key = call[d].key
        BY <1>4, <3>3, UploadsSent
      <4>2. d # c
        BY <1>0, <1>4, <4>1, CallsAfter DEF After
      <4>3. QED
        BY <1>0, <3>1, <4>1, <4>2 DEF UniqueInv, InHand
    <3>4. QED
      BY <3>2, <3>3
  <2>4. QED
    BY <2>2, <2>3
<1>5. ASSUME NEW c \in Call, At(c, "public")' PROVE call'[c].key \notin confirmed'
  <2>1. Ongoing(c)
    <3>1. Working(c)'
      BY <1>5, TypeInvStep DEF TypeInv, InHand, Working, At
    <3>2. ~Starts(c)
      BY <1>0, <1>5, StartsAfter DEF Starts, At
    <3>3. QED
      BY <3>1, <3>2, CallGoesOn
  <2>2. CASE WritePrivate(c)
    BY <1>0, <1>1, <2>2, CallsAfter DEF WritePrivate, After, InUse
  <2>3. CASE ~WritePrivate(c)
    <3>1. At(c, "public") /\ call'[c].key = call[c].key
      BY <1>5, <2>1, <2>3 DEF Ongoing, Steps, At
    <3>2. ~Succeeds(c)
      BY <3>1 DEF Succeeds, At
    <3>3. QED
      <4>1. call[c].key \notin confirmed /\ call[c].key # None
        BY <1>0, <3>1 DEF UniqueInv, InHand, At
      <4>2. ASSUME call[c].key \in confirmed' PROVE FALSE
        <5>1. PICK d \in Call : Succeeds(d) /\ call[c].key = call[d].key
          BY <4>1, <4>2, ConfirmedChanges
        <5>2. QED
          BY <3>2, <4>1, <5>1 DEF UniqueInv
      <4>3. QED
        BY <3>1, <4>2
  <2>4. QED
    BY <2>2, <2>3
<1>6. QED
  BY <1>3, <1>4, <1>5 DEF UniqueInv

-----------------------------------------------------------------------------
(* Late answers                                                            *)

LEMMA OtherGoesOn ==
    ASSUME TypeInv, Next, NEW d \in Call, call'[d].kind = "other"
    PROVE  call'[d] = call[d] \/ StartRequest(d) \/ ServeRequest(d)
<1>0. TypeOK /\ InHand(d)
  BY DEF TypeInv
<1>1. ASSUME NEW c \in Call, NEW kind \in {"register", "login"}, NEW u \in User,
             StartCall(c, kind, u)
      PROVE  call'[d] = call[d]
  <2>1. c # d
    BY <1>0, <1>1, StartsAfter
  <2>2. d \notin Others(c)
    <3>1. ASSUME d \in Others(c) PROVE FALSE
      <4>1. call'[d] = [call[d] EXCEPT !.shared = TRUE]
        BY <1>0, <1>1, <3>1, StartsAfter
      <4>2. call'[d].kind = call[d].kind
        BY <1>0, <4>1 DEF TypeOK
      <4>3. QED
        BY <3>1, <4>2 DEF Others
    <3>2. QED
      BY <3>1
  <2>3. QED
    BY <1>0, <1>1, <2>1, <2>2, StartsAfter
<1>2. ASSUME NEW c \in Call, CallStep(c), c # d PROVE call'[d] = call[d]
  BY <1>0, <1>1, <1>2, CallsAfter, RequestAfter DEF CallStep, After, Ended, Alone
<1>3. ASSUME CallStep(d) PROVE call'[d] = call[d] \/ StartRequest(d) \/ ServeRequest(d)
  <2>1. ~Ended(d)
    BY DEF Ended, NoCall
  <2>2. CASE call[d].kind = "other"
    <3>1. call[d].pc \in {"sent", "done", "refused"}
      BY <1>0, <2>2 DEF InHand
    <3>2. QED
      BY <1>0, <1>1, <1>3, <2>1, <3>1, CallsAfter
         DEF CallStep, At, ServerAnswers, ServerRefuses, StoreToken, CheckKeys, WritePrivate,
             WritePublic, SendUpload
  <2>3. CASE call[d].kind # "other"
    BY <1>0, <1>1, <1>3, <2>1, <2>3, CallsAfter DEF CallStep, After
  <2>4. QED
    BY <2>2, <2>3
<1>4. ASSUME NEW up, NEW answer \in {"done", "refused"}, Notify(up, answer)
      PROVE  call'[d] = call[d]
  <2>1. CASE Awaits(d, up) /\ call'[d] = [call[d] EXCEPT !.pc = answer]
    <3>1. call'[d].kind = call[d].kind
      BY <1>0, <2>1 DEF TypeOK
    <3>2. QED
      BY <1>0, <2>1, <3>1 DEF InHand, Awaits, At
  <2>2. QED
    BY <1>0, <1>4, <2>1, NotifyChanges
<1>5. ASSUME WorldStep \/ logout \/ Crash PROVE call'[d] = call[d]
  <2>1. ~Crash
    BY DEF Crash, NoCall
  <2>2. QED
    BY <1>4, <1>5, <2>1
       DEF WorldStep, ServeUpload, RefuseUpload, LoseUpload, Expire, OtherDevice, logout
<1>6. QED
  BY <1>2, <1>3, <1>5 DEF Next

LEMMA RefusalComes ==
    ASSUME TypeInv, Next, NEW d \in Call, call'[d].pc = "refused"
    PROVE  \/ At(d, "refused")
           \/ ServeRequest(d) /\ ~Accepted(call[d].token)
           \/ \E up \in uploads : RefuseUpload(up) /\ Awaits(d, up)
<1>0. TypeOK
  BY DEF TypeInv
<1>1. CASE call'[d].kind = "other"
  <2>1. ~StartRequest(d)
    BY <1>0, RequestAfter
  <2>2. ServeRequest(d) => ~Accepted(call[d].token)
    BY <1>0 DEF TypeOK, ServeRequest, Goto
  <2>3. QED
    BY <1>1, <2>1, <2>2, OtherGoesOn DEF At
<1>2. CASE call'[d].kind # "other"
  <2>1. Working(d)'
    BY <1>2 DEF Working, At
  <2>2. ~Starts(d)
    BY <1>0, StartsAfter DEF Starts
  <2>3. Ongoing(d)
    BY <2>1, <2>2, CallGoesOn
  <2>4. QED
    BY <2>3 DEF Ongoing, Steps, At
<1>3. QED
  BY <1>1, <1>2

(* A register or login on its way got its token when it started.           *)
LEMMA PostedStays ==
    ASSUME TypeInv, Next, NEW d \in Call, call'[d].pc \in {"posted", "denied"}
    PROVE  \/ UNCHANGED <<auth_token, crossed>> /\ At(d, "posted")' /\ call'[d].token = auth_token
           \/ At(d, "posted") /\ call'[d].token = call[d].token /\ At(d, "posted")'
           \/ ServerRefuses(d) /\ At(d, "denied")'
           \/ At(d, "denied") /\ At(d, "denied")'
<1>0. TypeOK
  BY DEF TypeInv
<1>1. Working(d)'
  BY TypeInvStep DEF TypeInv, InHand, Working, At
<1>2. CASE Starts(d)
  <2>1. PICK kind \in {"register", "login"}, u \in User : StartCall(d, kind, u)
    BY <1>2 DEF Starts
  <2>2. call'[d].pc = "posted" /\ call'[d].token = auth_token
    BY <1>0, <2>1, StartsAfter
  <2>3. UNCHANGED <<auth_token, crossed>>
    BY <2>1 DEF StartCall, storage
  <2>4. QED
    BY <2>2, <2>3 DEF At
<1>3. CASE Ongoing(d)
  BY <1>3 DEF Ongoing, Steps, At
<1>4. QED
  BY <1>1, <1>2, <1>3, CallGoesOn

(* The stored token is the one a request carries, or it was stored while   *)
(* the request was on its way.                                             *)
Current(t) == auth_token \in {None, t} \/ crossed

LateInv ==
    /\ \A c \in Call : call[c].pc \in {"posted", "sent"} => Current(call[c].token)
    /\ \A c \in Call : At(c, "uploading") =>
         \A up \in uploads : up.key = call[c].key => Current(up.header)
    /\ \A c \in Call : call[c].pc \in {"refused", "denied"} /\ Accepted(auth_token) => crossed

(* The token that is stored beside a request on its way is a crossed one.  *)
LEMMA CrossedStored ==
    ASSUME Next, NEW c \in Call,
           call[c].pc \in {"posted", "denied", "sent", "uploading", "refused"}
    PROVE  auth_token' = None \/ crossed' \/ UNCHANGED <<auth_token, crossed>>
<1>1. Unanswered
  BY DEF Unanswered
<1>2. ASSUME NEW d \in Call, StoreToken(d) PROVE crossed' \/ UNCHANGED <<auth_token, crossed>>
  BY <1>1, <1>2 DEF StoreToken
<1>3. QED
  BY <1>2 DEF Next, CallStep, WorldStep, StartCall, ServerAnswers, ServerRefuses, CheckKeys,
    WritePrivate, WritePublic, SendUpload, StartRequest, ServeRequest, Succeeds, Refused,
    Unauthorized, CallFails, logout, ServeUpload, RefuseUpload, LoseUpload, Expire, OtherDevice,
    Crash, storage

(* A token never becomes accepted again.                                   *)
LEMMA StaysRefused ==
    ASSUME TypeInv, Next, NEW t \in DOMAIN issued \cup {None}, Accepted(t)'
    PROVE  Accepted(t)
<1>1. expired \subseteq expired'
  BY DEF Next, CallStep, WorldStep, StartCall, ServerAnswers, ServerRefuses, StoreToken,
    CheckKeys, WritePrivate, WritePublic, SendUpload, StartRequest, ServeRequest, Succeeds,
    Refused, CallFails, logout, ServeUpload, RefuseUpload, LoseUpload, Expire, OtherDevice, Crash,
    server
<1>2. None \notin DOMAIN issued'
  BY TypeInvStep, Longer DEF TypeInv, TypeOK, None
<1>3. QED
  BY <1>1, <1>2 DEF Accepted

LEMMA LateStep == TypeInv /\ UniqueInv /\ LateInv /\ Next => LateInv'
<1> SUFFICES ASSUME TypeInv, UniqueInv, LateInv, Next PROVE LateInv'
  OBVIOUS
<1>0. TypeOK /\ InUse /\ (\A c \in Call : InHand(c))
  BY DEF TypeInv
<1>1. ASSUME NEW c \in Call, NEW t, Current(t),
             call[c].pc \in {"posted", "denied", "sent", "uploading", "refused"}
      PROVE  Current(t)'
  BY <1>1, CrossedStored DEF Current
<1>7. ASSUME NEW c \in Call, At(c, "posted")' PROVE Current(call[c].token)'
  <2>1. CASE UNCHANGED <<auth_token, crossed>> /\ call'[c].token = auth_token
    BY <2>1 DEF Current
  <2>2. CASE At(c, "posted") /\ call'[c].token = call[c].token
    BY <1>1, <2>2 DEF LateInv, At
  <2>3. QED
    BY <1>7, <2>1, <2>2, PostedStays DEF At
<1>2. ASSUME NEW c \in Call, At(c, "sent")' PROVE Current(call[c].token)'
  <2>1. call'[c].kind = "other"
    BY <1>2, TypeInvStep DEF TypeInv, InHand
  <2>2. CASE StartRequest(c)
    BY <1>0, <2>2, RequestAfter DEF StartRequest, storage, Current
  <2>3. CASE ~StartRequest(c)
    <3>1. ~ServeRequest(c)
      BY <1>0, <1>2 DEF TypeOK, ServeRequest, Goto, At
    <3>2. call'[c] = call[c] /\ At(c, "sent")
      BY <1>2, <2>1, <2>3, <3>1, OtherGoesOn DEF At
    <3>3. QED
      BY <1>1, <3>2 DEF LateInv, At
  <2>4. QED
    BY <2>2, <2>3
<1>3. ASSUME NEW c \in Call, At(c, "uploading")', NEW up \in uploads', up.key = call'[c].key
      PROVE  Current(up.header)'
  <2>1. Ongoing(c)
    <3>1. Working(c)'
      BY <1>3, TypeInvStep DEF TypeInv, InHand, Working, At
    <3>2. ~Starts(c)
      BY <1>0, <1>3, StartsAfter DEF Starts, At
    <3>3. QED
      BY <3>1, <3>2, CallGoesOn
  <2>2. call'[c].key = call[c].key /\ (At(c, "uploading") \/ SendUpload(c)) /\ call[c].key # None
    BY <1>0, <1>3, <2>1 DEF Ongoing, Steps, At, InHand, SendUpload
  <2>3. CASE up \in uploads
    <3>1. At(c, "uploading")
      BY <1>3, <2>2, <2>3 DEF UniqueInv, SendUpload, At
    <3>2. QED
      BY <1>1, <1>3, <2>2, <2>3, <3>1 DEF LateInv, At
  <2>4. CASE up \notin uploads
    <3>1. PICK d \in Call : SendUpload(d) /\ up = [header |-> auth_token, key |-> call[d].key]
      BY <1>3, <2>4, UploadsSent
    <3>2. QED
      BY <3>1 DEF SendUpload, storage, Current
  <2>5. QED
    BY <2>3, <2>4
<1>4. ASSUME NEW c \in Call, call'[c].pc \in {"refused", "denied"}, Accepted(auth_token)'
      PROVE  crossed'
  <2>1. auth_token' # None
    BY <1>4, TypeInvStep, Longer DEF TypeInv, TypeOK, Accepted, None
  <2>2. ASSUME auth_token' = auth_token PROVE Accepted(auth_token)
    BY <1>0, <1>4, <2>2, StaysRefused DEF InUse, Accepted
  <2>3. CASE call[c].pc \in {"refused", "denied"}
    BY <2>1, <2>2, <2>3, CrossedStored DEF LateInv
  <2>4. ASSUME UNCHANGED <<auth_token, crossed>>, NEW t, Current(t), ~Accepted(t) PROVE crossed'
    BY <2>1, <2>2, <2>4 DEF Current
  <2>5. CASE ServeRequest(c) /\ ~Accepted(call[c].token)
    BY <2>4, <2>5 DEF ServeRequest, LateInv, storage, At
  <2>6. CASE ServerRefuses(c)
    BY <2>4, <2>6 DEF ServerRefuses, LateInv, storage, At
  <2>7. ASSUME NEW up \in uploads, RefuseUpload(up), Awaits(c, up) PROVE crossed'
    BY <2>4, <2>7 DEF RefuseUpload, Awaits, LateInv, storage
  <2>8. QED
    BY <1>4, <2>3, <2>5, <2>6, <2>7, RefusalComes, PostedStays DEF At
<1>6. QED
  BY <1>2, <1>3, <1>4, <1>7 DEF LateInv, At

-----------------------------------------------------------------------------
(* Pairs of keys                                                           *)

PairInv ==
    /\ \A c \in Call : At(c, "public") => private_key = call[c].key \/ call[c].key \in raced
    /\ \A c \in Call : call[c].kind = "login" /\ call[c].pc \in {"private", "public"} =>
         public_key = None \/ public_key \in raced
    /\ PairTornOnlyByRegister

(* Whoever is where only a register or login gets to has gone on to there. *)
LEMMA Reaches ==
    ASSUME TypeInv, Next, NEW c \in Call,
           call'[c].pc \in {"answered", "stored", "private", "public", "send", "uploading"}
    PROVE  Ongoing(c)
<1>1. Working(c)'
  BY TypeInvStep DEF TypeInv, InHand, Working, At
<1>2. ~Starts(c)
  BY StartsAfter DEF Starts, TypeInv
<1>3. QED
  BY <1>1, <1>2, CallGoesOn

(* Of two calls at work, both are shared, and so are their keys.           *)
LEMMA BothShared ==
    ASSUME OverlapInv, NEW c \in Call, NEW d \in Call \ {c}, Working(c), Working(d)
    PROVE  call[c].shared /\ (call[c].key # None => call[c].key \in raced)
  BY DEF OverlapInv

LEMMA LeavesPublic ==
    ASSUME TypeInv, Next, NEW c \in Call, At(c, "public"), ~At(c, "public")'
    PROVE  WritePublic(c) \/ CallFails(c) \/ Crash
<1>0. TypeOK
  BY DEF TypeInv
<1>1. ASSUME call'[c].pc = call[c].pc PROVE FALSE
  BY <1>1 DEF At
<1>2. ASSUME NEW d \in Call, NEW kind \in {"register", "login"}, NEW u \in User,
             StartCall(d, kind, u)
      PROVE  FALSE
  <2>1. d # c
    BY <1>2 DEF StartCall, At
  <2>2. call'[c] = call[c] \/ call'[c] = [call[c] EXCEPT !.shared = TRUE]
    BY <1>0, <1>2, <2>1, StartsAfter
  <2>3. QED
    BY <1>0, <1>1, <2>2 DEF TypeOK
<1>3. ASSUME NEW d \in Call, d # c, CallStep(d) PROVE FALSE
  BY <1>0, <1>1, <1>2, <1>3, CallsAfter, RequestAfter DEF CallStep, After, Ended, Alone
<1>4. ASSUME CallStep(c) PROVE WritePublic(c) \/ CallFails(c)
  BY <1>4 DEF CallStep, At, StartCall, ServerAnswers, ServerRefuses, StoreToken, CheckKeys,
    WritePrivate, SendUpload, StartRequest, ServeRequest, Succeeds, Refused
<1>5. ASSUME NEW up, NEW answer \in {"done", "refused"}, Notify(up, answer) PROVE FALSE
  <2>1. ~Awaits(c, up)
    BY DEF Awaits, At
  <2>2. QED
    BY <1>0, <1>1, <1>5, <2>1, NotifyChanges
<1>6. ASSUME WorldStep \/ logout PROVE FALSE
  BY <1>1, <1>5, <1>6
     DEF WorldStep, ServeUpload, RefuseUpload, LoseUpload, Expire, OtherDevice, logout
<1>7. QED
  BY <1>3, <1>4, <1>6 DEF Next

LEMMA PairStep == TypeInv /\ OverlapInv /\ PairInv /\ Next => PairInv'
<1> SUFFICES ASSUME TypeInv, OverlapInv, PairInv, Next PROVE PairInv'
  OBVIOUS
<1>0. TypeOK /\ InUse /\ (\A c \in Call : InHand(c))
  BY DEF TypeInv
<1>1. raced \subseteq raced' /\ torn \subseteq torn'
  BY HistoryGrows
<1>2. ASSUME NEW d \in Call, WritePublic(d)
      PROVE  Working(d) /\ call[d].key # None /\ private_key' = private_key
  BY <1>0, <1>2 DEF WritePublic, InHand, Working, At
<1>3. ASSUME NEW d \in Call, WritePrivate(d) PROVE Working(d)
  BY <1>0, <1>3 DEF WritePrivate, InHand, Working, At
<1>4. ASSUME NEW c \in Call, At(c, "public")'
      PROVE  private_key' = call'[c].key \/ call'[c].key \in raced'
  <2>1. Ongoing(c)
    BY <1>4, Reaches DEF At
  <2>2. CASE WritePrivate(c)
    <3>1. call'[c].key = Len(maker) + 1
      BY <1>0, <2>2, CallsAfter DEF After
    <3>2. QED
      BY <2>2, <3>1 DEF WritePrivate
  <2>3. CASE ~WritePrivate(c)
    <3>1. At(c, "public") /\ Working(c) /\ call'[c].key = call[c].key
      BY <1>4, <2>1, <2>3 DEF Ongoing, Steps, At
    <3>2. CASE private_key' = private_key
      BY <1>1, <3>1, <3>2 DEF PairInv
    <3>3. CASE private_key' # private_key
      <4>1. PICK d \in Call : WritePrivate(d)
        BY <3>3, PrivateChanges
      <4>2. Working(d) /\ d # c
        BY <1>3, <2>3, <4>1
      <4>3. call[c].key # None
        BY <1>0, <3>1 DEF InHand, At
      <4>4. QED
        BY <1>1, <3>1, <4>2, <4>3, BothShared
    <3>4. QED
      BY <3>2, <3>3
  <2>4. QED
    BY <2>2, <2>3
<1>5. ASSUME NEW c \in Call, call'[c].kind = "login", call'[c].pc \in {"private", "public"}
      PROVE  public_key' = None \/ public_key' \in raced'
  <2>1. Ongoing(c)
    BY <1>5, Reaches
  <2>2. CASE CheckKeys(c)
    <3>1. ~Ended(c)
      BY <1>5 DEF Ended, NoCall
    <3>2. call[c].kind = "login"
      BY <1>5, <2>1 DEF Ongoing
    <3>3. public_key = None
      BY <1>0, <2>2, <3>1, <3>2, ReturnClears DEF CheckKeys
    <3>4. QED
      BY <2>2, <3>3 DEF CheckKeys, storage
  <2>3. CASE ~CheckKeys(c)
    <3>1. call[c].kind = "login" /\ call[c].pc \in {"private", "public"} /\ Working(c)
      BY <1>5, <2>1, <2>3 DEF Ongoing, Steps, WritePrivate, At
    <3>2. CASE public_key' = public_key
      BY <1>1, <3>1, <3>2 DEF PairInv
    <3>3. CASE public_key' # public_key
      <4>1. PICK d \in Call : WritePublic(d) /\ public_key' = call[d].key
        BY <3>3, PublicChanges
      <4>2. d # c
        BY <1>0, <1>5, <4>1, CallsAfter DEF After
      <4>3. QED
        BY <1>1, <1>2, <3>1, <4>1, <4>2, BothShared
    <3>4. QED
      BY <3>2, <3>3
  <2>4. QED
    BY <2>2, <2>3
<1>6. ASSUME public_key' # None, private_key' # public_key'
      PROVE  \/ \E c \in Call : At(c, "public")'
             \/ public_key' \in torn'
             \/ public_key' \in raced'
  <2>1. CASE public_key' # public_key
    <3>1. PICK d \in Call : WritePublic(d) /\ public_key' = call[d].key
      BY <2>1, PublicChanges
    <3>2. QED
      BY <1>1, <1>2, <1>6, <3>1 DEF PairInv, WritePublic
  <2>2. CASE private_key' # private_key
    <3>1. PICK d \in Call : WritePrivate(d)
      BY <2>2, PrivateChanges
    <3>2. QED
      BY <1>0, <3>1, CallsAfter DEF After, At
  <2>3. CASE public_key' = public_key /\ private_key' = private_key
    <3>1. CASE public_key \in torn \/ public_key \in raced
      BY <1>1, <2>3, <3>1
    <3>2. ASSUME NEW c \in Call, At(c, "public"), ~At(c, "public")'
          PROVE  public_key \in torn' \/ public_key \in raced'
      <4>1. CASE WritePublic(c)
        BY <1>1, <1>6, <2>3, <3>2, <4>1 DEF PairInv, WritePublic
      <4>2. CASE CallFails(c) \/ Crash
        <5>1. call[c].kind # "other"
          BY <1>0, <3>2 DEF InHand, At
        <5>2. CASE call[c].kind = "register"
          BY <1>6, <2>3, <3>2, <4>2, <5>2 DEF CallFails, Crash, TornBy
        <5>3. CASE call[c].kind = "login"
          BY <1>1, <1>6, <2>3, <3>2, <5>3 DEF PairInv, At
        <5>4. QED
          BY <1>0, <5>1, <5>2, <5>3 DEF TypeOK
      <4>3. QED
        BY <3>2, <4>1, <4>2, LeavesPublic
    <3>3. QED
      BY <1>6, <2>3, <3>1, <3>2 DEF PairInv, PairTornOnlyByRegister
  <2>4. QED
    BY <2>1, <2>2, <2>3
<1>7. QED
  BY <1>4, <1>5, <1>6 DEF PairInv, PairTornOnlyByRegister, At

-----------------------------------------------------------------------------
(* Keys and accounts                                                       *)

(* A call that has run beside no other.                                    *)
Solo(c) == Working(c) /\ ~call[c].shared

(* Such a call uploads under its own token, provided that it stores one or *)
(* there is no first one.                                                  *)
OwnTokens == "token" \in Answer \/ Bootstrap = <<>>

SoloInv ==
    /\ \A c \in Call : Solo(c) /\ call[c].pc \in {"stored", "private", "public", "send"} =>
         auth_token \in {None, call[c].token}
    /\ \A up \in uploads : up.header # None /\ up.key \notin raced =>
         issued[up.header] = maker[up.key]
    /\ KeyMisfiledOnlyByOverlap

LEMMA SoloGoesOn ==
    ASSUME TypeInv, OverlapInv, Next, NEW c \in Call, Solo(c)',
           call'[c].pc \in {"answered", "stored", "private", "public", "send"}
    PROVE  /\ Solo(c) /\ call'[c].who = call[c].who /\ call'[c].kind = call[c].kind
           /\ Steps(c)
           /\ \A d \in Call \ {c} : ~Working(d)
<1>1. Ongoing(c)
  BY Reaches
<1>2. Solo(c)
  BY <1>1 DEF Ongoing, Joined, Solo
<1>3. QED
  BY <1>1, <1>2, BothShared DEF Ongoing, Solo

LEMMA SoloStep == OwnTokens /\ TypeInv /\ OverlapInv /\ SoloInv /\ Next => SoloInv'
<1> SUFFICES ASSUME OwnTokens, TypeInv, OverlapInv, SoloInv, Next PROVE SoloInv'
  OBVIOUS
<1>0. TypeOK /\ InUse /\ (\A c \in Call : InHand(c)) /\ Grown /\ raced \subseteq raced'
  BY NothingForgotten, HistoryGrows DEF TypeInv
<1>1. ASSUME NEW c \in Call, Solo(c)', call'[c].pc \in {"stored", "private", "public", "send"}
      PROVE  auth_token' \in {None, call'[c].token}
  <2>1. Solo(c) /\ Steps(c) /\ (\A d \in Call \ {c} : ~Working(d))
    BY <1>1, SoloGoesOn
  <2>2. CASE StoreToken(c)
    <3>1. ~Ended(c)
      BY <1>1 DEF Ended, NoCall
    <3>2. call'[c].token = call[c].token
      BY <1>0, <2>2, <3>1, CallsAfter DEF After
    <3>3. QED
      BY <1>0, <2>2, <3>2 DEF StoreToken, InUse, OwnTokens
  <2>3. CASE ~StoreToken(c)
    <3>1. /\ call[c].pc \in {"stored", "private", "public", "send"}
          /\ call'[c].token = call[c].token
      <4>1. call'[c].token = call[c].token
        <5>1. WritePrivate(c) => call'[c].token = call[c].token
          BY <1>0, CallsAfter DEF After
        <5>2. QED
          BY <1>1, <2>1, <5>1 DEF Steps
      <4>2. QED
        BY <1>1, <2>1, <2>3, <4>1 DEF Steps, CheckKeys, WritePrivate, WritePublic, At
    <3>2. ASSUME NEW d \in Call, StoreToken(d) PROVE FALSE
      <4>1. Working(d)
        BY <1>0, <3>2 DEF StoreToken, InHand, Working, At
      <4>2. QED
        BY <2>1, <2>3, <3>2, <4>1
    <3>3. auth_token' \in {auth_token, None}
      BY <3>2, TokenChanges
    <3>4. QED
      BY <2>1, <3>1, <3>3 DEF SoloInv
  <2>4. QED
    BY <2>2, <2>3
<1>2. ASSUME NEW up \in uploads', up.header # None, up.key \notin raced'
      PROVE  issued'[up.header] = maker'[up.key]
  <2>1. CASE up \in uploads
    <3>1. up.header \in DOMAIN issued /\ up.key \in DOMAIN maker
      BY <1>0, <1>2, <2>1 DEF InUse
    <3>2. QED
      BY <1>0, <1>2, <2>1, <3>1 DEF SoloInv, Grown
  <2>2. CASE up \notin uploads
    <3>1. PICK c \in Call : SendUpload(c) /\ up = [header |-> auth_token, key |-> call[c].key]
      BY <1>2, <2>2, UploadsSent
    <3>2. /\ Working(c) /\ call[c].key \in DOMAIN maker /\ call[c].token \in DOMAIN issued
          /\ issued[call[c].token] = call[c].who /\ maker[call[c].key] = call[c].who
          /\ call[c].key # None
      BY <1>0, <3>1 DEF SendUpload, InHand, Working, At
    <3>3. Solo(c)
      BY <1>0, <1>2, <3>1, <3>2 DEF OverlapInv, Solo
    <3>4. auth_token = call[c].token
      BY <1>2, <3>1, <3>3 DEF SoloInv, SendUpload, At
    <3>5. QED
      BY <1>0, <3>1, <3>2, <3>4 DEF Grown
  <2>3. QED
    BY <2>1, <2>2
<1>3. ASSUME NEW u \in User, serverKey'[u] \in Key, serverKey'[u] \notin raced'
      PROVE  maker'[serverKey'[u]] = u
  <2>1. Elsewhere \notin Key
    BY BoundsAssumption DEF Elsewhere, Key
  <2>2. CASE serverKey'[u] = serverKey[u]
    BY <1>0, <1>3, <2>2 DEF InUse, Grown, SoloInv, KeyMisfiledOnlyByOverlap
  <2>3. ASSUME NEW up \in uploads, ServeUpload(up), u = issued[up.header], serverKey'[u] = up.key
        PROVE  maker'[serverKey'[u]] = u
    <3>1. up.header # None /\ up.key \in DOMAIN maker
      BY <1>0, <2>3, Longer DEF TypeOK, InUse, ServeUpload, Accepted, None
    <3>2. QED
      BY <1>0, <1>3, <2>3, <3>1 DEF SoloInv, Grown
  <2>4. QED
    BY <1>0, <1>3, <2>1, <2>2, <2>3, KeysFiled
<1>4. QED
  BY <1>1, <1>2, <1>3 DEF SoloInv, KeyMisfiledOnlyByOverlap

-----------------------------------------------------------------------------
(* The key that others encrypt for                                         *)

(* From a registration, or from the moment a login has found no key, the   *)
(* server has no key of the account from this device and gets none before  *)
(* the call sends its own.                                                 *)
Unknown(u) ==
    /\ serverKey[u] \in {None, Elsewhere}
    /\ \A up \in uploads : up.header # None => issued[up.header] # u

Making(c) ==
    \/ call[c].kind = "register" /\ call[c].pc \in {"answered", "stored"}
    \/ call[c].pc \in {"private", "public"}

FreshInv ==
    /\ \A c \in Call : Solo(c) /\ Making(c) => Unknown(call[c].who)
    /\ public_key = None => uploads = {} /\ (\A u \in User : serverKey[u] \in {None, Elsewhere})
    /\ \A c \in Call : At(c, "send") => call[c].key = public_key \/ public_key \in raced

(* The upload of a key has succeeded, whether its call knows it or not yet. *)
Arrived(k) == k \in confirmed \/ \E c \in Call : At(c, "done") /\ call[c].key = k

(* The server has, or is sent, no key of the account but the stored one.   *)
KnownInv ==
    public_key # None /\ public_key \notin raced =>
      /\ \A up \in uploads :
           up.header # None /\ issued[up.header] = maker[public_key] => up.key = public_key
      /\ serverKey[maker[public_key]] \in {None, public_key, Elsewhere}
      /\ Arrived(public_key) => serverKey[maker[public_key]] # None

LEMMA FreshStep == TypeInv /\ OverlapInv /\ FreshInv /\ Next => FreshInv'
<1> SUFFICES ASSUME TypeInv, OverlapInv, FreshInv, Next PROVE FreshInv'
  OBVIOUS
<1>0. TypeOK /\ InUse /\ (\A c \in Call : InHand(c)) /\ Grown /\ raced \subseteq raced'
  BY NothingForgotten, HistoryGrows DEF TypeInv
<1>1. ASSUME NEW u \in User, Unknown(u), \A c \in Call : ~SendUpload(c) PROVE Unknown(u)'
  <2>1. uploads' \subseteq uploads
    BY <1>1, UploadsSent
  <2>2. \A up \in uploads' : up.header # None => issued'[up.header] # u
    BY <1>0, <1>1, <2>1 DEF Unknown, InUse, Grown
  <2>3. serverKey'[u] \in {None, Elsewhere}
    <3>1. ASSUME NEW up \in uploads, ServeUpload(up) PROVE u # issued[up.header]
      BY <1>0, <1>1, <3>1, Longer DEF TypeOK, ServeUpload, Accepted, Unknown, None
    <3>2. QED
      BY <1>0, <1>1, <3>1, KeysFiled DEF Unknown
  <2>4. QED
    BY <2>2, <2>3 DEF Unknown
<1>2. ASSUME NEW c \in Call, Solo(c)', Making(c)' PROVE Unknown(call[c].who)'
  <2>1. /\ Solo(c) /\ call'[c].who = call[c].who /\ call'[c].kind = call[c].kind /\ Steps(c)
        /\ \A d \in Call \ {c} : ~Working(d)
    BY <1>2, SoloGoesOn DEF Making
  <2>2. call[c].who \in User
    BY <1>0, <2>1 DEF Solo, InHand
  <2>3. Unknown(call[c].who)
    <3>1. CASE ServerAnswers(c)
      <4>1. call'[c].pc = "answered"
        BY <1>0, <3>1, CallsAfter DEF After
      <4>2. call[c].who \notin members
        BY <1>2, <2>1, <3>1, <4>1 DEF Making, ServerAnswers
      <4>3. QED
        BY <1>0, <2>2, <4>2, NobodyAssumption DEF InUse, Unknown
    <3>2. CASE CheckKeys(c) /\ call[c].kind # "register"
      <4>1. ~Ended(c)
        BY <1>2 DEF Ended, NoCall, Making
      <4>2. call[c].kind = "login"
        BY <1>0, <2>1, <3>2 DEF TypeOK, Solo, Working
      <4>3. public_key = None
        BY <1>0, <3>2, <4>1, <4>2, ReturnClears DEF CheckKeys
      <4>4. QED
        BY <2>2, <4>3 DEF FreshInv, Unknown
    <3>3. CASE ~ServerAnswers(c) /\ (CheckKeys(c) => call[c].kind = "register")
      <4>1. Making(c)
        BY <1>2, <2>1, <3>3 DEF Making, Steps, StoreToken, CheckKeys, WritePrivate, At
      <4>2. QED
        BY <2>1, <4>1 DEF FreshInv
    <3>4. QED
      BY <3>1, <3>2, <3>3
  <2>4. ASSUME NEW d \in Call, SendUpload(d) PROVE FALSE
    <3>1. Working(d)
      BY <1>0, <2>4 DEF SendUpload, InHand, Working, At
    <3>2. d = c
      BY <2>1, <3>1
    <3>3. call'[c].pc = "uploading"
      BY <1>0, <2>4, <3>2, CallsAfter DEF After
    <3>4. QED
      BY <1>2, <3>3 DEF Making
  <2>5. QED
    BY <1>1, <2>1, <2>2, <2>3, <2>4
<1>3. None \notin raced /\ None \notin Key /\ None \notin DOMAIN maker
  BY <1>0, BoundsAssumption, Longer DEF TypeOK, Key, None
<1>4. ASSUME public_key' = None
      PROVE  uploads' = {} /\ (\A u \in User : serverKey'[u] \in {None, Elsewhere})
  <2>1. public_key = None
    <3>1. ASSUME NEW c \in Call, WritePublic(c), public_key' = call[c].key PROVE FALSE
      BY <1>0, <1>4, <3>1 DEF WritePublic, InHand, At
    <3>2. QED
      BY <1>4, <3>1, PublicChanges
  <2>2. uploads = {} /\ (\A u \in User : serverKey[u] \in {None, Elsewhere})
    BY <2>1 DEF FreshInv
  <2>3. ASSUME NEW c \in Call, SendUpload(c) PROVE FALSE
    BY <1>0, <1>3, <2>1, <2>3 DEF SendUpload, FreshInv, InHand, At
  <2>4. QED
    BY <1>0, <2>2, <2>3, UploadsSent, KeysFiled
<1>5. ASSUME NEW c \in Call, At(c, "send")'
      PROVE  call'[c].key = public_key' \/ public_key' \in raced'
  <2>1. Ongoing(c)
    BY <1>5, Reaches DEF At
  <2>2. CASE WritePublic(c)
    BY <1>0, <2>2, CallsAfter DEF WritePublic, After
  <2>3. CASE ~WritePublic(c)
    <3>1. At(c, "send") /\ Working(c) /\ call'[c].key = call[c].key
      BY <1>5, <2>1, <2>3 DEF Ongoing, Steps, At
    <3>2. CASE public_key' = public_key
      BY <1>0, <3>1, <3>2 DEF FreshInv
    <3>3. CASE public_key' # public_key
      <4>1. PICK d \in Call : WritePublic(d) /\ public_key' = call[d].key
        BY <3>3, PublicChanges
      <4>2. d # c /\ Working(d) /\ call[d].key # None
        BY <1>0, <2>3, <4>1 DEF WritePublic, InHand, Working, At
      <4>3. QED
        BY <1>0, <3>1, <4>1, <4>2, BothShared
    <3>4. QED
      BY <3>2, <3>3
  <2>4. QED
    BY <2>2, <2>3
<1>6. QED
  BY <1>2, <1>4, <1>5 DEF FreshInv

LEMMA DoneComes ==
    ASSUME TypeInv, Next, NEW c \in Call, At(c, "done")', call'[c].key # None
    PROVE  /\ call'[c].key = call[c].key
           /\ At(c, "done") \/ (\E up \in uploads : ServeUpload(up) /\ Awaits(c, up))
<1>1. Working(c)'
  BY TypeInvStep DEF TypeInv, InHand, Working, At
<1>2. ~Starts(c)
  BY StartsAfter DEF Starts, TypeInv, At
<1>3. Ongoing(c)
  BY <1>1, <1>2, CallGoesOn
<1>4. QED
  BY <1>3 DEF Ongoing, Steps, At

LEMMA KnownStep ==
    TypeInv /\ OverlapInv /\ UniqueInv /\ SoloInv /\ FreshInv /\ KnownInv /\ Next => KnownInv'
<1> SUFFICES ASSUME TypeInv, OverlapInv, UniqueInv, SoloInv, FreshInv, KnownInv, Next,
                    public_key' # None, public_key' \notin raced'
             PROVE  /\ \A up \in uploads' :
                         up.header # None /\ issued'[up.header] = maker'[public_key'] =>
                           up.key = public_key'
                    /\ serverKey'[maker'[public_key']] \in {None, public_key', Elsewhere}
                    /\ Arrived(public_key)' => serverKey'[maker'[public_key']] # None
  BY DEF KnownInv
<1>0. TypeOK /\ InUse /\ (\A c \in Call : InHand(c)) /\ Grown /\ raced \subseteq raced'
  BY NothingForgotten, HistoryGrows DEF TypeInv
<1>1. CASE public_key' # public_key
  <2>1. PICK c \in Call : WritePublic(c) /\ public_key' = call[c].key
    BY <1>1, PublicChanges
  <2>2. /\ Working(c) /\ call[c].key # None /\ call[c].key \in DOMAIN maker
        /\ maker[call[c].key] = call[c].who
    BY <1>0, <2>1 DEF WritePublic, InHand, Working, At
  <2>3. Solo(c)
    BY <1>0, <2>1, <2>2 DEF OverlapInv, Solo
  <2>4. Unknown(call[c].who)
    BY <2>1, <2>3 DEF FreshInv, Making, WritePublic, At
  <2>5. issued' = issued /\ maker' = maker /\ uploads' = uploads /\ serverKey' = serverKey
        /\ confirmed' = confirmed
    BY <2>1 DEF WritePublic, server, keyHistory
  <2>6. public_key' \notin confirmed'
    BY <2>1, <2>5 DEF UniqueInv, WritePublic
  <2>7. ASSUME NEW d \in Call, At(d, "done")', call'[d].key = public_key' PROVE FALSE
    <3>1. d # c /\ call'[d] = call[d]
      BY <1>0, <2>1, <2>7, CallsAfter DEF After, Alone, At
    <3>2. QED
      BY <2>1, <2>2, <2>7, <3>1 DEF UniqueInv
  <2>8. QED
    BY <2>1, <2>2, <2>4, <2>5, <2>6, <2>7 DEF Unknown, Arrived
<1>2. CASE public_key' = public_key
  <2> DEFINE u == maker[public_key]
  <2>1. /\ public_key \in DOMAIN maker /\ maker'[public_key] = u /\ u \in User
        /\ public_key \notin raced
    BY <1>0, <1>2, Longer DEF InUse, Grown, TypeOK
  <2>2. /\ \A up \in uploads : up.header # None /\ issued[up.header] = u => up.key = public_key
        /\ serverKey[u] \in {None, public_key, Elsewhere}
        /\ Arrived(public_key) => serverKey[u] # None
    BY <1>2, <2>1 DEF KnownInv
  <2> HIDE DEF u
  <2>3. ASSUME NEW up \in uploads', up.header # None, issued'[up.header] = u
        PROVE  up.key = public_key
    <3>1. CASE up \in uploads
      BY <1>0, <2>2, <2>3, <3>1 DEF InUse, Grown
    <3>2. CASE up \notin uploads
      <4>1. PICK c \in Call : SendUpload(c) /\ up = [header |-> auth_token, key |-> call[c].key]
        BY <2>3, <3>2, UploadsSent
      <4>2. QED
        BY <2>1, <4>1 DEF FreshInv, SendUpload
    <3>3. QED
      BY <3>1, <3>2
  <2>4. ASSUME NEW up \in uploads, ServeUpload(up) PROVE up.header # None
    BY <1>0, <2>4, Longer DEF TypeOK, ServeUpload, Accepted, None
  <2>5. \/ serverKey'[u] \in {serverKey[u], Elsewhere}
        \/ serverKey'[u] = public_key
    BY <1>0, <2>1, <2>2, <2>4, KeysFiled
  <2>6. Elsewhere # None
    BY BoundsAssumption DEF Elsewhere, None
  <2>7. serverKey[u] # None => serverKey'[u] # None
    BY <1>2, <2>5, <2>6
  <2>8. ASSUME NEW c \in Call, At(c, "done")', call'[c].key = public_key
        PROVE  serverKey'[u] # None
    <3>1. call[c].key = public_key
      BY <1>2, <2>8, DoneComes
    <3>2. CASE At(c, "done")
      BY <2>2, <2>7, <3>1, <3>2 DEF Arrived
    <3>3. ASSUME NEW up \in uploads, ServeUpload(up), Awaits(c, up) PROVE serverKey'[u] # None
      <4>1. issued[up.header] = u /\ up.key = public_key
        BY <2>1, <2>4, <3>1, <3>3 DEF SoloInv, Awaits, u
      <4>2. serverKey'[u] = public_key
        BY <1>0, <2>1, <3>3, <4>1 DEF ServeUpload, TypeOK
      <4>3. QED
        BY <1>2, <4>2
    <3>4. QED
      BY <1>2, <2>8, <3>2, <3>3, DoneComes
  <2>9. ASSUME public_key \in confirmed' PROVE serverKey'[u] # None
    <3>1. CASE public_key \in confirmed
      BY <2>2, <2>7, <3>1 DEF Arrived
    <3>2. CASE public_key \notin confirmed
      <4>1. PICK c \in Call : Succeeds(c) /\ public_key = call[c].key
        BY <2>9, <3>2, ConfirmedChanges
      <4>2. QED
        BY <2>2, <2>7, <4>1 DEF Succeeds, Arrived
    <3>3. QED
      BY <3>1, <3>2
  <2>10. QED
    BY <1>2, <2>1, <2>2, <2>3, <2>5, <2>8, <2>9 DEF Arrived
<1>3. QED
  BY <1>1, <1>2

-----------------------------------------------------------------------------
(* The theorems                                                            *)

SessionInv ==
    /\ OverlapInv /\ UniqueInv /\ LateInv /\ PairInv /\ FreshInv
    /\ OwnTokens => SoloInv /\ KnownInv

LEMMA SessionInit == Init => SessionInv
<1> SUFFICES ASSUME Init PROVE SessionInv
  OBVIOUS
<1> USE DEF Init
<1>1. \A c \in Call : call[c] = NoCall /\ call[c].pc = "idle" /\ call[c].key = None
  BY DEF NoCall
<1>2. OverlapInv /\ UniqueInv /\ LateInv
  BY <1>1 DEF OverlapInv, UniqueInv, LateInv, Working, At
<1>3. None \notin Key
  BY BoundsAssumption DEF Key, None
<1>4. PairInv /\ SoloInv
  BY <1>1, <1>3 DEF PairInv, SoloInv, At, PairTornOnlyByRegister, KeyMisfiledOnlyByOverlap
<1>5. FreshInv /\ KnownInv
  BY <1>1 DEF FreshInv, KnownInv, Solo, Working, At
<1>6. QED
  BY <1>2, <1>4, <1>5 DEF SessionInv

LEMMA SessionStep == TypeInv /\ SessionInv /\ [Next]_vars => SessionInv'
<1>1. CASE UNCHANGED vars
  BY <1>1 DEF SessionInv, OverlapInv, UniqueInv, LateInv, PairInv, SoloInv, FreshInv, KnownInv,
    Working, At, Current, Accepted, PairTornOnlyByRegister, KeyMisfiledOnlyByOverlap, Solo, Making,
    Unknown, Arrived, vars, storage, server, keyHistory
<1>2. CASE Next
  BY <1>2, OverlapStep, UniqueStep, LateStep, PairStep, SoloStep, FreshStep, KnownStep
     DEF SessionInv
<1>3. QED
  BY <1>1, <1>2

LEMMA SessionAlways == Spec => [](TypeInv /\ SessionInv)
<1>1. Init => TypeInv /\ SessionInv
  BY TypeInit, SessionInit
<1>2. TypeInv /\ SessionInv /\ [Next]_vars => (TypeInv /\ SessionInv)'
  BY TypeInvStep, SessionStep
<1>3. QED
  BY <1>1, <1>2, PTL DEF Spec

(* The interceptor deletes a token that still works only if it was stored  *)
(* beside an unanswered request (api_client.dart:47).                      *)
THEOREM TokenNeedsLateAnswer == Spec => TokenDroppedOnlyByLateAnswer
<1>1. ASSUME TypeInv, LateInv, Next, Accepted(auth_token), auth_token' = None
      PROVE  crossed \/ logout
  <2>1. auth_token # None
    BY <1>1, Longer DEF TypeInv, TypeOK, Accepted, None
  <2>2. ASSUME NEW c \in Call, Refused(c) PROVE crossed
    BY <1>1, <2>2 DEF Refused, LateInv, At
  <2>3. ASSUME NEW c \in Call, StoreToken(c) PROVE FALSE
    <3>1. call[c].token \in DOMAIN issued
      BY <1>1, <2>3 DEF TypeInv, InHand, Working, At, StoreToken
    <3>2. call[c].token # None
      BY <1>1, <3>1, Longer DEF TypeInv, TypeOK, None
    <3>3. QED
      BY <1>1, <2>1, <2>3, <3>2 DEF StoreToken
  <2>4. QED
    BY <1>1, <2>1, <2>2, <2>3
       DEF Next, CallStep, WorldStep, StartCall, ServerAnswers, ServerRefuses, CheckKeys,
           WritePrivate, WritePublic, SendUpload, StartRequest, ServeRequest, Succeeds, CallFails,
           ServeUpload, RefuseUpload, LoseUpload, Expire, OtherDevice, Crash, storage
<1>2. TypeInv /\ SessionInv /\ [Next]_vars =>
        [Accepted(auth_token) /\ auth_token' = None => crossed \/ logout]_vars
  BY <1>1 DEF SessionInv
<1>3. QED
  BY <1>2, SessionAlways, PTL DEF Spec, TokenDroppedOnlyByLateAnswer

(* The stored keys are a pair unless a register that replaced a pair was   *)
(* interrupted or calls overlapped (sodium_crypto_service.dart).           *)
THEOREM PairsStayTogether == Spec => []PairTornOnlyByRegister
<1>1. SessionInv => PairTornOnlyByRegister
  BY DEF SessionInv, PairInv
<1>2. QED
  BY <1>1, SessionAlways, PTL

(* A key is filed under the account it was made for unless calls           *)
(* overlapped (auth_repository_impl.dart:48).  An answer with a user and   *)
(* no token would leave an older token for the upload.                     *)
THEOREM KeysFiledRightly ==
    ASSUME OwnTokens
    PROVE  Spec => []KeyMisfiledOnlyByOverlap
<1>1. SessionInv => KeyMisfiledOnlyByOverlap
  BY DEF SessionInv, SoloInv
<1>2. QED
  BY <1>1, SessionAlways, PTL

(* A key whose upload was seen to succeed is the one others encrypt for,   *)
(* apart from another device's and from overlaps (generateAndSaveKeys and  *)
(* uploadPublicKey).                                                       *)
THEOREM ServerKeyIsKnown ==
    ASSUME OwnTokens
    PROVE  Spec => []ServerKeyStaleOnlyByKnownCause
<1>1. TypeInv /\ SessionInv => ServerKeyStaleOnlyByKnownCause
  <2> SUFFICES ASSUME TypeInv, SessionInv, NEW u \in User, public_key \in confirmed,
                      maker[public_key] = u, public_key \notin raced
               PROVE  serverKey[u] \in {public_key, Elsewhere}
    BY DEF ServerKeyStaleOnlyByKnownCause
  <2>1. public_key # None
    BY BoundsAssumption DEF TypeInv, TypeOK, Key, None
  <2>2. QED
    BY <2>1 DEF SessionInv, KnownInv, Arrived
<1>2. QED
  BY <1>1, SessionAlways, PTL

-----------------------------------------------------------------------------
(* Calls one at a time                                                     *)

(* No register or login has run beside another one, and no token was       *)
(* stored beside a request.                                                *)
InTurn ==
    /\ raced = {} /\ ~crossed
    /\ \A c \in Call : Working(c) => ~call[c].shared

LEMMA InTurnStep ==
    ASSUME \A c, d \in Call : c = d, TypeInv, InTurn, [Next]_vars
    PROVE  InTurn'
<1>0. TypeOK /\ \A c \in Call : InHand(c)
  BY DEF TypeInv
<1>1. ASSUME NEW c \in Call, Next, Working(c)' PROVE ~call'[c].shared
  <2>1. CASE Starts(c)
    <3>1. Others(c) = {}
      BY DEF Others
    <3>2. QED
      BY <1>0, <2>1, <3>1, StartsAfter DEF Starts
  <2>2. CASE Ongoing(c)
    BY <2>2 DEF Ongoing, Joined, InTurn
  <2>3. QED
    BY <1>1, <2>1, <2>2, CallGoesOn
<1>2. ASSUME NEW c \in Call, WritePrivate(c) PROVE raced' = {} /\ ~crossed'
  <2>1. Working(c)
    BY <1>0, <1>2 DEF WritePrivate, InHand, Working, At
  <2>2. QED
    BY <1>2, <2>1 DEF WritePrivate, InTurn
<1>3. ASSUME NEW c \in Call, StoreToken(c) PROVE raced' = {} /\ ~crossed'
  <2>1. ~Unanswered
    BY <1>3 DEF StoreToken, Unanswered, At
  <2>2. raced' = {}
    BY <1>3 DEF StoreToken, InTurn, keyHistory
  <2>3. crossed' = Unanswered \/ crossed' = crossed
    BY <1>3 DEF StoreToken
  <2>4. QED
    BY <1>0, <2>1, <2>2, <2>3 DEF InTurn, TypeOK
<1>4. ASSUME NEW c \in Call, NEW kind \in {"register", "login"}, NEW u \in User,
             StartCall(c, kind, u)
      PROVE  raced' = {} /\ ~crossed'
  BY <1>4 DEF StartCall, Others, InTurn
<1>5. Next => raced' = {} /\ ~crossed'
  <2>1. ASSUME Next, UNCHANGED raced PROVE raced' = {}
    BY <2>1 DEF InTurn
  <2>2. Next => raced' = {}
    BY <1>2, <1>3, <1>4, <2>1
       DEF Next, CallStep, WorldStep, ServerAnswers, ServerRefuses, CheckKeys, WritePublic,
           SendUpload, StartRequest, ServeRequest, Succeeds, Refused, CallFails, logout,
           ServeUpload, RefuseUpload, LoseUpload, Expire, OtherDevice, Crash, keyHistory
  <2>3. Next => crossed' = FALSE \/ UNCHANGED crossed \/ (\E c \in Call : StoreToken(c))
    BY DEF Next, CallStep, WorldStep, StartCall, ServerAnswers, ServerRefuses, CheckKeys,
      WritePrivate, WritePublic, SendUpload, StartRequest, ServeRequest, Succeeds, Refused,
      Unauthorized, CallFails, logout, ServeUpload, RefuseUpload, LoseUpload, Expire,
      OtherDevice, Crash
  <2>4. QED
    BY <1>0, <1>3, <2>2, <2>3 DEF InTurn, TypeOK
<1>6. CASE UNCHANGED vars
  BY <1>6 DEF InTurn, Working, At, vars, keyHistory
<1>7. QED
  BY <1>1, <1>5, <1>6 DEF InTurn

(* If the app made its calls one at a time, every exception the properties *)
(* above allow for an overlap would go: no session ends early, stored keys *)
(* are torn only while they are written or by an interrupted register, and *)
(* the server files each key under its account and keeps the one it        *)
(* confirmed - even where a call gave up and its upload arrives later.     *)
THEOREM CallsInTurn ==
    ASSUME OwnTokens, \A c, d \in Call : c = d
    PROVE  Spec =>
             /\ [][Accepted(auth_token) /\ auth_token' = None => logout]_vars
             /\ []( /\ public_key # None /\ private_key # public_key =>
                         (\E c \in Call : At(c, "public")) \/ public_key \in torn
                    /\ \A u \in User : serverKey[u] \in Key => maker[serverKey[u]] = u
                    /\ \A u \in User : public_key \in confirmed /\ maker[public_key] = u =>
                         serverKey[u] \in {public_key, Elsewhere} )
<1>1. Init => InTurn
  BY DEF Init, InTurn, Working, At, NoCall
<1>2. TypeInv /\ InTurn /\ [Next]_vars => InTurn'
  BY InTurnStep
<1>3. Spec => []InTurn
  BY <1>1, <1>2, TypeAlways, PTL DEF Spec
<1>4. ASSUME InTurn, PairTornOnlyByRegister, KeyMisfiledOnlyByOverlap,
             ServerKeyStaleOnlyByKnownCause
      PROVE  /\ public_key # None /\ private_key # public_key =>
                  (\E c \in Call : At(c, "public")) \/ public_key \in torn
             /\ \A u \in User : serverKey[u] \in Key => maker[serverKey[u]] = u
             /\ \A u \in User : public_key \in confirmed /\ maker[public_key] = u =>
                  serverKey[u] \in {public_key, Elsewhere}
  BY <1>4 DEF InTurn, PairTornOnlyByRegister, KeyMisfiledOnlyByOverlap,
    ServerKeyStaleOnlyByKnownCause
<1>5. InTurn /\ [Accepted(auth_token) /\ auth_token' = None => crossed \/ logout]_vars =>
        [Accepted(auth_token) /\ auth_token' = None => logout]_vars
  BY DEF InTurn
<1>6. QED
  BY <1>3, <1>4, <1>5, TokenNeedsLateAnswer, PairsStayTogether, KeysFiledRightly,
     ServerKeyIsKnown, PTL DEF TokenDroppedOnlyByLateAnswer

-----------------------------------------------------------------------------
(* Answers that lack a field                                               *)

(* Nothing but what the first tokens authorise gets to the server.         *)
OldTokensOnly ==
    /\ \A up \in uploads : up.header \in DOMAIN Bootstrap \cup {None}
    /\ \A u \in User : \/ serverKey[u] \in {None, Elsewhere}
                        \/ \E t \in DOMAIN Bootstrap : Bootstrap[t] = u

LEMMA NothingFiled ==
    ASSUME "token" \notin Answer, TypeInv, OldTokensOnly, [Next]_vars
    PROVE  OldTokensOnly'
<1>0. TypeOK /\ InUse /\ auth_token \in DOMAIN Bootstrap \cup {None}
  BY DEF TypeInv, InUse
<1>1. ASSUME Next, NEW up \in uploads' PROVE up.header \in DOMAIN Bootstrap \cup {None}
  BY <1>0, <1>1, UploadsSent DEF OldTokensOnly
<1>2. ASSUME NEW up \in uploads, ServeUpload(up)
      PROVE  up.header \in DOMAIN Bootstrap /\ issued[up.header] = Bootstrap[up.header]
  <2>1. up.header # None
    BY <1>0, <1>2, Longer DEF TypeOK, ServeUpload, Accepted, None
  <2>2. QED
    BY <1>0, <2>1 DEF OldTokensOnly, InUse
<1>3. ASSUME Next, NEW u \in User, serverKey'[u] \notin {None, Elsewhere}
      PROVE  \E t \in DOMAIN Bootstrap : Bootstrap[t] = u
  BY <1>0, <1>2, <1>3, KeysFiled DEF OldTokensOnly
<1>4. CASE UNCHANGED vars
  BY <1>4 DEF OldTokensOnly, vars, server
<1>5. QED
  BY <1>1, <1>3, <1>4 DEF OldTokensOnly

(* A client whose server answers without the field `token` (the backend    *)
(* calls it `access_token`) never has a session of its own: no token but   *)
(* a first one is stored or sent with an upload, and a key of this device  *)
(* is filed only under an account such a token names.                      *)
THEOREM NoTokenNoSession ==
    ASSUME "token" \notin Answer
    PROVE  Spec => [](auth_token \in DOMAIN Bootstrap \cup {None} /\ OldTokensOnly)
<1>1. Init => OldTokensOnly
  BY DEF Init, OldTokensOnly
<1>2. TypeInv /\ OldTokensOnly /\ [Next]_vars => OldTokensOnly'
  BY NothingFiled
<1>3. TypeInv => auth_token \in DOMAIN Bootstrap \cup {None}
  BY DEF TypeInv, InUse
<1>4. QED
  BY <1>1, <1>2, <1>3, TypeAlways, PTL DEF Spec

(* Behind the middleware nobody gets a first token: with both routes       *)
(* guarded, as in app_router.rs:24, and no token from outside, no client   *)
(* ever registers, logs in or has a token.                                 *)
THEOREM GuardedOut ==
    ASSUME Guarded = {"register", "login"}, Bootstrap = <<>>
    PROVE  Spec => [](issued = <<>> /\ members = {} /\ auth_token = None)
<1> DEFINE Out == issued = <<>> /\ members = {}
<1>1. Init => Out
  BY DEF Init
<1>2. TypeInv /\ Out /\ [Next]_vars => Out'
  <2> SUFFICES ASSUME TypeInv, Out, [Next]_vars PROVE Out'
    OBVIOUS
  <2>1. ASSUME NEW c \in Call, ServerAnswers(c) PROVE FALSE
    <3>1. call[c].kind \in Guarded
      BY <2>1 DEF TypeInv, TypeOK, InHand, At, ServerAnswers
    <3>2. QED
      BY <2>1, <3>1 DEF ServerAnswers, Accepted
  <2>2. CASE UNCHANGED vars
    BY <2>2 DEF vars, server
  <2>3. QED
    BY <2>1, <2>2 DEF Next, CallStep, WorldStep, StartCall, ServerRefuses, StoreToken, CheckKeys,
      WritePrivate, WritePublic, SendUpload, StartRequest, ServeRequest, Succeeds, Refused,
      CallFails, logout, ServeUpload, RefuseUpload, LoseUpload, Expire, OtherDevice, Crash, server
<1>3. TypeInv /\ Out => auth_token = None
  BY DEF TypeInv, InUse
<1>4. QED
  BY <1>1, <1>2, <1>3, TypeAlways, PTL DEF Spec

(* No key pair is made, and no call is where one is made.                  *)
Keyless ==
    /\ maker = <<>>
    /\ \A c \in Call : call[c].pc \notin {"stored", "private"}

LEMMA KeylessStep ==
    ASSUME "user" \notin Answer, TypeInv, Keyless, [Next]_vars
    PROVE  Keyless'
<1>0. TypeOK
  BY DEF TypeInv
<1>1. ASSUME Next PROVE maker' = <<>>
  BY <1>1, ZenonT(40) DEF Keyless, At, Next, CallStep, WorldStep, StartCall, ServerAnswers,
    ServerRefuses, StoreToken, CheckKeys, WritePrivate, WritePublic, SendUpload, StartRequest,
    ServeRequest, Succeeds, Refused, CallFails, logout, ServeUpload, RefuseUpload, LoseUpload,
    Expire, OtherDevice, Crash, keyHistory
<1>2. ASSUME Next, NEW c \in Call, call'[c].pc \in {"stored", "private"} PROVE FALSE
  <2>1. Working(c)'
    <3>1. InHand(c)'
      BY TypeInvStep DEF TypeInv
    <3>2. QED
      BY <1>2, <3>1 DEF InHand, Working, At
  <2>2. CASE Starts(c)
    BY <1>0, <1>2, <2>2, StartsAfter DEF Starts
  <2>3. CASE Ongoing(c)
    <3>1. ~StoreToken(c) \/ call'[c] = NoCall
      BY <1>0 DEF StoreToken, Return, TypeOK
    <3>2. QED
      BY <1>2, <2>3, <3>1 DEF Ongoing, Steps, Keyless, NoCall, CheckKeys, At
  <2>4. QED
    BY <1>2, <2>1, <2>2, <2>3, CallGoesOn
<1>3. CASE UNCHANGED vars
  BY <1>3 DEF Keyless, vars, keyHistory
<1>4. QED
  BY <1>1, <1>2, <1>3 DEF Keyless

(* ... and one whose server answers without the field `user` (the backend  *)
(* sends `user_id`) never makes a key pair, because the call fails before. *)
THEOREM NoUserNoKeys ==
    ASSUME "user" \notin Answer
    PROVE  Spec => [](maker = <<>> /\ private_key = None /\ public_key = None /\ uploads = {})
<1>1. Init => Keyless
  BY DEF Init, Keyless, NoCall
<1>2. TypeInv /\ Keyless /\ [Next]_vars => Keyless'
  BY KeylessStep
<1>3. TypeInv /\ Keyless => maker = <<>> /\ private_key = None /\ public_key = None /\ uploads = {}
  <2> SUFFICES ASSUME InUse, maker = <<>>
               PROVE  private_key = None /\ public_key = None /\ uploads = {}
    BY DEF TypeInv, Keyless
  <2>1. DOMAIN maker = {}
    OBVIOUS
  <2>2. QED
    BY <2>1 DEF InUse
<1>4. QED
  BY <1>1, <1>2, <1>3, TypeAlways, PTL DEF Spec
=============================================================================
