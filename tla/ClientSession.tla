--------------------------- MODULE ClientSession ----------------------------
(***************************************************************************)
(* The Flutter client's session: the token it keeps in secure storage      *)
(* under `auth_token`, the key pair for end-to-end encryption beside it,   *)
(* and the calls that share them - register, login and logout of           *)
(* AuthRepositoryImpl, and every other request of ApiClient, whose         *)
(* interceptors read the token when a request is sent and delete it when a *)
(* 401 comes back.                                                         *)
(*                                                                         *)
(* A step is the code between two awaits, each of which is a read or write *)
(* of the storage or an HTTP exchange; calls interleave, and nothing in    *)
(* the client keeps a second register or login from starting while one     *)
(* runs.  An exchange may fail before or after the server has acted, and   *)
(* an upload the client has given up may still be carried out.             *)
(*                                                                         *)
(* The client is modelled against the answers its code reads: `Answer` are *)
(* the fields of a successful register or login.  Of the server, the check *)
(* of a token and the upload of a public key are translated from the       *)
(* backend's source.  The check stands before the routes of `Guarded`,     *)
(* which are both register and login in the source (app_router.rs:24) and  *)
(* neither in its comment (:14); where they are guarded, a client logs in  *)
(* with a token it already has, one of `Bootstrap` (see Accounts).         *)
(* No handler answers 401 by itself: a wrong password is a 500             *)
(* (error.rs:36).                                                          *)
(*                                                                         *)
(* Abstracted: tokens and key pairs are numbered as they are made, the     *)
(* halves of one pair having one number; passwords; what a request other   *)
(* than the upload asks for.                                               *)
(***************************************************************************)
EXTENDS Naturals, Sequences

CONSTANTS
    User,       \* accounts
    Call,       \* calls in progress at a time
    Answer,     \* fields of the server's answer
    Nobody,
    Guarded,    \* routes among register and login that auth_middleware checks
    Bootstrap,  \* subjects of the tokens there are when the app is first started
    MaxTokens,  \* bound on the tokens
    MaxKeys     \* bound on the key pairs made on this device

ASSUME NobodyAssumption == Nobody \notin User
ASSUME GuardedAssumption == Guarded \subseteq {"register", "login"}
ASSUME BootstrapAssumption == Bootstrap \in Seq(User \cup {Nobody}) /\ Len(Bootstrap) <= MaxTokens
ASSUME BoundsAssumption == MaxTokens \in Nat /\ MaxKeys \in Nat

VARIABLES
    auth_token,               \* the stored token; None if absent
    private_key, public_key,  \* the stored key pair; None if absent
    call,       \* a call: where it is (CallPc), its kind, its account, and the
                \* token and key pair it has in hand; `shared` (history) if it
                \* has run beside another register or login
    issued,     \* account of each token; Nobody if it names none
    expired,    \* tokens it no longer accepts
    members,    \* registered accounts
    uploads,    \* POSTs of a public key on their way to the server
    serverKey,  \* users.public_key_x25519
    maker,      \* account each key pair was made for               (history)
    confirmed,  \* key pairs whose upload a call saw succeed        (history)
    raced,      \* key pairs of shared calls                        (history)
    torn,       \* public keys whose private key was overwritten by a
                \* register that stopped before its next write      (history)
    crossed     \* the stored token was stored while a request was
                \* unanswered                                       (history)

storage == <<auth_token, private_key, public_key>>
server == <<issued, expired, members, uploads, serverKey>>
keyHistory == <<maker, confirmed, raced, torn>>
vars == <<storage, call, server, keyHistory, crossed>>

None == 0
Elsewhere == MaxKeys + 1        \* a key pair of another device

Token == 1..MaxTokens
Key == 1..MaxKeys
CallPc == {"idle",
           "posted",               \* the request is under way with its token
           "denied",               \* auth_middleware has refused it
           "answered",             \* the server has answered with a token
           "stored",               \* the token is stored
           "private", "public",    \* the next write of generateAndSaveKeys
           "send", "uploading",    \* uploadPublicKey
           "sent",                 \* any other request
           "done", "refused"}      \* the upload or request is answered

NoCall == [pc |-> "idle", kind |-> "login", who |-> Nobody, token |-> None, key |-> None,
           shared |-> FALSE]

Init ==
    /\ auth_token \in DOMAIN Bootstrap \cup {None}
    /\ private_key = None /\ public_key = None
    /\ call = [c \in Call |-> NoCall]
    /\ issued = Bootstrap
    /\ expired = {}
    /\ members = {Bootstrap[t] : t \in DOMAIN Bootstrap} \ {Nobody}
    /\ uploads = {}
    /\ serverKey = [u \in User |-> None]
    /\ maker = <<>>
    /\ confirmed = {}
    /\ raced = {}
    /\ torn = {}
    /\ crossed = FALSE

(* jsonwebtoken::decode accepts a token until it has expired. *)
Accepted(t) == t \in DOMAIN issued /\ t \notin expired

At(c, pc) == call[c].pc = pc
(* Other registers and logins in progress. *)
Others(c) == {d \in Call \ {c} : ~At(d, "idle") /\ call[d].kind # "other"}

Goto(c, pc) == call' = [call EXCEPT ![c].pc = pc]
Return(c) == call' = [call EXCEPT ![c] = NoCall]

(* A request that has read the stored token still awaits its answer. *)
Unanswered ==
    \E d \in Call : call[d].pc \in {"posted", "denied", "sent", "uploading", "done", "refused"}

(* The stored public key, if a register among `ending` has overwritten its *)
(* private key and stops before it writes the new public key.              *)
TornBy(ending) ==
    IF \E c \in ending : At(c, "public") /\ call[c].kind = "register"
    THEN {public_key} \ {None} ELSE {}

(* The onError interceptor: a 401 deletes the stored token, whichever      *)
(* token the refused request carried.                                      *)
Unauthorized ==
    /\ auth_token' = None
    /\ crossed' = FALSE
    /\ UNCHANGED <<private_key, public_key>>

-----------------------------------------------------------------------------
(* register and login                                                      *)

(* dio posts the request; onRequest reads the stored token for its header. *)
(* Bound: no call is started when it could not get a token any more.       *)
StartCall(c, kind, u) ==
    /\ At(c, "idle")
    /\ Len(issued) < MaxTokens
    /\ call' = [d \in Call |->
                  IF d = c THEN [NoCall EXCEPT !.pc = "posted", !.kind = kind, !.who = u,
                                               !.token = auth_token, !.shared = Others(c) # {}]
                  ELSE IF d \in Others(c) THEN [call[d] EXCEPT !.shared = TRUE]
                  ELSE call[d]]
    /\ raced' = raced \cup ({call[d].key : d \in Others(c)} \ {None})
    /\ UNCHANGED <<storage, server, maker, confirmed, torn, crossed>>

(* The server creates the account or finds it, and answers with a token.   *)
ServerAnswers(c) ==
    /\ At(c, "posted")
    /\ call[c].kind \in Guarded => Accepted(call[c].token)
    /\ (call[c].kind = "login") <=> (call[c].who \in members)
    /\ Len(issued) < MaxTokens
    /\ members' = members \cup {call[c].who}
    /\ issued' = Append(issued, call[c].who)
    /\ call' = [call EXCEPT ![c].pc = "answered", ![c].token = Len(issued) + 1]
    /\ UNCHANGED <<storage, expired, uploads, serverKey, keyHistory, crossed>>

(* auth_middleware answers 401 before register or login runs.              *)
ServerRefuses(c) ==
    /\ At(c, "posted")
    /\ call[c].kind \in Guarded /\ ~Accepted(call[c].token)
    /\ Goto(c, "denied")
    /\ UNCHANGED <<storage, server, keyHistory, crossed>>

(* Faulty: the account is stored in the token's place. *)
StoreAccount(c) ==
    /\ At(c, "answered")
    /\ auth_token' = call[c].who
    /\ Goto(c, "stored")
    /\ UNCHANGED <<private_key, public_key, server, keyHistory, crossed>>

(* Faulty: a token that is there is not replaced. *)
StoreFirstToken(c) ==
    /\ At(c, "answered")
    /\ auth_token' = IF auth_token = None THEN call[c].token ELSE auth_token
    /\ Goto(c, "stored")
    /\ UNCHANGED <<private_key, public_key, server, keyHistory, crossed>>

(* The answer's token is stored, if it has one; mapping an answer without  *)
(* a user throws, and the call returns a failure.                          *)
StoreToken(c) ==
    /\ At(c, "answered")
    /\ IF "token" \in Answer
       THEN auth_token' = call[c].token /\ crossed' = Unanswered
       ELSE UNCHANGED <<auth_token, crossed>>
    /\ IF "user" \in Answer THEN Goto(c, "stored") ELSE Return(c)
    /\ UNCHANGED <<private_key, public_key, server, keyHistory>>

(* Faulty: login replaces a pair that is there. *)
AlwaysMakeKeys(c) ==
    /\ At(c, "stored")
    /\ Goto(c, "private")
    /\ UNCHANGED <<storage, server, keyHistory, crossed>>

(* Faulty: a key that is there is uploaded again. *)
CheckKeysUploadsAgain(c) ==
    /\ At(c, "stored")
    /\ IF call[c].kind = "login" /\ public_key # None
       THEN call' = [call EXCEPT ![c].pc = "send", ![c].key = public_key]
       ELSE Goto(c, "private")
    /\ UNCHANGED <<storage, server, keyHistory, crossed>>

(* login makes keys only if getMyPublicKey finds none; register always.    *)
CheckKeys(c) ==
    /\ At(c, "stored")
    /\ IF call[c].kind = "login" /\ public_key # None THEN Return(c) ELSE Goto(c, "private")
    /\ UNCHANGED <<storage, server, keyHistory, crossed>>

(* generateAndSaveKeys makes a pair and writes its private key first.      *)
WritePrivate(c) ==
    /\ At(c, "private")
    /\ Len(maker) < MaxKeys
    /\ maker' = Append(maker, call[c].who)
    /\ private_key' = Len(maker) + 1
    /\ raced' = IF call[c].shared THEN raced \cup {Len(maker) + 1} ELSE raced
    /\ call' = [call EXCEPT ![c].pc = "public", ![c].key = Len(maker) + 1]
    /\ UNCHANGED <<auth_token, public_key, server, confirmed, torn, crossed>>

WritePublic(c) ==
    /\ At(c, "public")
    /\ public_key' = call[c].key
    /\ Goto(c, "send")
    /\ UNCHANGED <<auth_token, private_key, server, keyHistory, crossed>>

(* Faulty: the call does not wait for the upload. *)
SendUploadAndReturn(c) ==
    /\ At(c, "send")
    /\ uploads' = uploads \cup {[header |-> auth_token, key |-> call[c].key]}
    /\ confirmed' = confirmed \cup {call[c].key}
    /\ Return(c)
    /\ UNCHANGED <<storage, issued, expired, members, serverKey,
                   maker, raced, torn, crossed>>

(* uploadPublicKey: the onRequest interceptor reads the token that is      *)
(* stored now.                                                             *)
SendUpload(c) ==
    /\ At(c, "send")
    /\ uploads' = uploads \cup {[header |-> auth_token, key |-> call[c].key]}
    /\ Goto(c, "uploading")
    /\ UNCHANGED <<storage, issued, expired, members, serverKey, keyHistory,
                   crossed>>

(* The answer to the upload, or to another request, is a success.          *)
Succeeds(c) ==
    /\ At(c, "done")
    /\ confirmed' = confirmed \cup ({call[c].key} \ {None})
    /\ Return(c)
    /\ UNCHANGED <<storage, server, maker, raced, torn, crossed>>

(* ... or a 401, as may be that to a register or login.                    *)
Refused(c) ==
    /\ At(c, "refused") \/ At(c, "denied")
    /\ Unauthorized
    /\ Return(c)
    /\ UNCHANGED <<server, keyHistory>>

(* Any other error, a lost answer, a timeout or an error of the storage:   *)
(* the call returns a failure, and what it has written stays.              *)
CallFails(c) ==
    /\ ~At(c, "idle")
    /\ Return(c)
    /\ torn' = torn \cup TornBy({c})
    /\ UNCHANGED <<storage, server, maker, confirmed, raced, crossed>>

logout ==
    /\ auth_token' = None
    /\ crossed' = FALSE
    /\ UNCHANGED <<private_key, public_key, call, server, keyHistory>>

(* Any other request of ApiClient                                          *)

StartRequest(c) ==
    /\ At(c, "idle")
    /\ call' = [call EXCEPT ![c] = [NoCall EXCEPT !.pc = "sent", !.kind = "other",
                                                  !.token = auth_token]]
    /\ UNCHANGED <<storage, server, keyHistory, crossed>>

(* Faulty: an accepted token is refused as well (a 403 sent as a 401). *)
ServeRequestAtWill(c) ==
    /\ At(c, "sent")
    /\ \E answer \in {"done", "refused"} : Goto(c, answer)
    /\ UNCHANGED <<storage, server, keyHistory, crossed>>

(* auth_middleware                                                         *)
ServeRequest(c) ==
    /\ At(c, "sent")
    /\ Goto(c, IF Accepted(call[c].token) THEN "done" ELSE "refused")
    /\ UNCHANGED <<storage, server, keyHistory, crossed>>

CallStep(c) ==
    \/ \E kind \in {"register", "login"}, u \in User : StartCall(c, kind, u)
    \/ ServerAnswers(c) \/ ServerRefuses(c) \/ StoreToken(c) \/ CheckKeys(c)
    \/ WritePrivate(c) \/ WritePublic(c) \/ SendUpload(c) \/ StartRequest(c) \/ ServeRequest(c)
    \/ Succeeds(c) \/ Refused(c) \/ CallFails(c)

-----------------------------------------------------------------------------
(* The server, the network and other devices                               *)

Awaits(c, up) == At(c, "uploading") /\ call[c].key = up.key

(* The call that awaits the answer gets it, if there still is one. *)
Notify(up, answer) ==
    call' = [c \in Call |-> IF Awaits(c, up) THEN [call[c] EXCEPT !.pc = answer] ELSE call[c]]

(* auth_middleware and upload_public_key: UPDATE users ... WHERE id = $1   *)
ServeUpload(up) ==
    /\ Accepted(up.header)
    /\ uploads' = uploads \ {up}
    /\ serverKey' = [u \in User |-> IF issued[up.header] = u THEN up.key ELSE serverKey[u]]
    /\ Notify(up, "done")
    /\ UNCHANGED <<storage, issued, expired, members, keyHistory, crossed>>

RefuseUpload(up) ==
    /\ ~Accepted(up.header)
    /\ uploads' = uploads \ {up}
    /\ Notify(up, "refused")
    /\ UNCHANGED <<storage, issued, expired, members, serverKey, keyHistory,
                   crossed>>

LoseUpload(up) ==
    /\ uploads' = uploads \ {up}
    /\ UNCHANGED <<storage, call, issued, expired, members, serverKey, keyHistory,
                   crossed>>

(* The token's `exp` has passed.                                           *)
Expire(t) ==
    /\ Accepted(t)
    /\ expired' = expired \cup {t}
    /\ UNCHANGED <<storage, call, issued, members, uploads, serverKey, keyHistory,
                   crossed>>

(* The same account logs in on a device without keys, which uploads its    *)
(* own.                                                                    *)
OtherDevice(u) ==
    /\ u \in members
    /\ serverKey' = [serverKey EXCEPT ![u] = Elsewhere]
    /\ UNCHANGED <<storage, call, issued, expired, members, uploads,
                   keyHistory, crossed>>

(* The app is killed: calls and requests are gone, the storage stays.      *)
Crash ==
    /\ call' = [c \in Call |-> NoCall]
    /\ torn' = torn \cup TornBy(Call)
    /\ UNCHANGED <<storage, server, maker, confirmed, raced, crossed>>

WorldStep ==
    \/ \E up \in uploads : ServeUpload(up) \/ RefuseUpload(up) \/ LoseUpload(up)
    \/ \E t \in Token : Expire(t)
    \/ \E u \in User : OtherDevice(u)

Next ==
    \/ \E c \in Call : CallStep(c)
    \/ logout
    \/ WorldStep
    \/ Crash

Spec == Init /\ [][Next]_vars
-----------------------------------------------------------------------------
TypeOK ==
    /\ auth_token \in Token \cup {None}
    /\ private_key \in Key \cup {None} /\ public_key \in Key \cup {None}
    /\ call \in [Call -> [pc : CallPc, kind : {"register", "login", "other"},
                          who : User \cup {Nobody}, token : Token \cup {None},
                          key : Key \cup {None}, shared : BOOLEAN]]
    /\ issued \in Seq(User \cup {Nobody}) /\ Len(issued) <= MaxTokens
    /\ expired \subseteq Token
    /\ members \subseteq User
    /\ uploads \subseteq [header : Token \cup {None}, key : Key]
    /\ serverKey \in [User -> Key \cup {None, Elsewhere}]
    /\ maker \in Seq(User) /\ Len(maker) <= MaxKeys
    /\ confirmed \subseteq Key
    /\ raced \subseteq Key
    /\ torn \subseteq Key
    /\ crossed \in BOOLEAN

(* A 401 deletes a token that the server still accepts, and so ends a      *)
(* session nobody ended, only if that token was stored while an older      *)
(* request, another register or login among them, was still unanswered     *)
(* (the late 401 of api_client.dart:47).                                   *)
TokenDroppedOnlyByLateAnswer ==
    [][Accepted(auth_token) /\ auth_token' = None => crossed \/ logout]_vars

(* The stored keys are halves of different pairs, with which no message    *)
(* can be read, only while a pair is being written, after a register that  *)
(* replaced a pair stopped between its two writes, or when calls           *)
(* overlapped.  A login by itself never tears a pair, wherever it stops.   *)
PairTornOnlyByRegister ==
    public_key # None /\ private_key # public_key =>
      \/ \E c \in Call : At(c, "public")
      \/ public_key \in torn
      \/ public_key \in raced

(* A key made for one account is filed by the server under another only if *)
(* calls overlapped: the upload carries whichever token is stored when it  *)
(* is sent, not the one its call was given.                                *)
KeyMisfiledOnlyByOverlap ==
    \A u \in User : serverKey[u] \in Key => maker[serverKey[u]] = u \/ serverKey[u] \in raced

(* Once register or login has seen the upload of the stored key succeed,   *)
(* others encrypt for that key until another device replaces it, unless    *)
(* the key was made for another account that used this device, or calls    *)
(* overlapped.  An upload that comes after its call has given up does no   *)
(* harm: an account gets a second key on a device only by overlapping.     *)
ServerKeyStaleOnlyByKnownCause ==
    \A u \in User :
      public_key \in confirmed /\ maker[public_key] = u =>
        serverKey[u] \in {public_key, Elsewhere} \/ public_key \in raced

(* Made, not known to the server, and neither on its way nor in the hands  *)
(* of a call.                                                              *)
Unsent(k) ==
    /\ k \in DOMAIN maker
    /\ \A u \in User : serverKey[u] # k
    /\ \A up \in uploads : up.key # k
    /\ \A c \in Call : call[c].key # k

(* A key whose upload has failed never reaches the server: every later     *)
(* login finds it in the storage and succeeds without an upload, and the   *)
(* account stays out of reach (auth_repository_impl.dart:45).              *)
FailedUploadIsFinal == [][\A k \in Key : Unsent(k) => Unsent(k)']_vars

(* "Complete flow (Login, Register, ...) with JWT token management"        *)
(* (README.md:27): an accepted login or register leaves its token stored.  *)
AcceptedCallStoresToken ==
    [][\A c \in Call : StoreToken(c) => auth_token' = call[c].token]_vars
=============================================================================
