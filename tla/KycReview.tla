----------------------------- MODULE KycReview ------------------------------
(***************************************************************************)
(* Identity verification: SubmitKyc, ReviewKyc and the user row that a     *)
(* review and an upload of a public key both write.                        *)
(*                                                                         *)
(* Neither use case opens a transaction: each await of a repository call   *)
(* is one SQL statement, and the statements of concurrent HTTP calls       *)
(* interleave.  A call may end at any of them: the statement fails, the    *)
(* client hangs up and axum drops the handler, or the server stops.  A     *)
(* statement that commits after its handler was dropped is the same as one *)
(* that commits just before.                                               *)
(*                                                                         *)
(* Requests are numbered in the order of KycRequest::new, so a number      *)
(* stands for the id and for created_at.  Abstracted: document URLs,       *)
(* admin_note, reviewed_by and reviewed_at; user columns that only         *)
(* registration writes.                                                    *)
(***************************************************************************)
EXTENDS Naturals, FiniteSets

CONSTANTS
    User,         \* registered users
    NoUser,       \* owner of a request that is not made yet
    Key,          \* X25519 public keys
    NoKey,        \* public_key_x25519 IS NULL
    SubmitCall,   \* concurrent calls of POST /api/kyc/submit
    ReviewCall,   \* concurrent calls of POST /api/admin/kyc/:id/review
    MaxRequests   \* bound on the requests ever made

ASSUME NoKeyAssumption == NoKey \notin Key
ASSUME NoUserAssumption == NoUser \notin User
ASSUME MaxRequestsAssumption == MaxRequests \in Nat

RequestId == 1..MaxRequests

VARIABLES
    issued,      \* requests made so far
    status,      \* table kyc_requests: "absent" until the INSERT commits
    owner,       \* user_id of a request, once it is made
    is_verified, \* columns of table users
    public_key,
    sPc,         \* SubmitKyc::execute: "idle", "passed" (check), "inserting"
    sUser, sReq, \* its user_id and the request it made
    rPc,         \* ReviewKyc::execute: "idle", "found", "readUser", "wroteUser"
    rReq, rApproved, \* its request and decision
    rKey,        \* public_key of its copy of the user
    lastKey,     \* the key the user uploaded last                   (history)
    raced,       \* users with two submissions in progress at once   (history)
    contested,   \* requests with two reviews in progress at once    (history)
    partial,     \* users left by a review between its two writes    (history)
    exposed      \* users whose last upload met a review's user copy (history)

submitVars == <<sPc, sUser, sReq>>
reviewVars == <<rPc, rReq, rApproved, rKey>>
history == <<lastKey, raced, contested, partial, exposed>>
vars == <<issued, status, owner, is_verified, public_key, submitVars, reviewVars, history>>

Stored(r) == status[r] # "absent"

(* A request that stops its user from making another.                      *)
Open(r) == status[r] \in {"Pending", "Approved"}

(* Faulty: ORDER BY created_at ASC *)
IsOldest(r, u) ==
    /\ Stored(r) /\ owner[r] = u
    /\ \A q \in RequestId : Stored(q) /\ owner[q] = u => q >= r

(* find_by_user: ORDER BY created_at DESC LIMIT 1                          *)
IsLatest(r, u) ==
    /\ Stored(r) /\ owner[r] = u
    /\ \A q \in RequestId : Stored(q) /\ owner[q] = u => q <= r

(* kyc_repo.find_by_id returns the row, and its status is not final.       *)
Undecided(r) == status[r] \in {"Pending", "Reviewing"}

(* user_repo.find_by_id: the key in the copy of the request's user.        *)
KeyCopy(r) == public_key[owner[r]]

(* public_key_x25519 TEXT UNIQUE                                           *)
KeyFree(u, k) == k = NoKey \/ \A w \in User \ {u} : public_key[w] # k

Init ==
    /\ issued = 0
    /\ status = [r \in RequestId |-> "absent"]
    /\ owner = [r \in RequestId |-> NoUser]
    /\ is_verified = [u \in User |-> FALSE]
    /\ public_key = [u \in User |-> NoKey]
    /\ sPc = [s \in SubmitCall |-> "idle"]
    /\ sUser = [s \in SubmitCall |-> NoUser]
    /\ sReq = [s \in SubmitCall |-> 0]
    /\ rPc = [v \in ReviewCall |-> "idle"]
    /\ rReq = [v \in ReviewCall |-> 0]
    /\ rApproved = [v \in ReviewCall |-> FALSE]
    /\ rKey = [v \in ReviewCall |-> NoKey]
    /\ lastKey = [u \in User |-> NoKey]
    /\ raced = {}
    /\ contested = {}
    /\ partial = {}
    /\ exposed = {}
-----------------------------------------------------------------------------
(* SubmitKyc::execute                                                      *)

(* The call is over, and with it its local variables.                      *)
SubmitReturns(s) ==
    /\ sPc' = [sPc EXCEPT ![s] = "idle"]
    /\ sUser' = [sUser EXCEPT ![s] = NoUser]
    /\ sReq' = [sReq EXCEPT ![s] = 0]

ReviewReturns(v) ==
    /\ rPc' = [rPc EXCEPT ![v] = "idle"]
    /\ rReq' = [rReq EXCEPT ![v] = 0]
    /\ rApproved' = [rApproved EXCEPT ![v] = FALSE]
    /\ rKey' = [rKey EXCEPT ![v] = NoKey]

(* find_by_user and the conflict check; a conflict changes nothing.        *)
SubmitCheck(s, u) ==
    /\ sPc[s] = "idle"
    /\ ~\E r \in RequestId : IsLatest(r, u) /\ Open(r)
    /\ sPc' = [sPc EXCEPT ![s] = "passed"]
    /\ sUser' = [sUser EXCEPT ![s] = u]
    /\ raced' = IF \E t \in SubmitCall : sPc[t] # "idle" /\ sUser[t] = u
                THEN raced \cup {u} ELSE raced
    /\ UNCHANGED <<issued, status, owner, is_verified, public_key, sReq, reviewVars,
                   lastKey, contested, partial, exposed>>

(* KycRequest::new takes the id and the time.                              *)
SubmitBuild(s) ==
    /\ sPc[s] = "passed" /\ issued < MaxRequests
    /\ issued' = issued + 1
    /\ owner' = [owner EXCEPT ![issued + 1] = sUser[s]]
    /\ sReq' = [sReq EXCEPT ![s] = issued + 1]
    /\ sPc' = [sPc EXCEPT ![s] = "inserting"]
    /\ UNCHANGED <<status, is_verified, public_key, sUser, reviewVars, history>>

SubmitInsert(s) ==
    /\ sPc[s] = "inserting"
    /\ status' = [status EXCEPT ![sReq[s]] = "Pending"]
    /\ SubmitReturns(s)
    /\ UNCHANGED <<issued, owner, is_verified, public_key, reviewVars, history>>

SubmitEnds(s) ==
    /\ sPc[s] # "idle"
    /\ SubmitReturns(s)
    /\ UNCHANGED <<issued, status, owner, is_verified, public_key, reviewVars, history>>

-----------------------------------------------------------------------------
(* ReviewKyc::execute                                                      *)

(* Faulty: a processed request may be reviewed again. *)
ReviewFindAny(v, r, approved) ==
    /\ rPc[v] = "idle" /\ Stored(r)
    /\ rPc' = [rPc EXCEPT ![v] = "found"]
    /\ rReq' = [rReq EXCEPT ![v] = r]
    /\ rApproved' = [rApproved EXCEPT ![v] = approved]
    /\ contested' = IF \E w \in ReviewCall : rPc[w] # "idle" /\ rReq[w] = r
                    THEN contested \cup {r} ELSE contested
    /\ UNCHANGED <<issued, status, owner, is_verified, public_key, submitVars, rKey,
                   lastKey, raced, partial, exposed>>

(* find_by_id and the status check; nothing ever sets "Reviewing".         *)
ReviewFind(v, r, approved) ==
    /\ rPc[v] = "idle" /\ Undecided(r)
    /\ rPc' = [rPc EXCEPT ![v] = "found"]
    /\ rReq' = [rReq EXCEPT ![v] = r]
    /\ rApproved' = [rApproved EXCEPT ![v] = approved]
    /\ contested' = IF \E w \in ReviewCall : rPc[w] # "idle" /\ rReq[w] = r
                    THEN contested \cup {r} ELSE contested
    /\ UNCHANGED <<issued, status, owner, is_verified, public_key, submitVars, rKey,
                   lastKey, raced, partial, exposed>>

(* user_repo.find_by_id, on approval only.                                 *)
ReviewReadUser(v) ==
    /\ rPc[v] = "found" /\ rApproved[v]
    /\ rKey' = [rKey EXCEPT ![v] = KeyCopy(rReq[v])]
    /\ rPc' = [rPc EXCEPT ![v] = "readUser"]
    /\ UNCHANGED <<issued, status, owner, is_verified, public_key, submitVars, rReq,
                   rApproved, history>>

(* user_repo.update writes every profile column of the copy, the key too.  *)
ReviewWriteUser(v) ==
    LET u == owner[rReq[v]]
    IN  /\ rPc[v] = "readUser" /\ KeyFree(u, rKey[v])
        /\ is_verified' = [is_verified EXCEPT ![u] = TRUE]
        /\ public_key' = [public_key EXCEPT ![u] = rKey[v]]
        /\ rPc' = [rPc EXCEPT ![v] = "wroteUser"]
        /\ UNCHANGED <<issued, status, owner, submitVars, rReq, rApproved, rKey, history>>

(* Faulty: a status the CHECK constraint does not know. *)
DecisionDeclined(v) == IF rApproved[v] THEN "Approved" ELSE "Declined"

(* Faulty: approve forgets the status. *)
DecisionForgotten(v) == IF rApproved[v] THEN "Pending" ELSE "Rejected"

(* KycRequest::approve and KycRequest::reject                              *)
Decision(v) == IF rApproved[v] THEN "Approved" ELSE "Rejected"

(* Faulty: the request is written whether or not the user has been. *)
ReviewWriteRequestFirst(v) ==
    /\ rPc[v] \in {"found", "wroteUser"}
    /\ status' = [status EXCEPT ![rReq[v]] = Decision(v)]
    /\ ReviewReturns(v)
    /\ UNCHANGED <<issued, owner, is_verified, public_key, submitVars, history>>

(* kyc_repo.update: WHERE id = $1, whatever the status has become.         *)
ReviewWriteRequest(v) ==
    /\ rPc[v] = IF rApproved[v] THEN "wroteUser" ELSE "found"
    /\ status' = [status EXCEPT ![rReq[v]] = Decision(v)]
    /\ ReviewReturns(v)
    /\ UNCHANGED <<issued, owner, is_verified, public_key, submitVars, history>>

ReviewEnds(v) ==
    /\ rPc[v] # "idle"
    /\ ReviewReturns(v)
    /\ partial' = IF rPc[v] = "wroteUser" THEN partial \cup {owner[rReq[v]]} ELSE partial
    /\ UNCHANGED <<issued, status, owner, is_verified, public_key, submitVars, lastKey,
                   raced, contested, exposed>>

-----------------------------------------------------------------------------
(* Some review holds a copy of the user that it is about to write back.    *)
CopyHeld(u) == \E v \in ReviewCall : rPc[v] = "readUser" /\ owner[rReq[v]] = u

(* Faulty: only the first key is stored. *)
UploadPublicKeyOnce(u, k) ==
    /\ KeyFree(u, k)
    /\ public_key' = [public_key EXCEPT ![u] = IF @ = NoKey THEN k ELSE @]
    /\ lastKey' = [lastKey EXCEPT ![u] = k]
    /\ exposed' = IF CopyHeld(u) THEN exposed \cup {u} ELSE exposed \ {u}
    /\ UNCHANGED <<issued, status, owner, is_verified, submitVars, reviewVars, raced,
                   contested, partial>>

(* UploadPublicKey::execute: one UPDATE of one column.                     *)
UploadPublicKey(u, k) ==
    /\ KeyFree(u, k)
    /\ public_key' = [public_key EXCEPT ![u] = k]
    /\ lastKey' = [lastKey EXCEPT ![u] = k]
    /\ exposed' = IF CopyHeld(u) THEN exposed \cup {u} ELSE exposed \ {u}
    /\ UNCHANGED <<issued, status, owner, is_verified, submitVars, reviewVars, raced,
                   contested, partial>>

Next ==
    \/ \E s \in SubmitCall, u \in User : SubmitCheck(s, u)
    \/ \E s \in SubmitCall : SubmitBuild(s) \/ SubmitInsert(s) \/ SubmitEnds(s)
    \/ \E v \in ReviewCall, r \in RequestId, d \in BOOLEAN : ReviewFind(v, r, d)
    \/ \E v \in ReviewCall : ReviewReadUser(v) \/ ReviewWriteUser(v)
                             \/ ReviewWriteRequest(v) \/ ReviewEnds(v)
    \/ \E u \in User, k \in Key : UploadPublicKey(u, k)

Spec == Init /\ [][Next]_vars

-----------------------------------------------------------------------------
(* The columns hold declared values, and a call past its first statement   *)
(* works on a request that exists (20240101_init.sql, kyc_request.rs).     *)
TypeOK ==
    /\ issued \in 0..MaxRequests
    /\ status \in [RequestId -> {"absent", "Pending", "Reviewing", "Approved", "Rejected"}]
    /\ owner \in [RequestId -> User \cup {NoUser}]
    /\ \A r \in RequestId : r <= issued => owner[r] \in User
    /\ \A r \in RequestId : Stored(r) => r <= issued
    /\ is_verified \in [User -> BOOLEAN]
    /\ public_key \in [User -> Key \cup {NoKey}]
    /\ sPc \in [SubmitCall -> {"idle", "passed", "inserting"}]
    /\ sUser \in [SubmitCall -> User \cup {NoUser}]
    /\ sReq \in [SubmitCall -> 0..MaxRequests]
    /\ \A s \in SubmitCall : sPc[s] # "idle" => sUser[s] \in User
    /\ \A s \in SubmitCall : sPc[s] = "inserting" => sReq[s] \in 1..issued
    /\ rPc \in [ReviewCall -> {"idle", "found", "readUser", "wroteUser"}]
    /\ rReq \in [ReviewCall -> 0..MaxRequests]
    /\ rApproved \in [ReviewCall -> BOOLEAN]
    /\ rKey \in [ReviewCall -> Key \cup {NoKey}]
    /\ \A v \in ReviewCall : rPc[v] # "idle" => rReq[v] \in RequestId /\ Stored(rReq[v])
    /\ lastKey \in [User -> Key \cup {NoKey}]
    /\ raced \subseteq User /\ contested \subseteq RequestId
    /\ partial \subseteq User /\ exposed \subseteq User

(* Whoever has an approved request is verified, also when a review stops   *)
(* half way or another one interferes: the user is written first.          *)
ApprovedIsVerified ==
    \A r \in RequestId : status[r] = "Approved" => is_verified[owner[r]]

(* Nobody is verified without a cause: an approved request, a review that  *)
(* is between its two writes, one that stopped there, or two reviews of    *)
(* one request that disagreed (ReviewKyc::execute).                        *)
VerifiedHasCause ==
    \A u \in User : is_verified[u] =>
      \/ u \in partial
      \/ \E r \in RequestId : owner[r] = u /\ (status[r] = "Approved" \/ r \in contested)
      \/ \E v \in ReviewCall : rPc[v] = "wroteUser" /\ owner[rReq[v]] = u

(* A user gets a second pending or approved request only by submissions    *)
(* that were in progress at the same time, or by two reviews of one        *)
(* request: the check of SubmitKyc::execute covers everything else.        *)
SecondRequestOnlyByRace ==
    \A r, q \in RequestId :
      r # q /\ Open(r) /\ Open(q) /\ owner[r] = owner[q]
        => owner[r] \in raced \/ r \in contested \/ q \in contested

(* A decision is changed only if two reviews of the request overlapped:    *)
(* the status check of ReviewKyc::execute covers everything else.          *)
DecisionChangesOnlyByRace ==
    [][\A r \in RequestId :
         status[r] \in {"Approved", "Rejected"} /\ status'[r] # status[r] => r \in contested]_vars

(* The stored key is the one the user uploaded last, unless that upload    *)
(* fell between a review's read and its write of the user row.             *)
KeyKeptUnlessExposed ==
    \A u \in User : public_key[u] = lastKey[u] \/ u \in exposed

(* review_kyc.rs:31, "KYC request is already processed": a decision is     *)
(* final.                                                                  *)
DecisionFinal ==
    [][\A r \in RequestId :
         status[r] \in {"Approved", "Rejected"} => status'[r] = status[r]]_vars

(* submit_kyc.rs:26, "Check if user already has a pending or approved      *)
(* request": a user has at most one.                                       *)
OneOpenRequest ==
    \A r, q \in RequestId : Open(r) /\ Open(q) /\ owner[r] = owner[q] => r = q
=============================================================================
