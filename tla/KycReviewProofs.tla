-------------------------- MODULE KycReviewProofs --------------------------
(***************************************************************************)
(* Theorems about KycReview, for any number of users, keys, concurrent     *)
(* calls and requests.                                                     *)
(***************************************************************************)
EXTENDS KycReview, TLAPS

Submitting(s) == sPc[s] # "idle"
Reviewing(v) == rPc[v] # "idle"

(* A request a call has built is its own until the INSERT.                 *)
BuiltInv ==
    /\ \A r \in RequestId : status[r] # "Reviewing"
    /\ \A s \in SubmitCall : sPc[s] = "inserting" =>
         ~Stored(sReq[s]) /\ owner[sReq[s]] = sUser[s]
    /\ \A s, t \in SubmitCall :
         s # t /\ sPc[s] = "inserting" /\ sPc[t] = "inserting" => sReq[s] # sReq[t]
    /\ \A r \in contested : Stored(r)

(* What a review has done by the time it writes the request.               *)
WrittenInv ==
    /\ \A v \in ReviewCall : rPc[v] \in {"readUser", "wroteUser"} => rApproved[v]
    /\ \A v \in ReviewCall : rPc[v] = "wroteUser" => is_verified[owner[rReq[v]]]

(* A review whose status check is out of date has met another one.         *)
ContestInv ==
    /\ \A v \in ReviewCall : Reviewing(v) /\ ~Undecided(rReq[v]) => rReq[v] \in contested
    /\ \A v, w \in ReviewCall :
         v # w /\ Reviewing(v) /\ Reviewing(w) /\ rReq[v] = rReq[w] => rReq[v] \in contested

(* A copy of the user that is out of date has met an upload.               *)
CopyInv ==
    \A v \in ReviewCall : rPc[v] = "readUser" =>
      rKey[v] = public_key[owner[rReq[v]]] \/ owner[rReq[v]] \in exposed

(* A request that does not stop its user from making another, or should    *)
(* not have, had its reviews not overlapped.                               *)
Settled(r) == ~Open(r) \/ r \in contested

(* Without a race, all requests of a user but the latest are settled, and  *)
(* all of them while a submission is in progress.                          *)
OlderSettled ==
    \A r, q \in RequestId :
      Stored(r) /\ Stored(q) /\ owner[r] = owner[q] /\ r < q =>
        Settled(r) \/ owner[r] \in raced

CheckedInv ==
    /\ \A s, t \in SubmitCall :
         s # t /\ Submitting(s) /\ Submitting(t) /\ sUser[s] = sUser[t] => sUser[s] \in raced
    /\ \A s \in SubmitCall, r \in RequestId :
         Submitting(s) /\ Stored(r) /\ owner[r] = sUser[s] =>
           \/ sUser[s] \in raced
           \/ Settled(r) /\ (sPc[s] = "inserting" => r < sReq[s])
-----------------------------------------------------------------------------
(* The steps of a submission, of a review and of an upload, to name the    *)
(* cases of a proof.                                                       *)
SubmitStep(s) ==
    (\E u \in User : SubmitCheck(s, u)) \/ SubmitBuild(s) \/ SubmitInsert(s) \/ SubmitEnds(s)

ReviewStep(v) ==
    \/ \E r \in RequestId, d \in BOOLEAN : ReviewFind(v, r, d)
    \/ ReviewReadUser(v) \/ ReviewWriteUser(v) \/ ReviewWriteRequest(v) \/ ReviewEnds(v)

LEMMA Steps ==
    [Next]_vars =>
      \/ \E s \in SubmitCall : SubmitStep(s)
      \/ \E v \in ReviewCall : ReviewStep(v)
      \/ \E u \in User, k \in Key : UploadPublicKey(u, k)
      \/ UNCHANGED vars
  BY DEF Next, SubmitStep, ReviewStep
-----------------------------------------------------------------------------
(* Types                                                                   *)

LEMMA InitType == Init => TypeOK
  BY MaxRequestsAssumption DEF Init, TypeOK, RequestId, Stored

LEMMA TypeStep == TypeOK /\ [Next]_vars => TypeOK'
<1> SUFFICES ASSUME TypeOK, [Next]_vars PROVE TypeOK'
  OBVIOUS
<1> USE MaxRequestsAssumption DEF TypeOK, RequestId, Stored
<1>1. ASSUME NEW s \in SubmitCall, NEW u \in User, SubmitCheck(s, u) PROVE TypeOK'
  BY <1>1 DEF SubmitCheck, reviewVars
<1>2. ASSUME NEW s \in SubmitCall, SubmitBuild(s) PROVE TypeOK'
  BY <1>2 DEF SubmitBuild, reviewVars, history
<1>3. ASSUME NEW s \in SubmitCall, SubmitInsert(s) PROVE TypeOK'
  BY <1>3 DEF SubmitInsert, SubmitReturns, reviewVars, history
<1>4. ASSUME NEW s \in SubmitCall, SubmitEnds(s) PROVE TypeOK'
  BY <1>4 DEF SubmitEnds, SubmitReturns, reviewVars, history
<1>5. ASSUME NEW v \in ReviewCall, NEW r \in RequestId, NEW d \in BOOLEAN, ReviewFind(v, r, d)
      PROVE TypeOK'
  BY <1>5 DEF ReviewFind, Undecided, submitVars
<1>6. ASSUME NEW v \in ReviewCall, ReviewReadUser(v) PROVE TypeOK'
  BY <1>6 DEF ReviewReadUser, KeyCopy, submitVars, history
<1>7. ASSUME NEW v \in ReviewCall, ReviewWriteUser(v) PROVE TypeOK'
  BY <1>7 DEF ReviewWriteUser, submitVars, history
<1>8. ASSUME NEW v \in ReviewCall, ReviewWriteRequest(v) PROVE TypeOK'
  BY <1>8 DEF ReviewWriteRequest, ReviewReturns, Decision, submitVars, history
<1>9. ASSUME NEW v \in ReviewCall, ReviewEnds(v) PROVE TypeOK'
  BY <1>9 DEF ReviewEnds, ReviewReturns, submitVars
<1>10. ASSUME NEW u \in User, NEW k \in Key, UploadPublicKey(u, k) PROVE TypeOK'
  BY <1>10 DEF UploadPublicKey, submitVars, reviewVars
<1>11. CASE UNCHANGED vars
  BY <1>11 DEF vars, submitVars, reviewVars, history
<1>12. QED
  BY <1>1, <1>2, <1>3, <1>4, <1>5, <1>6, <1>7, <1>8, <1>9, <1>10, <1>11 DEF Next

(* Every column, and every local variable of a call, keeps its type, and a *)
(* call past its first statement works on a request that exists            *)
(* (submit_kyc.rs, review_kyc.rs).                                         *)
THEOREM KycTypeCorrect == Spec => []TypeOK
<1>1. QED
  BY InitType, TypeStep, PTL DEF Spec
-----------------------------------------------------------------------------
(* Steps that leave an invariant's variables alone                         *)

LEMMA BuiltStep == TypeOK /\ BuiltInv /\ [Next]_vars => BuiltInv'
<1> SUFFICES ASSUME TypeOK, BuiltInv, [Next]_vars PROVE BuiltInv'
  OBVIOUS
<1> USE MaxRequestsAssumption DEF TypeOK, BuiltInv, RequestId, Stored
<1>1. ASSUME NEW s \in SubmitCall, SubmitStep(s) PROVE BuiltInv'
  <2>1. ASSUME NEW u \in User, SubmitCheck(s, u) PROVE BuiltInv'
    BY <2>1 DEF SubmitCheck
  <2>2. CASE SubmitBuild(s)
    BY <2>2 DEF SubmitBuild, history
  <2>3. CASE SubmitInsert(s)
    BY <2>3 DEF SubmitInsert, SubmitReturns, history
  <2>4. CASE SubmitEnds(s)
    BY <2>4 DEF SubmitEnds, SubmitReturns, history
  <2>5. QED
    BY <1>1, <2>1, <2>2, <2>3, <2>4 DEF SubmitStep
<1>2. ASSUME NEW v \in ReviewCall, ReviewStep(v) PROVE BuiltInv'
  <2>1. UNCHANGED <<owner, submitVars>>
    BY <1>2 DEF ReviewStep, ReviewFind, ReviewReadUser, ReviewWriteUser, ReviewWriteRequest,
                ReviewEnds
  <2>0. \A r \in contested' : Stored(r)
    <3>1. ASSUME NEW q \in RequestId, NEW d \in BOOLEAN, ReviewFind(v, q, d)
          PROVE  \A r \in contested' : Stored(r)
      <4>1. contested' \subseteq contested \cup {q} /\ Stored(q)
        BY <3>1 DEF ReviewFind, Undecided
      <4>2. QED
        BY <4>1
    <3>2. CASE ~\E q \in RequestId, d \in BOOLEAN : ReviewFind(v, q, d)
      BY <1>2, <3>2 DEF ReviewStep, ReviewReadUser, ReviewWriteUser, ReviewWriteRequest,
                        ReviewEnds, history
    <3>3. QED
      BY <3>1, <3>2
  <2>2. CASE ReviewWriteRequest(v)
    <3>1. Stored(rReq[v]) /\ Decision(v) \in {"Approved", "Rejected"}
      BY <2>2 DEF ReviewWriteRequest, Decision
    <3>2. QED
      BY <2>0, <2>1, <2>2, <3>1 DEF ReviewWriteRequest, submitVars
  <2>3. CASE ~ReviewWriteRequest(v)
    BY <1>2, <2>0, <2>1, <2>3
       DEF ReviewStep, ReviewFind, ReviewReadUser, ReviewWriteUser, ReviewEnds, submitVars
  <2>4. QED
    BY <2>2, <2>3
<1>3. ASSUME NEW u \in User, NEW k \in Key, UploadPublicKey(u, k) PROVE BuiltInv'
  BY <1>3 DEF UploadPublicKey, submitVars
<1>4. CASE UNCHANGED vars
  BY <1>4 DEF vars, submitVars, history
<1>5. QED
  BY <1>1, <1>2, <1>3, <1>4, Steps

LEMMA BuiltAlways == Spec => [](TypeOK /\ BuiltInv)
<1>1. Init => TypeOK /\ BuiltInv
  BY InitType DEF Init, BuiltInv, Stored
<1>2. TypeOK /\ BuiltInv /\ [Next]_vars => (TypeOK /\ BuiltInv)'
  BY TypeStep, BuiltStep
<1>3. QED
  BY <1>1, <1>2, PTL DEF Spec

(* A review keeps who owns what and which calls submit; of the statuses it *)
(* changes its own request's, in its last step.                            *)
LEMMA ReviewFrame ==
  ASSUME TypeOK, NEW v \in ReviewCall, ReviewStep(v)
  PROVE  /\ UNCHANGED <<issued, owner, submitVars, raced>>
         /\ contested \subseteq contested'
         /\ \A w \in ReviewCall \ {v} : /\ rPc'[w] = rPc[w] /\ rReq'[w] = rReq[w]
                                        /\ rApproved'[w] = rApproved[w] /\ rKey'[w] = rKey[w]
         /\ \A r \in RequestId : status'[r] # status[r] =>
              /\ ReviewWriteRequest(v) /\ r = rReq[v] /\ status'[r] = Decision(v)
         /\ \A r \in RequestId : Stored(r)' <=> Stored(r)
  <1> USE DEF TypeOK, Stored
  <1>1. CASE \E r \in RequestId, d \in BOOLEAN : ReviewFind(v, r, d)
    BY <1>1 DEF ReviewFind
  <1>2. CASE ReviewReadUser(v)
    BY <1>2 DEF ReviewReadUser, history
  <1>3. CASE ReviewWriteUser(v)
    BY <1>3 DEF ReviewWriteUser, history
  <1>4. CASE ReviewWriteRequest(v)
    <2>1. Decision(v) \in {"Approved", "Rejected"} /\ Stored(rReq[v])
      BY <1>4 DEF ReviewWriteRequest, Decision
    <2>2. QED
      BY <1>4, <2>1 DEF ReviewWriteRequest, ReviewReturns, history
  <1>5. CASE ReviewEnds(v)
    BY <1>5 DEF ReviewEnds, ReviewReturns
  <1>6. QED
    BY <1>1, <1>2, <1>3, <1>4, <1>5 DEF ReviewStep

(* A submission keeps who is verified and what reviews hold; it stores one *)
(* request, the one it has built.                                          *)
LEMMA SubmitFrame ==
  ASSUME TypeOK, BuiltInv, NEW s \in SubmitCall, SubmitStep(s)
  PROVE  /\ UNCHANGED <<is_verified, public_key, reviewVars, contested, partial, lastKey,
                        exposed>>
         /\ raced \subseteq raced'
         /\ \A r \in RequestId : Stored(r) => status'[r] = status[r] /\ owner'[r] = owner[r]
         /\ \A r \in RequestId : Stored(r)' /\ ~Stored(r) =>
              SubmitInsert(s) /\ r = sReq[s] /\ status'[r] = "Pending" /\ owner'[r] = sUser[s]
  <1> USE DEF TypeOK, BuiltInv, Stored, RequestId
  <1>1. CASE \E u \in User : SubmitCheck(s, u)
    BY <1>1 DEF SubmitCheck
  <1>2. CASE SubmitBuild(s)
    BY <1>2, MaxRequestsAssumption DEF SubmitBuild, history
  <1>3. CASE SubmitInsert(s)
    BY <1>3 DEF SubmitInsert, history
  <1>4. CASE SubmitEnds(s)
    BY <1>4 DEF SubmitEnds, history
  <1>5. QED
    BY <1>1, <1>2, <1>3, <1>4 DEF SubmitStep

LEMMA UploadFrame ==
  ASSUME NEW u \in User, NEW k \in Key, UploadPublicKey(u, k)
  PROVE  UNCHANGED <<issued, status, owner, is_verified, submitVars, reviewVars, raced,
                     contested, partial>>
  BY DEF UploadPublicKey
-----------------------------------------------------------------------------
(* Who has an approved request is verified                                 *)

ApprovalInv == WrittenInv /\ ApprovedIsVerified

LEMMA ApprovalStep ==
    TypeOK /\ BuiltInv /\ ApprovalInv /\ [Next]_vars => ApprovalInv'
<1> SUFFICES ASSUME TypeOK, BuiltInv, ApprovalInv, [Next]_vars PROVE ApprovalInv'
  OBVIOUS
<1> USE DEF ApprovalInv, WrittenInv, ApprovedIsVerified
<1>1. ASSUME NEW s \in SubmitCall, SubmitStep(s) PROVE ApprovalInv'
  <2>1. UNCHANGED <<is_verified, reviewVars>>
    BY <1>1, SubmitFrame
  <2>2. WrittenInv'
    BY <1>1, <2>1, SubmitFrame DEF TypeOK, reviewVars
  <2>3. ASSUME NEW r \in RequestId, status'[r] = "Approved" PROVE is_verified'[owner'[r]]
    <3>1. Stored(r)'
      BY <2>3 DEF Stored
    <3>2. Stored(r)
      BY <1>1, <2>3, <3>1, SubmitFrame
    <3>3. QED
      BY <1>1, <2>1, <2>3, <3>2, SubmitFrame
  <2>4. QED
    BY <2>2, <2>3
<1>2. ASSUME NEW v \in ReviewCall, ReviewStep(v) PROVE ApprovalInv'
  <2>1. \A u \in User : is_verified[u] => is_verified'[u]
    BY <1>2 DEF TypeOK, ReviewStep, ReviewFind, ReviewReadUser, ReviewWriteUser,
                ReviewWriteRequest, ReviewEnds, history
  <2>2. \A r \in RequestId : Stored(r) => owner[r] \in User /\ owner'[r] = owner[r]
    BY <1>2, ReviewFrame DEF TypeOK
  <2>3. WrittenInv'
    <3>1. /\ rPc'[v] \in {"readUser", "wroteUser"} => rApproved'[v]
          /\ rPc'[v] = "wroteUser" => Reviewing(v) /\ rReq'[v] = rReq[v] /\ is_verified'[owner[rReq[v]]]
      BY <1>2 DEF TypeOK, ReviewStep, ReviewFind, ReviewReadUser, ReviewWriteUser,
                  ReviewWriteRequest, ReviewEnds, ReviewReturns, history, Reviewing
    <3>2. QED
      BY <1>2, <2>1, <2>2, <3>1, ReviewFrame DEF TypeOK, Reviewing
  <2>4. ASSUME NEW r \in RequestId, status'[r] = "Approved" PROVE is_verified'[owner'[r]]
    <3>1. CASE status[r] = "Approved"
      BY <2>1, <2>2, <3>1 DEF Stored
    <3>2. CASE status[r] # "Approved"
      <4>1. ReviewWriteRequest(v) /\ r = rReq[v] /\ Decision(v) = "Approved"
        BY <1>2, <2>4, <3>2, ReviewFrame
      <4>2. rApproved[v] /\ rPc[v] = "wroteUser"
        BY <4>1 DEF ReviewWriteRequest, Decision
      <4>3. QED
        BY <2>1, <2>2, <4>1, <4>2 DEF TypeOK
    <3>3. QED
      BY <3>1, <3>2
  <2>5. QED
    BY <2>3, <2>4
<1>3. ASSUME NEW u \in User, NEW k \in Key, UploadPublicKey(u, k) PROVE ApprovalInv'
  BY <1>3, UploadFrame DEF reviewVars
<1>4. CASE UNCHANGED vars
  BY <1>4 DEF vars, reviewVars
<1>5. QED
  BY <1>1, <1>2, <1>3, <1>4, Steps

(* Whoever has an approved request is verified, at every moment, however   *)
(* reviews overlap and wherever they stop (review_kyc.rs:38-46).           *)
THEOREM ApprovedAreVerified == Spec => []ApprovedIsVerified
<1>1. Init => ApprovalInv
  BY DEF Init, ApprovalInv, WrittenInv, ApprovedIsVerified
<1>2. Spec => []ApprovalInv
  BY <1>1, ApprovalStep, BuiltAlways, PTL DEF Spec
<1>3. QED
  BY <1>2, PTL DEF ApprovalInv
-----------------------------------------------------------------------------
(* Decisions                                                               *)

LEMMA ContestStep == TypeOK /\ BuiltInv /\ ContestInv /\ [Next]_vars => ContestInv'
<1> SUFFICES ASSUME TypeOK, BuiltInv, ContestInv, [Next]_vars PROVE ContestInv'
  OBVIOUS
<1> USE DEF ContestInv, Reviewing, Undecided
<1>1. ASSUME NEW s \in SubmitCall, SubmitStep(s) PROVE ContestInv'
  BY <1>1, SubmitFrame DEF TypeOK, reviewVars
<1>2. ASSUME NEW v \in ReviewCall, ReviewStep(v) PROVE ContestInv'
  <2>1. CASE \E r \in RequestId, d \in BOOLEAN : ReviewFind(v, r, d)
    BY <2>1 DEF ReviewFind, TypeOK
  <2>2. CASE ~\E r \in RequestId, d \in BOOLEAN : ReviewFind(v, r, d)
    <3>1. Reviewing(v) /\ (Reviewing(v)' => rReq'[v] = rReq[v])
      BY <1>2, <2>2 DEF TypeOK, ReviewStep, ReviewReadUser, ReviewWriteUser, ReviewWriteRequest,
                        ReviewEnds, ReviewReturns
    <3>2. CASE ReviewWriteRequest(v)
      <4>1. rPc'[v] = "idle" /\ \A r \in RequestId \ {rReq[v]} : status'[r] = status[r]
        BY <3>2 DEF TypeOK, ReviewWriteRequest, ReviewReturns
      <4>2. QED
        BY <1>2, <3>1, <4>1, ReviewFrame DEF TypeOK
    <3>3. CASE ~ReviewWriteRequest(v)
      BY <1>2, <3>1, <3>3, ReviewFrame DEF TypeOK
    <3>4. QED
      BY <3>2, <3>3
  <2>3. QED
    BY <2>1, <2>2
<1>3. ASSUME NEW u \in User, NEW k \in Key, UploadPublicKey(u, k) PROVE ContestInv'
  BY <1>3, UploadFrame DEF reviewVars
<1>4. CASE UNCHANGED vars
  BY <1>4 DEF vars, reviewVars, history
<1>5. QED
  BY <1>1, <1>2, <1>3, <1>4, Steps

LEMMA ContestAlways == Spec => []ContestInv
<1>1. Init => ContestInv
  BY DEF Init, ContestInv, Reviewing
<1>2. QED
  BY <1>1, ContestStep, BuiltAlways, PTL DEF Spec

(* A review that writes a decision over another has met a second review.   *)
LEMMA DecisionStep ==
  ASSUME TypeOK, BuiltInv, ContestInv, [Next]_vars, NEW r \in RequestId,
         Stored(r), status'[r] # status[r]
  PROVE  \/ status[r] = "Pending"
         \/ r \in contested
  <1>1. ASSUME NEW s \in SubmitCall, SubmitStep(s) PROVE FALSE
    BY <1>1, SubmitFrame
  <1>2. ASSUME NEW v \in ReviewCall, ReviewStep(v)
        PROVE  status[r] = "Pending" \/ r \in contested
    <2>1. r = rReq[v] /\ Reviewing(v)
      BY <1>2, ReviewFrame DEF ReviewWriteRequest, Reviewing
    <2>2. QED
      BY <2>1 DEF ContestInv, BuiltInv, Undecided
  <1>3. ASSUME NEW u \in User, NEW k \in Key, UploadPublicKey(u, k) PROVE FALSE
    BY <1>3, UploadFrame
  <1>4. CASE UNCHANGED vars
    BY <1>4 DEF vars
  <1>5. QED
    BY <1>1, <1>2, <1>3, <1>4, Steps

(* The decision on a request changes only if two of its reviews were in    *)
(* progress at once (the status check of review_kyc.rs:30).                *)
THEOREM DecisionsChangeByRace == Spec => DecisionChangesOnlyByRace
<1>1. TypeOK /\ BuiltInv /\ ContestInv /\ [Next]_vars =>
        [\A r \in RequestId :
           status[r] \in {"Approved", "Rejected"} /\ status'[r] # status[r] => r \in contested]_vars
  BY DecisionStep DEF Stored
<1>2. QED
  BY <1>1, BuiltAlways, ContestAlways, PTL DEF Spec, DecisionChangesOnlyByRace
-----------------------------------------------------------------------------
(* Who is verified                                                         *)

(* What makes a user's verification stand, after a step.                   *)
LEMMA CauseStep ==
    TypeOK /\ BuiltInv /\ ApprovalInv /\ ContestInv /\ VerifiedHasCause /\ [Next]_vars =>
      VerifiedHasCause'
<1> SUFFICES ASSUME TypeOK, BuiltInv, ApprovalInv, ContestInv, VerifiedHasCause, [Next]_vars
             PROVE  VerifiedHasCause'
  OBVIOUS
<1> DEFINE Because(u) ==
      \/ u \in partial
      \/ \E r \in RequestId : owner[r] = u /\ (status[r] = "Approved" \/ r \in contested)
      \/ \E v \in ReviewCall : rPc[v] = "wroteUser" /\ owner[rReq[v]] = u
<1>1. ASSUME NEW s \in SubmitCall, SubmitStep(s) PROVE VerifiedHasCause'
  <2>1. UNCHANGED <<is_verified, reviewVars, contested, partial>>
    BY <1>1, SubmitFrame
  <2>2. \A v \in ReviewCall : Reviewing(v) => owner'[rReq[v]] = owner[rReq[v]]
    BY <1>1, SubmitFrame DEF TypeOK, Reviewing
  <2>3. \A r \in RequestId : status[r] = "Approved" \/ r \in contested =>
          status'[r] = status[r] /\ owner'[r] = owner[r]
    BY <1>1, SubmitFrame DEF BuiltInv, Stored
  <2>4. QED
    BY <2>1, <2>2, <2>3 DEF VerifiedHasCause, reviewVars, Reviewing
<1>2. ASSUME NEW v \in ReviewCall, ReviewStep(v) PROVE VerifiedHasCause'
  <2> SUFFICES ASSUME NEW u \in User, is_verified'[u] PROVE Because(u)'
    BY DEF VerifiedHasCause
  <2>1. CASE \E r \in RequestId, d \in BOOLEAN : ReviewFind(v, r, d)
    <3>1. /\ UNCHANGED <<status, owner, is_verified, partial>>
          /\ contested \subseteq contested'
          /\ \A w \in ReviewCall : rPc[w] = "wroteUser" => rPc'[w] = rPc[w] /\ rReq'[w] = rReq[w]
      BY <2>1 DEF ReviewFind, TypeOK
    <3>2. QED
      BY <3>1 DEF VerifiedHasCause
  <2>2. CASE ReviewReadUser(v)
    <3>1. /\ UNCHANGED <<status, owner, is_verified, partial, contested>>
          /\ \A w \in ReviewCall : rPc[w] = "wroteUser" => rPc'[w] = rPc[w] /\ rReq'[w] = rReq[w]
      BY <2>2 DEF ReviewReadUser, TypeOK, history
    <3>2. QED
      BY <3>1 DEF VerifiedHasCause
  <2>3. CASE ReviewWriteUser(v)
    <3>1. /\ UNCHANGED <<status, owner, partial, contested>>
          /\ \A w \in ReviewCall : rPc[w] = "wroteUser" => rPc'[w] = rPc[w] /\ rReq'[w] = rReq[w]
          /\ rPc'[v] = "wroteUser" /\ rReq'[v] = rReq[v]
          /\ u # owner[rReq[v]] => is_verified[u]
      BY <2>3 DEF ReviewWriteUser, TypeOK, history
    <3>2. QED
      BY <3>1 DEF VerifiedHasCause
  <2>4. CASE ReviewWriteRequest(v)
    <3>1. /\ UNCHANGED <<owner, is_verified, partial, contested>>
          /\ \A w \in ReviewCall \ {v} : rPc'[w] = rPc[w] /\ rReq'[w] = rReq[w]
          /\ \A r \in RequestId \ {rReq[v]} : status'[r] = status[r]
          /\ Reviewing(v) /\ rReq[v] \in RequestId
          /\ rPc[v] = "wroteUser" => status'[rReq[v]] = "Approved"
      BY <2>4 DEF ReviewWriteRequest, ReviewReturns, TypeOK, history, Reviewing, Decision
    <3>2. status[rReq[v]] = "Approved" => rReq[v] \in contested
      BY <3>1 DEF ContestInv, Undecided
    <3>3. QED
      BY <3>1, <3>2 DEF VerifiedHasCause
  <2>5. CASE ReviewEnds(v)
    <3>1. /\ UNCHANGED <<status, owner, is_verified, contested>>
          /\ partial \subseteq partial'
          /\ rPc[v] = "wroteUser" => owner[rReq[v]] \in partial'
          /\ \A w \in ReviewCall \ {v} : rPc'[w] = rPc[w] /\ rReq'[w] = rReq[w]
      BY <2>5 DEF ReviewEnds, ReviewReturns, TypeOK
    <3>2. QED
      BY <3>1 DEF VerifiedHasCause
  <2>6. QED
    BY <1>2, <2>1, <2>2, <2>3, <2>4, <2>5 DEF ReviewStep
<1>3. ASSUME NEW u \in User, NEW k \in Key, UploadPublicKey(u, k) PROVE VerifiedHasCause'
  BY <1>3, UploadFrame DEF VerifiedHasCause, reviewVars
<1>4. CASE UNCHANGED vars
  BY <1>4 DEF VerifiedHasCause, vars, reviewVars, history
<1>5. QED
  BY <1>1, <1>2, <1>3, <1>4, Steps

(* Nobody is verified but through an approved request, a review between    *)
(* its two writes or stopped there, or two reviews that disagreed          *)
(* (review_kyc.rs:38-46).                                                  *)
THEOREM VerificationHasACause == Spec => []VerifiedHasCause
<1>1. Init => VerifiedHasCause
  BY DEF Init, VerifiedHasCause
<1>2. Init => ApprovalInv
  BY DEF Init, ApprovalInv, WrittenInv, ApprovedIsVerified
<1>3. QED
  BY <1>1, <1>2, ApprovalStep, CauseStep, BuiltAlways, ContestAlways, PTL DEF Spec
-----------------------------------------------------------------------------
(* Keys                                                                    *)

KeyInv == CopyInv /\ KeyKeptUnlessExposed

LEMMA KeyStep == TypeOK /\ BuiltInv /\ KeyInv /\ [Next]_vars => KeyInv'
<1> SUFFICES ASSUME TypeOK, BuiltInv, KeyInv, [Next]_vars PROVE KeyInv'
  OBVIOUS
<1> USE DEF KeyInv, CopyInv, KeyKeptUnlessExposed
<1>1. ASSUME NEW s \in SubmitCall, SubmitStep(s) PROVE KeyInv'
  BY <1>1, SubmitFrame DEF TypeOK, reviewVars
<1>2. ASSUME NEW v \in ReviewCall, ReviewStep(v) PROVE KeyInv'
  <2>1. UNCHANGED <<owner, lastKey, exposed>>
    BY <1>2 DEF ReviewStep, ReviewFind, ReviewReadUser, ReviewWriteUser, ReviewWriteRequest,
                ReviewEnds, history
  <2>2. CASE ReviewWriteUser(v)
    <3>1. \A u \in User : u \in exposed \/ public_key'[u] = public_key[u]
      BY <2>2 DEF ReviewWriteUser, TypeOK
    <3>2. UNCHANGED <<rReq, rKey>> /\ rPc' = [rPc EXCEPT ![v] = "wroteUser"]
      BY <2>2 DEF ReviewWriteUser
    <3>3. QED
      BY <2>1, <3>1, <3>2 DEF TypeOK
  <2>3. CASE ReviewReadUser(v)
    BY <2>1, <2>3 DEF ReviewReadUser, KeyCopy, TypeOK
  <2>4. CASE ~ReviewWriteUser(v) /\ ~ReviewReadUser(v)
    <3>1. public_key' = public_key /\ rPc'[v] # "readUser"
      BY <1>2, <2>4 DEF ReviewStep, ReviewFind, ReviewWriteRequest, ReviewEnds, ReviewReturns,
                        TypeOK
    <3>2. QED
      BY <1>2, <2>1, <3>1, ReviewFrame
  <2>5. QED
    BY <2>2, <2>3, <2>4
<1>3. ASSUME NEW u \in User, NEW k \in Key, UploadPublicKey(u, k) PROVE KeyInv'
  BY <1>3 DEF UploadPublicKey, CopyHeld, TypeOK, reviewVars
<1>4. CASE UNCHANGED vars
  BY <1>4 DEF vars, reviewVars, history
<1>5. QED
  BY <1>1, <1>2, <1>3, <1>4, Steps

(* A user's stored key is the one uploaded last, unless a review held an   *)
(* older copy of the user when it was uploaded                             *)
(* (postgres_user_repository.rs:203).                                      *)
THEOREM KeysKept == Spec => []KeyKeptUnlessExposed
<1>1. Init => KeyInv
  BY DEF Init, KeyInv, CopyInv, KeyKeptUnlessExposed
<1>2. Spec => []KeyInv
  BY <1>1, KeyStep, BuiltAlways, PTL DEF Spec
<1>3. QED
  BY <1>2, PTL DEF KeyInv
-----------------------------------------------------------------------------
(* Second requests                                                         *)

RaceInv == OlderSettled /\ CheckedInv

(* A stored request, once settled, stays settled.                          *)
LEMMA SettledStays ==
  ASSUME TypeOK, BuiltInv, ContestInv, NEW v \in ReviewCall, ReviewStep(v),
         NEW r \in RequestId, Stored(r), Settled(r)
  PROVE  Settled(r)'
  <1>1. CASE status'[r] = status[r]
    BY <1>1, ReviewFrame DEF Settled, Open
  <1>2. CASE status'[r] # status[r]
    <2>1. r = rReq[v] /\ Reviewing(v)
      BY <1>2, ReviewFrame DEF ReviewWriteRequest, Reviewing
    <2>2. CASE r \in contested
      BY <2>2, ReviewFrame DEF Settled
    <2>3. CASE ~Open(r)
      <3>1. r \in contested
        BY <2>1, <2>3 DEF ContestInv, BuiltInv, Open, Undecided
      <3>2. QED
        BY <3>1, ReviewFrame DEF Settled
    <2>4. QED
      BY <2>2, <2>3 DEF Settled
  <1>3. QED
    BY <1>1, <1>2

(* The check of submit_kyc.rs:27 covers older requests too.                *)
LEMMA CheckCovers ==
  ASSUME TypeOK, OlderSettled, NEW u \in User,
         ~\E r \in RequestId : IsLatest(r, u) /\ Open(r),
         NEW r \in RequestId, Stored(r), owner[r] = u
  PROVE  u \in raced \/ Settled(r)
  <1>1. CASE IsLatest(r, u)
    BY <1>1 DEF Settled
  <1>2. CASE ~IsLatest(r, u)
    <2>1. PICK q \in RequestId : Stored(q) /\ owner[q] = u /\ ~(q <= r)
      BY <1>2 DEF IsLatest
    <2>2. r < q
      BY <2>1, MaxRequestsAssumption DEF RequestId
    <2>3. QED
      BY <2>1, <2>2 DEF OlderSettled
  <1>3. QED
    BY <1>1, <1>2

LEMMA RaceStep == TypeOK /\ BuiltInv /\ ContestInv /\ RaceInv /\ [Next]_vars => RaceInv'
<1> SUFFICES ASSUME TypeOK, BuiltInv, ContestInv, RaceInv, [Next]_vars PROVE RaceInv'
  OBVIOUS
<1> USE DEF RaceInv
<1>1. ASSUME NEW s \in SubmitCall, SubmitStep(s) PROVE RaceInv'
  <2>1. ASSUME NEW u \in User, SubmitCheck(s, u) PROVE RaceInv'
    <3>1. UNCHANGED <<status, owner, sReq, contested>> /\ raced \subseteq raced'
      BY <2>1 DEF SubmitCheck
    <3>2. OlderSettled'
      BY <3>1 DEF OlderSettled, Settled, Stored, Open
    <3>3. /\ sPc'[s] = "passed" /\ sUser'[s] = u
          /\ \A t \in SubmitCall \ {s} : sPc'[t] = sPc[t] /\ sUser'[t] = sUser[t]
          /\ \A t \in SubmitCall \ {s} : Submitting(t) /\ sUser[t] = u => u \in raced'
      BY <2>1 DEF SubmitCheck, TypeOK, Submitting
    <3>4. \A r \in RequestId : Stored(r) /\ owner[r] = u => u \in raced \/ Settled(r)
      BY <2>1, CheckCovers DEF SubmitCheck
    <3>5. CheckedInv'
      BY <3>1, <3>3, <3>4 DEF CheckedInv, Settled, Stored, Open, Submitting
    <3>6. QED
      BY <3>2, <3>5
  <2>2. CASE SubmitBuild(s)
    <3>1. /\ UNCHANGED <<status, sUser, contested, raced>>
          /\ \A r \in RequestId : Stored(r) => owner'[r] = owner[r] /\ r < sReq'[s]
          /\ Submitting(s)
          /\ \A t \in SubmitCall \ {s} : sPc'[t] = sPc[t] /\ sReq'[t] = sReq[t]
      BY <2>2, MaxRequestsAssumption DEF SubmitBuild, history, TypeOK, RequestId, Submitting
    <3>2. QED
      BY <3>1 DEF OlderSettled, CheckedInv, Settled, Stored, Open, Submitting
  <2>3. CASE SubmitInsert(s)
    <3> DEFINE q == sReq[s]
    <3>1. /\ UNCHANGED <<owner, contested, raced>>
          /\ sPc'[s] = "idle" /\ Submitting(s) /\ sPc[s] = "inserting"
          /\ \A t \in SubmitCall \ {s} :
               sPc'[t] = sPc[t] /\ sReq'[t] = sReq[t] /\ sUser'[t] = sUser[t]
          /\ q \in RequestId /\ ~Stored(q) /\ owner[q] = sUser[s]
          /\ \A r \in RequestId \ {q} : status'[r] = status[r]
      BY <2>3, MaxRequestsAssumption
         DEF SubmitInsert, SubmitReturns, history, TypeOK, RequestId, Submitting, BuiltInv
    <3>2. \A r \in RequestId : Stored(r) /\ owner[r] = sUser[s] =>
            sUser[s] \in raced \/ (Settled(r) /\ r < q)
      BY <3>1 DEF CheckedInv
    <3>3. \A r \in RequestId : Stored(r) /\ Settled(r) => Settled(r)'
      BY <3>1 DEF Settled, Open
    <3>4. OlderSettled'
      <4> SUFFICES ASSUME NEW r \in RequestId, NEW p \in RequestId, Stored(r)', Stored(p)',
                          owner'[r] = owner'[p], r < p
                   PROVE  Settled(r)' \/ owner'[r] \in raced'
        BY DEF OlderSettled
      <4>1. CASE r = q
        <5>1. Stored(p) /\ ~(p < q)
          BY <3>1, <4>1, MaxRequestsAssumption DEF RequestId, Stored
        <5>2. QED
          BY <3>1, <3>2, <4>1, <5>1
      <4>2. CASE r # q /\ p = q
        BY <3>1, <3>2, <3>3, <4>2 DEF Stored
      <4>3. CASE r # q /\ p # q
        BY <3>1, <3>3, <4>3 DEF OlderSettled, Stored
      <4>4. QED
        BY <4>1, <4>2, <4>3
    <3>5. CheckedInv'
      <4>1. ASSUME NEW t \in SubmitCall, NEW r \in RequestId,
                   Submitting(t)', Stored(r)', owner'[r] = sUser'[t]
            PROVE  \/ sUser'[t] \in raced'
                   \/ Settled(r)' /\ (sPc'[t] = "inserting" => r < sReq'[t])
        <5>1. t # s /\ Submitting(t)
          BY <3>1, <4>1 DEF Submitting
        <5>2. CASE r = q
          BY <3>1, <4>1, <5>1, <5>2 DEF CheckedInv
        <5>3. CASE r # q
          BY <3>1, <3>3, <4>1, <5>1, <5>3 DEF CheckedInv, Stored
        <5>4. QED
          BY <5>2, <5>3
      <4>2. QED
        BY <3>1, <4>1 DEF CheckedInv, Submitting
    <3>6. QED
      BY <3>4, <3>5
  <2>4. CASE SubmitEnds(s)
    <3>1. /\ UNCHANGED <<status, owner, contested, raced>>
          /\ sPc'[s] = "idle"
          /\ \A t \in SubmitCall \ {s} :
               sPc'[t] = sPc[t] /\ sReq'[t] = sReq[t] /\ sUser'[t] = sUser[t]
      BY <2>4 DEF SubmitEnds, SubmitReturns, history, TypeOK
    <3>2. QED
      BY <3>1 DEF OlderSettled, CheckedInv, Settled, Stored, Open, Submitting
  <2>5. QED
    BY <1>1, <2>1, <2>2, <2>3, <2>4 DEF SubmitStep
<1>2. ASSUME NEW v \in ReviewCall, ReviewStep(v) PROVE RaceInv'
  <2>1. /\ UNCHANGED <<owner, submitVars, raced>>
        /\ \A r \in RequestId : Stored(r)' <=> Stored(r)
        /\ \A r \in RequestId : Stored(r) /\ Settled(r) => Settled(r)'
    BY <1>2, ReviewFrame, SettledStays
  <2>2. QED
    BY <2>1 DEF OlderSettled, CheckedInv, Submitting, submitVars
<1>3. ASSUME NEW u \in User, NEW k \in Key, UploadPublicKey(u, k) PROVE RaceInv'
  BY <1>3, UploadFrame
     DEF OlderSettled, CheckedInv, Submitting, submitVars, Settled, Stored, Open
<1>4. CASE UNCHANGED vars
  BY <1>4 DEF vars, history, OlderSettled, CheckedInv, Submitting, submitVars, Settled, Stored,
              Open
<1>5. QED
  BY <1>1, <1>2, <1>3, <1>4, Steps

(* A user gets a second pending or approved request only by submissions    *)
(* that were in progress at once, or by two reviews of one request         *)
(* (submit_kyc.rs:27).                                                     *)
THEOREM SecondRequestNeedsARace == Spec => []SecondRequestOnlyByRace
<1>1. Init => RaceInv
  BY DEF Init, RaceInv, OlderSettled, CheckedInv, Stored, Submitting
<1>2. Spec => []RaceInv
  BY <1>1, RaceStep, BuiltAlways, ContestAlways, PTL DEF Spec
<1>3. RaceInv => SecondRequestOnlyByRace
  <2> SUFFICES ASSUME OlderSettled, NEW r \in RequestId, NEW q \in RequestId,
                      r # q, Open(r), Open(q), owner[r] = owner[q]
               PROVE  owner[r] \in raced \/ r \in contested \/ q \in contested
    BY DEF RaceInv, SecondRequestOnlyByRace
  <2>1. Stored(r) /\ Stored(q)
    BY DEF Open, Stored
  <2>2. r < q \/ q < r
    BY MaxRequestsAssumption DEF RequestId
  <2>3. QED
    BY <2>1, <2>2 DEF OlderSettled, Settled
<1>4. QED
  BY <1>2, <1>3, PTL

-----------------------------------------------------------------------------
(* Calls one at a time: what the two claims that fail would take           *)

LEMMA SubmitsInTurn ==
    ASSUME \A s, t \in SubmitCall : s = t
    PROVE  Spec => [](raced = {})
<1>1. Init => raced = {}
  BY DEF Init
<1>2. raced = {} /\ TypeOK /\ [Next]_vars => (raced = {})'
  <2> SUFFICES ASSUME raced = {}, TypeOK, [Next]_vars PROVE raced' = {}
    OBVIOUS
  <2>1. ASSUME NEW s \in SubmitCall, NEW u \in User, SubmitCheck(s, u) PROVE raced' = {}
    BY <2>1 DEF SubmitCheck
  <2>2. ASSUME NEW s \in SubmitCall, SubmitStep(s) PROVE raced' = {}
    BY <2>1, <2>2 DEF SubmitStep, SubmitBuild, SubmitInsert, SubmitEnds, history
  <2>3. ASSUME NEW v \in ReviewCall, ReviewStep(v) PROVE raced' = {}
    BY <2>3, ReviewFrame
  <2>4. ASSUME NEW u \in User, NEW k \in Key, UploadPublicKey(u, k) PROVE raced' = {}
    BY <2>4 DEF UploadPublicKey
  <2>5. CASE UNCHANGED vars
    BY <2>5 DEF vars, history
  <2>6. QED
    BY <2>2, <2>3, <2>4, <2>5, Steps
<1>3. QED
  BY <1>1, <1>2, KycTypeCorrect, PTL DEF Spec

LEMMA ReviewsInTurn ==
    ASSUME \A v, w \in ReviewCall : v = w
    PROVE  Spec => [](contested = {})
<1>1. Init => contested = {}
  BY DEF Init
<1>2. contested = {} /\ TypeOK /\ [Next]_vars => (contested = {})'
  <2> SUFFICES ASSUME contested = {}, TypeOK, [Next]_vars PROVE contested' = {}
    OBVIOUS
  <2>1. ASSUME NEW v \in ReviewCall, NEW r \in RequestId, NEW d \in BOOLEAN, ReviewFind(v, r, d)
        PROVE  contested' = {}
    BY <2>1 DEF ReviewFind
  <2>2. ASSUME NEW v \in ReviewCall, ReviewStep(v) PROVE contested' = {}
    BY <2>1, <2>2 DEF ReviewStep, ReviewReadUser, ReviewWriteUser, ReviewWriteRequest, ReviewEnds,
                      history
  <2>3. ASSUME NEW s \in SubmitCall, SubmitStep(s) PROVE contested' = {}
    BY <2>3 DEF SubmitStep, SubmitCheck, SubmitBuild, SubmitInsert, SubmitEnds, history
  <2>4. ASSUME NEW u \in User, NEW k \in Key, UploadPublicKey(u, k) PROVE contested' = {}
    BY <2>4 DEF UploadPublicKey
  <2>5. CASE UNCHANGED vars
    BY <2>5 DEF vars, history
  <2>6. QED
    BY <2>2, <2>3, <2>4, <2>5, Steps
<1>3. QED
  BY <1>1, <1>2, KycTypeCorrect, PTL DEF Spec

(* If reviews came one at a time, a decision would be final: the status    *)
(* check of ReviewKyc::execute fails its purpose (review_kyc.rs:30) by     *)
(* overlapping calls and by nothing else, whatever submissions do and      *)
(* wherever a call stops.                                                  *)
THEOREM ReviewsInTurnAreFinal ==
    ASSUME \A v, w \in ReviewCall : v = w
    PROVE  Spec => DecisionFinal
<1>1. contested = {} /\ [\A r \in RequestId :
          status[r] \in {"Approved", "Rejected"} /\ status'[r] # status[r] => r \in contested]_vars
        => [\A r \in RequestId :
              status[r] \in {"Approved", "Rejected"} => status'[r] = status[r]]_vars
  OBVIOUS
<1>2. QED
  BY <1>1, ReviewsInTurn, DecisionsChangeByRace, PTL
     DEF DecisionChangesOnlyByRace, DecisionFinal

(* If submissions came one at a time, and reviews too, a user would have   *)
(* at most one request that is pending or approved, though a submission    *)
(* and a review may still run beside each other (submit_kyc.rs:27).        *)
THEOREM CallsInTurnLeaveOneOpen ==
    ASSUME \A s, t \in SubmitCall : s = t,
           \A v, w \in ReviewCall : v = w
    PROVE  Spec => []OneOpenRequest
<1>1. raced = {} /\ contested = {} /\ SecondRequestOnlyByRace => OneOpenRequest
  BY DEF SecondRequestOnlyByRace, OneOpenRequest
<1>2. QED
  BY <1>1, SubmitsInTurn, ReviewsInTurn, SecondRequestNeedsARace, PTL
=============================================================================
