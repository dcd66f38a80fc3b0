--------------------------- MODULE AccountsProofs ---------------------------
(***************************************************************************)
(* Theorems about Accounts, for any number of users, calls and tokens and  *)
(* any lifetime of a token.                                                *)
(***************************************************************************)
EXTENDS Accounts, TLAPS

(* What a call has in hand while it awaits. *)
InHand ==
    \A c \in Call :
      /\ pc[c] # "idle" => cPhone[c] \in Phone /\ cPassword[c] \in Password
      /\ pc[c] \in {"absent", "created"} <=> cId[c] \in Id

TypeInv == TypeOK /\ InHand

(* Whose an id is: a call's until it is inserted, then the row's for good. *)
IdsOwned ==
    /\ \A u \in users : u.id \in everStored
    /\ \A c \in Call : pc[c] = "absent" => cId[c] \notin everStored
    /\ \A c \in Call : pc[c] = "created" =>
         /\ cId[c] \in everStored
         /\ \A u \in users : u.id = cId[c] => u = NewRow(c)
    /\ \A c, d \in Call : c # d /\ cId[c] \in Id => cId[c] # cId[d]
    /\ \A t \in tokens : t.sub # NULL => t.sub \in everStored

IdInv == IdsOwned /\ OneUserPerPhone /\ TokenNamesItsUser

(* Where a duplicate can come from: a call whose check is out of date. *)
RaceInv ==
    /\ DuplicateOnlyByRace
    /\ \A c \in Call : pc[c] = "absent" /\ Registered(cPhone[c]) => cPhone[c] \in contested
    /\ \A c, d \in Call : \A p \in Phone :
         c # d /\ PastCheck(c, p) /\ PastCheck(d, p) => p \in contested
-----------------------------------------------------------------------------
(* The initial state has the types and nothing in hand.                    *)
LEMMA InitType == Init => TypeInv
  BY NullAssumption, TimeAssumption
  DEF Init, TypeInv, TypeOK, InHand, FirstTokens, Token

(* Every step keeps the types and what is in hand.                         *)
LEMMA TypeStep == TypeInv /\ [Next]_vars => TypeInv'
<1> SUFFICES ASSUME TypeInv, [Next]_vars PROVE TypeInv'
  OBVIOUS
<1> USE NullAssumption, TimeAssumption DEF TypeInv, TypeOK, InHand
<1>1. ASSUME NEW c \in Call, Fails(c) PROVE TypeInv'
  BY <1>1 DEF Fails, Returns
<1>2. ASSUME NEW c \in Call, NEW r \in Route, NEW p \in Phone, NEW w \in Password,
             Begin(c, r, p, w)
      PROVE TypeInv'
  BY <1>2 DEF Begin, Route
<1>3. ASSUME NEW c \in Call, NEW i \in Id, RegisterCheck(c, i) PROVE TypeInv'
  BY <1>3 DEF RegisterCheck
<1>4. ASSUME NEW c \in Call, RegisterConflict(c) PROVE TypeInv'
  BY <1>4 DEF RegisterConflict, Returns
<1>5. ASSUME NEW c \in Call, Insert(c) PROVE TypeInv'
  BY <1>5 DEF Insert, NewRow, Row
<1>6. ASSUME NEW c \in Call, InsertRefused(c) PROVE TypeInv'
  BY <1>6 DEF InsertRefused, Returns
<1>7. ASSUME NEW c \in Call, NEW i \in Id, pc[c] # "idle", Issue(c, i)
      PROVE tokens' \subseteq Token
  BY <1>7 DEF Issue, Token
<1>8. ASSUME NEW c \in Call, RegisterAnswers(c) PROVE TypeInv'
  <2>1. tokens' \subseteq Token
    BY <1>7, <1>8 DEF RegisterAnswers
  <2> QED BY <1>8, <2>1 DEF RegisterAnswers, Returns
<1>9. ASSUME NEW c \in Call, LoginSucceeds(c) PROVE TypeInv'
  <2>1. tokens' \subseteq Token
    BY <1>7, <1>9 DEF LoginSucceeds, Row
  <2> QED BY <1>9, <2>1 DEF LoginSucceeds, Returns
<1>10. ASSUME NEW c \in Call, LoginFails(c) PROVE TypeInv'
  BY <1>10 DEF LoginFails, Returns
<1>11. ASSUME NEW r \in Route, Refuse(r) PROVE TypeInv'
  BY <1>11 DEF Refuse, callVars
<1>12. ASSUME NEW u \in users, DeleteUser(u) PROVE TypeInv'
  BY <1>12 DEF DeleteUser, callVars
<1>13. CASE Tick
  BY <1>13 DEF Tick, callVars
<1>14. CASE UNCHANGED vars
  BY <1>14 DEF vars, callVars
<1> QED
  BY <1>1, <1>2, <1>3, <1>4, <1>5, <1>6, <1>8, <1>9, <1>10, <1>11, <1>12, <1>13, <1>14
  DEF Next, CallStep

(* Every reachable state has the types: rows, tokens and the calls'        *)
(* variables in RegisterUser and LoginUser.                                *)
THEOREM AccountsTypeCorrect == Spec => []TypeOK
<1>1. Spec => []TypeInv
  BY InitType, TypeStep, PTL DEF Spec
<1> QED BY <1>1, PTL DEF TypeInv
-----------------------------------------------------------------------------
(* No ids are owned at the beginning.                                      *)
LEMMA InitIds == Init => IdInv
  BY NullAssumption
  DEF Init, IdInv, IdsOwned, OneUserPerPhone, TokenNamesItsUser, FirstTokens

(* A step that only ends a call, or touches no row, id or token, keeps the *)
(* ownership of ids.                                                       *)
LEMMA QuietKeepsIds ==
    ASSUME TypeInv, IdInv,
           users' \subseteq users, everStored' = everStored, tokens' = tokens,
           \A c \in Call :
             \/ cId'[c] = cId[c] /\ pc'[c] = pc[c] /\ cPhone'[c] = cPhone[c]
                  /\ cPassword'[c] = cPassword[c]
             \/ cId'[c] = NULL /\ pc'[c] \notin {"absent", "created"}
    PROVE  IdInv'
<1>1. \A c \in Call : pc'[c] = "created" => pc[c] = "created" /\ NewRow(c)' = NewRow(c)
  BY DEF NewRow
<1>2. \A c \in Call : pc'[c] = "absent" => pc[c] = "absent" /\ cId'[c] = cId[c]
  OBVIOUS
<1>3. \A c \in Call : pc'[c] = "created" => cId'[c] = cId[c]
  OBVIOUS
<1>4. \A c, d \in Call : c # d /\ cId'[c] \in Id => cId'[c] # cId'[d]
  BY NullAssumption DEF IdInv, IdsOwned
<1>5. IdsOwned'
  BY <1>1, <1>2, <1>3, <1>4 DEF IdInv, IdsOwned
<1> QED BY <1>5 DEF IdInv, OneUserPerPhone, TokenNamesItsUser

(* A token for an id whose row, if any, is the one the call asked for.     *)
LEMMA IssueKeepsIds ==
    ASSUME TypeInv, IdInv, NEW c \in Call, NEW i \in everStored,
           pc[c] # "idle",
           \A u \in users : u.id = i => u.phone = cPhone[c] /\ u.password = cPassword[c],
           Issue(c, i), Returns(c), UNCHANGED <<users, everStored>>
    PROVE  IdInv'
<1> DEFINE t == [sub |-> i, exp |-> clock + Lifetime,
                 phone |-> cPhone[c], password |-> cPassword[c]]
<1>1. tokens' = tokens \cup {t}
  BY DEF Issue
<1>2. t.sub = i /\ t.phone = cPhone[c] /\ t.password = cPassword[c]
  OBVIOUS
<1> HIDE DEF t
<1>3. TokenNamesItsUser'
  BY <1>1, <1>2 DEF IdInv, TokenNamesItsUser
<1>4. \A d \in Call :
        \/ d # c /\ cId'[d] = cId[d] /\ pc'[d] = pc[d] /\ cPhone'[d] = cPhone[d]
             /\ cPassword'[d] = cPassword[d]
        \/ d = c /\ cId'[d] = NULL /\ pc'[d] = "idle"
  BY DEF Returns, TypeInv, TypeOK
<1>5. \A d \in Call : pc'[d] = "created" => pc[d] = "created" /\ NewRow(d)' = NewRow(d)
                                             /\ cId'[d] = cId[d]
  BY <1>4 DEF NewRow
<1>6. \A d \in Call : pc'[d] = "absent" => pc[d] = "absent" /\ cId'[d] = cId[d]
  BY <1>4
<1>7. \A d, e \in Call : d # e /\ cId'[d] \in Id => cId'[d] # cId'[e]
  BY <1>4, NullAssumption DEF IdInv, IdsOwned
<1>8. \A s \in tokens' : s.sub # NULL => s.sub \in everStored'
  BY <1>1, <1>2 DEF IdInv, IdsOwned
<1>9. IdsOwned'
  BY <1>5, <1>6, <1>7, <1>8 DEF IdInv, IdsOwned
<1> QED BY <1>3, <1>9 DEF IdInv, OneUserPerPhone

(* Ids stay with the call or the row they were made for.                   *)
LEMMA IdStep == TypeInv /\ TypeInv' /\ IdInv /\ [Next]_vars => IdInv'
<1> SUFFICES ASSUME TypeInv, TypeInv', IdInv, [Next]_vars PROVE IdInv'
  OBVIOUS
<1> USE DEF TypeInv, TypeOK, InHand
<1>1. ASSUME NEW c \in Call, Returns(c), users' = users, everStored' = everStored,
             tokens' = tokens
      PROVE IdInv'
  <2>1. \A d \in Call :
          \/ cId'[d] = cId[d] /\ pc'[d] = pc[d] /\ cPhone'[d] = cPhone[d]
               /\ cPassword'[d] = cPassword[d]
          \/ cId'[d] = NULL /\ pc'[d] \notin {"absent", "created"}
    BY <1>1 DEF Returns
  <2> QED BY <1>1, <2>1, QuietKeepsIds
<1>2. ASSUME NEW c \in Call, NEW r \in Route, NEW p \in Phone, NEW w \in Password,
             Begin(c, r, p, w)
      PROVE IdInv'
  <2>1. \A d \in Call :
          \/ cId'[d] = cId[d] /\ pc'[d] = pc[d] /\ cPhone'[d] = cPhone[d]
               /\ cPassword'[d] = cPassword[d]
          \/ cId'[d] = NULL /\ pc'[d] \notin {"absent", "created"}
    <3>1. cId[c] = NULL
      BY <1>2 DEF Begin
    <3>2. pc'[c] \notin {"absent", "created"}
      BY <1>2 DEF Begin, Route
    <3> QED BY <1>2, <3>1, <3>2 DEF Begin
  <2> QED BY <1>2, <2>1, QuietKeepsIds DEF Begin
<1>3. ASSUME NEW c \in Call, NEW i \in Id, RegisterCheck(c, i) PROVE IdInv'
  <2>1. \A d \in Call : d # c => cId'[d] = cId[d] /\ pc'[d] = pc[d] /\ cId[d] # i
                                   /\ NewRow(d)' = NewRow(d)
    BY <1>3 DEF RegisterCheck, Fresh, NewRow
  <2>2. cId'[c] = i /\ pc'[c] = "absent" /\ i \notin everStored
    BY <1>3 DEF RegisterCheck, Fresh
  <2>3. UNCHANGED <<users, everStored, tokens>>
    BY <1>3 DEF RegisterCheck
  <2>4. IdsOwned'
    BY <2>1, <2>2, <2>3 DEF IdInv, IdsOwned
  <2> QED BY <2>3, <2>4 DEF IdInv, OneUserPerPhone, TokenNamesItsUser
<1>4. ASSUME NEW c \in Call, Insert(c) PROVE IdInv'
  <2>1. /\ users' = users \cup {NewRow(c)}
        /\ everStored' = everStored \cup {cId[c]}
        /\ UNCHANGED <<tokens, cPhone, cPassword, cId>>
        /\ pc'[c] = "created"
        /\ \A d \in Call \ {c} : pc'[d] = pc[d]
    BY <1>4 DEF Insert
  <2>2. pc[c] = "absent" /\ cId[c] \in Id /\ cId[c] \notin everStored
    BY <1>4 DEF Insert, IdInv, IdsOwned
  <2>3. /\ NewRow(c).id = cId[c] /\ NewRow(c).phone = cPhone[c]
        /\ NewRow(c).password = cPassword[c]
        /\ \A d \in Call : NewRow(d)' = NewRow(d)
    BY <2>1 DEF NewRow
  <2>4. OneUserPerPhone'
    <3>1. \A u \in users : u.phone # NewRow(c).phone /\ u.id # NewRow(c).id
      BY <1>4, <2>2, <2>3 DEF Insert, Registered, IdInv, IdsOwned
    <3> QED BY <2>1, <3>1 DEF IdInv, OneUserPerPhone
  <2>5. TokenNamesItsUser'
    <3>1. \A t \in tokens : t.sub # cId[c]
      BY <2>2, NullAssumption DEF IdInv, IdsOwned
    <3> QED BY <2>1, <2>3, <3>1 DEF IdInv, TokenNamesItsUser
  <2>6. IdsOwned'
    <3>1. \A u \in users' : u.id \in everStored'
      BY <2>1, <2>3 DEF IdInv, IdsOwned
    <3>2. \A d \in Call : pc'[d] = "absent" => cId'[d] \notin everStored'
      BY <2>1, <2>2 DEF IdInv, IdsOwned
    <3>3. \A d \in Call : pc'[d] = "created" =>
            /\ cId'[d] \in everStored'
            /\ \A u \in users' : u.id = cId'[d] => u = NewRow(d)'
      <4> TAKE d \in Call
      <4>1. CASE d = c
        BY <4>1, <2>1, <2>2, <2>3 DEF IdInv, IdsOwned
      <4>2. CASE d # c
        BY <4>2, <2>1, <2>2, <2>3 DEF IdInv, IdsOwned
      <4> QED BY <4>1, <4>2
    <3> QED BY <2>1, <3>1, <3>2, <3>3 DEF IdInv, IdsOwned
  <2> QED BY <2>4, <2>5, <2>6 DEF IdInv
<1>5. ASSUME NEW c \in Call, RegisterAnswers(c) PROVE IdInv'
  <2>1. cId[c] \in everStored /\ Issue(c, cId[c]) /\ Returns(c)
    BY <1>5 DEF RegisterAnswers, IdInv, IdsOwned
  <2>2. \A u \in users : u.id = cId[c] => u.phone = cPhone[c] /\ u.password = cPassword[c]
    BY <1>5 DEF RegisterAnswers, IdInv, IdsOwned, NewRow
  <2> QED BY <1>5, <2>1, <2>2, IssueKeepsIds DEF RegisterAnswers
<1>6. ASSUME NEW c \in Call, LoginSucceeds(c) PROVE IdInv'
  <2>1. PICK u \in users : u.phone = cPhone[c] /\ u.password = cPassword[c] /\ Issue(c, u.id)
    BY <1>6 DEF LoginSucceeds
  <2>2. u.id \in everStored
    BY DEF IdInv, IdsOwned
  <2>3. \A v \in users : v.id = u.id => v.phone = cPhone[c] /\ v.password = cPassword[c]
    BY <2>1 DEF IdInv, OneUserPerPhone
  <2> QED BY <1>6, <2>1, <2>2, <2>3, IssueKeepsIds DEF LoginSucceeds
<1>7. ASSUME users' \subseteq users,
             UNCHANGED <<everStored, tokens, pc, cPhone, cPassword, cId>>
      PROVE IdInv'
  BY <1>7, QuietKeepsIds
<1> QED
  BY <1>1, <1>2, <1>3, <1>4, <1>5, <1>6, <1>7
  DEF Next, CallStep, Fails, RegisterConflict, InsertRefused, LoginFails, Refuse,
      DeleteUser, Tick, vars, callVars

(* The types and the ownership of ids are invariant.                       *)
LEMMA IdsInvariant == Spec => [](TypeInv /\ IdInv)
<1>1. Init => TypeInv /\ IdInv
  BY InitType, InitIds
<1>2. (TypeInv /\ IdInv) /\ [Next]_vars => (TypeInv /\ IdInv)'
  BY TypeStep, IdStep
<1> QED BY <1>1, <1>2, PTL DEF Spec

(* However registrations overlap, a number and an id belong to one user.   *)
THEOREM OneUserEver == Spec => []OneUserPerPhone
  BY IdsInvariant, PTL DEF IdInv

(* A token from register or login names only the user whose number and     *)
(* password that call gave, whatever is deleted and registered again.      *)
THEOREM TokensAreRight == Spec => []TokenNamesItsUser
  BY IdsInvariant, PTL DEF IdInv
-----------------------------------------------------------------------------
(* Nothing is contested at the beginning.                                  *)
LEMMA InitRace == Init => RaceInv
  BY DEF Init, RaceInv, DuplicateOnlyByRace, Registered, PastCheck

(* A step after which no more calls are past the check, and no more        *)
(* numbers registered, leaves no new way to a duplicate.                   *)
LEMMA QuietKeepsRace ==
    ASSUME RaceInv, users' \subseteq users, contested' = contested,
           duplicate' \subseteq contested,
           \A c \in Call : pc'[c] \in {"absent", "created"} =>
             pc'[c] = pc[c] /\ cPhone'[c] = cPhone[c]
    PROVE  RaceInv'
<1>1. \A p : Registered(p)' => Registered(p)
  BY DEF Registered
<1>2. \A c \in Call : \A p \in Phone : PastCheck(c, p)' => PastCheck(c, p)
  BY DEF PastCheck
<1>3. \A c \in Call : pc'[c] = "absent" /\ Registered(cPhone[c])' => cPhone'[c] \in contested'
  BY <1>1 DEF RaceInv
<1> QED BY <1>2, <1>3 DEF RaceInv, DuplicateOnlyByRace

(* A registration is out of date only where another was past the check.    *)
LEMMA RaceStep == TypeInv /\ RaceInv /\ [Next]_vars => RaceInv'
<1> SUFFICES ASSUME TypeInv, RaceInv, [Next]_vars PROVE RaceInv'
  OBVIOUS
<1> USE DEF TypeInv, TypeOK, InHand
<1>1. ASSUME NEW c \in Call, Returns(c), users' = users, contested' = contested,
             duplicate' \subseteq contested
      PROVE RaceInv'
  <2>1. \A d \in Call : pc'[d] \in {"absent", "created"} =>
          pc'[d] = pc[d] /\ cPhone'[d] = cPhone[d]
    BY <1>1 DEF Returns
  <2> QED BY <1>1, <2>1, QuietKeepsRace
<1>2. ASSUME NEW c \in Call, NEW r \in Route, NEW p \in Phone, NEW w \in Password,
             Begin(c, r, p, w)
      PROVE RaceInv'
  <2>1. pc'[c] \notin {"absent", "created"} /\ \A d \in Call \ {c} :
          pc'[d] = pc[d] /\ cPhone'[d] = cPhone[d]
    BY <1>2 DEF Begin, Route
  <2>2. users' = users /\ contested' = contested /\ duplicate' = duplicate
    BY <1>2 DEF Begin
  <2> QED BY <2>1, <2>2, QuietKeepsRace DEF RaceInv, DuplicateOnlyByRace
<1>3. ASSUME NEW c \in Call, NEW i \in Id, RegisterCheck(c, i) PROVE RaceInv'
  <2>1. /\ UNCHANGED <<users, cPhone, duplicate>>
        /\ \A d \in Call \ {c} : pc'[d] = pc[d]
        /\ contested \subseteq contested'
        /\ ~Registered(cPhone[c])
    BY <1>3 DEF RegisterCheck
  <2>2. \A p : Registered(p)' <=> Registered(p)
    BY <2>1 DEF Registered
  <2>3. \A d \in Call : pc'[d] = "absent" /\ Registered(cPhone[d])' => cPhone'[d] \in contested'
    BY <2>1, <2>2 DEF RaceInv
  <2>4. \A d \in Call : \A p \in Phone : d # c /\ PastCheck(d, p)' => PastCheck(d, p)
    BY <2>1 DEF PastCheck
  <2>5. \A d \in Call : \A p \in Phone :
          d # c /\ PastCheck(c, p)' /\ PastCheck(d, p)' => p \in contested'
    <3> TAKE d \in Call
    <3> TAKE p \in Phone
    <3> HAVE d # c /\ PastCheck(c, p)' /\ PastCheck(d, p)'
    <3>1. cPhone[c] = p
      BY <2>1 DEF PastCheck
    <3>2. PastCheck(d, cPhone[c])
      BY <2>4, <3>1
    <3> QED BY <1>3, <3>1, <3>2 DEF RegisterCheck
  <2>6. \A d, e \in Call : \A p \in Phone :
          d # e /\ PastCheck(d, p)' /\ PastCheck(e, p)' => p \in contested'
    BY <2>1, <2>4, <2>5 DEF RaceInv
  <2>7. duplicate' \subseteq contested'
    BY <2>1 DEF RaceInv, DuplicateOnlyByRace
  <2> QED BY <2>3, <2>6, <2>7 DEF RaceInv, DuplicateOnlyByRace
<1>4. ASSUME NEW c \in Call, Insert(c) PROVE RaceInv'
  <2>1. /\ users' = users \cup {NewRow(c)}
        /\ UNCHANGED <<cPhone, contested, duplicate>>
        /\ pc[c] = "absent" /\ pc'[c] = "created"
        /\ \A d \in Call \ {c} : pc'[d] = pc[d]
        /\ NewRow(c).phone = cPhone[c]
    BY <1>4 DEF Insert, NewRow
  <2>2. \A d \in Call : \A p \in Phone : PastCheck(d, p)' <=> PastCheck(d, p)
    BY <2>1 DEF PastCheck
  <2>3. \A p : Registered(p)' => Registered(p) \/ p = cPhone[c]
    BY <2>1 DEF Registered
  <2>4. ASSUME NEW d \in Call, pc'[d] = "absent", Registered(cPhone[d])'
        PROVE  cPhone'[d] \in contested'
    <3>1. CASE Registered(cPhone[d])
      BY <2>1, <2>4, <3>1 DEF RaceInv
    <3>2. CASE cPhone[d] = cPhone[c]
      <4>1. d # c /\ pc[d] = "absent" /\ cPhone[d] \in Phone
        BY <2>1, <2>4
      <4>2. PastCheck(c, cPhone[d]) /\ PastCheck(d, cPhone[d])
        BY <2>1, <3>2, <4>1 DEF PastCheck
      <4> QED BY <2>1, <4>1, <4>2 DEF RaceInv
    <3> QED BY <2>1, <2>3, <2>4, <3>1, <3>2
  <2>5. \A d, e \in Call : \A p \in Phone :
          d # e /\ PastCheck(d, p)' /\ PastCheck(e, p)' => p \in contested'
    BY <2>1, <2>2 DEF RaceInv
  <2> QED BY <2>1, <2>4, <2>5 DEF RaceInv, DuplicateOnlyByRace
<1>5. ASSUME NEW c \in Call, InsertRefused(c) PROVE RaceInv'
  <2>1. cPhone[c] \in contested
    BY <1>5 DEF InsertRefused, RaceInv
  <2>2. duplicate' \subseteq contested
    BY <1>5, <2>1 DEF InsertRefused, RaceInv, DuplicateOnlyByRace
  <2> QED BY <1>1, <1>5, <2>2 DEF InsertRefused
<1>6. ASSUME users' \subseteq users, UNCHANGED <<pc, cPhone, contested, duplicate>>
      PROVE RaceInv'
  BY <1>6, QuietKeepsRace DEF RaceInv, DuplicateOnlyByRace
<1>7. duplicate \subseteq contested
  BY DEF RaceInv, DuplicateOnlyByRace
<1> QED
  BY <1>1, <1>2, <1>3, <1>4, <1>5, <1>6, <1>7
  DEF Next, CallStep, Fails, RegisterConflict, RegisterAnswers, LoginSucceeds, LoginFails,
      Refuse, DeleteUser, Tick, vars, callVars

(* An INSERT meets the UNIQUE constraint only where two registrations of   *)
(* one number were past find_by_phone at once.                             *)
THEOREM DuplicatesNeedARace == Spec => []DuplicateOnlyByRace
<1>1. Init => TypeInv /\ RaceInv
  BY InitType, InitRace
<1>2. (TypeInv /\ RaceInv) /\ [Next]_vars => (TypeInv /\ RaceInv)'
  BY TypeStep, RaceStep
<1> QED BY <1>1, <1>2, PTL DEF Spec, RaceInv
-----------------------------------------------------------------------------
(* While everyone is locked out, a step opens nothing.                     *)
LEMMA LockedStep == TypeOK /\ LockedOut /\ [Next]_vars => LockedOut'
<1> SUFFICES ASSUME TypeOK, LockedOut, [Next]_vars PROVE LockedOut'
  OBVIOUS
<1> USE DEF TypeOK, LockedOut
<1>1. ASSUME pc' = pc, tokens' = tokens, clock' = clock PROVE LockedOut'
  BY <1>1 DEF Valid
<1>2. CASE Tick
  <2>1. \A t \in tokens : t.exp \in Nat /\ ~(clock <= t.exp)
    BY DEF Valid, Token
  <2>2. \A t \in tokens : ~(clock + 1 <= t.exp)
    BY <2>1
  <2> QED BY <1>2, <2>2 DEF Tick, callVars, Valid
<1>3. \A c \in Call : ~CallStep(c)
  BY DEF CallStep, Fails, Begin, RegisterCheck, RegisterConflict, Insert, InsertRefused,
         RegisterAnswers, LoginSucceeds, LoginFails
<1> QED
  BY <1>1, <1>2, <1>3 DEF Next, Refuse, DeleteUser, vars, callVars

(* After the last token has run out no login succeeds, whatever password   *)
(* is given: auth_middleware stands before login as well.                  *)
THEOREM LockoutForGood == Spec => LockoutIsFinal
<1>1. TypeInv /\ [Next]_vars => [LockedOut => LockedOut']_vars
  BY LockedStep DEF TypeInv
<1>2. Spec => []TypeInv
  BY InitType, TypeStep, PTL DEF Spec
<1> QED BY <1>1, <1>2, PTL DEF Spec, LockoutIsFinal

(* With no token from outside, the server never gets its first user.       *)
THEOREM NoFirstUser == ASSUME Bootstrap = {} PROVE Spec => [](users = {})
<1> DEFINE Empty == users = {} /\ tokens = {} /\ \A c \in Call : pc[c] = "idle"
<1>1. Init => Empty
  BY DEF Init, FirstTokens
<1>2. Empty /\ [Next]_vars => Empty'
  BY DEF Next, CallStep, Fails, Begin, RegisterCheck, RegisterConflict, Insert, InsertRefused,
         RegisterAnswers, LoginSucceeds, LoginFails, Refuse, DeleteUser, Tick, vars, callVars
<1> QED BY <1>1, <1>2, PTL DEF Spec
-----------------------------------------------------------------------------
Granted == {t.sub : t \in tokens} \ {NULL}

HolderFacts ==
    \A p \in Phone :
      /\ \A u \in users : u.phone = p => Holder[p] = u.id
      /\ Registered(p) => Holder[p] # NULL
      /\ ~Registered(p) => Holder[p] = NULL

(* The holder of a number is the one row that has it, or nobody.           *)
LEMMA HolderOf == TypeOK /\ OneUserPerPhone => HolderFacts
<1> SUFFICES ASSUME TypeOK, OneUserPerPhone, NEW p \in Phone
             PROVE  /\ \A u \in users : u.phone = p => Holder[p] = u.id
                    /\ Registered(p) => Holder[p] # NULL
                    /\ ~Registered(p) => Holder[p] = NULL
  BY DEF HolderFacts
<1>1. ASSUME NEW u \in users, u.phone = p PROVE Holder[p] = u.id /\ u.id # NULL
  <2>1. Registered(p)
    BY <1>1 DEF Registered
  <2>2. Holder[p] = (CHOOSE v \in users : v.phone = p).id
    BY <2>1 DEF Holder
  <2>3. (CHOOSE v \in users : v.phone = p) = u
    BY <1>1 DEF OneUserPerPhone
  <2> QED BY <2>2, <2>3, NullAssumption DEF TypeOK, Row
<1>2. ~Registered(p) => Holder[p] = NULL
  BY DEF Holder
<1> QED BY <1>1, <1>2 DEF Registered

(* The initial states agree.                                               *)
LEMMA InitRegistry == Init => PR!Init
  BY NullAssumption DEF Init, PR!Init, Holder, Registered, FirstTokens

(* Every step of Accounts is a step of PhoneRegistry or leaves it alone.   *)
LEMMA RegistryStep ==
    TypeInv /\ TypeInv' /\ IdInv /\ IdInv' /\ [Next]_vars => [PR!Next]_PR!rvars
<1> SUFFICES ASSUME TypeInv, TypeInv', IdInv, IdInv', [Next]_vars
             PROVE  [PR!Next]_PR!rvars
  OBVIOUS
<1> USE DEF TypeInv
<1>a. HolderFacts
  BY HolderOf DEF IdInv
<1>b. HolderFacts'
  <2>1. (TypeOK /\ OneUserPerPhone => HolderFacts)'
    BY HolderOf, PTL
  <2> QED BY <2>1 DEF IdInv
<1>c. DOMAIN Holder = Phone /\ DOMAIN Holder' = Phone
      /\ Holder = [p \in Phone |-> Holder[p]] /\ Holder' = [p \in Phone |-> Holder'[p]]
  BY DEF Holder
<1>1. ASSUME users' = users, everStored' = everStored, tokens' = tokens
      PROVE  UNCHANGED PR!rvars
  <2>1. Holder' = Holder
    BY <1>1 DEF Holder, Registered
  <2> QED BY <1>1, <2>1 DEF PR!rvars
<1>2. ASSUME NEW c \in Call, Insert(c) PROVE PR!Claim(cPhone[c], cId[c]) /\ cPhone[c] \in Phone
                                             /\ cId[c] \in Id
  <2>1. /\ users' = users \cup {NewRow(c)} /\ everStored' = everStored \cup {cId[c]}
        /\ tokens' = tokens /\ ~Registered(cPhone[c])
        /\ NewRow(c).phone = cPhone[c] /\ NewRow(c).id = cId[c]
    BY <1>2 DEF Insert, NewRow
  <2>2. cPhone[c] \in Phone /\ cId[c] \in Id /\ cId[c] \notin everStored
    BY <1>2 DEF Insert, TypeOK, InHand, IdInv, IdsOwned
  <2>3. Holder[cPhone[c]] = NULL
    BY <1>a, <2>1, <2>2 DEF HolderFacts
  <2>4. Holder' = [Holder EXCEPT ![cPhone[c]] = cId[c]]
    <3>1. ASSUME NEW p \in Phone, p # cPhone[c] PROVE Holder'[p] = Holder[p]
      <4>1. Registered(p)' <=> Registered(p)
        BY <2>1, <3>1 DEF Registered
      <4>2. \A u \in users : u.phone = p => Holder'[p] = u.id /\ Holder[p] = u.id
        BY <1>a, <1>b, <2>1 DEF HolderFacts
      <4> QED BY <4>1, <4>2 DEF Registered, Holder
    <3>2. Holder'[cPhone[c]] = cId[c]
      BY <1>b, <2>1, <2>2 DEF HolderFacts
    <3> QED BY <1>c, <2>2, <3>1, <3>2
  <2> QED BY <2>1, <2>2, <2>3, <2>4 DEF PR!Claim
<1>3. ASSUME NEW u \in users, DeleteUser(u) PROVE PR!Release(u.phone) /\ u.phone \in Phone
  <2>1. users' = users \ {u} /\ everStored' = everStored /\ tokens' = tokens
    BY <1>3 DEF DeleteUser
  <2>2. u.phone \in Phone
    BY DEF TypeOK, Row
  <2>3. Holder[u.phone] # NULL
    BY <1>a, <2>2 DEF HolderFacts, Registered
  <2>4. Holder' = [Holder EXCEPT ![u.phone] = NULL]
    <3>1. ASSUME NEW p \in Phone, p # u.phone PROVE Holder'[p] = Holder[p]
      <4>1. Registered(p)' <=> Registered(p)
        BY <2>1, <3>1 DEF Registered
      <4>2. \A v \in users' : v.phone = p => Holder'[p] = v.id /\ Holder[p] = v.id
        BY <1>a, <1>b, <2>1 DEF HolderFacts
      <4> QED BY <4>1, <4>2 DEF Registered, Holder
    <3>2. ~Registered(u.phone)'
      BY <2>1 DEF Registered, IdInv, OneUserPerPhone
    <3>3. Holder'[u.phone] = NULL
      BY <2>2, <3>2 DEF Holder
    <3> QED BY <1>c, <2>2, <3>1, <3>3
  <2> QED BY <2>1, <2>2, <2>3, <2>4 DEF PR!Release
<1>4. ASSUME NEW c \in Call, NEW i \in everStored, Issue(c, i),
             users' = users, everStored' = everStored
      PROVE  PR!Grant(i) /\ i \in Id
  <2>1. i \in Id /\ i # NULL
    BY NullAssumption DEF TypeOK
  <2>2. Granted' = Granted \cup {i}
    <3> DEFINE t == [sub |-> i, exp |-> clock + Lifetime,
                     phone |-> cPhone[c], password |-> cPassword[c]]
    <3>1. tokens' = tokens \cup {t} /\ t.sub = i
      BY <1>4 DEF Issue
    <3> HIDE DEF t
    <3> QED BY <2>1, <3>1 DEF Granted
  <2>3. Holder' = Holder
    BY <1>4 DEF Holder, Registered
  <2> QED BY <1>4, <2>1, <2>2, <2>3 DEF PR!Grant, Granted
<1>5. ASSUME NEW c \in Call, RegisterAnswers(c) PROVE PR!Next
  <2>1. cId[c] \in everStored
    BY <1>5 DEF RegisterAnswers, IdInv, IdsOwned
  <2> QED BY <1>4, <1>5, <2>1 DEF RegisterAnswers, PR!Next
<1>6. ASSUME NEW c \in Call, LoginSucceeds(c) PROVE PR!Next
  <2>1. PICK u \in users : Issue(c, u.id)
    BY <1>6 DEF LoginSucceeds
  <2>2. u.id \in everStored
    BY DEF IdInv, IdsOwned
  <2> QED BY <1>4, <1>6, <2>1, <2>2 DEF LoginSucceeds, PR!Next
<1> QED
  BY <1>1, <1>2, <1>3, <1>5, <1>6
  DEF Next, CallStep, Fails, Begin, RegisterCheck, RegisterConflict, InsertRefused, LoginFails,
      Refuse, Tick, vars, callVars, PR!Next

(* RegisterUser, LoginUser and the UNIQUE constraint implement the         *)
(* registry: one holder of a number at a time, no id twice, and tokens     *)
(* only for those who have held one.                                       *)
THEOREM AccountsImplementRegistry == Spec => AccountsAreARegistry
<1>1. Init => PR!Init
  BY InitRegistry
<1>2. (TypeInv /\ IdInv) /\ (TypeInv /\ IdInv)' /\ [Next]_vars => [PR!Next]_PR!rvars
  BY RegistryStep
<1> QED BY <1>1, <1>2, IdsInvariant, PTL DEF Spec, AccountsAreARegistry, PR!Spec
=============================================================================
