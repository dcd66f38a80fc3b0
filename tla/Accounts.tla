------------------------------ MODULE Accounts ------------------------------
(***************************************************************************)
(* Registration, login and the tokens that open the HTTP routes: the table *)
(* users, RegisterUser, LoginUser, and auth_middleware as the router       *)
(* applies it.                                                             *)
(*                                                                         *)
(* A call is one HTTP request.  RegisterUser looks for the phone number,   *)
(* then inserts, in two statements without a transaction, so calls for one *)
(* number interleave.  A call may end at any await: a statement fails, the *)
(* client hangs up, the server stops.  A statement that commits after its  *)
(* handler was dropped is the same as one that commits just before.        *)
(*                                                                         *)
(* app_router.rs adds the auth layer after all /api routes, so that        *)
(* registering and logging in need a token themselves.  Bootstrap stands   *)
(* for the tokens that are signed with JWT_SECRET outside this server;     *)
(* their subject is no user, which the middleware does not look at.        *)
(*                                                                         *)
(* Abstracted: hashing (a hash matches the password it was made from and   *)
(* no other), the request's validation, the columns that registration      *)
(* leaves at their defaults, and rate limits.  A token's expiry includes   *)
(* the leeway of Validation::default.                                      *)
(***************************************************************************)
EXTENDS Integers, FiniteSets

CONSTANTS
    Id,         \* UUIDs of users
    Phone,
    Password,
    Call,       \* HTTP calls in progress at a time
    NULL,
    Bootstrap,  \* expiry times of tokens signed outside the server
    Lifetime,   \* JWT_EXPIRATION with the leeway
    MaxTime     \* bound on the clock

ASSUME NullAssumption == NULL \notin Id /\ NULL \notin Phone /\ NULL \notin Password
ASSUME TimeAssumption == Lifetime \in Nat /\ MaxTime \in Nat /\ Bootstrap \subseteq Nat

VARIABLES
    users,      \* rows of the table
    everStored, \* ids the table has ever held                         (history)
    tokens,     \* tokens clients have been given, with the phone and
                \* password of the call that got them                  (history)
    clock,
    pc,         \* "idle", "register", "absent" (find_by_phone found none),
                \* "created" (INSERT committed), "login"
    cPhone, cPassword, cId,   \* a call's arguments and the id of its User::new
    contested,  \* numbers two registrations were past the check for at once (history)
    duplicate,  \* numbers for which an INSERT broke the UNIQUE constraint   (history)
    refused     \* routes on which auth_middleware has refused a call        (history)

callVars == <<pc, cPhone, cPassword, cId>>
vars == <<users, everStored, tokens, clock, callVars, contested, duplicate, refused>>

Row == [id: Id, phone: Phone, password: Password]
Token == [sub: Id \cup {NULL}, exp: Nat, phone: Phone \cup {NULL}, password: Password \cup {NULL}]
Route == {"register", "login"}

FirstTokens == {[sub |-> NULL, exp |-> e, phone |-> NULL, password |-> NULL] : e \in Bootstrap}

Init ==
    /\ users = {}
    /\ everStored = {}
    /\ tokens = FirstTokens
    /\ clock = 0
    /\ pc = [c \in Call |-> "idle"]
    /\ cPhone = [c \in Call |-> NULL]
    /\ cPassword = [c \in Call |-> NULL]
    /\ cId = [c \in Call |-> NULL]
    /\ contested = {}
    /\ duplicate = {}
    /\ refused = {}

Registered(p) == \E u \in users : u.phone = p

(* decode::<Claims> accepts a token until it has expired.                  *)
Valid(t) == clock <= t.exp

-----------------------------------------------------------------------------
(* The call is over, and with it its local variables.                      *)
Returns(c) ==
    /\ pc' = [pc EXCEPT ![c] = "idle"]
    /\ cPhone' = [cPhone EXCEPT ![c] = NULL]
    /\ cPassword' = [cPassword EXCEPT ![c] = NULL]
    /\ cId' = [cId EXCEPT ![c] = NULL]

(* A statement or its answer fails, or the handler is dropped.             *)
Fails(c) ==
    /\ pc[c] # "idle"
    /\ Returns(c)
    /\ UNCHANGED <<users, everStored, tokens, clock, contested, duplicate, refused>>

(* auth_middleware: no token, or none that is valid any more.              *)
Refuse(r) ==
    /\ refused' = refused \cup {r}
    /\ UNCHANGED <<users, everStored, tokens, clock, callVars, contested, duplicate>>

(* Faulty: the layer does not cover the route. *)
BeginWithoutToken(c, r, p, w) ==
    /\ pc[c] = "idle"
    /\ pc' = [pc EXCEPT ![c] = r]
    /\ cPhone' = [cPhone EXCEPT ![c] = p]
    /\ cPassword' = [cPassword EXCEPT ![c] = w]
    /\ UNCHANGED <<users, everStored, tokens, clock, cId, contested, duplicate, refused>>

(* auth_middleware lets the call through to the handler.                   *)
Begin(c, r, p, w) ==
    /\ pc[c] = "idle"
    /\ \E t \in tokens : Valid(t)
    /\ pc' = [pc EXCEPT ![c] = r]
    /\ cPhone' = [cPhone EXCEPT ![c] = p]
    /\ cPassword' = [cPassword EXCEPT ![c] = w]
    /\ UNCHANGED <<users, everStored, tokens, clock, cId, contested, duplicate, refused>>

(* generate_jwt, and the answer to the client.                             *)
Issue(c, i) ==
    tokens' = tokens \cup {[sub |-> i, exp |-> clock + Lifetime,
                            phone |-> cPhone[c], password |-> cPassword[c]]}
-----------------------------------------------------------------------------
(* RegisterUser::execute                                                   *)

Fresh(i) == i \notin everStored /\ \A d \in Call : cId[d] # i

PastCheck(d, p) == pc[d] \in {"absent", "created"} /\ cPhone[d] = p

(* Faulty: the result of find_by_phone is not looked at. *)
RegisterUnchecked(c, i) ==
    /\ pc[c] = "register"
    /\ Fresh(i)
    /\ pc' = [pc EXCEPT ![c] = "absent"]
    /\ cId' = [cId EXCEPT ![c] = i]
    /\ contested' = IF \E d \in Call : PastCheck(d, cPhone[c])
                    THEN contested \cup {cPhone[c]} ELSE contested
    /\ UNCHANGED <<users, everStored, tokens, clock, cPhone, cPassword, duplicate, refused>>

(* find_by_phone finds none; hash_password and User::new follow at once.   *)
RegisterCheck(c, i) ==
    /\ pc[c] = "register"
    /\ ~Registered(cPhone[c])
    /\ Fresh(i)
    /\ pc' = [pc EXCEPT ![c] = "absent"]
    /\ cId' = [cId EXCEPT ![c] = i]
    /\ contested' = IF \E d \in Call : PastCheck(d, cPhone[c])
                    THEN contested \cup {cPhone[c]} ELSE contested
    /\ UNCHANGED <<users, everStored, tokens, clock, cPhone, cPassword, duplicate, refused>>

RegisterConflict(c) ==
    /\ pc[c] = "register"
    /\ Registered(cPhone[c])
    /\ Returns(c)
    /\ UNCHANGED <<users, everStored, tokens, clock, contested, duplicate, refused>>

NewRow(c) == [id |-> cId[c], phone |-> cPhone[c], password |-> cPassword[c]]

(* The INSERT of `create` commits.                                         *)
Insert(c) ==
    /\ pc[c] = "absent"
    /\ ~Registered(cPhone[c])
    /\ users' = users \cup {NewRow(c)}
    /\ everStored' = everStored \cup {cId[c]}
    /\ pc' = [pc EXCEPT ![c] = "created"]
    /\ UNCHANGED <<tokens, clock, cPhone, cPassword, cId, contested, duplicate, refused>>

(* Faulty: the error of `create` is dropped and the built user returned. *)
InsertRefusedQuietly(c) ==
    /\ pc[c] = "absent"
    /\ Registered(cPhone[c])
    /\ duplicate' = duplicate \cup {cPhone[c]}
    /\ Issue(c, cId[c])
    /\ Returns(c)
    /\ UNCHANGED <<users, everStored, clock, contested, refused>>

(* PostgreSQL refuses the INSERT: the number was taken since the check.    *)
InsertRefused(c) ==
    /\ pc[c] = "absent"
    /\ Registered(cPhone[c])
    /\ duplicate' = duplicate \cup {cPhone[c]}
    /\ Returns(c)
    /\ UNCHANGED <<users, everStored, tokens, clock, contested, refused>>

(* `create` returns the row; the token is made and the answer sent.        *)
RegisterAnswers(c) ==
    /\ pc[c] = "created"
    /\ Issue(c, cId[c])
    /\ Returns(c)
    /\ UNCHANGED <<users, everStored, clock, contested, duplicate, refused>>
-----------------------------------------------------------------------------
(* LoginUser::execute                                                      *)

(* Faulty: the password is not compared. *)
LoginByPhone(c) ==
    /\ pc[c] = "login"
    /\ \E u \in users : u.phone = cPhone[c] /\ Issue(c, u.id)
    /\ Returns(c)
    /\ UNCHANGED <<users, everStored, clock, contested, duplicate, refused>>

(* Faulty: the token has run out when it is made. *)
LoginTooLate(c) ==
    /\ pc[c] = "login"
    /\ \E u \in users :
         /\ u.phone = cPhone[c] /\ u.password = cPassword[c]
         /\ tokens' = tokens \cup {[sub |-> u.id, exp |-> clock - Lifetime,
                                    phone |-> cPhone[c], password |-> cPassword[c]]}
    /\ Returns(c)
    /\ UNCHANGED <<users, everStored, clock, contested, duplicate, refused>>

(* find_by_phone, verify_password and generate_jwt.                        *)
LoginSucceeds(c) ==
    /\ pc[c] = "login"
    /\ \E u \in users :
         u.phone = cPhone[c] /\ u.password = cPassword[c] /\ Issue(c, u.id)
    /\ Returns(c)
    /\ UNCHANGED <<users, everStored, clock, contested, duplicate, refused>>

(* "Invalid credentials"                                                   *)
LoginFails(c) ==
    /\ pc[c] = "login"
    /\ ~\E u \in users : u.phone = cPhone[c] /\ u.password = cPassword[c]
    /\ Returns(c)
    /\ UNCHANGED <<users, everStored, tokens, clock, contested, duplicate, refused>>

(* UserRepository::delete.  Tokens are not revoked.                        *)
DeleteUser(u) ==
    /\ users' = users \ {u}
    /\ UNCHANGED <<everStored, tokens, clock, callVars, contested, duplicate, refused>>

Tick ==
    /\ clock < MaxTime
    /\ clock' = clock + 1
    /\ UNCHANGED <<users, everStored, tokens, callVars, contested, duplicate, refused>>

CallStep(c) ==
    \/ Fails(c)
    \/ \E r \in Route, p \in Phone, w \in Password : Begin(c, r, p, w)
    \/ \E i \in Id : RegisterCheck(c, i)
    \/ RegisterConflict(c) \/ Insert(c) \/ InsertRefused(c) \/ RegisterAnswers(c)
    \/ LoginSucceeds(c) \/ LoginFails(c)

Next ==
    \/ \E c \in Call : CallStep(c)
    \/ \E r \in Route : Refuse(r)
    \/ \E u \in users : DeleteUser(u)
    \/ Tick

Spec == Init /\ [][Next]_vars
-----------------------------------------------------------------------------
TypeOK ==
    /\ users \subseteq Row
    /\ everStored \subseteq Id
    /\ tokens \subseteq Token
    /\ clock \in Nat
    /\ pc \in [Call -> {"idle", "register", "absent", "created", "login"}]
    /\ cPhone \in [Call -> Phone \cup {NULL}]
    /\ cPassword \in [Call -> Password \cup {NULL}]
    /\ cId \in [Call -> Id \cup {NULL}]
    /\ contested \subseteq Phone
    /\ duplicate \subseteq Phone
    /\ refused \subseteq Route

(* However registrations overlap, a number and an id belong to one user    *)
(* (RegisterUser's check, backed by users.phone_number UNIQUE).            *)
OneUserPerPhone ==
    \A u, v \in users : u.phone = v.phone \/ u.id = v.id => u = v

(* A token names nobody but the user whose number and password the call    *)
(* gave, for as long as that user exists: a registration that lost a race  *)
(* never hands out the winner's id, and a deleted user's number, when it   *)
(* is registered again, is not opened by the old token.                    *)
TokenNamesItsUser ==
    \A t \in tokens : \A u \in users :
      t.sub = u.id => t.phone = u.phone /\ t.password = u.password

(* The INSERT of a registration breaks the UNIQUE constraint, which the    *)
(* client sees as an internal error instead of "User already exists", only *)
(* where two registrations of one number were past the check at once.      *)
DuplicateOnlyByRace == duplicate \subseteq contested

(* No call is running and no token is valid any more. *)
LockedOut ==
    /\ \A c \in Call : pc[c] = "idle"
    /\ \A t \in tokens : ~Valid(t)

(* Once every token has run out, nobody gets in again, with the right      *)
(* password or without: a login needs a valid token (app_router.rs:24).    *)
LockoutIsFinal == [][LockedOut => LockedOut']_vars

(* "Protected Routes" (app_router.rs:14) begin below register and login;   *)
(* these are meant to be open.                                             *)
PublicRoutesAreOpen == refused \cap {"register", "login"} = {}

Holder == [p \in Phone |-> IF Registered(p) THEN (CHOOSE u \in users : u.phone = p).id
                           ELSE NULL]

PR == INSTANCE PhoneRegistry WITH
        Number <- Phone, Account <- Id, Nobody <- NULL,
        holder <- Holder, claimed <- everStored,
        granted <- {t.sub : t \in tokens} \ {NULL}

(* Registration and login implement PhoneRegistry.                         *)
AccountsAreARegistry == PR!Spec
=============================================================================
