---------------------------- MODULE ClientSocket ----------------------------
(***************************************************************************)
(* WebSocketService, the Flutter client's connection to /ws: connect, the  *)
(* callbacks of the channels it opens, the reconnection timers they set,   *)
(* and disconnect.                                                         *)
(*                                                                         *)
(* connect looks at _isConnected, then awaits the token, so that several   *)
(* can be past the check.  Every channel has its own listener, but they    *)
(* share _isConnected and _channel, and every end of a channel sets a      *)
(* timer that nothing cancels.  Nothing in the code tells the channels     *)
(* before the latest one apart: how many are in which state is all that    *)
(* is kept of them.                                                        *)
(*                                                                         *)
(* Abstracted: the token (there is one or there is none), the messages,    *)
(* the five seconds of a timer, which are only that it fires later.        *)
(***************************************************************************)
EXTENDS Naturals

CONSTANTS
    MaxConnects,   \* bound on the app's calls of connect, in one run of the app
    MaxErrors      \* bound on the channels that end with an error

VARIABLES
    hasToken,      \* the storage holds an auth_token
    isConnected,   \* _isConnected
    latest,        \* the state of _channel; "none" if there is none, or it ended
    older,         \* how many channels _channel no longer is are in each state
    asked,         \* calls of connect that await the token
    found,         \* ... that have read one and are about to go on
    timers,        \* pending Future.delayed
    connects,      \* calls of connect by the app                      (history)
    errors,        \* channels that ended with an error                (history)
    wanted         \* the app has called connect, and since then there was no
                   \* disconnect and no attempt without a token        (history)

socketVars == <<isConnected, latest, older, asked, found, timers>>
vars == <<hasToken, socketVars, connects, errors, wanted>>

(* A channel is "ending" after an error or disconnect: onDone is to come.  *)
ChannelState == {"connecting", "open", "ending"}
Up == {"connecting", "open"}

Init ==
    /\ hasToken \in BOOLEAN
    /\ isConnected = FALSE
    /\ latest = "none"
    /\ older = [s \in ChannelState |-> 0]
    /\ asked = 0
    /\ found = 0
    /\ timers = 0
    /\ connects = 0
    /\ errors = 0
    /\ wanted = FALSE

-----------------------------------------------------------------------------
(* connect                                                                 *)

(* Up to the await: nothing to do if a channel is thought to be up.        *)
TryConnect == asked' = IF isConnected THEN asked ELSE asked + 1

AppConnects ==
    /\ connects < MaxConnects
    /\ connects' = connects + 1
    /\ TryConnect
    /\ wanted' = TRUE
    /\ UNCHANGED <<hasToken, isConnected, latest, older, found, timers, errors>>

(* Faulty: two timers are taken for one. *)
TimersFire ==
    /\ timers > 0
    /\ timers' = timers - 2
    /\ TryConnect
    /\ UNCHANGED <<hasToken, isConnected, latest, older, found, connects, errors, wanted>>

TimerFires ==
    /\ timers > 0
    /\ timers' = timers - 1
    /\ TryConnect
    /\ UNCHANGED <<hasToken, isConnected, latest, older, found, connects, errors, wanted>>

(* The storage answers; without a token connect returns and sets no timer. *)
ReadToken ==
    /\ asked > 0
    /\ asked' = asked - 1
    /\ IF hasToken
       THEN found' = found + 1 /\ UNCHANGED wanted
       ELSE wanted' = FALSE /\ UNCHANGED found
    /\ UNCHANGED <<hasToken, isConnected, latest, older, timers, connects, errors>>

(* One of the older channels goes from a state to another; "none" is       *)
(* outside of them.                                                        *)
OlderMoved(from, to) ==
    [s \in ChannelState |->
       CASE s = from -> older[s] - 1 [] s = to -> older[s] + 1 [] OTHER -> older[s]]

(* The channel is opened and listened to, whatever has happened meanwhile; *)
(* the one that _channel was keeps its listener.                           *)
OpenChannel ==
    /\ found > 0
    /\ older' = OlderMoved("none", latest)
    /\ latest' = "connecting"
    /\ isConnected' = TRUE
    /\ found' = found - 1
    /\ UNCHANGED <<hasToken, asked, timers, connects, errors, wanted>>

_reconnect == timers' = timers + 1

(* An exception in place of a channel: tried again later, like an error.   *)
OpenFails ==
    /\ found > 0
    /\ errors < MaxErrors
    /\ errors' = errors + 1
    /\ found' = found - 1
    /\ isConnected' = FALSE
    /\ _reconnect
    /\ UNCHANGED <<hasToken, latest, older, asked, connects, wanted>>

-----------------------------------------------------------------------------
(* The listener of a channel, the latest or an older one                   *)

Becomes(from, to) ==
    \/ latest = from /\ latest' = to /\ UNCHANGED older
    \/ older[from] > 0 /\ older' = OlderMoved(from, to) /\ UNCHANGED latest

Accept ==
    /\ Becomes("connecting", "open")
    /\ UNCHANGED <<hasToken, isConnected, asked, found, timers, connects, errors, wanted>>

(* onError: the server cannot be reached, or the link breaks.              *)
OnError(s) ==
    /\ s \in Up
    /\ errors < MaxErrors
    /\ errors' = errors + 1
    /\ Becomes(s, "ending")
    /\ isConnected' = FALSE
    /\ _reconnect
    /\ UNCHANGED <<hasToken, asked, found, connects, wanted>>

(* Faulty: onDone leaves _isConnected alone. *)
OnDoneStillConnected(s) ==
    /\ s \in {"open", "ending"}
    /\ Becomes(s, "none")
    /\ _reconnect
    /\ UNCHANGED <<hasToken, isConnected, asked, found, connects, errors, wanted>>

(* Faulty: a close by the server does not reconnect. *)
OnDoneOnlyIfEnding(s) ==
    /\ s \in {"open", "ending"}
    /\ Becomes(s, "none")
    /\ isConnected' = FALSE
    /\ timers' = IF s = "ending" THEN timers + 1 ELSE timers
    /\ UNCHANGED <<hasToken, asked, found, connects, errors, wanted>>

(* Faulty: onDone reconnects at once and by the timer as well. *)
OnDoneTwice(s) ==
    /\ s \in {"open", "ending"}
    /\ Becomes(s, "none")
    /\ isConnected' = FALSE
    /\ asked' = asked + 1
    /\ _reconnect
    /\ UNCHANGED <<hasToken, found, connects, errors, wanted>>

(* onDone: the server or the link has closed the channel, an error ended   *)
(* it, or the close handshake that disconnect began is over.  _channel     *)
(* keeps its value, which nothing tells from no channel any more.          *)
OnDone(s) ==
    /\ s \in {"open", "ending"}
    /\ Becomes(s, "none")
    /\ isConnected' = FALSE
    /\ _reconnect
    /\ UNCHANGED <<hasToken, asked, found, connects, errors, wanted>>

-----------------------------------------------------------------------------
(* Closes the latest channel only, if it is up; _channel stays, timers and *)
(* attempts go on.                                                         *)
disconnect ==
    /\ latest' = IF latest \in Up THEN "ending" ELSE latest
    /\ isConnected' = FALSE
    /\ wanted' = FALSE
    /\ UNCHANGED <<hasToken, older, asked, found, timers, connects, errors>>

(* Login stores a token; logout and a 401 delete it (ClientSession).       *)
TokenChanges ==
    /\ hasToken' = ~hasToken
    /\ UNCHANGED <<socketVars, connects, errors, wanted>>

(* The app is killed.                                                      *)
Crash ==
    /\ isConnected' = FALSE
    /\ latest' = "none"
    /\ older' = [s \in ChannelState |-> 0]
    /\ asked' = 0
    /\ found' = 0
    /\ timers' = 0
    /\ connects' = 0
    /\ errors' = 0
    /\ wanted' = FALSE
    /\ UNCHANGED hasToken

ServiceStep == TimerFires \/ ReadToken \/ OpenChannel \/ OpenFails

Step ==
    \/ AppConnects \/ ServiceStep \/ disconnect \/ TokenChanges \/ Accept
    \/ \E s \in ChannelState : OnError(s) \/ OnDone(s)

Next == Step \/ Crash

Spec == Init /\ [][Next]_vars

(* Fairness: while a timer, a callback or an answer is due, Dart's event   *)
(* loop or the server does not stop for ever: one of these is next at      *)
(* last, whichever it is.  Errors are finitely many (MaxErrors).           *)
Due == TimerFires \/ ReadToken \/ OpenChannel \/ Accept \/ OnDone("ending")

Fairness == WF_vars(Due)

FairSpec == Spec /\ Fairness
-----------------------------------------------------------------------------
TypeOK ==
    /\ hasToken \in BOOLEAN
    /\ isConnected \in BOOLEAN
    /\ latest \in ChannelState \cup {"none"}
    /\ older \in [ChannelState -> Nat]
    /\ asked \in Nat /\ found \in Nat /\ timers \in Nat
    /\ connects \in 0..MaxConnects
    /\ errors \in 0..MaxErrors
    /\ wanted \in BOOLEAN

(* A message is only handed to a channel that has not ended: while send    *)
(* sees _isConnected, the channel it writes to is up, whichever channels   *)
(* have ended before, during or after its opening.                         *)
ConnectedMeansUp ==
    isConnected => latest \in Up

Channels ==
    (IF latest = "none" THEN 0 ELSE 1) + older["connecting"] + older["open"] + older["ending"]

(* Everything that is, or will become, a channel. *)
Lines == asked + found + timers + Channels

(* Channels, timers and attempts multiply only with the app's calls of     *)
(* connect and with errors, each of which adds at most one (a timer that   *)
(* finds _isConnected ends its own): with a single call and no error there *)
(* are never two, however often the channel closes, disconnect is called   *)
(* or the token comes and goes.                                            *)
OneLinePerCause == Lines <= connects + errors

(* Until an attempt finds no token or the app calls disconnect, a channel, *)
(* a timer or an attempt remains: nothing else ends the reconnecting.      *)
OfflineOnlyForCause == wanted => Lines # 0

(* While the app wants the connection and there is a token, the client is  *)
(* online again and again: no race of timers, of late callbacks of older   *)
(* channels and of a disconnect before the last connect leaves it waiting  *)
(* for a channel that nobody opens.  Nothing is said of the time after a   *)
(* disconnect.                                                             *)
OnlineAgain ==
    <>[](wanted /\ hasToken) => []<>(latest = "open" \/ older["open"] > 0)
=============================================================================
