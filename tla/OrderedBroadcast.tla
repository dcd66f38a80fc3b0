-------------------------- MODULE OrderedBroadcast --------------------------
(***************************************************************************)
(* What the chat hub promises to a connected client: values are published  *)
(* in one total order; a subscriber that joins hears every value published *)
(* from then on, in that order, one at a time, until it leaves, and        *)
(* nothing afterwards.  Whether and when it leaves is left open.           *)
(***************************************************************************)
EXTENDS Naturals, Sequences

CONSTANTS Subscriber, Value

VARIABLES
    published,  \* the values in publication order
    member,     \* "outside", "member" or "left", for each subscriber
    start,      \* how many values were published before it joined
    heard       \* the values it has heard

vars == <<published, member, start, heard>>

Init ==
    /\ published = <<>>
    /\ member = [s \in Subscriber |-> "outside"]
    /\ start = [s \in Subscriber |-> 0]
    /\ heard = [s \in Subscriber |-> <<>>]

(* A value is published once. *)
Publish(v) ==
    /\ \A i \in 1..Len(published) : published[i] # v
    /\ published' = Append(published, v)
    /\ UNCHANGED <<member, start, heard>>

Join(s) ==
    /\ member[s] = "outside"
    /\ member' = [member EXCEPT ![s] = "member"]
    /\ start' = [start EXCEPT ![s] = Len(published)]
    /\ UNCHANGED <<published, heard>>

Hear(s) ==
    /\ member[s] = "member"
    /\ start[s] + Len(heard[s]) < Len(published)
    /\ heard' = [heard EXCEPT ![s] = Append(@, published[start[s] + Len(@) + 1])]
    /\ UNCHANGED <<published, member, start>>

Leave(s) ==
    /\ member[s] = "member"
    /\ member' = [member EXCEPT ![s] = "left"]
    /\ UNCHANGED <<published, start, heard>>

Next ==
    \/ \E v \in Value : Publish(v)
    \/ \E s \in Subscriber : Join(s) \/ Hear(s) \/ Leave(s)

Spec == Init /\ [][Next]_vars
=============================================================================
