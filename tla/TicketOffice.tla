---------------------------- MODULE TicketOffice ----------------------------
(***************************************************************************)
(* What the event server promises, with nothing of how it keeps it: no     *)
(* files, no passwords, no clock.  Members come, sign in and out and       *)
(* leave; a member announces an event of a fixed number of seats; members  *)
(* who are signed in buy seats while the event is on sale; an event is     *)
(* withdrawn for good, by its owner or because its date has come.          *)
(***************************************************************************)
EXTENDS Integers

CONSTANTS
    Users,      \* who may become a member
    Events,     \* the events that may be announced
    NoOwner     \* in place of the owner of an event not announced yet

VARIABLES
    members,    \* the users with an account
    signedIn,   \* the members with an open session
    owner,      \* who announced each event
    free,       \* the seats left of each event
    onSale      \* the events seats can be bought for

\* The sizes an event may have.
Attendances == 10..999

office == <<members, signedIn, owner, free, onSale>>

Init ==
    /\ members = {}
    /\ signedIn = {}
    /\ owner = [e \in Events |-> NoOwner]
    /\ free = [e \in Events |-> 0]
    /\ onSale = {}

\* A stranger who signs in becomes a member.
SignIn(u) ==
    /\ members' = members \cup {u}
    /\ signedIn' = signedIn \cup {u}
    /\ UNCHANGED <<owner, free, onSale>>

SignOut(u) ==
    /\ u \in signedIn
    /\ signedIn' = signedIn \ {u}
    /\ UNCHANGED <<members, owner, free, onSale>>

\* The events of a member who leaves stay.
Leave(u) ==
    /\ u \in signedIn
    /\ members' = members \ {u}
    /\ signedIn' = signedIn \ {u}
    /\ UNCHANGED <<owner, free, onSale>>

Announce(u, e) ==
    /\ u \in members
    /\ owner[e] = NoOwner
    /\ owner' = [owner EXCEPT ![e] = u]
    /\ \E seats \in Attendances : free' = [free EXCEPT ![e] = seats]
    /\ onSale' = onSale \cup {e}
    /\ UNCHANGED <<members, signedIn>>

Sell(u, e) ==
    /\ u \in signedIn
    /\ e \in onSale
    /\ \E seats \in 1..free[e] : free' = [free EXCEPT ![e] = @ - seats]
    /\ UNCHANGED <<members, signedIn, owner, onSale>>

Withdraw(es) ==
    /\ onSale' = onSale \ es
    /\ UNCHANGED <<members, signedIn, owner, free>>

Next ==
    \/ \E u \in Users : SignIn(u) \/ SignOut(u) \/ Leave(u)
    \/ \E u \in Users, e \in Events : Announce(u, e) \/ Sell(u, e)
    \/ \E es \in SUBSET onSale : Withdraw(es)

Spec == Init /\ [][Next]_office

-----------------------------------------------------------------------------
(* The same office when a request can be cut short: half of a first sign-in, or *)
(* of a departure, is what is left of it.  Seats and events know no halves.     *)

\* A stranger becomes a member without a session.
Join(u) ==
    /\ members' = members \cup {u}
    /\ UNCHANGED <<signedIn, owner, free, onSale>>

\* A member who has signed out leaves.
Resign(u) ==
    /\ u \notin signedIn
    /\ members' = members \ {u}
    /\ UNCHANGED <<signedIn, owner, free, onSale>>

CutShortNext == Next \/ \E u \in Users : Join(u) \/ Resign(u)

\* It may open with members of an earlier day, all of them signed in.
CutShortInit ==
    /\ members \subseteq Users
    /\ signedIn = members
    /\ owner = [e \in Events |-> NoOwner]
    /\ free = [e \in Events |-> 0]
    /\ onSale = {}

CutShortSpec == CutShortInit /\ [][CutShortNext]_office
=============================================================================
