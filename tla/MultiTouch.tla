----------------------------- MODULE MultiTouch -----------------------------
(***************************************************************************)
(* What the touch node promises Android: a set of contacts, each put down  *)
(* and lifted by the one client being served, a button that is down exactly*)
(* while some contact is, and no contact at all while nobody is served.    *)
(***************************************************************************)
CONSTANT Slots

VARIABLES served, contacts, button

touchVars == <<served, contacts, button>>

TouchInit == served = FALSE /\ contacts = {} /\ button = FALSE

SetContacts(C) == contacts' = C /\ button' = (C # {})

Serve == ~served /\ served' = TRUE /\ UNCHANGED <<contacts, button>>

Press(s) == served /\ SetContacts(contacts \cup {s}) /\ UNCHANGED served

Lift(s) == served /\ SetContacts(contacts \ {s}) /\ UNCHANGED served

Leave == served /\ served' = FALSE /\ SetContacts({})

TouchNext == \/ Serve
             \/ \E s \in Slots : Press(s) \/ Lift(s)
             \/ Leave

TouchSpec == TouchInit /\ [][TouchNext]_touchVars
=============================================================================
