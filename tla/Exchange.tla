------------------------------- MODULE Exchange -------------------------------
(***************************************************************************)
(* What "pending" promises: the bot asks the server for one thing at a     *)
(* time.  It asks when nothing is open, the server answers once, the bot   *)
(* reads the answer, and only an answer ends the wait; some answers do     *)
(* not.  market.buy_pending (BlackMarket) and shield_info.pending          *)
(* (Protection) both implement this, between packets of any other kind.    *)
(***************************************************************************)
EXTENDS Naturals

CONSTANTS
  Answers,    \* kinds of answers
  Frees       \* those that end the wait

VARIABLES
  willing,    \* may the bot ask at all; FALSE for good once it forgets
  pending,    \* the bot takes an answer to be due
  asked,      \* requests on their way
  unread,     \* answers on their way
  outcome     \* the kinds of those answers

vars == <<willing, pending, asked, unread, outcome>>

Init ==
  /\ willing \in BOOLEAN
  /\ pending = FALSE
  /\ asked = 0 /\ unread = 0 /\ outcome = {}

Ask ==
  /\ willing /\ ~pending
  /\ asked = 0 /\ unread = 0
  /\ pending' = TRUE /\ asked' = 1
  /\ UNCHANGED <<willing, unread, outcome>>

Answer ==
  /\ asked = 1 /\ unread = 0
  /\ asked' = 0 /\ unread' = 1
  /\ \E a \in Answers : outcome' = {a}
  /\ UNCHANGED <<willing, pending>>

\* The answer read may be followed by the next request at once.
Read ==
  /\ asked = 0 /\ unread = 1
  /\ unread' = 0 /\ outcome' = {}
  /\ IF outcome \subseteq Frees
       THEN \/ pending' = FALSE /\ asked' = 0
            \/ willing /\ pending' = TRUE /\ asked' = 1
       ELSE UNCHANGED <<pending, asked>>
  /\ UNCHANGED willing

\* The bot forgets what it asked for, and never asks again.
Forget ==
  /\ willing' = FALSE /\ pending' = FALSE
  /\ UNCHANGED <<asked, unread, outcome>>

Next == Ask \/ Answer \/ Read \/ Forget

Spec == Init /\ [][Next]_vars
===============================================================================
