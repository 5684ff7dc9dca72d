------------------------------- MODULE MCShield -------------------------------
(***************************************************************************)
(* Two instances of Protection in one run: the server at its worst, about  *)
(* which only safety is asked, and the live server, which has fairness and *)
(* sells shields that do not run out.  Which one a behaviour is of is      *)
(* chosen at the start.                                                    *)
(***************************************************************************)
EXTENDS MCProtection

VARIABLE live

MCAllSettings == MCSettings \cup MCAlerts

Live == INSTANCE Protection WITH
          Settings <- MCAlerts, Duration <- MCForever, MaxBag <- 2,
          Until <- MCNone, MaxNow <- 1, RefusesAtWill <- FALSE

InitBoth ==
  (live = FALSE /\ Init /\ protection \in MCSettings) \/ (live = TRUE /\ Live!Init)

NextBoth ==
  /\ UNCHANGED live
  /\ (~live /\ Next) \/ (live /\ Live!Next)

SpecBoth ==
  /\ InitBoth /\ [][NextBoth]_<<vars, live>>
  /\ WF_vars(live /\ Live!RecvPacket)
  /\ WF_vars(live /\ (Live!Serve \/ Live!Refuse))

\* RecvUseItem: a request to use a shield is answered, and the answer frees the
\* bot for the next one ("pending").
PendingEndsLive == live => PendingEnds

\* WhenEnemyArmyApproachingTurf: an attack reported to a bot that knows of a shield
\* gets one.
KnownAttackShieldedLive == live => KnownAttackShielded
===============================================================================
