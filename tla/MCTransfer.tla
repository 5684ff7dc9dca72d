------------------------------ MODULE MCTransfer ------------------------------
(***************************************************************************)
(* Two instances of ResourceTransfer in one run: the server at its worst,  *)
(* about which only safety is asked, and the live server, which has        *)
(* fairness.  Which one a behaviour is of is chosen at the start.          *)
(***************************************************************************)
EXTENDS MCResourceTransfer

VARIABLE live

Live == INSTANCE ResourceTransfer WITH
          MaxCommands <- 2, ChatArrives <- FALSE, BadNumbers <- FALSE

InitBoth == Init /\ live \in BOOLEAN

NextBoth ==
  /\ UNCHANGED live
  /\ (~live /\ Next) \/ (live /\ Live!Next)

SpecBoth ==
  /\ InitBoth /\ [][NextBoth]_<<vars, live>>
  /\ WF_vars(live /\ Live!ResourceTransferTick)
  /\ WF_vars(live /\ Live!Second)
  /\ WF_vars(live /\ (Live!RecvSHelp \/ Live!RecvSHelpRefused))
  /\ WF_vars(live /\ (Live!RecvHelp_Home \/ Live!RecvHelp_HomeBad))
  /\ WF_vars(live /\ Live!RecvMarchData) /\ WF_vars(live /\ Live!RecvAllBuildData)

\* ResourceTransferTick, WAIT_TARGET: a lookup the server never answers does
\* not block the bank.
LookupEndsLive == live => LookupEnds

\* ResourceTransferTick: with a server that answers orders and brings marches
\* home, the bank is never busy for good.
BusyEndsLive == live => BusyEnds
===============================================================================
