------------------------------- MODULE MCMarket -------------------------------
(***************************************************************************)
(* Two instances of BlackMarket in one run: the server at its worst, about *)
(* which only safety is asked, and the live server, which has fairness.    *)
(* Which one a behaviour is of is chosen at the start.                     *)
(***************************************************************************)
EXTENDS MCBlackMarket

VARIABLE live

Live == INSTANCE BlackMarket WITH
          Spend <- {Food, Wood}, Stock <- MCOneEach,
          MaxStock <- 1, MaxRefresh <- 0, ChatArrives <- FALSE,
          RefusesAtWill <- FALSE

InitBoth == (live = FALSE /\ Init) \/ (live = TRUE /\ Live!Init)

NextBoth ==
  /\ UNCHANGED live
  /\ (~live /\ Next) \/ (live /\ Live!Next)

SpecBoth ==
  /\ InitBoth /\ [][NextBoth]_<<vars, live>>
  /\ WF_vars(live /\ Live!RecvPacket) /\ WF_vars(live /\ Live!BlackMarketTick)
  /\ WF_vars(live /\ Live!Serve)
  /\ WF_vars(live /\ Live!PushData) /\ WF_vars(live /\ Live!PushResources)

\* configuration.md: "Automatically completes Cargo Ship trades."  A slot that
\* may be bought, and can be without touching the reserve, does not stay on
\* offer for good.
TradesDoneLive == live => Live!TradesDone
===============================================================================
