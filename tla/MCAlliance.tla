------------------------------ MODULE MCAlliance ------------------------------
(***************************************************************************)
(* What the bot keeps of its alliance, in one run.  Gifts, members, help   *)
(* and rallies share no state, so a behaviour is of one of them, chosen at *)
(* the start, and the others stay as they began.                           *)
(***************************************************************************)
EXTENDS AllianceGift, AllianceMember, AllianceHelp, WarHall

VARIABLE focus

Focuses == {"gifts", "members", "help", "rallies"}

\* The start of a component that is not looked at.
InitAlliance ==
  /\ focus \in Focuses
  /\ GiftInit /\ MemberInit /\ HelpInit /\ HallInit
  /\ focus # "gifts" => box \in [Gifts -> {GIFT_NEW, ABSENT}]
  /\ focus # "members" => alliance = Members
  /\ focus # "help" => ~auto_help /\ waiting = {}

NextAlliance ==
  /\ UNCHANGED focus
  /\ IF focus = "gifts" THEN GiftNext ELSE UNCHANGED giftVars
  /\ IF focus = "members" THEN MemberNext ELSE UNCHANGED memberVars
  /\ IF focus = "help" THEN HelpNext ELSE UNCHANGED helpVars
  /\ IF focus = "rallies" THEN HallNext ELSE UNCHANGED hallVars

allianceVars == <<focus, giftVars, memberVars, helpVars, hallVars>>

\* The bot reads what arrives and its loop turns.
SpecAlliance ==
  /\ InitAlliance /\ [][NextAlliance]_allianceVars
  /\ WF_giftVars(focus = "gifts" /\ GiftPacket)
  /\ WF_giftVars(focus = "gifts" /\ AllianceGiftTick)

\* AllianceGiftTick: once READY, it opens what a whole list shows as new.
ReadyOpensLive == focus = "gifts" => ReadyOpens
===============================================================================
