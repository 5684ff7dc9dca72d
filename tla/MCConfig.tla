------------------------------- MODULE MCConfig -------------------------------
(***************************************************************************)
(* Instances of Config for TLC: files of up to MaxLines lines.             *)
(***************************************************************************)
EXTENDS Config

\* Switches with the three kinds of value, lists that fit, do not fit and are
\* wrong, within the slots and behind them, reserves around U32, and the rest.
MCLines ==
  {Put(k, v) : k \in {"protection.enabled", "cargo_ship.auto_trade"},
               v \in {"true", "false", "yes"}}
    \cup {Put("protection.shield_always_on", v) : v \in {"true", "false"}}
    \cup {Put("protection.recall_on_incoming_attack", "true")}
    \cup {Put(PRIORITY, v) : v \in {<<"SHIELD_8H">>, <<"SHIELD_4H", "SHIELD_8H">>,
                                    <<"SHIELD_8H", "SHIELD_4H", "SHIELD_4H">>,
                                    <<"SHIELD_8H", "SHIELD_9H">>,
                                    <<"SHIELD_4H", "SHIELD_4H", "SHIELD_9H">>}}
    \cup {Put(RESERVE, v) : v \in {0, 3, 4}}
    \cup {[type |-> "set", key |-> REST], [type |-> "blank"], [type |-> "bad"]}
===============================================================================
