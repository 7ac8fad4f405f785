----------------------------- MODULE MCBotFleet -----------------------------
(* Small instances of the bot fleet for TLC.                               *)
EXTENDS BotFleet

CONSTANT f1  \* a fleet

MixOf(makers, noise, fix) ==
  [NoMix EXCEPT !["MarketMaker"] = makers, !["NoiseTrader"] = noise, !["FIXNoise"] = fix]

\* Two bots over HTTP; a market maker and a FIX bot; a count so small that the
\* default mix has no bot at all.
SmallRequests ==
  {[BotCount |-> 2, TargetTPS |-> 1, Mix |-> MixOf(1, 1, 0), FIX |-> FALSE],
   [BotCount |-> 2, TargetTPS |-> 0, Mix |-> MixOf(1, 0, 1), FIX |-> TRUE],
   [BotCount |-> 3, TargetTPS |-> 2, Mix |-> NoMix, FIX |-> TRUE]}
=============================================================================
