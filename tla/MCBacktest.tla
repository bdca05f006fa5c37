----------------------------- MODULE MCBacktest -----------------------------
\* Instances of Backtest for TLC: the ratchets of config/risk_limits.yaml.
EXTENDS Backtest

Configured ==
  [st \in Strategies |->
     CASE st = "trend_following" ->
            [kind |-> "percent", initial |-> 10, trigger |-> 20, lock |-> 10, step |-> 20, target |-> None]
       [] st = "mean_reversion" ->
            [kind |-> "percent", initial |-> 2, trigger |-> None, lock |-> None, step |-> 0, target |-> 2]
       [] st = "breakout" ->
            [kind |-> "atr", initial |-> 200, trail |-> 150, target |-> None]]
=============================================================================
