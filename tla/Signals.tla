------------------------------ MODULE Signals ------------------------------
(***************************************************************************)
(* What a strategy sees in the latest bar of a symbol and what it makes of *)
(* it: the regime that routes the symbol to one strategy, the setup of each*)
(* strategy, the sentiment gate, and the exit a strategy signals for a     *)
(* position of its own.  A direction is 1 (long, above, bullish) or -1     *)
(* (short, below, bearish); 0 is neither.                                  *)
(***************************************************************************)
EXTENDS Integers

CONSTANT
  AlignTrend   \* mean_reversion's require_trend_alignment

Dirs == {1, -1}
Way  == Dirs \cup {0}

Strategies == {"trend_following", "mean_reversion", "breakout"}

\* A bar by the comparisons the code makes on it.
View ==
  [ready     : BOOLEAN,                        \* no indicator is missing
   adx       : {"ranging", "dead", "trending"},
   broke     : Way,                            \* the close beyond the prior range
   rising    : BOOLEAN,                        \* ATR since atr_slope_lookback bars
   risen     : BOOLEAN,                        \* ATR since the previous bar
   ema20     : Dirs,                           \* the close against the EMA
   ema50     : Way,
   ema200    : Dirs,
   rsi       : SUBSET Dirs,                    \* the bands it is in
   pullback  : BOOLEAN,                        \* near the EMA20 on one of the last bars
   stretched : SUBSET Dirs,                    \* beyond a band with an RSI extreme, likewise
   mid       : Way,                            \* the close against the middle band
   candle    : Way,                            \* the confirmation candle it is
   volume    : {"below", "above", "spike"}]

(***************************************************************************)
(* Regime                                                                  *)
(***************************************************************************)
Regime(v) ==
  CASE ~v.ready                 -> "none"
    [] v.ready /\ v.rising /\ v.broke # 0 -> "expansion"
    [] OTHER                    -> v.adx

\* The configured routing; in the dead zone nothing is traded.
Routed(v) ==
  CASE Regime(v) = "trending"  -> {"trend_following"}
    [] Regime(v) = "ranging"   -> {"mean_reversion"}
    [] Regime(v) = "expansion" -> {"breakout"}
    [] OTHER                   -> {}

(***************************************************************************)
(* Setups                                                                  *)
(***************************************************************************)
\* Mutant of TrendSetup: the bias is taken from the long average only.
TrendSetupLoose(v, d) ==
  /\ v.volume # "below"
  /\ v.ema200 = d
  /\ d \in v.rsi
  /\ v.pullback /\ v.candle = d /\ v.ema20 = d

TrendSetup(v, d) ==
  /\ v.volume # "below"
  /\ v.ema50 = d /\ v.ema200 = d
  /\ d \in v.rsi
  /\ v.pullback /\ v.candle = d /\ v.ema20 = d

ReversionSetup(v, d) ==
  /\ d \in v.stretched
  /\ AlignTrend => v.ema200 = d
  /\ v.candle = d

BreakoutSetup(v, d) ==
  /\ v.volume = "spike" /\ v.risen
  /\ v.broke = d
  /\ v.candle = d

Setup(strategy, v, d) ==
  CASE strategy = "trend_following" -> TrendSetup(v, d)
    [] strategy = "mean_reversion"  -> ReversionSetup(v, d)
    [] strategy = "breakout"        -> BreakoutSetup(v, d)

\* The gate shrinks or blocks: a score against the side blocks it, and a feed
\* that fails (no score) lets it pass.
GatePasses(d, score) == d * score >= 0

(***************************************************************************)
(* Exits.  A breakout only leaves by its ratchet.                          *)
(***************************************************************************)
ShouldExit(strategy, v, d) ==
  CASE strategy = "trend_following" -> v.ready /\ v.ema50 = -d
    [] strategy = "mean_reversion"  -> v.ready /\ d * v.mid >= 0
    [] strategy = "breakout"        -> FALSE

(***************************************************************************)
(* What a bar may lead to, over every view.                                *)
(***************************************************************************)
Enters(strategy, v, d) ==
  /\ v.ready
  /\ strategy \in Routed(v)
  /\ Setup(strategy, v, d)
  /\ \E score \in Way : GatePasses(d, score)

\* spent: the strategy would already leave on the bar it enters on.
Entries ==
  UNION {{[strategy |-> st, dir |-> d, spent |-> ShouldExit(st, v, d)] :
            v \in {v \in View : Enters(st, v, d)}} : st \in Strategies, d \in Dirs}

Exits ==
  UNION {{<<st, d>> : v \in {v \in View : ShouldExit(st, v, d)}} : st \in Strategies, d \in Dirs}
=============================================================================
