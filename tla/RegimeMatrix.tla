---------------------------- MODULE RegimeMatrix ----------------------------
(***************************************************************************)
(* The strategy x regime matrix: the episode each analysed trade belongs to  *)
(* (analytics_store.py, first phase), the cells (second phase), and what a     *)
(* cell may claim (analytics/strategy_regime.py).                           *)
(*                                                                         *)
(* Time is counted in bars of the regime series.  The numbers of a cell, its   *)
(* posterior and its bootstrap interval, are taken at their most favourable:    *)
(* a state or an edge is what the gates let them be.                        *)
(***************************************************************************)
EXTENDS Integers, FiniteSets, Sequences

CONSTANTS Family, Regimen,  \* StrategyFamily, MarketRegime
          Unattributed,     \* "UNKNOWN": the entry order has no decision
          MinEpisodes,      \* MIN_EPISODES
          Windows,          \* the rolling windows, in bars; 0 is "full"
          MaxBars, MaxTrades   \* model bounds

ASSUME MatrixAssumption ==
  /\ Unattributed \notin Family
  /\ MinEpisodes \in Nat \ {0} /\ MaxBars \in Nat /\ MaxTrades \in Nat
  /\ Windows \subseteq Nat /\ 0 \in Windows

VARIABLES
  series,    \* market_regimes of the bars, in order
  closed,    \* the Trade rows, in order
  analysed,  \* the TradeAnalytics rows: trade |-> episode, 0 when there is none
  matrix     \* the StrategyRegimeMatrix rows

matrixVars == <<series, closed, analysed, matrix>>

MatrixInit == series = <<>> /\ closed = <<>> /\ analysed = <<>> /\ matrix = {}

BarClassified ==
  /\ Len(series) < MaxBars
  /\ \E r \in Regimen : series' = Append(series, r)
  /\ UNCHANGED <<closed, analysed, matrix>>

\* The regime of the trade is the one of the bar it was decided on.
TradeCloses ==
  /\ Len(closed) < MaxTrades /\ series # <<>>
  /\ \E f \in Family \cup {Unattributed}, b \in DOMAIN series :
       closed' = Append(closed, [family |-> f, bar |-> b, regime |-> series[b], at |-> Len(series)])
  /\ UNCHANGED <<series, analysed, matrix>>

-----------------------------------------------------------------------------
(* refresh_trade_analytics: the episode of the trade. *)

\* A maximal run of one regime; runs are numbered from 1.
EpisodeOf_PerBar(b) == b
EpisodeOf(b) == Cardinality({k \in 1..b : k = 1 \/ series[k] # series[k - 1]})

RefreshTrades ==
  /\ analysed' = [i \in DOMAIN closed |-> EpisodeOf(closed[i].bar)]
  /\ UNCHANGED <<series, closed, matrix>>

-----------------------------------------------------------------------------
(* refresh_strategy_regime_matrix. *)

\* A trade that closed after the first phase has no row yet, and is left out.
InWindow(w) ==
  {i \in DOMAIN analysed : w = 0 \/ closed[i].at > closed[Len(closed)].at - w}

Episodes(trades) == {analysed[i] : i \in trades} \ {0}

\* An interval takes two episodes, and a verdict MIN_EPISODES.
Bootstrapped(trades) == Cardinality(Episodes(trades)) >= 2
UnderSampled(trades) == Cardinality(Episodes(trades)) < MinEpisodes \/ ~Bootstrapped(trades)

EvidenceState(trades) ==
  IF trades = {} THEN "UNTESTED"
  ELSE IF Cardinality(Episodes(trades)) >= MinEpisodes THEN "TESTED" ELSE "PROVISIONAL"

Cell(w, family, regime, trades) ==
  [window |-> w, family |-> family, regime |-> regime, trades |-> trades,
   state |-> EvidenceState(trades), edge |-> trades # {} /\ ~UnderSampled(trades)]

CellTrades(w, family, regime) ==
  {i \in InWindow(w) : closed[i].family = family /\ closed[i].regime = regime}

\* One cell per window, family and regime with a trade; and, for a family without any,
\* one per regime.  The rows of before are deleted in the same transaction.
RebuildMatrix ==
  /\ matrix' = {c \in {Cell(w, f, r, CellTrades(w, f, r)) :
                         w \in Windows, f \in Family \cup {Unattributed}, r \in Regimen} :
                  \/ c.trades # {}
                  \/ c.family \in Family /\ \A r \in Regimen : CellTrades(c.window, c.family, r) = {}}
  /\ UNCHANGED <<series, closed, analysed>>

MatrixNext == BarClassified \/ TradeCloses \/ RefreshTrades \/ RebuildMatrix
MatrixSpec == MatrixInit /\ [][MatrixNext]_matrixVars

-----------------------------------------------------------------------------
(* Properties. *)

\* A cell that is TESTED, or claims an edge, rests on MIN_EPISODES of its trades that are
\* independent: decided in the cell's own regime, with a bar of another regime between any
\* two of them (strategy_regime.py:5).  It is said of the trades and the market, whatever
\* episode numbers the refreshes gave them, and when.
EvidenceIndependent ==
  \A c \in matrix : (c.state = "TESTED" \/ c.edge) =>
    \E independent \in SUBSET c.trades :
      /\ Cardinality(independent) >= MinEpisodes
      /\ \A i \in independent : series[closed[i].bar] = c.regime
      /\ \A i, j \in independent : closed[i].bar < closed[j].bar =>
           \E k \in closed[i].bar..closed[j].bar : series[k] # c.regime
      /\ \A i, j \in independent : i # j => closed[i].bar # closed[j].bar
=============================================================================
