------------------------------- MODULE Genome -------------------------------
(***************************************************************************)
(* Strategy DNA: what the factory, crossover and mutation make of it         *)
(* (strategies/factory.py, evolution/crossover.py, mutation.py), the gate a   *)
(* candidate passes before it is born (evolution/breeding.py), and which      *)
(* features a signal of it reads (strategies/engine.py, families.py).         *)
(*                                                                         *)
(* A feature key is a stem and a period; the features of the market context   *)
(* have period 0, or are named like an indicator of a fixed period. A rule    *)
(* set is the keys its conditions compare: operators, thresholds, fractions   *)
(* and the other scalars no property tells apart are left out. A version      *)
(* joins the population when it is born and leaves with its generation,       *)
(* which is ResearchCycle's.                                                 *)
(***************************************************************************)
EXTENDS Integers, FiniteSets, Sequences

CONSTANTS
  Family,        \* the families the population is made of
  Period,        \* the periods an indicator can have
  Leverage,      \* the leverages a risk profile can have
  Legacy,        \* DNA stored before the gate refused dead switches
  MaxAlive,      \* versions at a time (model bound)
  MaxTries       \* max_validation_attempts

ASSUME GenomeAssumption ==
  /\ Family \subseteq {"momentum", "trend_following", "breakout", "mean_reversion", "volatility",
                       "market_structure", "vwap", "scalping", "order_flow", "hybrid"}
  /\ Period \subseteq Nat \ {0} /\ Leverage \subseteq Nat \ {0} /\ Leverage # {}
  /\ MaxAlive \in Nat /\ MaxTries \in Nat

VARIABLES
  alive,         \* the DNA of the versions that trade
  cand,          \* the candidate being bred, or no one
  tries          \* mutations the gate has asked for

genomeVars == <<alive, cand, tries>>

-----------------------------------------------------------------------------
(* Indicators and the feature keys they produce. *)

Static(stem) == <<stem, 0>>
Context ==
  {Static(s) : s \in {"close", "regime", "regime_confidence", "funding_rate", "open_interest",
     "ema_fast", "ema_slow", "sma_fast", "sma_slow", "ema_slope", "trend_strength",
     "macd", "macd_signal", "macd_hist", "realized_vol", "volatility_percentile",
     "bb_upper", "bb_middle", "bb_lower", "bb_width", "swing_high", "swing_low",
     "break_of_structure", "higher_high", "lower_high", "higher_low", "lower_low",
     "nearest_support", "nearest_resistance", "volume_ratio", "volume_spike", "vwap",
     "body", "wick_ratio", "candle_range", "gap", "is_momentum_candle"}}
  \cup {<<"rsi", 14>>, <<"roc", 10>>, <<"atr", 14>>, <<"volume_sma", 20>>}

Ind(name, period) == [name |-> name, period |-> period]

Stems(name) ==
  CASE name = "atr"      -> {"atr", "atr_pct"}
    [] name = "bbands"   -> {"bb_upper", "bb_middle", "bb_lower", "bb_width", "bb_pct_b"}
    [] name = "donchian" -> {"donchian_high", "donchian_low"}
    [] name = "stoch"    -> {"stoch_k"}
    [] name = "vwap"     -> {"vwap", "vwap_dev"}
    [] name = "adx"      -> {"adx", "plus_di", "minus_di"}
    [] name = "swing"    -> {"swing_high", "swing_low"}
    [] OTHER             -> {name}

\* A VWAP of period 0 is the session's.
Keys(ind) ==
  IF ind = Ind("vwap", 0) THEN {Static("vwap_session"), Static("vwap_dev_session")}
  ELSE Stems(ind.name) \X {ind.period}

OwnKeys(dna) == UNION {Keys(dna.inds[i]) : i \in DOMAIN dna.inds}
PopulationKeys == UNION {OwnKeys(d) : d \in alive}

Rules(dna) == dna.entry \cup dna.exit \cup dna.short \cup dna.shortExit

-----------------------------------------------------------------------------
(* The factory. *)

Rule(inds, mode, entry, exit, short, shortExit) ==
  [inds |-> inds, mode |-> mode, entry |-> entry, exit |-> exit, short |-> short, shortExit |-> shortExit]
Mirrored(inds, entry, exit) == Rule(inds, "both", entry, exit, entry, exit)

Volume == Ind("volume_ratio", 20)
Close == Static("close")
Of(choices) == choices \cap Period

\* The families' builders, of the periods they draw.
Momentum(p, r) == Mirrored(<<Ind("rsi", p), Ind("roc", r)>>, {<<"rsi", p>>, <<"roc", r>>}, {<<"rsi", p>>})
TrendFollowing(f, s, a) ==
  Mirrored(<<Ind("ema", f), Ind("ema", s), Ind("adx", a)>>,
           {<<"ema", f>>, <<"ema", s>>, <<"adx", a>>}, {<<"ema", f>>, <<"ema", s>>})
Breakout(n) ==
  LET m == n \div 2
  IN Rule(<<Ind("donchian", n), Volume, Ind("ema", m)>>, "both",
          {Close, <<"donchian_high", n>>, <<"volume_ratio", 20>>}, {Close, <<"ema", m>>},
          {Close, <<"donchian_low", n>>, <<"volume_ratio", 20>>}, {Close, <<"ema", m>>})
MeanReversion(p, r) ==
  Mirrored(<<Ind("bbands", p), Ind("rsi", r)>>, {<<"bb_pct_b", p>>, <<"rsi", r>>}, {Close, <<"bb_middle", p>>})
Volatility(p) ==
  Rule(<<Ind("bbands", p), Ind("atr", p), Volume>>, "auto",
       {<<"bb_width", p>>, <<"volume_ratio", 20>>, Static("volatility_percentile")}, {<<"bb_width", p>>}, {}, {})
MarketStructure(n) ==
  Rule(<<Ind("swing", n), Ind("atr", 14)>>, "both",
       {Static("higher_high"), Static("higher_low")}, {Static("lower_high")},
       {Static("lower_high"), Static("lower_low")}, {Static("higher_low")})
Vwap(p) == Mirrored(<<Ind("vwap", p)>>, {<<"vwap_dev", p>>}, {<<"vwap_dev", p>>})
SessionVwap ==
  Mirrored(<<Ind("vwap", 0)>>, {Static("vwap_dev_session")}, {Static("vwap_dev_session")})
Scalping(e, r) ==
  Mirrored(<<Ind("ema", e), Ind("roc", r), Ind("rsi", 7)>>,
           {<<"roc", r>>, Close, <<"ema", e>>, Static("is_momentum_candle")}, {<<"rsi", 7>>, Close, <<"ema", e>>})
OrderFlow(p) ==
  Mirrored(<<Ind("flow_imbalance", p), Volume>>, {<<"flow_imbalance", p>>, <<"volume_ratio", 20>>},
           {<<"flow_imbalance", p>>})
Hybrid(e, r) ==
  Mirrored(<<Ind("ema", e), Ind("rsi", r), Ind("atr", 14)>>,
           {Close, <<"ema", e>>, <<"rsi", r>>, Static("macd_hist")}, {<<"rsi", r>>})

Shapes(family) ==
  CASE family = "momentum" -> {Momentum(p, r) : p \in Of({7, 10, 14, 21}), r \in Of({5, 10, 20})}
    [] family = "trend_following" ->
         {TrendFollowing(f, s, a) : f \in Of({8, 12, 20}), s \in Of({34, 50, 100}), a \in Of({14, 20})}
    [] family = "breakout" -> {Breakout(n) : n \in Of({20, 30, 50})}
    [] family = "mean_reversion" -> {MeanReversion(p, r) : p \in Of({14, 20, 30}), r \in Of({7, 14})}
    [] family = "volatility" -> {Volatility(p) : p \in Of({14, 20})}
    [] family = "market_structure" -> {MarketStructure(n) : n \in Of({10, 20, 40})}
    [] family = "vwap" -> {Vwap(p) : p \in Of({60, 120})} \cup {SessionVwap}
    [] family = "scalping" -> {Scalping(e, r) : e \in Of({5, 9, 13}), r \in Of({3, 5})}
    [] family = "order_flow" -> {OrderFlow(p) : p \in Of({5, 10, 20})}
    [] family = "hybrid" -> {Hybrid(e, r) : e \in Of({34, 50, 100}), r \in Of({10, 14, 21})}

\* `cap` is risk_profile.max_leverage, `limit` leverage_limit; `reward` a target measured in
\* risk, `dead` a trailing stop that is enabled without a distance.
Dna(family, rule, cap, limit, stop, reward, dead) ==
  [family |-> family, inds |-> rule.inds, mode |-> rule.mode, entry |-> rule.entry, exit |-> rule.exit,
   short |-> rule.short, shortExit |-> rule.shortExit,
   cap |-> cap, limit |-> limit, stop |-> stop, reward |-> reward, dead |-> dead]

Least(x, y) == IF x <= y THEN x ELSE y

\* What the schema's fields are.
Fields == {"family", "inds", "mode", "entry", "exit", "short", "shortExit",
           "cap", "limit", "stop", "reward", "dead"}
Formed(dna) ==
  /\ DOMAIN dna = Fields /\ dna.cap \in Nat /\ dna.limit \in Nat
  /\ \A i \in DOMAIN dna.inds : /\ dna.inds[i] = Ind(dna.inds[i].name, dna.inds[i].period)
                                /\ dna.inds[i].period \in Nat

\* The limit is drawn, and clamped to the cap.
Founder(family, shape, cap, drawn) == Dna(family, shape, cap, Least(drawn, cap), TRUE, TRUE, FALSE)
Founders ==
  UNION {{Founder(f, r, cap, drawn) : r \in Shapes(f), cap \in Leverage, drawn \in Leverage} : f \in Family}

-----------------------------------------------------------------------------
(* The schema and the gate. *)

\* What model_validate refuses.
Valid(dna) ==
  /\ dna.inds # <<>> /\ \A i, j \in DOMAIN dna.inds : dna.inds[i] = dna.inds[j] => i = j
  /\ dna.entry # {} /\ dna.exit # {}
  /\ dna.limit <= dna.cap
  /\ dna.mode = "both" => dna.short # {}

Bound(dna) == Rules(dna) \subseteq Context \cup OwnKeys(dna)

\* behavioural_problems: switches that do nothing.
Problem(dna) ==
  \/ dna.dead
  \/ dna.shortExit # {} /\ dna.mode # "both"
  \/ dna.reward /\ ~dna.stop

Gate(dna) == Valid(dna) /\ Bound(dna) /\ ~Problem(dna)

\* What is stored is validated when it is read, and every path that ever stored DNA looked for
\* orphaned rules; the switches came later.
ASSUME LegacyAssumption == \A dna \in Legacy : Formed(dna) /\ Valid(dna) /\ Bound(dna)

-----------------------------------------------------------------------------
(* Crossover and mutation. *)

\* Family, rules and indicators come from one parent, the rest from either.
Crossings(a, b) ==
  {[base EXCEPT !.cap = cap, !.limit = Least(cap, limit), !.stop = stop, !.reward = reward, !.dead = dead]
     : base \in {a, b}, cap \in {a.cap, b.cap}, limit \in {a.limit, b.limit},
       stop \in {a.stop, b.stop}, reward \in {a.reward, b.reward}, dead \in {a.dead, b.dead}}

\* round(old * uniform(0.7, 1.4)), kept between 2 and 200.
Drifts(p) == {q \in Period : q # p /\ 2 <= q /\ q <= 200 /\ 7 * p <= 10 * q + 5 /\ 10 * q <= 14 * p + 5}

\* Every rule that read the old key reads the new one.
Renamed(keys, ind, q) == {IF k \in Keys(ind) THEN <<k[1], q>> ELSE k : k \in keys}

Repaced_LongOnly(dna, i, q) ==
  LET ind == dna.inds[i] IN
  IF \E j \in DOMAIN dna.inds : dna.inds[j] = Ind(ind.name, q) THEN dna
  ELSE [dna EXCEPT !.inds[i] = Ind(ind.name, q),
                   !.entry = Renamed(@, ind, q), !.exit = Renamed(@, ind, q)]
\* A period that makes two declared indicators the same is refused.
Repaced(dna, i, q) ==
  LET ind == dna.inds[i] IN
  IF \E j \in DOMAIN dna.inds : dna.inds[j] = Ind(ind.name, q) THEN dna
  ELSE [dna EXCEPT !.inds[i] = Ind(ind.name, q),
                   !.entry = Renamed(@, ind, q), !.exit = Renamed(@, ind, q),
                   !.short = Renamed(@, ind, q), !.shortExit = Renamed(@, ind, q)]

\* The limit follows the cap down.
Recapped(dna, cap) == [dna EXCEPT !.cap = cap, !.limit = Least(@, cap)]

\* At most one indicator's period changes.
Repacings(dna) ==
  UNION {{Repaced(dna, i, q) : q \in Drifts(dna.inds[i].period)}
           : i \in {j \in DOMAIN dna.inds : dna.inds[j].period > 0}}
Mutations(dna) ==
  {Recapped(d, cap) : d \in {dna} \cup Repacings(dna), cap \in {dna.cap} \cup Leverage}

-----------------------------------------------------------------------------
(* Breeding. *)

None == [family |-> "none"]

GenomeInit ==
  /\ \E first \in SUBSET (Founders \cup Legacy) :
       /\ first # {} /\ Cardinality(first) <= MaxAlive
       /\ alive = first
  /\ cand = None /\ tries = 0

Conceive ==
  /\ cand = None /\ Cardinality(alive) < MaxAlive
  /\ \E a, b \in alive : \E child \in Crossings(a, b) : cand' \in Mutations(child)
  /\ tries' = 0
  /\ UNCHANGED alive

\* The population is too uniform: one more mutation, at last a fresh founder.
Diversify ==
  /\ cand # None /\ tries = 0
  /\ cand' \in Mutations(cand) \cup Founders
  /\ UNCHANGED <<alive, tries>>

Accept ==
  /\ cand # None /\ Gate(cand)
  /\ alive' = alive \cup {cand}
  /\ cand' = None /\ tries' = 0

\* The schema, or the in-sample backtest, refuses it.
Retry ==
  /\ cand # None /\ tries < MaxTries
  /\ cand' \in Mutations(cand)
  /\ tries' = tries + 1
  /\ UNCHANGED alive

\* The lineage is given up: a founder in its place, if one passes.
Replace ==
  /\ cand # None /\ tries = MaxTries
  /\ \/ \E f \in Founders : Gate(f) /\ alive' = alive \cup {f}
     \/ UNCHANGED alive
  /\ cand' = None /\ tries' = 0

\* Its generation is over and it is not carried.
Leave ==
  /\ cand = None
  /\ \E d \in alive : alive # {d} /\ alive' = alive \ {d}
  /\ UNCHANGED <<cand, tries>>

GenomeNext == Conceive \/ Diversify \/ Accept \/ Retry \/ Replace \/ Leave

GenomeSpec == GenomeInit /\ [][GenomeNext]_genomeVars

-----------------------------------------------------------------------------
(* What a signal reads of the features at hand. *)

\* Keys are sorted as text: "roc_10" before "roc_20" before "roc_5".
Text(n) == IF n < 10 THEN 100 * n ELSE IF n < 100 THEN 10 * n ELSE n
Before(m, n) == Text(m) < Text(n) \/ (Text(m) = Text(n) /\ m <= n)

\* _find: the first feature whose key starts with the stem.
Find(stem, at) ==
  {k \in at : k[1] = stem /\ k[2] > 0
              /\ \A l \in at : l[1] = stem /\ l[2] > 0 => Before(k[2], l[2])}
FindOr(stem, at, others) == IF Find(stem, at) # {} THEN Find(stem, at) ELSE others

Trend == {Static("trend_strength")}
Swings == {Static("higher_high"), Static("higher_low"), Static("lower_high"), Static("lower_low")}
Body == Static("body")

DirectionReads_Adx(family, at) == FindOr("adx", at, Trend)
\* The keys a family's direction may look at.
DirectionReads(family, at) ==
  CASE family = "momentum" -> FindOr("roc", at, {<<"roc", 10>>}) \cup {Static("macd_hist")}
    [] family = "trend_following" -> Trend
    [] family = "breakout" -> {Close} \cup Trend \cup FindOr("donchian_high", at, {Static("swing_high")})
                              \cup FindOr("donchian_low", at, {Static("swing_low")})
    [] family = "mean_reversion" ->
         FindOr("zscore", at, {Static("bb_upper"), Static("bb_lower"), Close, <<"rsi", 14>>})
    [] family = "volatility" -> {Body} \cup Trend
    [] family = "market_structure" -> Swings \cup Trend \cup {Static("break_of_structure"), Close, Static("bb_middle")}
    [] family = "vwap" -> {Close} \cup Trend
                          \cup (IF Static("vwap_session") \in at THEN {Static("vwap_session")} ELSE {Static("vwap")})
    [] family = "scalping" -> Find("roc", at) \cup {Static("is_momentum_candle"), Body, Static("ema_slope")}
    [] family = "order_flow" -> Find("flow_imbalance", at) \cup {Body, Static("volume_spike")}
    [] family = "hybrid" -> Swings \cup Trend \cup {Static("macd_hist"), <<"roc", 10>>}

\* Whether and which way a flat agent enters, and whether an open position exits: exits
\* of a two-sided DNA look at the opposing entry too. A rule whose key is missing is false.
SignalReads(dna, at) ==
  (Rules(dna) \cap at) \cup (IF dna.mode = "auto" THEN DirectionReads(dna.family, at) ELSE {})

\* In the worker, the indicators of the whole population; in a backtest, the DNA's own.
Live == Context \cup PopulationKeys
Replayed(dna) == Context \cup OwnKeys(dna)

-----------------------------------------------------------------------------
(* Properties. *)

\* No sequence of crossovers and mutations makes a candidate that the schema refuses, which
\* would end the whole rollover (breeding.py:229 catches nothing), or one with a rule over a
\* feature it does not declare (mutation.py:57: "a period change must never orphan a rule").
CandidatesWhole == cand # None => Valid(cand) /\ Bound(cand)

\* A version takes the same entries and exits beside any population as alone in its backtest:
\* no decision reads an indicator of another version (decision_loop.py:518, engine.py:203).
SameTrades == \A d \in alive : SignalReads(d, Live) = SignalReads(d, Replayed(d))
=============================================================================
