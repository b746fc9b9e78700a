----------------------------- MODULE TokenWeights -----------------------------
(***************************************************************************)
(* The LookAway objective: how the tokens of one micro-batch are weighted  *)
(* (update_policy in dp_actor.py, lookaway_utils.py).                      *)
(*                                                                         *)
(* Real numbers are brought to integers. A signal (view dependence s,      *)
(* divergence from the teacher jsd, divergence of the two views ddj) is a  *)
(* level from 0 to Top, which keeps the order its saturating formula       *)
(* s = x / (x + knee) keeps; a quantile, which interpolates between two    *)
(* levels, is exact in tenths of a level. Weights are in units of 1/One,   *)
(* and after normalisation a weight is num / den.                          *)
(***************************************************************************)
EXTENDS Integers, FiniteSets, FiniteSetsExt

CONSTANTS
  NRows, NPos,    \* rows of the micro-batch, positions of a response
  Kinds,          \* tokens that may occur, [id, s, jsd, ddj]
  Rated,          \* ids whose selection rate reaches vd_rate_cut
  Template,       \* frozen bigrams, pairs of ids
  Damping,        \* [ids -> Nat]: 1/sqrt(n + 50) of each id, as an integer
  Top,
  Gamma, Lambda,  \* vd_gamma, vd_lambda
  DDQ, JSDQ, DDJQ,  \* quantiles of the three gates, in tenths
  Options         \* sets of the options in use: "targeted", "jsd_gate", "dd_jsd", "freq_decay"

ASSUME SizeAssumption == NRows \in Nat \ {0} /\ NPos \in Nat \ {0} /\ Top \in Nat \ {0}
ASSUME QuantileAssumption == {DDQ, JSDQ, DDJQ} \subseteq 0 .. 10
ASSUME StrengthAssumption == Gamma \in Nat /\ Lambda \in Nat
ASSUME KindsAssumption ==
  \A k \in Kinds : {k.s, k.jsd, k.ddj} \subseteq 0 .. Top /\ Damping[k.id] \in Nat \ {0}

VARIABLES
  options,   \* the configuration
  tok,       \* the token at each position, padding included
  len,       \* length of each row's response
  distil,    \* rows with a positive view: self_distillation_mask
  view,      \* rows with a negative view: vd_neg_view_mask
  weights    \* the result, <<>> before it is there

input == <<options, tok, len, distil, view>>
weightVars == <<input, weights>>

Rows == 1 .. NRows
All == Rows \X (1 .. NPos)
One == 10 * Top

\* response_mask and self_distillation_mask; and, with a negative view, valid_pos
LossMask == {x \in All : x[2] <= len[x[1]] /\ x[1] \in distil}
Valid == {x \in LossMask : x[1] \in view}

MutScopeAll == All
Scope == Valid

\* The level with k of the sorted valid tokens before it.
AtRank(f, k) ==
  Min({l \in 0 .. Top : k < Cardinality({x \in Scope : f[x] <= l})})

\* Tensor.quantile(q) over the valid tokens, by linear interpolation, times
\* ten; 0 when there is none.
Quantile(f, q) ==
  LET at == q * (Cardinality(Scope) - 1)
      low == AtRank(f, at \div 10)
  IN IF Scope = {} THEN 0
     ELSE IF at % 10 = 0 THEN 10 * low
     ELSE 10 * low + (at % 10) * (AtRank(f, at \div 10 + 1) - low)

Exceeds(level, threshold) == 10 * level > threshold

\* rate_ok and tmpl_ok: a bigram counts only with a valid token before, of the
\* same response.
MutRateOnly(t, x) == t[x].id \in Rated
Admissible(t, x) ==
  /\ t[x].id \in Rated
  /\ ~ /\ x[2] > 1
       /\ <<x[1], x[2] - 1>> \in Valid
       /\ <<t[<<x[1], x[2] - 1>>].id, t[x].id>> \in Template

\* The extrapolation of each token: lambda times its margin over the gate it
\* passed. With dd_jsd a second gate admits by the divergence of the views.
Extra(t) ==
  LET theta == Quantile([x \in All |-> t[x].s], DDQ)
      ammo == Quantile([x \in All |-> t[x].jsd], JSDQ)
      thetaJ == Max({Quantile([x \in All |-> t[x].ddj], DDJQ), 1})
      May(x) == /\ x \in Valid /\ Admissible(t, x)
                /\ "jsd_gate" \in options => Exceeds(t[x].jsd, ammo)
      margin(x) == IF Exceeds(t[x].s, theta) THEN 10 * t[x].s - theta ELSE 0
      marginJ(x) == IF "dd_jsd" \in options /\ Exceeds(t[x].ddj, thetaJ)
                    THEN 10 * t[x].ddj - thetaJ ELSE 0
  IN [x \in All |-> IF "targeted" \in options /\ May(x)
                    THEN Lambda * Max({margin(x), marginJ(x)}) ELSE 0]

Sum(f, X) == MapThenSumSet(LAMBDA x : f[x], X)

\* redistribute_by_freq: [ext, unit] with the new extrapolation in units of
\* 1/unit of the old one, since the rescaling divides by a sum.
Rescaled(ext, e, total, unit) == [ext |-> [x \in All |-> e[x] * total], unit |-> unit]

redistribute_by_freq(t, ext) ==
  LET e == [x \in All |-> ext[x] * Damping[t[x].id]]
      total == Sum(ext, Valid)
  IN IF total = 0 THEN [ext |-> [x \in All |-> 0], unit |-> 1]
     ELSE Rescaled(ext, e, total, Sum(e, Valid))

Extrapolation(t) ==
  IF {"targeted", "freq_decay"} \subseteq options
  THEN redistribute_by_freq(t, Extra(t)) ELSE [ext |-> Extra(t), unit |-> 1]

\* w_raw
Raw(t) ==
  LET e == Extrapolation(t)
  IN [x \in All |-> (One + Gamma * 10 * t[x].s) * e.unit + e.ext[x]]

\* normalize_vd_weights: mean 1 over the tokens with a negative view, 1 elsewhere.
MutMeanOverLoss(raw) == [n |-> Cardinality(LossMask), sum |-> Sum(raw, Valid)]
MeanOver(raw) == [n |-> Cardinality(Valid), sum |-> Sum(raw, Valid)]

normalize_vd_weights(raw, unit) ==
  LET mean == MeanOver(raw)
      den == Max({mean.sum, One * unit})
  IN [x \in All |-> IF x \in Valid THEN [num |-> raw[x] * mean.n, den |-> den]
                                   ELSE [num |-> 1, den |-> 1]]

Weights(t) == normalize_vd_weights(Raw(t), Extrapolation(t).unit)

-----------------------------------------------------------------------------
WeightInit ==
  /\ options \in Options
  /\ tok \in [All -> Kinds]
  /\ len \in [Rows -> 0 .. NPos]
  /\ distil \in SUBSET Rows
  /\ view \in SUBSET Rows
  /\ weights = <<>>

Weigh ==
  /\ weights = <<>>
  /\ weights' = Weights(tok)
  /\ UNCHANGED input

WeightNext == Weigh

WeightSpec == WeightInit /\ [][WeightNext]_weightVars

Weighed == weights # <<>>

-----------------------------------------------------------------------------
(***************************************************************************)
(* Properties                                                              *)
(***************************************************************************)

\* The weights move the loss between tokens and do not change its scale: with
\* equal losses the token mean is what it is without weights ("so the existing
\* token-mean aggregation keeps the baseline loss scale", core_algos.py), also
\* when some rows or all have no negative view.
LossScaleKept ==
  Weighed =>
    /\ \A x, y \in Valid : weights[x].den = weights[y].den
    /\ \A x \in Valid : Sum([y \in Valid |-> weights[y].num], Valid)
                          = Cardinality(Valid) * weights[x].den
    /\ \A x \in LossMask \ Valid : weights[x].num = weights[x].den

\* What stands behind the end of a response, or in a row without a view, never
\* changes a weight: padding carries logits of its own, which would move the
\* quantiles and the bigrams.
PaddingIgnored ==
  Weighed => \A k \in Kinds :
    Weights([x \in All |-> IF x \in Valid THEN tok[x] ELSE k]) = weights

\* The pointing ritual gets no extra force: a token of low rate, or one that
\* completes a template, never weighs more than another of the same view
\* dependence.
RitualNotFavoured ==
  Weighed => \A x, y \in Valid :
    tok[x].s = tok[y].s /\ ~ (/\ tok[x].id \in Rated
                              /\ \A z \in Valid : z[1] = x[1] /\ z[2] + 1 = x[2]
                                   => <<tok[z].id, tok[x].id>> \notin Template)
      => weights[x].num <= weights[y].num

\* The dd gate admits fewer tokens than the share above its quantile, and
\* none when there is only one: the excess of weight is never spread over most
\* of the micro-batch, ties included.
AtMostTopShare ==
  Weighed /\ "dd_jsd" \notin options =>
    Cardinality({x \in Valid : Extra(tok)[x] > 0}) * 10
      <= Max({0, (10 - DDQ) * (Cardinality(Valid) - 1) + 9})

\* Frequency decay moves the extrapolation between the tokens that have some,
\* keeps its sum, and favours the rarer of two equal ones.
BudgetKept ==
  LET ext == Extra(tok)
      new == redistribute_by_freq(tok, ext)
  IN Weighed =>
       /\ Sum(new.ext, Valid) = Sum(ext, Valid) * new.unit
       /\ \A x \in All : new.ext[x] > 0 <=> ext[x] > 0
       /\ \A x, y \in All :
            ext[x] = ext[y] /\ Damping[tok[x].id] >= Damping[tok[y].id]
              => new.ext[x] >= new.ext[y]

=============================================================================
