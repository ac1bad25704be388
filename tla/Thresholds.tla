----------------------------- MODULE Thresholds -----------------------------
(***************************************************************************)
(* What it takes for a vote to pass (threshold.rs of cw-utils).  Decimals  *)
(* are in thousandths.  A vote of members with a total weight is one of    *)
(* three kinds; validate returns the error of one that is not accepted.    *)
(***************************************************************************)
EXTENDS Integers

AbsoluteCount(weight) == [kind |-> "AbsoluteCount", weight |-> weight]
AbsolutePercentage(percentage) == [kind |-> "AbsolutePercentage", percentage |-> percentage]
ThresholdQuorum(threshold, quorum) ==
    [kind |-> "ThresholdQuorum", threshold |-> threshold, quorum |-> quorum]

percent(n) == 10 * n
permille(n) == n

valid_threshold(share) ==
    IF share > percent(100) \/ share < percent(50) THEN "InvalidThreshold" ELSE "Ok"

valid_quorum(share) ==
    CASE share = 0 -> "ZeroQuorumThreshold"
      [] share > percent(100) -> "UnreachableQuorumThreshold"
      [] OTHER -> "Ok"

validate(threshold, total_weight) ==
    CASE threshold.kind = "AbsoluteCount" ->
           IF threshold.weight = 0 THEN "ZeroWeight"
           ELSE IF threshold.weight > total_weight THEN "UnreachableWeight" ELSE "Ok"
      [] threshold.kind = "AbsolutePercentage" -> valid_threshold(threshold.percentage)
      [] threshold.kind = "ThresholdQuorum" ->
           IF valid_threshold(threshold.threshold) # "Ok" THEN valid_threshold(threshold.threshold)
           ELSE valid_quorum(threshold.quorum)

to_response(threshold, total_weight) ==
    [threshold |-> threshold, total_weight |-> total_weight]

=============================================================================
