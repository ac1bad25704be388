----------------------------- MODULE Durations ------------------------------
(***************************************************************************)
(* Durations of the cw-utils package, added to the points in time at which *)
(* something expires or is scheduled (expiration.rs, scheduled.rs).  A     *)
(* duration in blocks and one in seconds do not mix.  A Scheduled is an    *)
(* Expiration that is not Never; times are in seconds.                     *)
(***************************************************************************)
EXTENDS Expiration, Outcomes

Height(blocks) == [kind |-> "Height", by |-> blocks]
Time(seconds) == [kind |-> "Time", by |-> seconds]

HOUR == Time(60 * 60)
DAY == Time(24 * 60 * 60)
WEEK == Time(7 * 24 * 60 * 60)

\* The duration moves the point in time.
Moves(d, e) == <<d.kind, e.kind>> \in {<<"Height", "AtHeight">>, <<"Time", "AtTime">>}

plus(e, d) ==
    CASE e.kind = "Never" -> e
      [] Moves(d, e) -> [e EXCEPT !.at = @ + d.by]
      [] OTHER -> Failed

schedule_plus(s, d) == IF Moves(d, s) THEN [s EXCEPT !.at = @ + d.by] ELSE Failed

cmp(m, n) == IF m < n THEN "Less" ELSE IF m = n THEN "Equal" ELSE "Greater"

\* Never is after everything; a height and a time do not compare.
partial_cmp(e, f) ==
    CASE e.kind = f.kind -> cmp(e.at, f.at)
      [] e.kind = "Never" /\ f.kind # "Never" -> "Greater"
      [] e.kind # "Never" /\ f.kind = "Never" -> "Less"
      [] OTHER -> None

schedule_partial_cmp(s, t) == IF s.kind = t.kind THEN cmp(s.at, t.at) ELSE None

is_triggered(s, blk) ==
    \/ s.kind = "AtHeight" /\ blk.height >= s.at
    \/ s.kind = "AtTime" /\ blk.time >= s.at

after(d, blk) ==
    IF d.kind = "Height" THEN AtHeight(blk.height + d.by) ELSE AtTime(blk.time + d.by)

plus_one(d) == [d EXCEPT !.by = @ + 1]

duration_plus(d, rhs) == IF d.kind = rhs.kind THEN [d EXCEPT !.by = @ + rhs.by] ELSE Failed

times(d, factor) == [d EXCEPT !.by = @ * factor]

=============================================================================
