----------------------------- MODULE Expiration -----------------------------
(***************************************************************************)
(* Points in time of the cw-utils package: a height, a time, or never.  A  *)
(* block is a record of a height and a time.                               *)
(***************************************************************************)
EXTENDS Integers

AtHeight(height) == [kind |-> "AtHeight", at |-> height]
AtTime(time) == [kind |-> "AtTime", at |-> time]
Never == [kind |-> "Never", at |-> 0]

Expirations == [kind : {"AtHeight", "AtTime", "Never"}, at : Nat]

is_expired(e, blk) ==
    \/ e.kind = "AtHeight" /\ blk.height >= e.at
    \/ e.kind = "AtTime" /\ blk.time >= e.at

=============================================================================
