------------------------------- MODULE Claims -------------------------------
(***************************************************************************)
(* Claims of the controllers package (claim.rs): amounts an address may    *)
(* take out once they are released, in the order they were created.        *)
(***************************************************************************)
EXTENDS Durations, SequencesExt

Claim(amount, release_at) == [amount |-> amount, release_at |-> release_at]

unwrap_or_default(claims) == IF claims = None THEN <<>> ELSE claims

create_claim(claims, amount, release_at) ==
    Append(unwrap_or_default(claims), Claim(amount, release_at))

\* Mutant: a claim above the cap ends the payment, with what is left of it paid.
Settled_Partial(paid, claim, blk, cap) ==
    CASE paid = Failed -> Failed
      [] paid # Failed /\ ~is_expired(claim.release_at, blk) ->
           [paid EXCEPT !.waiting = Append(@, claim)]
      [] OTHER ->
           IF paid.to_send + claim.amount > MaxAmount THEN Failed
           ELSE IF cap # None /\ (cap # None => paid.to_send + claim.amount > cap)
                THEN [paid EXCEPT !.to_send = cap]
           ELSE [paid EXCEPT !.to_send = @ + claim.amount]

\* A mature claim is paid if it fits under the cap with what is paid already; the sum
\* is computed, and may overflow, with a cap and without.  Later claims are tried
\* whether it is paid or not.
Settled(paid, claim, blk, cap) ==
    CASE paid = Failed -> Failed
      [] paid # Failed /\ ~is_expired(claim.release_at, blk) ->
           [paid EXCEPT !.waiting = Append(@, claim)]
      [] OTHER ->
           IF paid.to_send + claim.amount > MaxAmount THEN Failed
           ELSE IF cap # None /\ (cap # None => paid.to_send + claim.amount > cap)
                THEN [paid EXCEPT !.waiting = Append(@, claim)]
           ELSE [paid EXCEPT !.to_send = @ + claim.amount]

\* The loop over the claims: what is paid and what waits on after each of them.
Settlement(list, blk, cap) ==
    LET paid[n \in 0 .. Len(list)] ==
          IF n = 0 THEN [to_send |-> 0, waiting |-> <<>>]
          ELSE Settled(paid[n-1], list[n], blk, cap)
    IN  paid

claim_tokens(claims, blk, cap) ==
    LET list == unwrap_or_default(claims)
    IN  Settlement(list, blk, cap)[Len(list)]

query_claims(claims) == unwrap_or_default(claims)

=============================================================================
