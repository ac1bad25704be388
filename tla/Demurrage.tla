----------------------------- MODULE Demurrage -----------------------------
(***************************************************************************)
(* The fixed-point arithmetic of the demurrage contract.  Amounts are u128 *)
(* and the contract is built with overflow checks and panic = abort, so an *)
(* operation whose result leaves 0 .. MAX_U128, or that divides by zero,   *)
(* aborts the message.  Such a result is Panic here, and Panic propagates. *)
(* The resolution constants are parameters: their ratio is what matters.   *)
(***************************************************************************)
EXTENDS Integers

CONSTANTS
    GROWTH_RESOLUTION_FACTOR,   \* fixed-point one of a value factor (10^11)
    NANO_DIVDER,                \* resolution of a tax level (10^17)
    DEMURRAGE_SCALE,            \* weight of a demurrage amount (10^5)
    INITIAL_DEMURRAGE,          \* demurrage amount at instantiation (10^23)
    MAX_U128                    \* largest u128

RESOLUTION_FACTOR == NANO_DIVDER * GROWTH_RESOLUTION_FACTOR

ASSUME ResolutionAssumption ==
    /\ GROWTH_RESOLUTION_FACTOR \in Nat \ {0}
    /\ NANO_DIVDER \in Nat \ {0}
    /\ DEMURRAGE_SCALE \in Nat \ {0}
    /\ INITIAL_DEMURRAGE \in Nat \ {0}
    /\ DEMURRAGE_SCALE * INITIAL_DEMURRAGE = RESOLUTION_FACTOR
    /\ MAX_U128 \in Nat
    /\ RESOLUTION_FACTOR <= MAX_U128

U128 == 0 .. MAX_U128
Panic == -1
Result == U128 \cup {Panic}

-----------------------------------------------------------------------------
(* Checked u128 arithmetic.                                                *)

Checked(x) == IF x \in U128 THEN x ELSE Panic

x \oplus y == IF x = Panic \/ y = Panic THEN Panic ELSE Checked(x + y)
x \ominus y == IF x = Panic \/ y = Panic THEN Panic ELSE Checked(x - y)
x \otimes y == IF x = Panic \/ y = Panic THEN Panic ELSE Checked(x * y)
x \oslash y == IF x = Panic \/ y = Panic \/ y = 0 THEN Panic ELSE x \div y

-----------------------------------------------------------------------------
(* The loops run over the half-open range 1..period: one iteration fewer   *)
(* than there are periods, and none for the first.                         *)
LoopPasses(period) == IF period = 0 THEN 0 ELSE period - 1

TruncatedTaxLevel(tax_level) == tax_level \div NANO_DIVDER

\* One pass of the loop of decay_by, and of the loop of grow_by.
DecayPass(t) ==
    [factor \in Result |-> factor \ominus ((factor \otimes t) \oslash GROWTH_RESOLUTION_FACTOR)]
GrowthPass(t) ==
    [factor \in Result |-> factor \oplus ((factor \otimes t) \oslash GROWTH_RESOLUTION_FACTOR)]

\* DecayFactor(t)[n]: the value factor after n passes of decay_by's loop.
DecayFactor(t) ==
    LET f[n \in Nat] == IF n = 0 THEN GROWTH_RESOLUTION_FACTOR ELSE DecayPass(t)[f[n-1]]
    IN  f

\* GrowthFactor(t)[n]: the value factor after n passes of grow_by's loop.
GrowthFactor(t) ==
    LET f[n \in Nat] == IF n = 0 THEN GROWTH_RESOLUTION_FACTOR ELSE GrowthPass(t)[f[n-1]]
    IN  f

decay_by(value, tax_level, period) ==
    (DecayFactor(TruncatedTaxLevel(tax_level))[LoopPasses(period)] \otimes value)
      \oslash GROWTH_RESOLUTION_FACTOR

grow_by(value, tax_level, period) ==
    (GrowthFactor(TruncatedTaxLevel(tax_level))[LoopPasses(period)] \otimes value)
      \oslash GROWTH_RESOLUTION_FACTOR

\* Mutant: the conversion the other way round.
to_base_amount_Inverse(value, d) ==
    (value \otimes (d \otimes DEMURRAGE_SCALE)) \oslash RESOLUTION_FACTOR

\* Mutant: an amount of zero converts nothing instead of dividing by zero.
to_base_amount_Guarded(value, d) ==
    IF d = 0 THEN value
    ELSE (value \otimes RESOLUTION_FACTOR) \oslash (d \otimes DEMURRAGE_SCALE)

\* What is credited for a payment of value when the demurrage amount is d.
to_base_amount(value, d) ==
    (value \otimes RESOLUTION_FACTOR) \oslash (d \otimes DEMURRAGE_SCALE)

\* The share of the supply credited to the sink by one change of period.
get_distribution(total_supply, d) ==
    (total_supply \otimes (RESOLUTION_FACTOR \ominus (d \otimes DEMURRAGE_SCALE)))
      \oslash RESOLUTION_FACTOR

=============================================================================
