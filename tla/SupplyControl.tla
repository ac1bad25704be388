--------------------------- MODULE SupplyControl ---------------------------
(***************************************************************************)
(* What a mintable cw20 token promises of its supply, whatever it does to  *)
(* the balances: tokens come into being only by the mint rights and within *)
(* their cap, the rights can be handed over but neither created nor        *)
(* widened, and what the holders have together covers the supply.          *)
(***************************************************************************)
EXTENDS Integers

CONSTANTS Minters, None

VARIABLES
    supply,     \* total supply
    held,       \* sum of all balances
    mint        \* the mint rights: a minter and an optional cap, or None

controlled == <<supply, held, mint>>

Allows(rights, amount) == rights.cap = None \/ amount <= rights.cap

Init ==
    /\ supply \in Nat
    /\ held = supply
    /\ mint = None \/ (mint.minter \in Minters /\ Allows(mint, supply))

Issue ==
    /\ mint # None
    /\ supply' \in Nat /\ supply' > supply
    /\ Allows(mint, supply')
    /\ held' \in Nat /\ held' - held >= supply' - supply
    /\ UNCHANGED mint

Destroy ==
    /\ supply' \in Nat /\ supply' < supply
    /\ held' = held - (supply - supply')
    /\ UNCHANGED mint

\* Payments never leave the holders with less; the redistribution adds to it.
Pay ==
    /\ held' \in Nat /\ held' >= held
    /\ UNCHANGED <<supply, mint>>

HandOver ==
    /\ mint # None
    /\ \E minter \in Minters : mint' = [mint EXCEPT !.minter = minter]
    /\ UNCHANGED <<supply, held>>

Next == Issue \/ Destroy \/ Pay \/ HandOver

Spec == Init /\ [][Next]_controlled

-----------------------------------------------------------------------------

\* The holders have at least the supply together.
Backed == held >= supply

\* The supply is within the cap of the mint rights.
WithinCap == mint # None => Allows(mint, supply)

=============================================================================
