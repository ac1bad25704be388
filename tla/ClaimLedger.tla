---------------------------- MODULE ClaimLedger -----------------------------
(***************************************************************************)
(* What claims promise: a claim is owed until it is paid, it is paid once, *)
(* in full, to the address it is for, and not before its release.  A       *)
(* payment leaves no mature claim that would still have fitted under its   *)
(* cap.  Nothing is said about the order in which claims are tried.        *)
(***************************************************************************)
EXTENDS Integers, Functions

CONSTANTS
    Addr,
    ClaimSet,       \* the claims that can be made
    Amount(_),      \* of a claim
    Matured(_, _),  \* whether a claim is released at a block
    Caps,           \* the caps of payments, None for no cap
    None

VARIABLES
    owed,           \* address -> claim -> how many times it is owed
    receipt,        \* the last payment, if that was the last step
    blk

ledgerVars == <<owed, receipt, blk>>

\* The sum of the claims taken from what is owed.
SumOf(bag) == SumFunction([c \in ClaimSet |-> bag[c] * Amount(c)])

SubBags(bag) ==
    LET some == {c \in ClaimSet : bag[c] > 0}
        Part == {part \in [some -> UNION {0 .. bag[c] : c \in some}] :
                   \A c \in some : part[c] <= bag[c]}
    IN  {[c \in ClaimSet |-> IF c \in some THEN part[c] ELSE 0] : part \in Part}

LedgerInit ==
    /\ owed = [a \in Addr |-> [c \in ClaimSet |-> 0]]
    /\ receipt = None

Owe(a, c) ==
    /\ owed' = [owed EXCEPT ![a][c] = @ + 1]
    /\ receipt' = None
    /\ UNCHANGED blk

Fits(sum, cap) == cap = None \/ (cap # None /\ sum <= cap)

\* All that is mature without a cap; with one, as much that nothing more fits.
Pay(a, cap) ==
    \E part \in SubBags(owed[a]) :
        /\ \A c \in ClaimSet : part[c] > 0 => Matured(c, blk)
        /\ Fits(SumOf(part), cap)
        /\ \A c \in ClaimSet : Matured(c, blk) /\ part[c] < owed[a][c]
                              => ~Fits(SumOf(part) + Amount(c), cap)
        /\ owed' = [owed EXCEPT ![a] = [c \in ClaimSet |-> @[c] - part[c]]]
        /\ receipt' = [addr |-> a, cap |-> cap, sum |-> SumOf(part)]
        /\ UNCHANGED blk

\* Something else happens, perhaps in another block; no claim is touched.
Elsewhere == UNCHANGED owed /\ receipt' = None

LedgerNext ==
    \/ \E a \in Addr, c \in ClaimSet : Owe(a, c)
    \/ \E a \in Addr, cap \in Caps : Pay(a, cap)
    \/ Elsewhere

LedgerSpec == LedgerInit /\ [][LedgerNext]_ledgerVars

=============================================================================
