---------------------------- MODULE Controllers -----------------------------
(***************************************************************************)
(* The building blocks of the controllers package in one contract: an      *)
(* admin who may hand over or give up the right to change the hooks, the   *)
(* hooks that are called, and claims.  An error changes nothing, by the    *)
(* transaction around the message (StorageTransaction).                    *)
(***************************************************************************)
EXTENDS Claims, FiniteSets

CONSTANTS
    Addr,
    Unset,          \* nothing is stored
    Amounts,        \* of the claims that are made
    Releases,       \* when they mature
    Caps,           \* of payments, None for no cap
    MaxClaims,      \* bound: claims at a time
    MaxHeight       \* bound: blocks

ClaimSet == {Claim(amount, release_at) : amount \in Amounts, release_at \in Releases}

\* Amounts and times have finitely many bits; what is not there is no value.
ASSUME ControllersAssumption ==
    /\ Unset \notin Addr \cup {None} \cup Seq(Addr)
    /\ None \notin Addr \cup Seq(ClaimSet)
    /\ MaxAmount \in Nat /\ Amounts \subseteq 0 .. MaxAmount
    /\ IsFiniteSet(Releases) /\ Releases \subseteq Expirations
    /\ Caps \subseteq 0 .. MaxAmount \cup {None}

VARIABLES
    admin,          \* Item: an address, None once it was given up, Unset before
    hooks,          \* Item: the addresses in the order they were added
    claims,         \* Map: address -> claims, None if nothing is stored
    block,
    answer          \* what the last call returned, if it returned something

vars == <<admin, hooks, claims, block, answer>>

Hooks == IF hooks = Unset THEN <<>> ELSE hooks

Init ==
    /\ admin = Unset
    /\ hooks = Unset
    /\ claims = [a \in Addr |-> None]
    /\ block = [height |-> 1, time |-> 0]
    /\ answer = None

-----------------------------------------------------------------------------

\* Admin.  It is saved unconditionally; who may do so is up to the callers.
set(a) == admin' = a

\* Assumption: the contract that has the admin calls set when it is instantiated, once;
\* later changes are messages.
Instantiate(a) ==
    /\ admin = Unset
    /\ set(a)
    /\ answer' = None
    /\ UNCHANGED <<hooks, claims, block>>

\* Mutant: whoever calls may take what nobody holds.
is_admin_Vacant(stored, caller) == stored # Unset /\ (stored = None \/ caller = stored)

is_admin(stored, caller) == stored \notin {Unset, None} /\ caller = stored

assert_admin(stored, caller) == is_admin(stored, caller)

execute_update_admin(sender, new_admin) ==
    /\ assert_admin(admin, sender)
    /\ set(new_admin)
    /\ answer' = None
    /\ UNCHANGED <<hooks, claims, block>>

query_admin(stored) == IF stored = Unset THEN Failed ELSE stored

-----------------------------------------------------------------------------

\* Hooks.
add_hook(addr) ==
    /\ ~Contains(Hooks, addr)
    /\ hooks' = Append(Hooks, addr)

\* The first entry of the address is removed; without a list it is an error.
remove_hook(addr) ==
    /\ hooks # Unset
    /\ Contains(hooks, addr)
    /\ hooks' = RemoveAt(hooks, SelectInSeq(hooks, LAMBDA h : h = addr))

execute_add_hook(sender, addr) ==
    /\ assert_admin(admin, sender)
    /\ add_hook(addr)
    /\ answer' = None
    /\ UNCHANGED <<admin, claims, block>>

execute_remove_hook(sender, addr) ==
    /\ assert_admin(admin, sender)
    /\ remove_hook(addr)
    /\ answer' = None
    /\ UNCHANGED <<admin, claims, block>>

\* One message per hook, in their order; the first that cannot be prepared fails all.
prepare_hooks(unprepared) ==
    /\ \A i \in DOMAIN Hooks : Hooks[i] \notin unprepared
    /\ answer' = [messages |-> Hooks]
    /\ UNCHANGED <<admin, hooks, claims, block>>

query_hooks == Hooks

-----------------------------------------------------------------------------

\* Claims.
CreateClaim(a, claim) ==
    /\ SumFunction([b \in Addr |-> Len(query_claims(claims[b]))]) < MaxClaims
    /\ claims' = [claims EXCEPT ![a] = create_claim(@, claim.amount, claim.release_at)]
    /\ answer' = None
    /\ UNCHANGED <<admin, hooks, block>>

\* An overflow of the sum panics.
ClaimTokens(a, cap) ==
    LET paid == claim_tokens(claims[a], block, cap)
    IN  /\ paid # Failed
        /\ claims' = [claims EXCEPT ![a] = paid.waiting]
        /\ answer' = [addr |-> a, cap |-> cap, sum |-> paid.to_send]
        /\ UNCHANGED <<admin, hooks, block>>

NextBlock ==
    /\ block.height < MaxHeight
    /\ block' = [height |-> block.height + 1, time |-> block.time + 5]
    /\ answer' = None
    /\ UNCHANGED <<admin, hooks, claims>>

\* The messages of a sender about the admin and the hooks.
Execute(sender) ==
    \/ \E a \in Addr \cup {None} : execute_update_admin(sender, a)
    \/ \E a \in Addr : execute_add_hook(sender, a)
    \/ \E a \in Addr : execute_remove_hook(sender, a)

Next ==
    \/ \E a \in Addr \cup {None} : Instantiate(a)
    \/ \E sender \in Addr : Execute(sender)
    \/ \E unprepared \in SUBSET Addr : prepare_hooks(unprepared)
    \/ \E a \in Addr, claim \in ClaimSet : CreateClaim(a, claim)
    \/ \E a \in Addr, cap \in Caps : ClaimTokens(a, cap)
    \/ NextBlock

Spec == Init /\ [][Next]_vars

-----------------------------------------------------------------------------

\* How often a claim is listed.
TimesOwed(a, claim) ==
    LET list == query_claims(claims[a])
    IN  Cardinality({i \in DOMAIN list : list[i] = claim})

Ledger == INSTANCE ClaimLedger WITH
    Amount <- LAMBDA claim : claim.amount,
    Matured <- LAMBDA claim, blk : is_expired(claim.release_at, blk),
    owed <- [a \in Addr |-> [claim \in ClaimSet |-> TimesOwed(a, claim)]],
    receipt <- IF answer = None \/ "messages" \in DOMAIN answer THEN None ELSE answer,
    blk <- block

\* Claims are a ledger: each is paid once, in full, to its address, when it has matured,
\* and a payment takes all that has matured, up to the cap (claim.rs, claim_tokens:
\* "iterates over all mature claims for the address, and removes them, up to an
\* optional cap").
ImplementsClaimLedger == Ledger!LedgerSpec

\* A change of the admin or of the hooks is a message of the admin.  A right that was
\* given up is gone: with no admin nobody becomes one and the hooks stay as they are, in
\* every later step and whoever calls; and no step changes the admin and the hooks
\* together, or the hooks by more than one address (admin.rs, assert_admin and set;
\* hooks.rs, add_hook and remove_hook).
HooksAreGoverned ==
    [][/\ admin' # admin \/ hooks' # hooks =>
            \A sender \in Addr : Execute(sender) => sender = admin
       /\ admin = None => admin' = None /\ hooks' = hooks
       /\ hooks' # hooks =>
            /\ admin' = admin /\ admin \in Addr
            /\ Cardinality(ToSet(Hooks)) - Cardinality(ToSet(Hooks)') \in {1, -1}
            /\ Len(Hooks') = Cardinality(ToSet(Hooks)')]_vars

=============================================================================
