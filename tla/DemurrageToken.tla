--------------------------- MODULE DemurrageToken ---------------------------
(***************************************************************************)
(* The cw20 contract with demurrage (src/contract.rs, src/allowances.rs).  *)
(*                                                                         *)
(* Each action is one message executed to its end.  A message that returns *)
(* an error, or that panics, is rolled back by the chain and changes       *)
(* nothing, so it is a step that is not enabled.  Errors the code drops    *)
(* are not refusals: the step goes on without the effect that failed.      *)
(*                                                                         *)
(* Time is counted in seconds from the instantiation.                      *)
(***************************************************************************)
EXTENDS Demurrage, Expiration, Sequences, FiniteSets, Functions

CONSTANTS
    Addr,               \* addresses that addr_validate accepts
    InvalidNames,       \* strings that addr_validate refuses
    None,               \* the absent Option
    InstantiateMsgs,    \* messages the contract may be instantiated with
    Amounts,            \* amounts a message may carry
    TaxLevels,          \* tax levels a message may carry
    SinkNames,          \* strings the sink address may be changed to
    ExpiresOptions,     \* expirations a message may carry, None included
    TimeSteps,          \* seconds between two blocks
    MAX_U64,            \* largest u64: the limit of current_period
    MaxHeight           \* bound: the last block of a behaviour

VARIABLES
    TOKEN_INFO,         \* total_supply and the optional mint rights
    BALANCES,           \* of each address, 0 if it has none
    ALLOWANCES,         \* of each owner and spender, None if there is none
    state,              \* the demurrage state (STATE in the source)
    block               \* height and time of the executing block

vars == <<TOKEN_INFO, BALANCES, ALLOWANCES, state, block>>

Names == Addr \cup InvalidNames
MinterData == [minter : Addr, cap : U128 \cup {None}]
TokenInfo == [total_supply : U128, mint : MinterData \cup {None}]
State ==
    [start_timestamp : Nat, demurrage_timestamp : Nat, period_minute : Nat,
     current_period : Nat, demurrage_amount : U128, sink_address : Names,
     tax_level : U128]
AllowanceResponse == [allowance : U128, expires : Expirations]
Cw20Coin == [address : Names, amount : U128]
InstantiateMsg ==
    [decimals : Nat, initial_balances : Seq(Cw20Coin),
     mint : [minter : Names, cap : U128 \cup {None}] \cup {None},
     tax_level_minute : U128, period_minutes : Nat, sink_address : Names]

ASSUME ContractAssumption ==
    /\ Addr \cap InvalidNames = {}
    /\ IsFiniteSet(Addr)
    /\ None \notin U128 /\ None \notin MinterData
    /\ None \notin AllowanceResponse /\ None \notin Expirations
    /\ InstantiateMsgs \subseteq InstantiateMsg
    /\ Amounts \subseteq U128 /\ TaxLevels \subseteq U128
    /\ SinkNames \subseteq Names
    /\ ExpiresOptions \subseteq Expirations \cup {None}
    /\ TimeSteps \subseteq Nat
    /\ MAX_U64 \in Nat /\ MaxHeight \in Nat

-----------------------------------------------------------------------------
(* Instantiation.                                                          *)

\* The largest power of ten in a u32; validate admits decimals up to 18.
MaxPowerOfTen == 9

AmountsOf(rows) == [i \in DOMAIN rows |-> rows[i].amount]
AddressesOf(rows) == [i \in DOMAIN rows |-> rows[i].address]

SupplyOf(rows) == SumFunction(AmountsOf(rows))

create_accounts(rows) ==
    [a \in Addr |-> IF \E i \in DOMAIN rows : rows[i].address = a
                    THEN rows[CHOOSE i \in DOMAIN rows : rows[i].address = a].amount
                    ELSE 0]

instantiate(msg) ==
    LET rows == msg.initial_balances
        supply == SupplyOf(rows)
    IN  /\ msg.decimals <= MaxPowerOfTen
        /\ IsInjective(AddressesOf(rows))
        /\ Range(AddressesOf(rows)) \subseteq Addr
        /\ supply \in U128
        /\ msg.mint # None =>
             /\ msg.mint.minter \in Addr
             /\ msg.mint.cap # None => supply <= msg.mint.cap
        /\ TOKEN_INFO = [total_supply |-> supply, mint |-> msg.mint]
        /\ BALANCES = create_accounts(rows)
        /\ ALLOWANCES = [owner \in Addr |-> [spender \in Addr |-> None]]
        /\ block = [height |-> 0, time |-> 0]
        /\ state = [start_timestamp |-> 0,
                    demurrage_timestamp |-> 0,
                    period_minute |-> msg.period_minutes * 60,
                    current_period |-> 0,
                    demurrage_amount |-> INITIAL_DEMURRAGE,
                    sink_address |-> msg.sink_address,
                    tax_level |-> msg.tax_level_minute]

Init == \E msg \in InstantiateMsgs : instantiate(msg)

-----------------------------------------------------------------------------
(* The demurrage bookkeeping a payment begins with.                        *)

get_minutes_delta(now, last) == (now - last) \div 60
demurrage_cycles(now, target) == (now - target) \div 60

\* The caller passes no limit of rounds.  demurrage_timestamp keeps its value:
\* the sum that should advance it is computed and dropped.
apply_demurrage ==
    LET minutes == get_minutes_delta(block.time, state.demurrage_timestamp)
    IN  [state EXCEPT !.demurrage_amount =
           IF minutes = 0 THEN @ ELSE decay_by(@, state.tax_level, minutes)]

DemurrageAmount == apply_demurrage.demurrage_amount

get_period_time_delta == state.start_timestamp + state.current_period * state.period_minute

\* The amount the period being entered starts with is computed and dropped: what
\* is left of it is that the computation may panic.
NextDemurrageAmount ==
    LET cycles == demurrage_cycles(block.time, get_period_time_delta)
    IN  IF cycles > 0 THEN grow_by(DemurrageAmount, state.tax_level, cycles)
        ELSE DemurrageAmount

\* The balances after the sink's credit.  An invalid sink address is an error
\* change_period drops: the distribution is then credited to nobody.
apply_default_redistribution(distribution) ==
    IF state.sink_address \in Addr
    THEN [BALANCES EXCEPT ![state.sink_address] = @ \oplus distribution]
    ELSE BALANCES

\* Mutant: the distribution follows from the amount before the decay.
Redistributed_Stale(supply) ==
    apply_default_redistribution(get_distribution(supply, state.demurrage_amount))

Redistributed(supply) ==
    apply_default_redistribution(get_distribution(supply, DemurrageAmount))

\* Mutant: the period already counted, not the one to leave, must have begun.
PeriodHasBegun_Previous ==
    state.start_timestamp + (state.current_period - 1) * state.period_minute <= block.time

\* The u64 subtraction panics while the period to leave begins in the future; a
\* period too late for the clock's width is in the future too.
PeriodHasBegun == get_period_time_delta <= block.time

\* Mutant: the amount computed for the period being entered is stored.
PeriodState_Grown ==
    [apply_demurrage EXCEPT !.current_period = @ + 1,
                            !.demurrage_amount = NextDemurrageAmount]

PeriodState == [apply_demurrage EXCEPT !.current_period = @ + 1]

change_period(supply) ==
    /\ state.current_period < MAX_U64
    /\ PeriodHasBegun
    /\ DemurrageAmount # Panic
    /\ NextDemurrageAmount # Panic
    /\ get_distribution(supply, DemurrageAmount) # Panic
    /\ Panic \notin Range(Redistributed(supply))
    /\ state' = PeriodState

-----------------------------------------------------------------------------
(* Balance updates, in the order the handlers make them.                   *)

Debit(balances, owner, amount) == [balances EXCEPT ![owner] = @ - amount]
Credit(balances, rcpt, amount) == [balances EXCEPT ![rcpt] = @ \oplus amount]

\* Take paid from the owner and give received to the recipient.
Move(balances, owner, rcpt, paid, received) ==
    /\ balances[owner] >= paid
    /\ received # Panic
    /\ BALANCES' = Credit(Debit(balances, owner, paid), rcpt, received)
    /\ BALANCES'[rcpt] # Panic

\* Mutant: the supply is lowered unchecked.
Destroy_Unchecked(owner, amount) ==
    /\ BALANCES[owner] >= amount
    /\ BALANCES' = Debit(BALANCES, owner, amount)
    /\ TOKEN_INFO' = [TOKEN_INFO EXCEPT !.total_supply = @ - amount]

Destroy(owner, amount) ==
    /\ BALANCES[owner] >= amount
    /\ TOKEN_INFO.total_supply >= amount
    /\ BALANCES' = Debit(BALANCES, owner, amount)
    /\ TOKEN_INFO' = [TOKEN_INFO EXCEPT !.total_supply = @ - amount]

BaseValue(amount) == to_base_amount(amount, DemurrageAmount)

-----------------------------------------------------------------------------
(* Messages of the base and mintable extensions.                           *)

Transfer(sender, recipient, amount) ==
    /\ amount # 0
    /\ recipient \in Addr
    /\ change_period(TOKEN_INFO.total_supply)
    /\ Move(Redistributed(TOKEN_INFO.total_supply),
            sender, recipient, amount, BaseValue(amount))
    /\ UNCHANGED <<TOKEN_INFO, ALLOWANCES, block>>

\* The notification of the contract is a message of its own, in the same transaction.
Send(sender, contract, amount) ==
    /\ amount # 0
    /\ contract \in Addr
    /\ Move(BALANCES, sender, contract, amount, amount)
    /\ UNCHANGED <<TOKEN_INFO, ALLOWANCES, state, block>>

Burn(sender, amount) ==
    /\ amount # 0
    /\ Destroy(sender, amount)
    /\ UNCHANGED <<ALLOWANCES, state, block>>

IsMinter(sender) == TOKEN_INFO.mint # None /\ TOKEN_INFO.mint.minter = sender

\* Mutant: the cap is enforced before the supply is updated.
WithinLimit_Before(supply) ==
    TOKEN_INFO.mint.cap # None => TOKEN_INFO.total_supply <= TOKEN_INFO.mint.cap

WithinLimit(supply) ==
    TOKEN_INFO.mint.cap # None => supply <= TOKEN_INFO.mint.cap

\* The redistribution already sees the supply that includes the minted amount.
Mint(sender, recipient, amount) ==
    LET supply == TOKEN_INFO.total_supply \oplus amount
        balances == Redistributed(supply)
        base == BaseValue(amount)
    IN  /\ amount # 0
        /\ IsMinter(sender)
        /\ supply # Panic
        /\ WithinLimit(supply)
        /\ TOKEN_INFO' = [TOKEN_INFO EXCEPT !.total_supply = supply]
        /\ change_period(supply)
        /\ base # Panic
        /\ recipient \in Addr
        /\ BALANCES' = Credit(balances, recipient, base)
        /\ BALANCES'[recipient] # Panic
        /\ UNCHANGED <<ALLOWANCES, block>>

\* Mutant: anybody may hand the rights over.
UpdateMinter_Anybody(sender, new_minter) ==
    /\ TOKEN_INFO.mint # None
    /\ new_minter \in Addr
    /\ TOKEN_INFO' = [TOKEN_INFO EXCEPT !.mint.minter = new_minter]
    /\ UNCHANGED <<BALANCES, ALLOWANCES, state, block>>

\* Mutant: the new mint rights have no cap.
UpdateMinter_Uncapped(sender, new_minter) ==
    /\ IsMinter(sender)
    /\ new_minter \in Addr
    /\ TOKEN_INFO' = [TOKEN_INFO EXCEPT !.mint = [minter |-> new_minter, cap |-> None]]
    /\ UNCHANGED <<BALANCES, ALLOWANCES, state, block>>

UpdateMinter(sender, new_minter) ==
    /\ IsMinter(sender)
    /\ new_minter \in Addr
    /\ TOKEN_INFO' = [TOKEN_INFO EXCEPT !.mint.minter = new_minter]
    /\ UNCHANGED <<BALANCES, ALLOWANCES, state, block>>

-----------------------------------------------------------------------------
(* Messages of the approval extension.                                     *)

GrantOf(owner, spender) ==
    IF ALLOWANCES[owner][spender] = None
    THEN [allowance |-> 0, expires |-> Never]
    ELSE ALLOWANCES[owner][spender]

WithExpires(grant, expires) ==
    IF expires = None THEN grant ELSE [grant EXCEPT !.expires = expires]

\* Mutant: the two addresses of the key are swapped.
IncreaseAllowance_Swapped(sender, spender, amount, expires) ==
    LET base == to_base_amount(amount, state.demurrage_amount)
        grant == GrantOf(spender, sender)
        raised == grant.allowance \oplus (amount \oplus base)
    IN  /\ spender \in Addr \ {sender}
        /\ raised # Panic
        /\ ALLOWANCES' = [ALLOWANCES EXCEPT ![spender][sender] =
             [WithExpires(grant, expires) EXCEPT !.allowance = raised]]
        /\ UNCHANGED <<TOKEN_INFO, BALANCES, state, block>>

\* Converts with the stored demurrage amount, and grants amount on top of it.
IncreaseAllowance(sender, spender, amount, expires) ==
    LET base == to_base_amount(amount, state.demurrage_amount)
        grant == GrantOf(sender, spender)
        raised == grant.allowance \oplus (amount \oplus base)
    IN  /\ spender \in Addr \ {sender}
        /\ raised # Panic
        /\ ALLOWANCES' = [ALLOWANCES EXCEPT ![sender][spender] =
             [WithExpires(grant, expires) EXCEPT !.allowance = raised]]
        /\ UNCHANGED <<TOKEN_INFO, BALANCES, state, block>>

DecreaseAllowance(sender, spender, amount, expires) ==
    LET grant == ALLOWANCES[sender][spender]
    IN  /\ spender \in Addr \ {sender}
        /\ grant # None
        /\ ALLOWANCES' = [ALLOWANCES EXCEPT ![sender][spender] =
             IF amount < grant.allowance
             THEN [WithExpires(grant, expires) EXCEPT !.allowance = grant.allowance - amount]
             ELSE None]
        /\ UNCHANGED <<TOKEN_INFO, BALANCES, state, block>>

\* Mutant: an expired allowance is spent.
deduct_allowance_Expired(owner, spender, amount) ==
    /\ ALLOWANCES[owner][spender] # None
    /\ ALLOWANCES[owner][spender].allowance >= amount
    /\ ALLOWANCES' = [ALLOWANCES EXCEPT ![owner][spender].allowance = @ - amount]

\* A used-up allowance stays, with nothing left in it.
deduct_allowance(owner, spender, amount) ==
    /\ ALLOWANCES[owner][spender] # None
    /\ ~is_expired(ALLOWANCES[owner][spender].expires, block)
    /\ ALLOWANCES[owner][spender].allowance >= amount
    /\ ALLOWANCES' = [ALLOWANCES EXCEPT ![owner][spender].allowance = @ - amount]

TransferFrom(sender, owner, recipient, amount) ==
    /\ {owner, recipient} \subseteq Addr
    /\ deduct_allowance(owner, sender, amount)
    /\ change_period(TOKEN_INFO.total_supply)
    /\ Move(Redistributed(TOKEN_INFO.total_supply),
            owner, recipient, amount, BaseValue(amount))
    /\ UNCHANGED <<TOKEN_INFO, block>>

BurnFrom(sender, owner, amount) ==
    /\ owner \in Addr
    /\ deduct_allowance(owner, sender, amount)
    /\ Destroy(owner, amount)
    /\ UNCHANGED <<state, block>>

SendFrom(sender, owner, contract, amount) ==
    /\ {owner, contract} \subseteq Addr
    /\ deduct_allowance(owner, sender, amount)
    /\ Move(BALANCES, owner, contract, amount, amount)
    /\ UNCHANGED <<TOKEN_INFO, state, block>>

-----------------------------------------------------------------------------
(* Messages that set the demurrage parameters: nothing is checked of the   *)
(* sender, of the level or of the address.                                 *)

ChangeTaxLevel(amount) ==
    /\ state' = [state EXCEPT !.tax_level = amount]
    /\ UNCHANGED <<TOKEN_INFO, BALANCES, ALLOWANCES, block>>

ChangeSinkAddress(address) ==
    /\ state' = [state EXCEPT !.sink_address = address]
    /\ UNCHANGED <<TOKEN_INFO, BALANCES, ALLOWANCES, block>>

-----------------------------------------------------------------------------

\* The chain goes on to its next block; any number of messages runs in one.
NextBlock ==
    /\ block.height < MaxHeight
    /\ \E seconds \in TimeSteps :
         block' = [height |-> block.height + 1, time |-> block.time + seconds]
    /\ UNCHANGED <<TOKEN_INFO, BALANCES, ALLOWANCES, state>>

Execute(sender) ==
    \/ \E amount \in Amounts :
         \/ Burn(sender, amount)
         \/ \E name \in Names :
              \/ Transfer(sender, name, amount)
              \/ Send(sender, name, amount)
              \/ Mint(sender, name, amount)
              \/ BurnFrom(sender, name, amount)
              \/ \E expires \in ExpiresOptions :
                   \/ IncreaseAllowance(sender, name, amount, expires)
                   \/ DecreaseAllowance(sender, name, amount, expires)
              \/ \E other \in Names :
                   \/ TransferFrom(sender, name, other, amount)
                   \/ SendFrom(sender, name, other, amount)
    \/ \E name \in Names : UpdateMinter(sender, name)
    \/ \E level \in TaxLevels : ChangeTaxLevel(level)
    \/ \E name \in SinkNames : ChangeSinkAddress(name)

Next == NextBlock \/ \E sender \in Addr : Execute(sender)

Spec == Init /\ [][Next]_vars

-----------------------------------------------------------------------------
(* Properties.                                                             *)

Holdings == SumFunction(BALANCES)

\* Every item of the contract's storage has its declared type.
TypeOK ==
    /\ TOKEN_INFO \in TokenInfo
    /\ BALANCES \in [Addr -> U128]
    /\ ALLOWANCES \in [Addr -> [Addr -> AllowanceResponse \cup {None}]]
    /\ state \in State
    /\ block \in [height : Nat, time : Nat]

\* The total supply never exceeds the cap, whoever holds the mint rights and however
\* supply was burnt and minted again (instantiate, execute_mint; packages/cw20/README.md,
\* Minter: the cap is "the maximum total_supply that may ever exist", and what is burnt
\* can be minted again).
SupplyWithinCap ==
    TOKEN_INFO.mint # None /\ TOKEN_INFO.mint.cap # None
      => TOKEN_INFO.total_supply <= TOKEN_INFO.mint.cap

\* The balances together never fall below the total supply: what a payment, a
\* mint or a redistribution rounds away is never taken from the holders, so a
\* burn or a debit nowhere loses tokens the supply still counts.
SupplyIsBacked == TOKEN_INFO.total_supply <= Holdings

\* The stored demurrage amount neither exceeds its initial value nor reaches
\* zero: the payment whose decay would store a zero divides by it and is rolled
\* back (apply_demurrage_limited, to_base_amount).
DemurrageAmountPositive == state.demurrage_amount \in 1 .. INITIAL_DEMURRAGE

\* The periods counted never run ahead of the periods begun, although the count
\* rises by one at every payment: current_period is at most actual_period.
CountedPeriodsHaveBegun ==
    state.current_period > 0 =>
      state.start_timestamp + (state.current_period - 1) * state.period_minute <= block.time

\* Whenever the supply grows or the mint rights change hands, the message is the
\* minter's: no sequence of other messages issues tokens or takes the rights.
OnlyMinterIssues ==
    [][\/ TOKEN_INFO'.mint # TOKEN_INFO.mint
       \/ TOKEN_INFO'.total_supply > TOKEN_INFO.total_supply
       => \A sender \in Addr : Execute(sender) => IsMinter(sender)]_vars

\* The contract implements what a mintable token promises of its supply: every
\* message issues, destroys, pays or hands over as SupplyControl allows.
Supply == INSTANCE SupplyControl WITH
    Minters <- Addr,
    supply <- TOKEN_INFO.total_supply,
    held <- Holdings,
    mint <- TOKEN_INFO.mint
ImplementsSupplyControl == Supply!Spec

\* Time only ever decays the demurrage amount, at whatever tax levels.
DemurrageNeverRises == [][state'.demurrage_amount <= state.demurrage_amount]_vars

\* Whether the value factor of grow_by, which change_period calls without a limit, no
\* longer fits in a u128.
GrowthOverflows ==
    LET cycles == demurrage_cycles(block.time, get_period_time_delta)
    IN  /\ cycles > 0
        /\ GrowthFactor(TruncatedTaxLevel(state.tax_level))[LoopPasses(cycles)] = Panic

\* Whether the amount to apply has run down to zero or the next one panics.
Frozen == DemurrageAmount = 0 \/ GrowthOverflows

\* Once the demurrage amount to apply has run down to zero, or the growth to an amount
\* nobody uses overflows, every payment and every mint is refused, however long one
\* waits, until the tax level changes (to_base_amount, grow_by in change_period).
FrozenUntilTaxLevelChanges ==
    [][Frozen /\ state'.tax_level = state.tax_level =>
         /\ Frozen'
         /\ state'.current_period = state.current_period
         /\ Holdings' <= Holdings]_vars

\* Whether sender may take amount of owner's allowance, and it is taken.
SpentFromAllowance(owner, sender, amount) ==
    LET before == ALLOWANCES[owner][sender]
        after == ALLOWANCES'[owner][sender]
    IN  /\ before # None /\ after # None
        /\ ~is_expired(before.expires, block)
        /\ amount <= before.allowance - after.allowance

\* A message of one address lowers the balance of another only by an unexpired
\* allowance, and lowers that allowance at least as much.
SpendingNeedsAllowance ==
    [][\A owner \in Addr :
         BALANCES'[owner] < BALANCES[owner] =>
           \A sender \in Addr \ {owner} :
             Execute(sender) =>
               SpentFromAllowance(owner, sender, BALANCES[owner] - BALANCES'[owner])]_vars

\* Whether an allowance is made, raised or given another expiration.
Extended(before, after) ==
    /\ after # None
    /\ before # None =>
         \/ after.expires # before.expires
         \/ after.allowance > before.allowance

\* Only its owner's message raises an allowance, renews an expired one, or makes
\* one that was not there; spending never extends what may still be spent.
AllowanceGrantedByOwner ==
    [][\A owner, spender \in Addr :
         Extended(ALLOWANCES[owner][spender], ALLOWANCES'[owner][spender]) =>
           \A sender \in Addr \ {owner} : ~Execute(sender)]_vars

\* Whether the payment that changes the period is somebody else's: owner neither
\* transfers nor has an allowance it granted spent.
PaysNothing(owner) ==
    /\ ALLOWANCES'[owner] = ALLOWANCES[owner]
    /\ \A recipient \in Names, amount \in Amounts : ~Transfer(owner, recipient, amount)

\* A change of period credits the sink with the distribution that follows from
\* the supply and the demurrage amount the same message leaves in the storage,
\* a mint's own amount included, whoever else gains from the message.
PeriodChangePaysTax ==
    [][LET sink == state.sink_address
       IN  /\ state'.current_period # state.current_period
           /\ sink \in Addr
           /\ PaysNothing(sink)
           => BALANCES'[sink] - BALANCES[sink]
                >= get_distribution(TOKEN_INFO'.total_supply, state'.demurrage_amount)]_vars

-----------------------------------------------------------------------------
(* What the documents and comments say and the code does not do.           *)

\* A transfer moves amount tokens: the recipient gains what the sender loses
\* (packages/cw20/README.md, Transfer).
TransferMovesTokens ==
    [][\A sender, recipient \in Addr, amount \in Amounts :
         /\ Transfer(sender, recipient, amount)
         /\ sender # recipient
         /\ state.sink_address \notin {sender, recipient}
         => BALANCES'[recipient] - BALANCES[recipient]
              = BALANCES[sender] - BALANCES'[sender]]_vars

\* demurrage_timestamp is the time the demurrage was last applied, so a message
\* that decays the demurrage amount brings it within a minute of the clock
\* (src/state.rs, State::demurrage_timestamp).
DemurrageTimestampIsLast ==
    [][state'.demurrage_amount # state.demurrage_amount
         => block.time - state'.demurrage_timestamp < 60]_vars

\* A cap is how many more tokens the minter can issue: what was issued of it is not
\* left of it (src/state.rs, MinterData::cap).
CapIsWhatMayBeIssued ==
    [][\A sender \in Addr, recipient \in Names, amount \in Amounts :
         /\ Mint(sender, recipient, amount)
         /\ TOKEN_INFO.mint.cap # None
         => TOKEN_INFO'.mint.cap = TOKEN_INFO.mint.cap - amount]_vars

=============================================================================
