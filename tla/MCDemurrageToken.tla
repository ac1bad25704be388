-------------------------- MODULE MCDemurrageToken --------------------------
(* Small instances of DemurrageToken: values for its constants.            *)
EXTENDS DemurrageToken

CONSTANTS alice, bob, nowhere    \* two addresses and an invalid name

MCInvalidNames == {nowhere}
NoExpires == {}

Message(rows, mint, period_minutes, tax_level, sink) ==
    [decimals |-> 6, initial_balances |-> rows, mint |-> mint,
     tax_level_minute |-> tax_level, period_minutes |-> period_minutes,
     sink_address |-> sink]

-----------------------------------------------------------------------------
(* Two addresses; bob is the minter and the sink.                          *)

PaymentAddr == {alice, bob}
PaymentSinks == {bob, nowhere}

\* A capped mint; a token nobody may mint, with periods of no length; and messages
\* that are refused: two rows of one address, a supply above the cap.
PaymentMsgs ==
    {Message(<<[address |-> alice, amount |-> 2]>>, [minter |-> bob, cap |-> 3], 1, 2, bob),
     Message(<<[address |-> alice, amount |-> 1], [address |-> bob, amount |-> 1]>>,
             None, 0, 2, bob),
     Message(<<[address |-> alice, amount |-> 1], [address |-> alice, amount |-> 1]>>,
             None, 1, 2, bob),
     Message(<<[address |-> alice, amount |-> 4]>>, [minter |-> bob, cap |-> 3], 1, 2, bob)}

-----------------------------------------------------------------------------
(* Allowances between two addresses; the tax goes nowhere.                 *)

AllowanceMsgs ==
    {Message(<<[address |-> alice, amount |-> 1]>>, None, 1, 2, nowhere)}

\* No expiration, one met by the second block's height, one met by its time.
AllowanceExpires == {None, AtHeight(1), AtTime(100)}

=============================================================================
