--------------------------- MODULE NativeBalance ----------------------------
(***************************************************************************)
(* A list of coins kept in the order of their denominations (balance.rs of *)
(* cw-utils), and the coins a message may be paid with (payment.rs).       *)
(* Denominations are integers, for the order of their names; amounts are   *)
(* bounded by MaxAmount.                                                   *)
(***************************************************************************)
EXTENDS Integers, SequencesExt, Outcomes

Coin(amount, denom) == [amount |-> amount, denom |-> denom]

\* Positions in the list, 0 if there is none.
find(balance, denom) == SelectInSeq(balance, LAMBDA c : c.denom = denom)
insert_pos(balance, denom) == SelectInSeq(balance, LAMBDA c : c.denom >= denom)

has(balance, required) ==
    LET i == find(balance, required.denom)
    IN  i # 0 /\ balance[i].amount >= required.amount

is_empty(balance) == \A i \in DOMAIN balance : balance[i].amount = 0

\* Mutant: a new denomination goes to the end.
add_Last(balance, other) ==
    LET i == find(balance, other.denom)
    IN  CASE i # 0 /\ balance[i].amount + other.amount > MaxAmount -> Failed
          [] i # 0 /\ balance[i].amount + other.amount <= MaxAmount ->
               [balance EXCEPT ![i].amount = @ + other.amount]
          [] i = 0 -> Append(balance, other)

add(balance, other) ==
    LET i == find(balance, other.denom)
        at == insert_pos(balance, other.denom)
    IN  CASE i # 0 /\ balance[i].amount + other.amount > MaxAmount -> Failed
          [] i # 0 /\ balance[i].amount + other.amount <= MaxAmount ->
               [balance EXCEPT ![i].amount = @ + other.amount]
          [] i = 0 /\ at # 0 -> InsertAt(balance, at, other)
          [] i = 0 /\ at = 0 -> Append(balance, other)

add_all(balance, other) ==
    FoldLeft(LAMBDA sum, c : IF sum = Failed THEN Failed ELSE add(sum, c), balance, other)

sub(balance, other) ==
    LET i == find(balance, other.denom)
    IN  IF i = 0 \/ (i # 0 /\ balance[i].amount < other.amount) THEN Failed
        ELSE IF balance[i].amount = other.amount THEN RemoveAt(balance, i)
        ELSE [balance EXCEPT ![i].amount = @ - other.amount]

sub_all(balance, amount) ==
    FoldLeft(LAMBDA rest, c : IF rest = Failed THEN Failed ELSE sub(rest, c), balance, amount)

sub_saturating(balance, other) ==
    LET i == find(balance, other.denom)
    IN  IF i = 0 THEN Failed
        ELSE IF balance[i].amount <= other.amount THEN RemoveAt(balance, i)
        ELSE [balance EXCEPT ![i].amount = @ - other.amount]

\* A coin before the coins that are merged already: the next of them has its
\* denomination, or it stays alone.
Merged(c, rest) ==
    CASE rest = Failed -> Failed
      [] rest # Failed /\ (rest = <<>> \/ rest[1].denom # c.denom) -> <<c>> \o rest
      [] OTHER -> IF c.amount + rest[1].amount > MaxAmount THEN Failed
                  ELSE [rest EXCEPT ![1].amount = c.amount + @]

\* Zeros are dropped, the rest is sorted, and repeated denominations are merged from
\* the end.
normalize(balance) ==
    LET kept == SelectSeq(balance, LAMBDA c : c.amount # 0)
        sorted == SortSeq(kept, LAMBDA c, d : c.denom < d.denom)
    IN  FoldRight(Merged, sorted, <<>>)

-----------------------------------------------------------------------------

\* Payments: the funds of a message.  A payment that is refused is an error; may_pay
\* panics when it looks for a wrong denomination and there is none.
nonpayable(funds) == IF funds = <<>> THEN None ELSE Failed

one_coin(funds) ==
    IF Len(funds) = 1 /\ funds[1].amount # 0 THEN funds[1] ELSE Failed

must_pay(funds, denom) ==
    LET coin == one_coin(funds)
    IN  IF coin = Failed \/ (coin # Failed /\ coin.denom # denom) THEN Failed ELSE coin.amount

may_pay(funds, denom) ==
    IF funds = <<>> THEN 0
    ELSE IF Len(funds) = 1 /\ funds[1].denom = denom THEN funds[1].amount
    ELSE Failed

=============================================================================
