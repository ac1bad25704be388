-------------------------- MODULE UtilsReferences ---------------------------
(***************************************************************************)
(* What the helpers of cw-utils promise, whatever they are given: compared *)
(* with reference definitions over bounded inputs.                         *)
(***************************************************************************)
EXTENDS UtilsTests

-----------------------------------------------------------------------------
\* Balances.

AmountOf(balance, denom) ==
    FoldLeft(LAMBDA sum, c : IF c.denom = denom THEN sum + c.amount ELSE sum, 0, balance)

Ordered(balance) ==
    \A i, j \in DOMAIN balance : i < j => balance[i].denom < balance[j].denom

WithoutZeros(balance) == \A i \in DOMAIN balance : balance[i].amount # 0

Denoms == {ATOM, BTC, ETH}
Coins == {Coin(amount, denom) : amount \in {0, 1, 2, MaxAmount}, denom \in Denoms}
CoinLists == UNION {[1 .. n -> Coins] : n \in 0 .. 3}
Balances == {b \in CoinLists : Ordered(b)}

\* A result is the list in which every denomination has its amount, or an overflow.
HasAmounts(result, amount(_)) ==
    IF \E d \in Denoms : amount(d) > MaxAmount THEN result = Failed
    ELSE /\ Ordered(result)
         /\ \A d \in Denoms : AmountOf(result, d) = amount(d)

NormalizeKeepsAmounts ==
    \A b \in CoinLists :
        /\ HasAmounts(normalize(b), LAMBDA d : AmountOf(b, d))
        /\ normalize(b) # Failed => WithoutZeros(normalize(b))

AddAddsAmounts ==
    \A b \in Balances, c \in Coins :
        HasAmounts(add(b, c), LAMBDA d : AmountOf(b, d) + AmountOf(<<c>>, d))

SubSubtractsAmounts ==
    \A b \in Balances, c \in Coins :
        LET left == AmountOf(b, c.denom) - c.amount
        IN  /\ sub(b, c) = Failed <=> ~has(b, c)
            /\ has(b, c) => HasAmounts(sub(b, c), LAMBDA d : AmountOf(b, d) - AmountOf(<<c>>, d))
            /\ has(b, c) => sub_saturating(b, c) = sub(b, c)
            /\ find(b, c.denom) # 0 /\ left <= 0 => find(sub_saturating(b, c), c.denom) = 0

\* Coins that were added can be taken out again, and nothing else changes.
SubUndoesAdd ==
    \A b, other \in {l \in Balances : WithoutZeros(l)} :
        add_all(b, other) # Failed => sub_all(add_all(b, other), other) = b

-----------------------------------------------------------------------------
\* Thresholds.

Shares == {0, 1, 333, 499, 500, 501, 667, 1000, 1001}

\* Whether yes votes are the share of the votes that the threshold asks for
\* (ThresholdResponse).
Reaches(share, yes, votes) == 1000 * yes >= share * votes

\* A threshold that is accepted can be reached when all vote yes; and of two camps
\* that divide the votes only one can reach it, unless it is one half, which is
\* accepted though the comment above valid_threshold asks for more.
ThresholdsDecide ==
    \A total \in 1 .. 7 :
        /\ \A weight \in 0 .. 8 :
             validate(AbsoluteCount(weight), total) = "Ok" <=> weight \in 1 .. total
        /\ \A share \in Shares, quorum \in Shares :
             validate(ThresholdQuorum(share, quorum), total) = "Ok" =>
               /\ validate(AbsolutePercentage(share), total) = "Ok"
               /\ Reaches(share, total, total) /\ Reaches(quorum, total, total)
               /\ ~Reaches(quorum, 0, total)
               /\ \A yes \in 0 .. total :
                    Reaches(share, yes, total) /\ Reaches(share, total - yes, total)
                      => share = percent(50)

-----------------------------------------------------------------------------
\* Replies.

ReplyData == {<<>>, <<7>>, <<10, 1>>, abc, Times(1, 127), Times(18, 130)}

\* What was encoded is read back; what was cut off is refused, unless it was cut off
\* between two fields, which cannot be told from an empty field.
RepliesRoundTrip ==
    \A addr \in {<<97>>, abc, Times(98, 128)}, data \in ReplyData :
        LET encoded == encode_instantiate(addr, data)
            whole == [contract_address |-> addr, data |-> IF data = <<>> THEN None ELSE data]
            Between == {0, Len(Field(1, addr)), Len(encoded)}
        IN  /\ parse_instantiate_response_data(encoded) = whole
            /\ \A n \in 0 .. Len(encoded) :
                 parse_instantiate_response_data(SubSeq(encoded, 1, n)) = Failed
                   <=> n \notin Between

-----------------------------------------------------------------------------

UtilsMatchReferences ==
    /\ NormalizeKeepsAmounts /\ AddAddsAmounts /\ SubSubtractsAmounts /\ SubUndoesAdd
    /\ ThresholdsDecide
    /\ RepliesRoundTrip

=============================================================================
