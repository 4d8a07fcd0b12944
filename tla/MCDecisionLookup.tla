-------------------------- MODULE MCDecisionLookup --------------------------
(* Two contests in one coin and an ID that names an ordinary transfer.     *)
EXTENDS DecisionLookup, TLC

CONSTANTS fmv, alice, coin1, coin2, first, second, transfer, x, y

Op(opcode, payer, magic, key) ==
    [opcode |-> opcode, payer |-> payer, magic |-> magic, key |-> key, coin |-> coin1]

MCOperation ==
    [c \in {first, second, transfer} |->
        IF c = transfer THEN Op(0, alice, FALSE, "none")
        ELSE Op(35, fmv, TRUE, "contest")]

Stake(coin, amount) == [coin |-> coin, amount |-> amount]

MCStakes == { Stake(coin1, 1), Stake(coin1, 8), Stake(coin2, 1) }

\* Three balances that count, two, the second too large for an int, and one.
MCHoldings ==
    { <<Stake(coin1, 1), Stake(coin1, 1), Stake(coin1, 1)>>,
      <<Stake(coin1, 1), Stake(coin1, 8)>>,
      <<Stake(coin2, 1), Stake(coin1, 1)>>,
      <<Stake(coin2, 1)>> }

MCSymmetry == Permutations({first, second}) \cup Permutations({x, y})
=============================================================================
