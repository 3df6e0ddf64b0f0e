----------------------------- MODULE FeeMarket -----------------------------
(***************************************************************************)
(* The base fee per gas, the split of a fee, and the reward of a block.    *)
(* The code computes the adjustment in floating point, which is exact for  *)
(* the targets used here, powers of two.                                   *)
(***************************************************************************)
EXTENDS ProtocolConstants, Sequences

BaseFeeFloor == IF MIN_FEE \div BASE_TX_GAS > 1 THEN MIN_FEE \div BASE_TX_GAS ELSE 1

TowardsZero(n, d) == IF n >= 0 THEN n \div d ELSE -((-n) \div d)

\* Mutant: the adjustment is rounded up.
AdjustBaseFeeUp(base, target, used) ==
  LET moved == base - ((base * (target - used)) \div (8 * target))
  IN IF moved < BaseFeeFloor THEN BaseFeeFloor ELSE moved

\* An eighth of the relative distance to the target, truncated.
AdjustBaseFee(base, target, used) ==
  LET moved == base + TowardsZero(base * (used - target), 8 * target)
  IN IF moved < BaseFeeFloor THEN BaseFeeFloor ELSE moved

\* After the first k of the blocks, for each k.
BaseFees(base, target, blocks) ==
  LET fees[k \in 0 .. Len(blocks)] ==
        IF k = 0 THEN base ELSE AdjustBaseFee(fees[k - 1], target, blocks[k])
  IN fees

\* What is burned and what the proposer gets.
SplitFee(base, fee, gas) ==
  IF fee < base * gas THEN <<fee, 0>> ELSE <<base * gas, fee - base * gas>>

\* INITIAL_BLOCK_REWARD >> halvings.
ShiftedReward[halvings \in 0 .. 64] ==
  IF halvings = 0 THEN INITIAL_BLOCK_REWARD ELSE ShiftedReward[halvings - 1] \div 2

\* Mutant: no tail.
BlockRewardNoTail(height) ==
  IF height = 0 THEN 0 ELSE ShiftedReward[height \div HALVING_INTERVAL]

BlockReward(height) ==
  LET halvings == height \div HALVING_INTERVAL
  IN IF height = 0 THEN 0
     ELSE IF halvings >= 64 \/ ShiftedReward[halvings] < TAIL_EMISSION THEN TAIL_EMISSION
     ELSE ShiftedReward[halvings]

---------------------------------------------------------------------------
\* A block of gas within twice the target moves the base fee towards demand by
\* an eighth at most, and a fee below eight no full block ever raises: started
\* at its floor the base fee stays there whatever the blocks hold, unless one
\* holds nine times the target (fee_market.rs 11-30).
FeeStuckAtFloor(base, target, blocks) ==
  /\ \A k \in DOMAIN blocks :
       LET next == AdjustBaseFee(base, target, blocks[k])
       IN blocks[k] <= 2 * target =>
            /\ 8 * (next - base) <= base /\ 8 * (base - next) <= base
            /\ blocks[k] > target => next >= base
            /\ blocks[k] < target => next <= base
            /\ base < 8 => next >= base
            /\ base \in BaseFeeFloor .. 7 => next = base
  /\ (\A k \in DOMAIN blocks : blocks[k] < 9 * target) =>
       BaseFees(BaseFeeFloor, target, blocks)[Len(blocks)] = BaseFeeFloor

\* Every nNOIR of a fee is burned or paid once, and the reward of a block
\* never rises and never ends (fee_market.rs 33-41, block.rs 86-93).
FeesAndRewardsAdd(base, fee, gas, height) ==
  /\ SplitFee(base, fee, gas)[1] + SplitFee(base, fee, gas)[2] = fee
  /\ SplitFee(base, fee, gas)[1] <= base * gas
  /\ BlockReward(height + 1) >= TAIL_EMISSION
  /\ height > 0 => BlockReward(height + 1) <= BlockReward(height)
=============================================================================
