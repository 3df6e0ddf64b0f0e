-------------------------- MODULE ProtocolConstants --------------------------
(***************************************************************************)
(* The constants of the protocol under the names of constants.rs.  Amounts *)
(* of the emission are in units of a million nNOIR.                        *)
(***************************************************************************)
EXTENDS Integers

MAX_TX_GAS == 10000000
BASE_TX_GAS == 10000
MIN_FEE == 10000
FEE_TIERS == {10000, 100000, 1000000}

HALVING_INTERVAL == 40320000
INITIAL_BLOCK_REWARD == 40000
TAIL_EMISSION == 10

MAX_P2P_MESSAGE_SIZE == 10485760
MAX_CONTRACT_SIZE == 1048576
MAX_SPENDS_PER_TX == 16
MAX_OUTPUTS_PER_TX == 16
=============================================================================
