-------------------------------- MODULE MCWallet --------------------------------
(***************************************************************************)
(* Two wallets that pay each other and fund a two-party channel.  With one *)
(* input a payment of 5 leaves no change out of a reward of 8, one of 2    *)
(* leaves 3; two inputs cost more than Headroom.                           *)
(***************************************************************************)
EXTENDS Wallet, TLC

CONSTANTS alice, bob

MCChannelOutputs == <<1, 1, 1>>
MCSymmetry == Permutations({alice, bob})
=============================================================================
