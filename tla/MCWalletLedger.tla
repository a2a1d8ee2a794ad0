---------------------------- MODULE MCWalletLedger ----------------------------
(* Instances of WalletLedger for TLC. *)
EXTENDS WalletLedger, TLC

CONSTANTS u1, r1, r2

\* One user with a wallet that transfers out and the one it transfers to.
MCPair == {<<u1, "REFERRAL">>, <<u1, "PRINCIPAL">>}
RequestSymmetry == Permutations({r1, r2})
===============================================================================
