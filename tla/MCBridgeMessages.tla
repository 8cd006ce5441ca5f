-------------------------- MODULE MCBridgeMessages --------------------------
(* Small instances of BridgeMessages.                                        *)
EXTENDS BridgeMessages, TLC

\* Relayers are interchangeable.
RelayerSymmetry == Permutations(Relayers)

=============================================================================
