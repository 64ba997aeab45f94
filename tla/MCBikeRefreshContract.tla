----------------------- MODULE MCBikeRefreshContract -----------------------
(* Small instances of BikeRefresh under the contract.                      *)
EXTENDS BikeRefreshContract, MCBikeRefresh
=============================================================================
