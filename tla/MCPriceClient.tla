--------------------------- MODULE MCPriceClient ---------------------------
(* Values for model-checking PriceClient.                                  *)
EXTENDS PriceClient

MCPriceFeeds == <<"across", "partial">>

(* Prices from the future, of now, and older than what is kept.            *)
MCPossibleAges == {-1, 0, 2}

=============================================================================
