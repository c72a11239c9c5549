------------------------- MODULE MCCatalogPublisher -------------------------
\* Two workers of a new version are deployed beside one of the old version.
EXTENDS CatalogPublisher, TLC

CONSTANTS w1, w2, w3, old, new

MCHashOf == w1 :> old @@ w2 :> new @@ w3 :> new
=============================================================================
