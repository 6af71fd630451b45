------------------------ MODULE MCConfigSupervisor ------------------------
EXTENDS ConfigSupervisor, TLC

CONSTANTS env, catalog, k1, price, good, better, bad

\* What every gateway watches: its environment's prefix and the shared catalog.
TwoPrefixes == {env, catalog}
Catalog == {catalog}
Managed == {k1, price}
ManagedUnder == (k1 :> {env} @@ price :> {catalog})

\* No env_id: the catalog lies inside the environment's bare prefix.
Shared == {price}
SharedUnder == (price :> {env, catalog})

\* Documents and builds: "bad" loads in no build; a downgrade cannot load
\* "better".
GoodBad == {good, bad}
GoodBetter == {good, better}
GoodBuild == {{good}}
Downgrade == {{good, better}, {good}}
=============================================================================
