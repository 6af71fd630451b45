--------------------------- MODULE MCUsageDelivery ---------------------------
EXTENDS UsageDelivery

\* Old pods, new pods, or both behind one address, replaced by any others at any
\* time: upgrades one by one and at once, and rollbacks.
AnyRollout == Fleet \X Fleet

\* Every pod is of one kind.
OneKind == {Old, New}

\* A rolling upgrade: for a while, old and new pods share the address.
Rolling == {<<Old, Mixed>>, <<Mixed, New>>}
=============================================================================
