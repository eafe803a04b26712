----------------------------- MODULE MCMapUpdater -----------------------------
\* The map updater with a few maps.
EXTENDS MapUpdater, TLC

CONSTANTS plain, dungeon, inst1, inst2

TwoInstances == (plain :> {}) @@ (dungeon :> {inst1, inst2})
=============================================================================
