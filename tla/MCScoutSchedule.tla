--------------------------- MODULE MCScoutSchedule ---------------------------
\* Instances of ScoutSchedule for TLC.
EXTENDS ScoutSchedule, TLC

CONSTANTS r1, r2, c1, c2

Roles == (c1 :> {"create"}) @@ (c2 :> {"pause", "resume", "delete"})

==============================================================================
