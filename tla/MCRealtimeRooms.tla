-------------------------- MODULE MCRealtimeRooms ---------------------------
(* RealtimeRooms on small instances: the sets are given by the .cfg.       *)
EXTENDS RealtimeRooms

CONSTANTS u1, r1, r2, j1, j2

=============================================================================
