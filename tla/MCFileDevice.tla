---------------------------- MODULE MCFileDevice -----------------------------
(* TLC instances of FileDevice: a short, a long and a usual day.             *)
EXTENDS FileDevice

Calendar == <<2, 4, 10, 14>>

Config(limit, rollback_, roll, stuff_up, naming) ==
  [limit |-> limit, rollback |-> rollback_, roll |-> roll, stuff_up |-> stuff_up,
   naming |-> naming]

AllConfigs ==
  {Config(2, 2, "none", FALSE, "fixed"), Config(2, 1, "none", TRUE, "fixed"),
   Config(2, 0, "none", FALSE, "day"),   Config(0, 2, "daily", FALSE, "fixed"),
   Config(0, 0, "daily", FALSE, "day"),  Config(2, 1, "daily", TRUE, "day"),
   Config(1, 2, "hourly", FALSE, "day")}
=============================================================================
