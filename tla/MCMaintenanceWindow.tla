------------------------ MODULE MCMaintenanceWindow ------------------------
(* Windows within a UTC day, over its midnight, over that of their zone     *)
(* only, and of one second.                                                 *)
EXTENDS MaintenanceWindow

At(hour, minute, second, zone) ==
    [hour |-> hour, minute |-> minute, second |-> second, zone |-> zone]

From(begin, end) == [begin |-> begin, end |-> end]

MCWritten ==
    { From(At(22, 0, 0, 0), At(23, 0, 0, 0)),
      From(At(22, 30, 0, -330), At(1, 15, 30, -330)),
      From(At(23, 0, 0, 120), At(3, 59, 59, 120)),
      From(At(1, 0, 0, 60), At(1, 0, 0, 60)) }
=============================================================================
