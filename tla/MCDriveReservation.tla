-------------------------- MODULE MCDriveReservation --------------------------
(* Groups for small instances of DriveReservation. *)
EXTENDS DriveReservation

\* Three groups in a row, two roles with one priority, and a role of several slots before
\* or after a group that has reserved.
SmallDemands == {<<<<1>>, <<1>>, <<1>>>>, <<<<1>>, <<1, 1>>>>, <<<<1>>, <<2, 1>>>>,
                 <<<<2>>, <<1>>>>, <<<<1, 1>>, <<1>>>>}

\* For a drive more to choose from.
LargeDemands == {<<<<1>>, <<1>>, <<1>>>>, <<<<1, 1>>, <<1>>>>, <<<<2>>, <<1, 1>>>>}
=============================================================================
