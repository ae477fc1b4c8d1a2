--------------------------- MODULE MCAdminConsole ---------------------------
(* Two admins, one after the other or one waiting for the other.           *)
EXTENDS AdminConsole

CONSTANTS a1, a2

TwoAdmins == {a1, a2}
=============================================================================
