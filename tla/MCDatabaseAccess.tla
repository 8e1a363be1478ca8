-------------------------- MODULE MCDatabaseAccess --------------------------
(***************************************************************************)
(* A small instance of DatabaseAccess: a database with a defect the runner *)
(* repairs or with one it gives up on, and roles that are repairable, that *)
(* own a table, or that are privileged for good.                           *)
(***************************************************************************)
EXTENDS DatabaseAccess

MCOrder == <<"smtp", "resend">>
MCRepairs == [mode \in Modes |-> Defects \ {"unexpected column", "extra table"}]
MCLegacies == {{"redundant index"}, {"unexpected column"}}
MCRoles == {{"exists", "login", "inherit", "member"},
            {"exists", "login", "superuser"},
            {"exists", "login", "owns other table"}}
=============================================================================
