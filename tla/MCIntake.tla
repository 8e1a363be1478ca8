------------------------------ MODULE MCIntake ------------------------------
(***************************************************************************)
(* Small casts of Intake: two uploads of any kind, edited and deleted;     *)
(* three forms for two addresses; a candidate matched and reviewed while   *)
(* a posting changes; two runs of matching among reviews, edits and the    *)
(* candidate's deletion.                                                   *)
(***************************************************************************)
EXTENDS Intake

CONSTANTS u1, u2, u3, m1, m2, tech

Nothing == [uploads |-> {}, kinds |-> {}, jobs |-> {}, runs |-> {}, staff |-> {},
            active |-> {1}, sectors |-> {Everywhere}]

MCCasts == {
    [Nothing EXCEPT !.uploads = {u2, u3}, !.kinds = Kinds, !.staff = {"deletion", "edits"}],
    [Nothing EXCEPT !.uploads = {u1, u2, u3}, !.kinds = {"form"}],
    [Nothing EXCEPT !.uploads = {u1}, !.kinds = {"form"}, !.runs = {m1}, !.jobs = {1},
                    !.staff = {"reviews"}, !.active = {1, 2}, !.sectors = {tech}],
    [Nothing EXCEPT !.uploads = {u1}, !.kinds = {"form"}, !.runs = {m1, m2}, !.staff = Staff,
                    !.active = {1, 2}, !.sectors = {tech}]}
=============================================================================
