---------------------------- MODULE MCMonitoring ----------------------------
(***************************************************************************)
(* Small casts of Monitoring: overlapping reports and a deletion; three    *)
(* sockets of two assessments; two requests that edit accounts, and logins *)
(* meanwhile; a candidate and the proctor of one assessment; a proctor     *)
(* whose account is edited or deleted while connected.                     *)
(***************************************************************************)
EXTENDS Monitoring, TLC

CONSTANTS p1, p2, f1, f2, f3, s1, s2, s3, r1, r2, cand, eve, other, boy, far, admin, super, worker,
          novice, room, away, elsewhere

MCRoomOf == cand :> room @@ eve :> room @@ boy :> away @@ other :> away @@ far :> elsewhere
MCUserOf == eve :> worker @@ other :> admin
MCRoles == admin :> "admin" @@ super :> "super_admin" @@ worker :> "proctor" @@ novice :> "absent"

Nobody == [pages |-> {}, sids |-> {}, faces |-> {}, users |-> {}, slots |-> {}, events |-> {}]

MCCasts == {
    [Nobody EXCEPT !.pages = {p1, p2}, !.events = Events],
    [Nobody EXCEPT !.sids = {s1, s2, s3}, !.faces = {boy, other, far}],
    [Nobody EXCEPT !.users = {super, worker}, !.slots = {r1, r2}],
    [Nobody EXCEPT !.sids = {s1, s2}, !.faces = {cand, eve}, !.users = {worker}, !.events = Events],
    [Nobody EXCEPT !.sids = {s1}, !.faces = {eve}, !.users = {super, worker}, !.slots = {r1},
                   !.events = {"start"}]}

MCOneSocket == {[Nobody EXCEPT !.sids = {s1, s2}, !.faces = {boy}]}
MCAdministrators == {[Nobody EXCEPT !.users = {admin, super}, !.slots = {r1, r2}]}
=============================================================================
