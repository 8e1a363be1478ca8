\* An administrator's request overlaps one that promotes its target.
CONSTANTS
    p1 = p1
    p2 = p2
    f1 = f1
    f2 = f2
    f3 = f3
    s1 = s1
    s2 = s2
    s3 = s3
    r1 = r1
    r2 = r2
    cand = cand
    boy = boy
    eve = eve
    other = other
    admin = admin
    super = super
    worker = worker
    novice = novice
    room = room
    away = away
    far = far
    elsewhere = elsewhere
    Pages = {p1, p2}
    Files = {f1, f2, f3}
    NoFile = NoFile
    Quota = 2
    MaxBare = 2
    Proctors = {admin, super, worker, novice}
    Unassigned = Unassigned
    Sids = {s1, s2, s3}
    Candidates = {cand, boy, far}
    Staff = {eve, other}
    RoomOf <- MCRoomOf
    NoOne = NoOne
    Users = {admin, super, worker, novice}
    Slots = {r1, r2}
    Nothing = Nothing
    InitialRole <- MCRoles
    MaxEdits = 2
    Casts <- MCAdministrators
    UserOf <- MCUserOf
    Watched = room
SPECIFICATION MonitoringSpec
PROPERTIES
    OnlySuperTouchesPrivileged
