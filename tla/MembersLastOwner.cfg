CONSTANTS
    p1 = p1
    p2 = p2
    k1 = k1
    c1 = c1
    NoProfile = NoProfile
    Profiles = {p1, p2}
    Founder = p1
    Posts = {k1}
    WorkPosts = {k1}
    Managers = {c1}
    Sent <- SomeBodies
SPECIFICATION MembersSpec
INVARIANT AnOwnerRemains
CHECK_DEADLOCK FALSE
