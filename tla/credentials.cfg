\* Two requests at a time that may fail, two rows, two addresses; two codes
\* as long as requests come one at a time, one where they overlap; the mail of a
\* code may wait behind another mail.
CONSTANTS
    u1 = u1
    u2 = u2
    Users = {u1, u2}
    e1 = e1
    e2 = e2
    Emails = {e1, e2}
    p1 = p1
    p2 = p2
    Passwords = {p1, p2}
    c1 = c1
    c2 = c2
    Codes = {c1, c2}
    r1 = r1
    r2 = r2
    Requests = {r1, r2}
    None = None
    Unborn = Unborn
    Deleted = Deleted
    MaxJobs = 2
    StartBehind = {"forgotPassword", "verifyResetCode"}
SPECIFICATION MCSpec
SYMMETRY Symmetry
INVARIANTS TypeOK OneRowPerAddress CodesGoToTheirAddress ExternalPasswordsAreReset ClientsAreUnbound CalmCodesHonouredOnce CalmNewestMailCounts
PROPERTIES CalmCodesStand CalmChangesReplaceTheVerified
