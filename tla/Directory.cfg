CONSTANTS
    People = {ann, bob}
    Groups = {staff, sysop}
    Boxes = {sales}
    AdminGroup = sysop
    FixedUsers = {bob}
    Replicas = {r1}
    Logins = {l1}
    MaxEvents = 2
    MaxFaults = 1
SPECIFICATION MCSpec
PROPERTIES
    OnlyLapsedAreRemoved
    OnlyLeaversAreDeactivated
    AuthorityIsKept
    EventuallyInSync
CHECK_DEADLOCK FALSE
