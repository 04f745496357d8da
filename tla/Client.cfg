\* Two members and one tab, with calls that fail.
SPECIFICATION TabSpec
CONSTANTS
    ann = ann  bob = bob
    Nobody = Nobody
    People = {ann, bob}
    MaxActs = 2
    MaxDrops = 1
CHECK_DEADLOCK FALSE
INVARIANTS CalmScreenAgrees NotificationsFollowTheAccount
PROPERTIES ScreenSettles
