\* Two changes, requests that overlap and come late, the app closed once.
SPECIFICATION Spec
CONSTANTS
    GiveUpAfter = 1
    MaxChanges = 2
    MaxOther = 0
    MaxKills = 1
    MaxCrashes = 0
    MaxStops = 1
VIEW Seen
INVARIANTS NeverTwice CountedRight NothingLost
