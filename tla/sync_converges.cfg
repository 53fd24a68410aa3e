\* One change, and one of another device; the app closed or the server stopped
\* once.
SPECIFICATION FairSpec
CONSTANTS
    GiveUpAfter = 2
    MaxChanges = 1
    MaxOther = 1
    MaxKills = 1
    MaxCrashes = 1
    MaxStops = 1
INVARIANT CountedRight
PROPERTY Converges
