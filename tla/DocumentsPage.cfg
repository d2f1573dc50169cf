\* One document, from its upload to its deletion, one outage and one hidden tab.
CONSTANTS
    Docs = {d1}
    NoDoc = NoDoc
    MaxOutages = 1
    MaxHides = 1
SPECIFICATION FairPageSpec
INVARIANTS
    ActiveIsFollowed
