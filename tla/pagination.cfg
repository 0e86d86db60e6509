\* Six rows in four blocks, pages of one to three rows, one timestamp range.
CONSTANTS
    Keys <- MCKeys
    MaxLimit = 3
    Ranges <- MCRanges
SPECIFICATION PagesSpec
CHECK_DEADLOCK FALSE
INVARIANTS
    WalkIsComplete
    LinksLead
PROPERTY
    PrevJoinsOn
