\* All ascending lists of up to 3 of 4 ids, dst one short to one long.
CONSTANTS
    Ids <- MCIds
    MaxLen = 3
    Slack = 1
SPECIFICATION Spec
INVARIANTS
    MergeIsSortedUnion
