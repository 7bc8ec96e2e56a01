\* Two processes with one key, two heights of one vote slot each.
SPECIFICATION Spec
CONSTANTS
    Writers = {w1, w2}
    Slots = {x}
    Ballots = {a, b}
    MaxHeight = 2
    MaxRevision = 2
    MaxLanding = 1
    Commit = Commit
    None = None
SYMMETRY Symmetry
INVARIANTS TypeOK NoEquivocation SentIsDurable RevisionFixesRecord
PROPERTIES JournalIsMonotone
CHECK_DEADLOCK FALSE
