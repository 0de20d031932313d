SPECIFICATION Spec
CONSTANTS
    alice = alice
    bob = bob
    work = work
    NoSave = NoSave
    Actor = {alice, bob}
    Target = {alice, bob}
    Affil = {work}
    Levels <- FewLevels
    Outcomes <- FewOutcomes
    MaxLocal = 1
    MaxSent = 2
    MaxEdits = 3
    Linked = {alice, bob}
INVARIANTS
    TypeOK
    RestartChangesNothing
    NoDistrustedTalk
CHECK_DEADLOCK FALSE
