CONSTANTS
    Procs = {p, q}
    MaxKey = 6
    MaxCrashes = 1
    Early <- MCEarly
    MaxChanges = 1
SPECIFICATION Spec
SYMMETRY Symmetry
INVARIANTS
    TypeOK
    KeysAgree
    EffectNeedsRight
    NothingRevealed
    NotTurnedAway
