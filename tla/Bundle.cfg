SPECIFICATION Spec
CONSTANTS
    Secrets = {s1, s2}
    Texts = {ta, tb}
    MaxSeals = 2
    MaxRewrites = 2
    MaxDamage = 1
    None = None
    Bad = Bad
INVARIANTS TypeOK OpensFaithfully IntactRestores
SYMMETRY Symmetry
CHECK_DEADLOCK FALSE
