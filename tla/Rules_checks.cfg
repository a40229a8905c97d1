CONSTANTS
    own = own
    other = other
    q1 = q1
    q2 = q2
    w1 = w1
    w2 = w2
    c1 = c1
    c2 = c2
    d1 = d1
    OwnResource = own
    Files <- MCFiles
    GrantSets <- MCGrantSets
    Editors = {q1, q2}
    CustomRole = "custom1"
    Edited = {"viewer", "custom1"}
    Keys = {"a"}
    Texts = {"0", "1", "[x"}
    Loads <- MCLoads
    Ints <- MCLoads
    Releases <- MCReleases
    Workers = {w1, w2}
    Codes = {c1, c2}
    Fields <- MCFields
    Metadatas <- MCMetadatas
    Documents = {d1}
SPECIFICATION Spec
SYMMETRY Symmetry
CHECK_DEADLOCK FALSE
INVARIANTS
    ViewersRead
    SettingsFollowRelease
    MetadataKept
