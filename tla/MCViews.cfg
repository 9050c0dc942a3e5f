SPECIFICATION MCSpec
CONSTANTS
    None = None
    Auto = Auto
    MaxTagValues = 2
    K = 2
    A = A
    B = B
    h1 = h1
    h2 = h2
    h3 = h3
    Handle <- MCHandle
    AtomsOf <- MCAtomsOf
    Reresolved <- MCReresolved
    FactChoices <- MCFacts
    BudgetChoices <- MCBudgets
    MaxMint = 5
    Event = {"follow1", "follow2", "mute", "bob1", "bob2", "cat1", "retract"}
    Body <- MCBody
    Root = {"feed", "quiet", "latest", "bobs", "notes"}
    Selection <- MCSelection
    Key = {"ann", "bob", "cat"}
    Nil = Nil
    Observer = {o1, o2}
    HandleId = {x1, x2, x3}
    Scene <- MCScene
    o1 = o1
    o2 = o2
INVARIANTS
    PlanExact
    PlanTold
    ViewsExact
    FoldExact
PROPERTIES
    ClaimsSound
CHECK_DEADLOCK FALSE
