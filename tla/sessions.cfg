CONSTANTS
    Users = {ann}
    Passwords = {"!", "pw"}
    Tokens = {k1, k2}
    Actors = {a1, a2}
    Lifetime = 1
    Never = Never
    Engines = {"sqlite", "postgres"}
SPECIFICATION Spec
SYMMETRY AnyActorAnyToken
INVARIANTS
    OnlyTheEntitledGetIn
    OldPasswordsAreSwept
PROPERTIES
    HalfMadeUsersNeedAPassword
    TokensEndForGood
