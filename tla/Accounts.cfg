SPECIFICATION FairSpec
CONSTANTS
    ann = ann
    bob = bob
    Browsers = {b1}
    Users = {ann, bob}
    Login <- MCLogin
    Names = {"b"}
    Plans <- MCPlans
    Tokens = {t1}
    MaxReqs = 3
    MaxEvents = 1
    NoOne = NoOne
INVARIANT AccountsTypeOK
INVARIANT SignupIsWhole
INVARIANT SlugLostInRaceOnly
INVARIANT WithinPlan
INVARIANT TokensStayHome
INVARIANT NameIsScope
PROPERTY RevokedForGood
PROPERTY RequestsEnd
CHECK_DEADLOCK FALSE
