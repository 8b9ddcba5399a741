SPECIFICATION Spec
CONSTANTS
    s1 = s1
    s2 = s2
    l1 = l1
    Users = {"alice", "bob"}
    DemoUsers = {"alice"}
    Passwords = {"", "old", "new"}
    NoPassword = ""
    Grants <- MCGrants
    Servers <- MCServers
    Skew <- MCSkew
    MaxSkew = 1
    TTL = 3
    LoginLimit = 1
    Logins <- MCLogins
    MaxTime = 6
INVARIANTS
    OldPasswordIsBounded
    RevocationIsBounded
    TokensWorkEverywhere
