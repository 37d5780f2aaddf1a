\* Two sessions on separate names: one unscoped with a channel, one scoped
\* to a folder and without a channel.
CONSTANTS
    s1 = s1
    s2 = s2
    root = root
    a = a
    b = b
    c = c
    Sessions = {s1, s2}
    Paths = {root, a, b, c}
    Root = root
    LinkTarget <- MC_LinkTarget
    Policy <- MC_Policy
    PermDownload = {a, c}
    PermListItems = {root, a, b}
    RealPathers = {a}
    Prefixed = {s2}
    NilChannel = {s2}
    SessionPaths <- MC_Disjoint

SPECIFICATION Spec
INVARIANT TypeOK
