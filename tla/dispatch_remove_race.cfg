\* Two sessions removing, renaming and creating the same names.
CONSTANTS
    s1 = s1
    s2 = s2
    root = root
    a = a
    b = b
    c = c
    Sessions = {s1, s2}
    Paths = {root, a, b, c}
    Root = root
    LinkTarget <- MC_LinkTarget
    Policy <- MC_Policy
    PermDownload = {a, c}
    PermListItems = {root, a, b}
    RealPathers = {a}
    Prefixed = {s2}
    NilChannel = {s2}
    SessionPaths <- MC_Shared

SPECIFICATION Spec
PROPERTY RemoveKeepsDirectories
