\* One session reading every name; the denied and hidden ones lack download permission.
CONSTANTS
    s1 = s1
    s2 = s2
    root = root
    a = a
    b = b
    c = c
    Sessions = {s1}
    Paths = {root, a, b, c}
    Root = root
    LinkTarget <- MC_LinkTarget
    Policy <- MC_Policy
    PermDownload = {a, c}
    PermListItems = {root, a, b, c}
    RealPathers = {a}
    Prefixed = {s2}
    NilChannel = {s2}
    SessionPaths <- MC_Reader

SPECIFICATION Spec
INVARIANT DeniedNameAnswers
