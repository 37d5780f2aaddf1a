\* Copies with callers assigning elements of the groups lists.
CONSTANTS
    h0 = h0
    h1 = h1
    h2 = h2
    h3 = h3
    n1 = n1
    n2 = n2
    Handles = {h0, h1, h2, h3}
    Original = h0
    Names = {n1, n2}
    MaxArrays = 7
    SliceLen = 1
    Providers <- MC_Providers
    WritableFields = {"groups"}

SYMMETRY MC_Symmetry
SPECIFICATION Spec
PROPERTY CopyListsIndependent
