CONSTANTS
    Chunks = 1
    MaxLent = 5
    MaxRef = 2
SPECIFICATION Spec
INVARIANT PagesSound
