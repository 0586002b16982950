CONSTANTS
    p1 = p1  p2 = p2
    c1 = c1  c2 = c2  c3 = c3
    root = root  dir = dir  file = file  fresh = fresh
    pipes = pipes  pipe1 = pipe1
    New = New
    None = None
    Procs <- MCProcs
    FirstProc = p1
    MaxFd = 2
    Custodies <- MCCustodies
    Nodes <- MCNodes
    Mounts <- MCMounts
    Dirs <- MCDirs
    ParentOf <- MCParentOf
    OnMedium <- MCOnMedium
    Pipes = {pipe1}
    PipeRoot = pipes
    Writable = {dir}
    Paths <- MCPaths
    MaxRef = 4
SPECIFICATION Spec
INVARIANTS RefcountAccounting CustodyOwnedOnce PipeStaysOpen
PROPERTY CloseIsLast
SYMMETRY Symmetry
CHECK_DEADLOCK FALSE
