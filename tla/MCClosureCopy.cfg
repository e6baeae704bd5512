\* two crossings of closure objects or functions, over the functions of
\* MCFunctionCopy; classA is a class of the source's request
CONSTANTS
    f1 = f1
    g1 = g1
    k1 = k1
    k2 = k2
    h1 = h1
    s1 = s1
    i1 = i1
    m1 = m1
    bad = bad
    fileA = fileA
    fileB = fileB
    o1 = o1
    o2 = o2
    o3 = o3
    classA = classA
    classS = classS
    None = None
    NoRc = NoRc
    Functions <- MCFunctions
    Files = {fileA, fileB}
    PlainFiles = {fileA}
    Addr <- MCAddr
    Fn <- MCFn
    MaxRequests = 2
    ClosureObjs <- MCClosureObjs
    ObjFn <- MCObjFn
    ObjScope <- MCObjScope
    ObjCalled <- MCObjCalled
    SrcClasses = {classA}
    ShmClasses = {classS}
SPECIFICATION ClosureSpec
CHECK_DEADLOCK FALSE
INVARIANT
    ClosureScopeRebound
