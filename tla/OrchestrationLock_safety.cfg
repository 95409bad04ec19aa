\* Two tasks on one event loop and a worker of another process; one task
\* nests up to three blocks.
SPECIFICATION Spec
CONSTANTS
    p1 = p1  p2 = p2  loop = loop  worker = worker
    t1 = t1  t2 = t2  w1 = w1
    a1 = a1  a2 = a2  a3 = a3  b1 = b1  b2 = b2
    Processes = {p1, p2}
    Threads = {loop, worker}
    Owners = {t1, t2, w1}
    Tasks = {t1, t2}
    ThreadOf <- MCThreadOf
    ProcessOf <- MCProcessOf
    Global = Global
    Domains = {d1}
    Contexts = {a1, a2, a3, b1, b2}
    OwnerOf <- MCOwnerOf
    NoContext = NoContext
SYMMETRY NestSymmetry
INVARIANTS MutualExclusion CanonicalOrder RecordedIsLocked NothingStrandedByAsync
PROPERTIES ExclusionSpec
