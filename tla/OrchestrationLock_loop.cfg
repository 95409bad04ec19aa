\* The two tasks of one event loop: a task that polls synchronously stops the
\* loop, and with it the task that holds the lock; two tasks that nest two
\* target locks in opposite orders wait for each other.
SPECIFICATION FairSpec
CONSTANTS
    p1 = p1  p2 = p2  loop = loop  worker = worker
    t1 = t1  t2 = t2  w1 = w1
    a1 = a1  a2 = a2  a3 = a3  b1 = b1  b2 = b2
    Processes = {p1}
    Threads = {loop}
    Owners = {t1, t2}
    Tasks = {t1, t2}
    ThreadOf <- MCLoopThreadOf
    ProcessOf <- MCLoopProcessOf
    Global = Global
    Domains = {d1, d2}
    Contexts = {a1, a2, b1, b2}
    OwnerOf <- MCLoopOwnerOf
    NoContext = NoContext
PROPERTIES WaitsResolve AbandonedAreReleased
