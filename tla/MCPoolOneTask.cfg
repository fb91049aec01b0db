SPECIFICATION FairSpec
CONSTANTS
    c1 = c1  c2 = c2  c3 = c3  c4 = c4
    t1 = t1  t2 = t2
    Clients <- MCClients
    Tasks = {t1, t2}
    TaskOf <- OneTask
    Total = 2
INVARIANTS
    Ownership
    SleepersAreCovered
PROPERTY EventuallyServed
