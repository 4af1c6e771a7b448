CONSTANTS
    w1 = w1
    w2 = w2
    w3 = w3
    ui = ui
    net = net
    t1 = t1
    t2 = t2
    t3 = t3
    Workers <- MCWorkers
    Clients <- MCClients
    Tasks <- MCTasks
    PriorityOf <- MCPriorityOf
SPECIFICATION FairSpec
CHECK_DEADLOCK FALSE
INVARIANTS
    TakenOnce
    Drained
    NoLostWakeup
PROPERTIES
    TasksAreTaken
    DestructorReturns
