SPECIFICATION Spec
CONSTANTS
    Clusters = {jazz, rock, folk, void}
    EmptyClusters = {void}
    MaxQueue = 4
    MaxDaily = 2
INVARIANT DoneWasStarted
INVARIANT OneStart
PROPERTY QueueSettles
CHECK_DEADLOCK FALSE
