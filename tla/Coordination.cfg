SPECIFICATION Spec
CONSTANTS
    o1 = o1
    o2 = o2
    o3 = o3
    e1 = e1
    e2 = e2
    e3 = e3
    n1 = n1
    n2 = n2
    a = a
    b = b
    q1 = q1
    q2 = q2
    q3 = q3
    q4 = q4
    N = 2
    Ops = {o1, o2, o3}
    OpKinds <- Kinds
    Key <- Keys1
    Remotes = {2}
    Routings = {"RoundRobin", "Random", "KeyBased", "LeastLoaded"}
    Capacity = 2
    Members = {m1, m2}
    Relayed = {m2}
    MaxRefs = 2
    MaxChanges = 3
    Children = {c1, c2}
    MaxRestarts = 2
    Within = 2
    MaxTime = 5
    MaxFailures = 4
    MaxRegistered = 2
    MaxDue = 3
    Nodes = {n1, n2}
    Envelopes = {e1, e2, e3}
    Target <- Targets3
    Modes <- Modes3
    ChannelSize = 1
    MaxItems = 2
    MaxRegistrations <- Twice
    MetricWindow = 3
    BucketTime = 2
    MaxClock = 7
    MaxMessages = 2
    Recorders = {r1, r2}
    NodeNames = {a, b}
    Plans <- TwoNodes
    MaxTries = 1
    MaxClusters = 2
    ActorNames = {a, b}
    Rpcs = {q1, q2, q3, q4}
    RpcOps <- FourCalls
    Impatient = {q4}
    MaxPolls = 2
    NoRpc = NoRpc
    Units = {"pool", "broadcast", "supervision", "timer", "remote", "metrics", "harness", "node"}
INVARIANTS
    RoundRobinIsEven
    ReceiptsAreTruthful
    RestartBudgetIsExact
    CancelIsHeeded
    RemoteAskIsSound
    EnvelopesAreConserved
    WindowIsSharp
    ProcessesAreOwned
    AccountsAreExact
    StopTellsWatchers
PROPERTIES
    CallersAreServed
CHECK_DEADLOCK FALSE
