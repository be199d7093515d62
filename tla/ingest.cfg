SPECIFICATION FairSpec
CONSTANTS
    Job = {j1, j2}
    Batches = 2
    Workers = 2
    RequestId <- Ids
    Most <- AnyOrCalm
    Total <- ThreeOrTwo
    NoJob = NoJob
    NoReq = NoReq
INVARIANTS TypeOK KeptIsThere
PROPERTIES JobSpec JobEnds
CHECK_DEADLOCK FALSE
