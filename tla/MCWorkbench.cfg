SPECIFICATION FairSpec
CONSTANTS
    Ids = {i1, i2}
    Reqs = {r1, r2}
    Urls <- MCUrls
    NoUrl = NoUrl
    NoRec = NoRec
    NoId = NoId
    NoReq = NoReq
    LogMax = 1
    MaxRequests = 2
INVARIANTS AckedSurvive  AdmittedOnly ProbingAccounted
PROPERTIES ImplementsTable RequestsAnswered ProbeSettles
