\* Clients that submit to each other, cancel, stop reading, leave; callers of the REST listener.
CONSTANTS
    A = A B = B a = a b = b http = http s1 = s1 s2 = s2 s3 = s3 s4 = s4 s5 = s5
    m1 = m1 d1 = d1 d2 = d2 d3 = d3
    q1 = q1 q2 = q2 q3 = q3
    Conns = {A, B}
    Submits = {s1, s2, s3, s4, s5, m1, d1, d2, d3}
    Asks = {q1, q2, q3}
    Load <- MCLoad
    AskOf <- MCAskOf
    Range <- MCRange
    Local = {http}
    Addresses = {a, b, http}
    NoJob = NoJob
    Scenes <- MCScenes
SPECIFICATION FairSpec
INVARIANTS TypeOK TableMatchesWaiters OkMeansAnswered DeliveredOnce NobodyPassedOver
   
CHECK_DEADLOCK FALSE
