SPECIFICATION FairPaymentSpec
CONSTANTS
    NumJobs = 1
    Credits = {1}
    Amounts = {1, 2}
    Welcome = 0
    Refs <- MCRefs
    Orders = {o1, o2}
    Requests = {r1, r2}
    Offers <- MCOffers
    o1 = o1
    o2 = o2
    Prices = {2}
    CreditsPerCny = 100
    PlanCredits = 1
    RefundNos = {"n1"}
    MaxFaults = 1
INVARIANTS
    PaymentTypeOK
    GrantedIffFulfilled
    RefundRecordIsLedger
    RevenueIsSettlement
PROPERTIES
    RefundIsRecordedOnce
    PaidIsSettled
CHECK_DEADLOCK FALSE
