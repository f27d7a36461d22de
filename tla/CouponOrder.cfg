SPECIFICATION CouponSpec
CONSTANTS
    Checkouts = {"o1", "o2", "o3"}
    UserOf <- MCUserOf
    maxRedemptions = 2
    perUserLimit = 1
INVARIANT AlreadyRedeemedIsTrue
CHECK_DEADLOCK FALSE
