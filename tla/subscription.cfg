SPECIFICATION SafeSpec
CONSTANTS
    c1 = c1
    c2 = c2
    None = None
    Checkouts = {c1, c2}
    Plan <- MCPlan
    Lives <- MCLives
    Sales = 1
    Slots = {s1, s2}
    Faults = 1
SYMMETRY Symmetry
INVARIANTS SubscriptionsTypeOK StatusFollowsPayPal PlanFollowsSubscription OneSubscriptionAtATime OpenCheckoutIsLive CyclesGrantedOnce
CHECK_DEADLOCK FALSE
