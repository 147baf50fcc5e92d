SPECIFICATION Spec
SYMMETRY OpSymmetry
CONSTANTS
    Principals = {1, 2}
    Operations = {o1, o2}
    POOL_TARGET_SIZE = 2
    PENDING_USER_TIMEOUT = 0
    TRIAL_CANISTER_EXPIRY = 4
    MAX_IN_FLIGHT = 2
    MAX_CANISTERS = 2
    MAX_TIME = 2
INVARIANT NoSharing
