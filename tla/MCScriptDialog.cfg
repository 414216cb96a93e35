\* see README.md, section Runs
SPECIFICATION Spec
CONSTANTS
    Env = {"dialog", "noload", "key", "start", "restart"}
    MaxScripts = 4
    MaxRequests = 1
INVARIANTS
    Waiter
