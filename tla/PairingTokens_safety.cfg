SPECIFICATION PairingSpec
CONSTANTS
    acme = acme
    globex = globex
    phone = phone
    tablet = tablet
    token = token
    c1 = c1
    c2 = c2
    c3 = c3
    Tenants <- MCTenants
    Devices <- MCDevices
    Tokens <- MCTokens
    Calls <- MCCalls
    Ttl = 1
    MaxTime = 2
SYMMETRY Symmetry
CHECK_DEADLOCK FALSE
INVARIANTS
    SpentIsRefused
    OneTenantOneDevice
