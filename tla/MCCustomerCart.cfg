\* Two shops, three products, quantities up to two, one device, two submits' keys
\* and two calls at a time.
SPECIFICATION Spec
CONSTANTS
    shopA = shopA  shopB = shopB  p1 = p1  p2 = p2  p3 = p3
    Account = Account
    Devices = {d1}
    Shops = {shopA, shopB}
    Products = {p1, p2, p3}
    ShopOf <- MCShopOf
    InSet = {p1, p2}
    MaxQuantity = 2
    Additions = {1}
    Edits = {2}
    MaxCalls = 6
    Keys = {k1}
    Requests = {r1, r2}
    Handlers = {h1, h2}
SYMMETRY Symmetry
INVARIANTS TypeOK SubmitOrdersOnce SetsOrderedWhole
CHECK_DEADLOCK FALSE
