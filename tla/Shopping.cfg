\* Two pages of one cart submitted at the same time, while edits of the cart overlap; a list
\* of two pages; two tabs of a customer.
SPECIFICATION ShoppingSpec
CONSTANTS
    Browsers = {b1}
    Carts = {c1}
    None = None
    Variants = {v1}
    Backorder = {}
    MaxPerOrder = 2
    Quantities = {0, 1, 2}
    Edits = {e1, e2}
    Submits = {s1, s2}
    Keys = {k1, k2}
    Coupons = {p1}
    UsageLimit = 1
    InitialStock <- MCInitialStock
    Pages = {"checkout", "list", "profile", "reviews"}
    ListedProducts = {1, 2, 3}
    ListedPrices = {3, 5}
    Relevance <- MCRelevance
    Limit = 2
    MaxChanges = 1
    Tabs = {t1, t2}
    MaxSaves = 3
    Buyers = {buyer}
SYMMETRY Symmetry
INVARIANTS
    CouponCounted
    OneOrderPerKey
    PagesCoverTheList
    SavedIsShown
    
\* Carts and keys of an instance are finitely many: it may come to rest.
CHECK_DEADLOCK FALSE
