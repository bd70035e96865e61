\* Two acting admins; two requests on the images; two products, and two categories, that want
\* each other's slugs; a form open in two tabs; a dashboard at the turn of a day.
SPECIFICATION PagesSpec
CONSTANTS
    NULL = NULL
    GONE = GONE
    Users = {a, b, c}
    Founders = {a, b}
    Actors = {a, b}
    Requests = {r1, r2}
    MaxImages = 3
    InGallery = 1
    Variants = {v}
    UNBORN = UNBORN
    Products = {p, q}
    Candidates <- ProductTexts
    Exclusive = TRUE
    LostAt <- AnyTime
    FormProducts = {p}
    Boxes = {isActive}
    Categories = {d, e}
    MaxAttempts = 1
    Texts <- CategoryTexts
    Orders = {o}
    Viewers = {tab}
    RANGES <- SomeRanges
    DayTicks = 2
    WeekDays = 3
    FirstOfMonth <- Months
    Starts = {20, 21}
    MaxTicks = 2
    TtlMs = 1
SYMMETRY Symmetry
INVARIANTS
    LooksKeepAnAdmin
    GalleryInOrder
    FormerAddressesResolve
    CategoriesOfTheLastSave
    MenuLinksResolve
    EachSaleCountedOnce
\* A dashboard comes to rest when its orders are withdrawn and its clock stops.
CHECK_DEADLOCK FALSE
