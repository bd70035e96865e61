---------------------------- MODULE MCBackOffice ----------------------------
(***************************************************************************)
(* Small instances of the pages of the back office: the team (AdminTeam,   *)
(* extended), and instantiated the images of a product and its addresses,  *)
(* the product form, the categories with the menu, and the sales dashboard.*)
(* The pages share no row that matters to what is said of them: a behaviour*)
(* works on one of them, chosen at the start, with the others at rest.     *)
(***************************************************************************)
EXTENDS AdminTeam, TLC

CONSTANTS NULL, GONE,
          MaxImages, InGallery, Variants,                         \* ProductImages
          Products, Candidates, Exclusive, LostAt, UNBORN,        \* SlugRedirects
          FormProducts, Boxes, Categories, MaxAttempts,           \* ProductForm
          Texts,                                                  \* CategoryPages
          Orders, Viewers, RANGES, DayTicks, WeekDays,            \* Analytics
          FirstOfMonth, Starts, MaxTicks, TtlMs

VARIABLES
    page,                                           \* the page that is worked on
    image, created, variants, upload, disturbed,    \* ProductImages
    slug, active, redirect, saving, holder,         \* SlugRedirects
    row, links, tab,                                \* ProductForm
    category, used, moved, editing, loading, menu, owner,  \* CategoryPages
    now, until, order, range, computing, cache      \* Analytics

imagesVars == <<image, created, variants, upload, disturbed>>
addressesVars == <<slug, active, redirect, saving, holder>>
formVars == <<row, links, tab>>
categoriesVars == <<category, used, moved, editing, loading, menu, owner>>
salesVars == <<now, until, order, range, computing, cache>>

Images == INSTANCE ProductImages WITH request <- upload
Addresses == INSTANCE SlugRedirects WITH request <- saving
Form == INSTANCE ProductForm WITH Products <- FormProducts, Tabs <- Requests
Catalogue == INSTANCE CategoryPages WITH redirect <- moved, request <- editing, holder <- owner

Sales == INSTANCE Analytics WITH Requests <- Viewers

ASSUME ImagesAssumption == Images!ProductImagesAssumption
ASSUME AddressesAssumption == Addresses!SlugRedirectsAssumption
ASSUME FormAssumption == Form!ProductFormAssumption
ASSUME CatalogueAssumption == Catalogue!CategoryPagesAssumption
ASSUME SalesAssumption == Sales!AnalyticsAssumption

\* The second slug tried for "a" is the first one tried for "a-2".
ProductTexts == {<<"a", "a-2">>, <<"b">>, <<"a-2">>}
CategoryTexts == {<<"a", "b">>, <<"b">>}

AnyTime == {"probe", "write"}

\* A calendar of short months; the behaviour begins in the last ones.
Months == [m \in 0..6 |-> <<0, 2, 4, 7, 9, 11, 13>>[m + 1]]
SomeRanges == {[bucket |-> "day", units |-> 3], [bucket |-> "week", units |-> 2],
               [bucket |-> "month", units |-> 2]}

Symmetry == Permutations(Requests)

pagesVars == <<vars, page, imagesVars, addressesVars, formVars, categoriesVars, salesVars>>

\* A dashboard that nobody looks at is one of no orders.
PagesInit ==
    /\ page \in {"team", "images", "addresses", "form", "categories", "sales"}
    /\ Init /\ Images!Init /\ Addresses!Init /\ Form!Init /\ Catalogue!Init /\ Sales!Init
    /\ page # "sales" => /\ now = CHOOSE s \in Starts : TRUE
                         /\ range = CHOOSE r \in RANGES : TRUE
                         /\ \A o \in Orders : order[o].status = "none"

PagesNext ==
    /\ \/ page = "team" /\ Next
          /\ UNCHANGED <<imagesVars, addressesVars, formVars, categoriesVars, salesVars>>
       \/ page = "images" /\ Images!Next
          /\ UNCHANGED <<vars, addressesVars, formVars, categoriesVars, salesVars>>
       \/ page = "addresses" /\ Addresses!Next
          /\ UNCHANGED <<vars, imagesVars, formVars, categoriesVars, salesVars>>
       \/ page = "form" /\ Form!Next
          /\ UNCHANGED <<vars, imagesVars, addressesVars, categoriesVars, salesVars>>
       \/ page = "categories" /\ Catalogue!Next
          /\ UNCHANGED <<vars, imagesVars, addressesVars, formVars, salesVars>>
       \/ page = "sales" /\ Sales!Next
          /\ UNCHANGED <<vars, imagesVars, addressesVars, formVars, categoriesVars>>
    /\ UNCHANGED page

PagesSpec == PagesInit /\ [][PagesNext]_pagesVars

----------------------------------------------------------------------------
(* Properties *)

\* Of ProductImages: positions 0..n with the thumbnail first, whatever removals and moves
\* overlap; after an upload that overlaps another request, from the next removal or move
\* that sees all images alone (persistOrder).
GalleryInOrder == Images!GalleryInOrder

\* Of SlugRedirects: no former address of a product that is shown is dead
\* (createOrFail and record).
FormerAddressesResolve == Addresses!FormerAddressesResolve

\* Of ProductForm: a product has the categories of the form that was saved last (update).
CategoriesOfTheLastSave == Form!CategoriesOfTheLastSave

\* Of CategoryPages: a link of the menu, however old, leads to its category
\* (resolveSlug, record, FindTopLevel, FindChildren).
MenuLinksResolve == Catalogue!MenuLinksResolve

\* Of Analytics: a sale is in the figures of its period and of no other one (compute).
EachSaleCountedOnce == Sales!EachSaleCountedOnce
=============================================================================
