----------------------------- MODULE MCShopping -----------------------------
(***************************************************************************)
(* Small instances of what a customer does: the cart and the checkout      *)
(* (Checkout, extended), and instantiated the lists of products (Listing), *)
(* the profile (Account) and the reviews (Reviews).  They share no row     *)
(* that matters to what is said of them: a behaviour is about one of them, *)
(* chosen at the start.                                                    *)
(***************************************************************************)
EXTENDS Checkout, TLC

CONSTANTS Pages,                                                \* what is looked at
          ListedProducts, ListedPrices, Relevance, Limit,
          MaxChanges,                                           \* Listing
          Tabs, MaxSaves,                                       \* Account
          Buyers                                                \* Reviews

VARIABLES
    about,                                                      \* the page that is looked at
    product, edits, visit,                                      \* Listing
    saves, picture, files, address, written, saving, shown,     \* Account
    isActive, order, review, reviewing, paid, late              \* Reviews

listVars == <<product, edits, visit>>
accountVars == <<saves, picture, files, address, written, saving, shown>>
reviewVars == <<isActive, order, review, reviewing, paid, late>>

Lists == INSTANCE Listing
    WITH Products <- ListedProducts, Prices <- ListedPrices, MaxEdits <- MaxChanges
Profile == INSTANCE Account WITH NULL <- None, tab <- saving

\* One customer with several tabs.
SignedIn == [t \in Tabs |-> CHOOSE c \in Buyers : TRUE]

Reviewed == INSTANCE Reviews WITH Customers <- Buyers, Owner <- SignedIn, tab <- reviewing

ASSUME ListingAssumption == Lists!ListingAssumption
ASSUME AccountAssumption == Profile!AccountAssumption
ASSUME ReviewsAssumption == Reviewed!ReviewsAssumption

\* Two units of everything.
MCInitialStock == [v \in Variants |-> 2]

MCRelevance == [p \in ListedProducts |-> (2 * p) % 5]

\* What runs at the same time is alike, and so are ids and browsers.
Symmetry == Permutations(Submits) \cup Permutations(Keys) \cup Permutations(Carts)
            \cup Permutations(Browsers) \cup Permutations(Coupons) \cup Permutations(Edits)

\* A list that nobody looks at is of products that are alike.
ShoppingInit ==
    /\ about \in Pages
    /\ Init /\ Lists!Init /\ Profile!Init /\ Reviewed!Init
    /\ about # "list" =>
         product = [p \in ListedProducts |->
                      [listed |-> TRUE, inStock |-> TRUE, price |-> CHOOSE x \in ListedPrices : TRUE]]

ShoppingNext ==
    /\ \/ about = "checkout" /\ Next /\ UNCHANGED <<listVars, accountVars, reviewVars>>
       \/ about = "list" /\ Lists!Next /\ UNCHANGED <<vars, accountVars, reviewVars>>
       \/ about = "profile" /\ Profile!Next /\ UNCHANGED <<vars, listVars, reviewVars>>
       \/ about = "reviews" /\ Reviewed!Next /\ UNCHANGED <<vars, listVars, accountVars>>
    /\ UNCHANGED about

ShoppingSpec ==
    ShoppingInit /\ [][ShoppingNext]_<<vars, listVars, accountVars, reviewVars, about>>

----------------------------------------------------------------------------
(* Properties *)

\* Of Listing: who reads on to the last page has seen what matched, and each once
\* (listActive, search, parsePage, buildPageMeta).
PagesCoverTheList == Lists!PagesCoverTheList

\* Of Account: while there is one address, a page shows what was saved last, and always a
\* picture that is there (updateProfile, getProfile).
SavedIsShown == Profile!SavedIsShown

\* Of Account: "a single default address" (updateProfile).
SingleDefault == Profile!SingleDefault

\* Of Reviews: the form that is offered is accepted (canReview, hasReviewed, create).
OfferIsHonoured == Reviewed!OfferIsHonoured

\* Of Reviews: "a paid+ order" (canReview).
ReviewsArePaidFor == Reviewed!ReviewsArePaidFor
=============================================================================
