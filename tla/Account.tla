------------------------------ MODULE Account ------------------------------
(***************************************************************************)
(* A customer's own pages (ProfileController, AccountService): the profile *)
(* form with its picture and its one address, saved from several tabs, and *)
(* the pages that show them, the profile and the checkout's form.  Every   *)
(* statement is awaited; there is no transaction.                          *)
(***************************************************************************)
EXTENDS Naturals, Functions

CONSTANTS Tabs,
          MaxSaves,  \* bound: saves of the form
          NULL

AccountAssumption == MaxSaves \in Nat /\ NULL \notin Nat

VARIABLES
    saves,    \* how many saves have begun; each has its number
    picture,  \* imageUrl: the save it was uploaded by, 0 for none
    files,    \* pictures on disk, by the save that uploaded them
    address,  \* the rows, by the save that made them: when written, and isDefault
    written,  \* how often an address was written: the time of the last one
    tab,      \* where each request stands
    shown     \* what each tab was shown last, and when it asked

vars == <<saves, picture, files, address, written, tab, shown>>

Idle == [op |-> "idle"]
Goes(t, state) == tab' = [tab EXCEPT ![t] = state]
Step(t, op) == Goes(t, [tab[t] EXCEPT !.op = op])

----------------------------------------------------------------------------
(* The form *)

\* A form has a picture or not, and an address or not.
update(t) ==
    /\ tab[t] = Idle /\ saves < MaxSaves
    /\ saves' = saves + 1
    /\ \E file, line1 \in BOOLEAN :
         Goes(t, [op |-> IF file THEN "upload" ELSE "customer",
                  save |-> saves', file |-> file, line1 |-> line1])
    /\ UNCHANGED <<picture, files, address, written, shown>>

\* saveAvatar; a file that is refused ends the request.
Upload(t) ==
    /\ tab[t].op = "upload"
    /\ \/ files' = files \cup {tab[t].save} /\ Step(t, "customer")
       \/ Goes(t, Idle) /\ UNCHANGED files
    /\ UNCHANGED <<saves, picture, address, written, shown>>

\* Without a file the picture stays.
UpdateCustomer(t) ==
    /\ tab[t].op = "customer"
    /\ picture' = IF tab[t].file THEN tab[t].save ELSE picture
    /\ Step(t, IF tab[t].line1 THEN "find" ELSE "redirect")
    /\ UNCHANGED <<saves, files, address, written, shown>>

Defaults == {a \in DOMAIN address : address[a].isDefault}

\* findFirst has no order: any of the rows that are default.
FindAddress(t) ==
    /\ tab[t].op = "find"
    /\ \E a \in IF Defaults = {} THEN {NULL} ELSE Defaults :
         Goes(t, [op |-> "address", save |-> tab[t].save, row |-> a])
    /\ UNCHANGED <<saves, picture, files, address, written, shown>>

\* Mutant: an address from the form is not the default one.
NotDefault == [at |-> written + 1, isDefault |-> FALSE]

Data == [at |-> written + 1, isDefault |-> TRUE]

WriteAddress(t) ==
    /\ tab[t].op = "address"
    /\ LET row == IF tab[t].row = NULL THEN tab[t].save ELSE tab[t].row
       IN  address' = [a \in DOMAIN address \cup {row} |-> IF a = row THEN Data ELSE address[a]]
    /\ written' = written + 1
    /\ Step(t, "redirect")
    /\ UNCHANGED <<saves, picture, files, shown>>

\* The process stops.
Crash(t) ==
    /\ tab[t] # Idle
    /\ Goes(t, Idle)
    /\ UNCHANGED <<saves, picture, files, address, written, shown>>

----------------------------------------------------------------------------
(* The pages *)

\* The page the form redirects to, or any visit to the profile or the checkout: first the
\* customer is read, then the address.
Visit(t) ==
    /\ tab[t].op \in {"idle", "redirect"}
    /\ Goes(t, [op |-> "page", asked |-> written, picture |-> picture])
    /\ UNCHANGED <<saves, picture, files, address, written, shown>>

\* findFirst, the default rows before the others.
First == IF Defaults # {} THEN Defaults ELSE DOMAIN address

getProfile(t) ==
    /\ tab[t].op = "page"
    /\ \E at \in IF First = {} THEN {0} ELSE {address[a].at : a \in First} :
         shown' = [shown EXCEPT ![t] =
            [asked |-> tab[t].asked, picture |-> tab[t].picture, address |-> at]]
    /\ Goes(t, Idle)
    /\ UNCHANGED <<saves, picture, files, address, written>>

----------------------------------------------------------------------------

Init ==
    /\ saves = 0 /\ picture = 0 /\ files = {}
    /\ address = <<>> /\ written = 0
    /\ tab = [t \in Tabs |-> Idle]
    /\ shown = [t \in Tabs |-> [asked |-> 0, picture |-> 0, address |-> 0]]

Next == \E t \in Tabs :
    \/ update(t) \/ Upload(t) \/ UpdateCustomer(t) \/ FindAddress(t) \/ WriteAddress(t)
    \/ Crash(t) \/ Visit(t) \/ getProfile(t)

Spec == Init /\ [][Next]_vars

----------------------------------------------------------------------------
(* Properties *)

TypeOK ==
    /\ saves \in 0..MaxSaves /\ picture \in 0..saves /\ files \subseteq 1..saves
    /\ DOMAIN address \subseteq 1..saves
    /\ \A a \in DOMAIN address : address[a].at \in 1..written /\ address[a].isDefault \in BOOLEAN
    /\ written \in 0..saves
    /\ \A t \in Tabs : tab[t].op \in {"idle", "upload", "customer", "find", "address", "redirect", "page"}

\* "Maintain a single default address", as what is left to hold: two saves that both
\* find no address each make one.
SingleDefault == \A a, b \in Defaults : a = b

\* However saves of several tabs overlap and wherever they stop: a page shows a picture
\* that is on the disk, and as long as it came to no second default row, which is the
\* code's to prevent and its failure (SingleDefault), the address that was saved last
\* before the page was asked for, or a later one.
SavedIsShown ==
    \A t \in Tabs : /\ SingleDefault => shown[t].address >= shown[t].asked
                    /\ shown[t].picture \in files \cup {0}
=============================================================================
