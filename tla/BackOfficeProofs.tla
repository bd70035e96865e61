-------------------------- MODULE BackOfficeProofs --------------------------
(***************************************************************************)
(* The pages of the back office, for any number of tabs. The team keeps an *)
(* admin until one is taken between another request's look and its write.  *)
(* The product form: the categories of a product are those of the form that*)
(* was saved last. The gallery is in order as long as no upload overlaps   *)
(* another request, and again once its order is written alone. Former      *)
(* addresses of products, and the links of an old menu, lead to where the  *)
(* product or the category is now. Each sale is counted once on the        *)
(* dashboard.                                                              *)
(***************************************************************************)
EXTENDS MCBackOffice, FiniteSetTheorems, SequenceTheorems, TLAPS

----------------------------------------------------------------------------
(* The team (AdminTeam) *)

\* Role changes and requests keep their types.
THEOREM TypeCorrect == Spec => []TypeOK
<1>1. Init => TypeOK
  BY AdminTeamAssumption DEF Init, TypeOK, Roles
<1>2. TypeOK /\ [Next]_vars => TypeOK'
  <2> SUFFICES ASSUME TypeOK, [Next]_vars PROVE TypeOK'
    OBVIOUS
  <2>1. ASSUME NEW r \in Requests PROVE Idle \in Calls \cup {Idle}
    OBVIOUS
  <2>2. ASSUME NEW r \in Requests, End(r)
        PROVE  request' \in [Requests -> Calls \cup {Idle}]
    BY <2>2 DEF End, TypeOK
  <2>3. ASSUME NEW r \in Requests, NEW at \in {"count", "write"}, request[r] \in Calls, Goto(r, at)
        PROVE  request' \in [Requests -> Calls \cup {Idle}]
    <3>1. [request[r] EXCEPT !.at = at] \in Calls
      BY <2>3 DEF Calls
    <3>2. request' = [request EXCEPT ![r] = [request[r] EXCEPT !.at = at]]
      BY <2>3 DEF Goto
    <3> HIDE DEF Calls
    <3> QED
      BY <3>1, <3>2 DEF TypeOK
  <2>4. ASSUME NEW r \in Requests, request[r].at \in {"handler", "count", "write"}
        PROVE  request[r] \in Calls
    BY <2>4 DEF TypeOK, Idle
  <2>5. ASSUME NEW r \in Requests, Guard(r) PROVE TypeOK'
    <3> HIDE DEF Calls, Idle
    <3> QED
      BY <2>5 DEF TypeOK, Guard
  <2>6. ASSUME NEW r \in Requests, create(r) PROVE TypeOK'
    <3>1. request[r] \in Calls
      BY <2>4, <2>6 DEF create
    <3>2. role' \in [Users -> Roles \cup {"NEW", "GONE"}]
      BY <2>6, <3>1 DEF TypeOK, create, Calls
    <3> QED
      BY <2>2, <2>6, <3>2 DEF create, TypeOK
  <2>7. ASSUME NEW r \in Requests, FindTarget(r) PROVE TypeOK'
    <3>1. request[r] \in Calls
      BY <2>4, <2>7 DEF FindTarget
    <3>2. End(r) \/ Goto(r, "count") \/ Goto(r, "write")
      BY <2>7 DEF FindTarget
    <3> QED
      BY <2>2, <2>3, <2>7, <3>1, <3>2 DEF FindTarget, TypeOK
  <2>8. ASSUME NEW r \in Requests, CountAdmins(r) PROVE TypeOK'
    <3>1. request[r] \in Calls
      BY <2>4, <2>8 DEF CountAdmins
    <3>2. End(r) \/ Goto(r, "write")
      BY <2>8 DEF CountAdmins
    <3> QED
      BY <2>2, <2>3, <2>8, <3>1, <3>2 DEF CountAdmins, TypeOK
  <2>9. ASSUME NEW r \in Requests, Write(r) PROVE TypeOK'
    <3>1. request[r] \in Calls
      BY <2>4, <2>9 DEF Write
    <3>2. role' \in [Users -> Roles \cup {"NEW", "GONE"}]
      BY <2>9, <3>1 DEF TypeOK, Write, NewRole, Calls, Roles
    <3>3. raced' \in BOOLEAN
      BY <2>9 DEF Write, TypeOK
    <3> QED
      BY <2>2, <2>9, <3>2, <3>3 DEF Write, TypeOK
  <2>10. CASE UNCHANGED vars
    BY <2>10 DEF vars, TypeOK
  <2> QED
    BY <2>5, <2>6, <2>7, <2>8, <2>9, <2>10 DEF Next
<1> QED
  BY <1>1, <1>2, PTL DEF Spec

----------------------------------------------------------------------------

\* Requests that write take no last admin: before anybody has raced, one remains, also
\* without the target of any request that is about to write.
Guarded ==
    /\ TypeOK
    /\ ~raced =>
         /\ AdminRemains
         /\ \A r \in Requests : request[r].at = "write" =>
              \E u \in Users : u # request[r].id /\ role[u] = "ADMIN"

\* Another admin is left when there is more than one.
LEMMA NotTheLast ==
    ASSUME NEW id \in Users, role \in [Users -> Roles \cup {"NEW", "GONE"}], ~LastAdmin
    PROVE  \E u \in Users : u # id /\ role[u] = "ADMIN"
<1> DEFINE A == {u \in Users : role[u] = "ADMIN"}
<1>1. IsFiniteSet(A)
  BY AdminTeamAssumption, FS_Subset
<1>2. Cardinality({id}) = 1 /\ IsFiniteSet({id})
  BY FS_Singleton
<1>3. Cardinality(A) \in Nat
  BY <1>1, FS_CardinalityType
<1>4. ~(A \subseteq {id})
  <2> SUFFICES ASSUME A \subseteq {id} PROVE FALSE
    OBVIOUS
  <2>1. Cardinality(A) <= 1
    BY <1>2, FS_Subset
  <2> QED
    BY <2>1, <1>3 DEF LastAdmin, activeAdminCount
<1> QED
  BY <1>4

\* However many admins' requests overlap, nobody is locked out before a request has taken an
\* admin between the look and the write of another one.
THEOREM TeamKeepsAnAdmin == Spec => []LooksKeepAnAdmin
<1>1. Init => Guarded
  <2> SUFFICES ASSUME Init PROVE Guarded
    OBVIOUS
  <2>1. TypeOK
    BY AdminTeamAssumption DEF Init, TypeOK, Roles
  <2>2. AdminRemains
    BY AdminTeamAssumption DEF Init, AdminRemains
  <2>3. \A r \in Requests : request[r].at # "write"
    BY DEF Init, Idle
  <2> QED
    BY <2>1, <2>2, <2>3 DEF Guarded
<1>2. Guarded /\ TypeOK' /\ [Next]_vars => Guarded'
  <2> SUFFICES ASSUME Guarded, TypeOK', [Next]_vars, ~raced' PROVE Guarded'
    BY DEF Guarded
  <2>1. /\ role \in [Users -> Roles \cup {"NEW", "GONE"}]
        /\ request \in [Requests -> Calls \cup {Idle}]
        /\ raced \in BOOLEAN
    BY DEF Guarded, TypeOK
  <2>2. ASSUME ~raced PROVE AdminRemains
    BY <2>2 DEF Guarded
  <2>3. ASSUME ~raced, NEW r \in Requests, request[r].at = "write"
        PROVE  \E u \in Users : u # request[r].id /\ role[u] = "ADMIN"
    BY <2>3 DEF Guarded
  <2>4. ASSUME ~raced, \A u \in Users : role[u] = "ADMIN" => role'[u] = "ADMIN",
               \A s \in Requests : request'[s].at = "write" =>
                 \/ request[s].at = "write" /\ request'[s].id = request[s].id
                 \/ \E u \in Users : u # request'[s].id /\ role'[u] = "ADMIN"
        PROVE  Guarded'
    BY <2>2, <2>3, <2>4 DEF Guarded, AdminRemains
  <2>5. ASSUME NEW r \in Requests, End(r), NEW s \in Requests, request'[s].at = "write"
        PROVE  s # r /\ request'[s] = request[s]
    BY <2>1, <2>5 DEF End, Idle
  <2>6. ASSUME NEW r \in Requests, Guard(r) PROVE Guarded'
    <3>1. ASSUME NEW s \in Requests, request'[s].at = "write" PROVE request'[s] = request[s]
      <4>1. PICK call \in Calls :
              /\ call.at = "handler"
              /\ request' = IF role[call.by] = "ADMIN" THEN [request EXCEPT ![r] = call] ELSE request
        BY <2>6 DEF Guard
      <4> QED
        BY <2>1, <3>1, <4>1
    <3> QED
      BY <2>4, <2>6, <3>1 DEF Guard
  <2>7. ASSUME NEW r \in Requests, create(r) PROVE Guarded'
    <3>1. \A u \in Users : role[u] = "ADMIN" => role'[u] = "ADMIN"
      BY <2>1, <2>7 DEF create
    <3> QED
      BY <2>4, <2>5, <2>7, <3>1 DEF create
  <2>8. ASSUME NEW r \in Requests, FindTarget(r) PROVE Guarded'
    <3>1. request[r] \in Calls /\ role' = role /\ ~raced
      BY <2>1, <2>8 DEF FindTarget, Idle
    <3>2. CASE End(r)
      BY <2>4, <2>5, <3>1, <3>2
    <3>3. CASE Goto(r, "count")
      <4>1. \A s \in Requests : request'[s].at = "write" => request'[s] = request[s]
        BY <2>1, <3>1, <3>3 DEF Goto, Calls
      <4> QED
        BY <2>4, <3>1, <4>1
    <3>4. CASE Goto(r, "write") /\ ~TakesAnAdmin(request[r]) /\ ~End(r)
      <4>1. role[request[r].id] # "ADMIN"
        BY <2>8, <3>1, <3>4 DEF FindTarget, TakesAnAdmin
      <4>2. PICK u \in Users : u # request[r].id /\ role[u] = "ADMIN"
        BY <2>2, <3>1, <4>1 DEF AdminRemains
      <4>3. ASSUME NEW s \in Requests PROVE
              IF s = r THEN request'[s].id = request[s].id ELSE request'[s] = request[s]
        BY <2>1, <3>1, <3>4 DEF Goto, Calls
      <4> QED
        BY <2>4, <3>1, <4>2, <4>3
    <3> QED
      BY <2>8, <3>2, <3>3, <3>4 DEF FindTarget
  <2>9. ASSUME NEW r \in Requests, CountAdmins(r) PROVE Guarded'
    <3>1. request[r] \in Calls /\ role' = role /\ ~raced
      BY <2>1, <2>9 DEF CountAdmins, Idle
    <3>2. CASE End(r)
      BY <2>4, <2>5, <3>1, <3>2
    <3>3. CASE Goto(r, "write") /\ ~LastAdmin
      <4>1. request[r].id \in Users
        BY <3>1 DEF Calls
      <4>2. PICK u \in Users : u # request[r].id /\ role[u] = "ADMIN"
        BY <2>1, <3>3, <4>1, NotTheLast
      <4>3. ASSUME NEW s \in Requests PROVE
              IF s = r THEN request'[s].id = request[s].id ELSE request'[s] = request[s]
        BY <2>1, <3>1, <3>3 DEF Goto, Calls
      <4> QED
        BY <2>4, <3>1, <4>2, <4>3
    <3> QED
      BY <2>9, <3>2, <3>3 DEF CountAdmins
  <2>10. ASSUME NEW r \in Requests, Write(r) PROVE Guarded'
    <3>1. request[r] \in Calls /\ ~raced
      BY <2>1, <2>10 DEF Write, Idle
    <3>2. request[r].id \in Users /\ request[r].op \in {"create", "setRole", "remove"}
      BY <3>1 DEF Calls
    <3>3. CASE TakesAnAdmin(request[r])
      <4>1. PICK u \in Users : u # request[r].id /\ role[u] = "ADMIN"
        BY <2>3, <2>10, <3>1 DEF Write
      <4>2. role'[u] = "ADMIN"
        BY <2>1, <2>10, <4>1 DEF Write, NewRole
      <4>3. \A s \in Requests : request'[s].at # "write"
        BY <2>5, <2>10, <3>3 DEF Write
      <4> QED
        BY <4>2, <4>3 DEF Guarded, AdminRemains
    <3>4. CASE ~TakesAnAdmin(request[r])
      <4>1. \A u \in Users : role[u] = "ADMIN" => role'[u] = "ADMIN"
        BY <2>1, <2>10, <3>2, <3>4 DEF Write, NewRole, TakesAnAdmin
      <4> QED
        BY <2>4, <2>5, <2>10, <3>1, <4>1 DEF Write
    <3> QED
      BY <3>3, <3>4
  <2>11. CASE UNCHANGED vars
    BY <2>4, <2>11 DEF vars
  <2> QED
    BY <2>6, <2>7, <2>8, <2>9, <2>10, <2>11 DEF Next
<1>3. Guarded => LooksKeepAnAdmin
  BY DEF Guarded, LooksKeepAnAdmin
<1> QED
  BY <1>1, <1>2, <1>3, TypeCorrect, PTL DEF Spec

----------------------------------------------------------------------------
(* The product form (ProductForm) *)

Ids == FormProducts \cup {NULL}
SavedRows == [boxes : SUBSET Boxes, form : SUBSET Categories]

\* A form that was sent, and one whose transaction has deleted the links; either may be
\* refused.
Sent == [op : {"validate", "filter", "save", "refused", "delete"}, id : Ids,
         boxes : SUBSET Boxes, categories : SUBSET Categories, attempt : Nat]
InTheGap == [op : {"write", "refused"}, id : Ids, boxes : SUBSET Boxes,
             categories : SUBSET Categories, attempt : Nat, deleted : SUBSET Categories]

TabOK(s) ==
    \/ s = Form!Closed
    \/ s.op = "page" /\ s.id \in Ids
    \/ s \in Sent
    \/ s \in InTheGap

\* A tab knows of no product that never was, and only saved ones are replaced.
KnowsProduct(s) ==
    /\ s.op # "closed" /\ s.id # NULL => row[s.id] # NULL
    /\ s.op \in {"delete", "write"} => s.id # NULL

\* Whatever links a product has, a transaction that will add its own has deleted.
HasDeleted(s) ==
    s.op = "write" /\ Form!Exists(s.id) => links[s.id] \subseteq s.deleted

FormTypes ==
    /\ row \in [FormProducts -> SavedRows \cup {NULL, GONE}]
    /\ links \in [FormProducts -> SUBSET Categories]
    /\ tab = [t \in Requests |-> tab[t]]

FormInv ==
    /\ FormTypes
    /\ \A t \in Requests : TabOK(tab[t]) /\ KnowsProduct(tab[t]) /\ HasDeleted(tab[t])
    /\ Form!CategoriesOfTheLastSave

LEMMA FormInit == ASSUME Form!Init PROVE FormInv
<1> USE DEF Form!Init
<1>1. FormTypes
  BY DEF FormTypes
<1>2. ASSUME NEW t \in Requests PROVE TabOK(tab[t]) /\ KnowsProduct(tab[t]) /\ HasDeleted(tab[t])
  BY DEF TabOK, KnowsProduct, HasDeleted, Form!Closed
<1>3. Form!CategoriesOfTheLastSave
  BY FormAssumption DEF Form!CategoriesOfTheLastSave, Form!Rows, Form!Exists
<1> QED
  BY <1>1, <1>2, <1>3 DEF FormInv

\* A step of a tab that leaves the products alone.
LEMMA FormPages ==
    ASSUME FormInv, NEW t \in Requests, NEW s, Form!Goes(t, s), UNCHANGED <<row, links>>,
           TabOK(s), KnowsProduct(s), HasDeleted(s)
    PROVE  FormInv'
<1>1. /\ tab' = [u \in Requests |-> IF u = t THEN s ELSE tab[u]]
      /\ row' = row /\ links' = links
  BY DEF FormInv, FormTypes, Form!Goes
<1>2. FormTypes'
  BY <1>1 DEF FormInv, FormTypes
<1>3. ASSUME NEW u \in Requests
      PROVE  /\ TabOK(tab[u])' /\ KnowsProduct(tab[u])' /\ HasDeleted(tab[u])'
  <2>1. CASE u = t
    <3>1. tab'[u] = s
      BY <1>1, <2>1
    <3> QED
      BY <1>1, <3>1 DEF TabOK, KnowsProduct, HasDeleted, Form!Exists
  <2>2. CASE u # t
    <3>1. tab'[u] = tab[u]
      BY <1>1, <2>2
    <3> QED
      BY <1>1, <3>1 DEF FormInv, TabOK, KnowsProduct, HasDeleted, Form!Exists
  <2> QED
    BY <2>1, <2>2
<1>4. Form!CategoriesOfTheLastSave'
  BY <1>1 DEF FormInv, Form!CategoriesOfTheLastSave, Form!Rows, Form!Exists
<1> QED
  BY <1>2, <1>3, <1>4 DEF FormInv

\* A step that gives the product p a row with its links, or takes both away, and closes a
\* tab (t) or none: no other transaction's deleted links are there again.
LEMMA FormWrites ==
    ASSUME FormInv, NEW p \in FormProducts, NEW T \in SUBSET Requests,
           NEW new \in SavedRows \cup {GONE}, NEW cats \in SUBSET Categories,
           tab' = [u \in Requests |-> IF u \in T THEN Form!Closed ELSE tab[u]],
           row' = [row EXCEPT ![p] = new], links' = [links EXCEPT ![p] = cats],
           new # GONE => cats = new.form,
           new # GONE => \A u \in Requests \ T : tab[u].op = "write" /\ tab[u].id = p =>
                                                   cats \subseteq tab[u].deleted
    PROVE  FormInv'
<1>1. FormTypes'
  BY DEF FormInv, FormTypes
<1>2. /\ row' = [q \in FormProducts |-> IF q = p THEN new ELSE row[q]]
      /\ links' = [q \in FormProducts |-> IF q = p THEN cats ELSE links[q]]
      /\ new # NULL /\ GONE # NULL
  BY FormAssumption DEF FormInv, FormTypes, Form!ProductFormAssumption, SavedRows
<1>3. ASSUME NEW u \in Requests
      PROVE  /\ TabOK(tab[u])' /\ KnowsProduct(tab[u])' /\ HasDeleted(tab[u])'
  <2>1. CASE u \in T
    <3>1. tab'[u] = Form!Closed
      BY <2>1
    <3> QED
      BY <3>1 DEF TabOK, KnowsProduct, HasDeleted, Form!Closed
  <2>2. CASE u \notin T
    <3>1. tab'[u] = tab[u] /\ TabOK(tab[u]) /\ KnowsProduct(tab[u]) /\ HasDeleted(tab[u])
      BY <2>2 DEF FormInv
    <3>2. tab[u].op # "closed" => tab[u].id \in Ids
      BY <3>1 DEF TabOK, Form!Closed, Sent, InTheGap
    <3>3. TabOK(tab[u])'
      BY <3>1 DEF TabOK
    <3>4. KnowsProduct(tab[u])'
      BY <1>2, <3>1, <3>2 DEF KnowsProduct, Ids
    <3>5. HasDeleted(tab[u])'
      <4>1. SUFFICES ASSUME tab[u].op = "write", Form!Exists(tab[u].id)'
                     PROVE  links'[tab[u].id] \subseteq tab[u].deleted
        BY <3>1 DEF HasDeleted, Form!Exists
      <4>2. tab[u].id \in FormProducts
        BY <3>1, <3>2, <4>1 DEF KnowsProduct, Ids
      <4>3. CASE tab[u].id = p
        BY <1>2, <2>2, <3>1, <4>1, <4>2, <4>3 DEF Form!Exists
      <4>4. CASE tab[u].id # p
        BY <1>2, <3>1, <4>1, <4>2, <4>4 DEF Form!Exists, HasDeleted
      <4> QED
        BY <4>3, <4>4
    <3> QED
      BY <3>3, <3>4, <3>5
  <2> QED
    BY <2>1, <2>2
<1>4. Form!CategoriesOfTheLastSave'
  BY <1>2 DEF FormInv, Form!CategoriesOfTheLastSave, Form!Rows, Form!Exists
<1> QED
  BY <1>1, <1>3, <1>4 DEF FormInv

LEMMA FormStep == ASSUME FormInv, Form!Next PROVE FormInv'
<1> USE DEF Form!Step
<1>1. \A t \in Requests : TabOK(tab[t]) /\ KnowsProduct(tab[t]) /\ HasDeleted(tab[t])
  BY DEF FormInv
<1>2. ASSUME NEW t \in Requests, NEW id \in Ids, NEW boxes, NEW categories, NEW sent,
             Form!Goes(t, Form!Page(id, boxes, categories, sent)), UNCHANGED <<row, links>>,
             id # NULL => row[id] # NULL
      PROVE  FormInv'
  <2> DEFINE rendered == Form!Page(id, boxes, categories, sent)
  <2>1. rendered.op = "page" /\ rendered.id = id
    BY DEF Form!Page
  <2>2. TabOK(rendered) /\ KnowsProduct(rendered) /\ HasDeleted(rendered)
    BY <1>2, <2>1 DEF TabOK, KnowsProduct, HasDeleted
  <2> QED
    BY <1>2, <2>2, FormPages
<1>3. ASSUME NEW t \in Requests, Form!Goes(t, Form!Closed), UNCHANGED <<row, links>>
      PROVE  FormInv'
  <2>1. TabOK(Form!Closed) /\ KnowsProduct(Form!Closed) /\ HasDeleted(Form!Closed)
    BY DEF TabOK, KnowsProduct, HasDeleted, Form!Closed
  <2> QED
    BY <1>3, <2>1, FormPages
<1>4. ASSUME NEW t \in Requests, tab[t].op \notin {"closed", "page"}
      PROVE  /\ tab[t] \in Sent \cup InTheGap
             /\ tab[t].op \notin {"write", "refused"} => tab[t] \in Sent
             /\ tab[t].op = "write" => tab[t] \in InTheGap
             /\ tab[t].id \in Ids
             /\ tab[t].id # NULL => row[tab[t].id] # NULL
  BY <1>1, <1>4 DEF TabOK, KnowsProduct, Form!Closed, Sent, InTheGap
<1>5. ASSUME NEW t \in Requests, Form!newForm(t) PROVE FormInv'
  BY <1>2, <1>5 DEF Form!newForm, Ids
<1>6. ASSUME NEW t \in Requests, NEW p \in FormProducts, Form!editForm(t, p) PROVE FormInv'
  BY <1>2, <1>6 DEF Form!editForm, Form!Exists, Ids
<1>7. ASSUME NEW t \in Requests, Form!Submit(t) PROVE FormInv'
  <2>1. PICK boxes \in SUBSET Boxes, categories \in SUBSET Categories :
          Form!Goes(t, [op |-> "validate", id |-> tab[t].id, boxes |-> boxes,
                        categories |-> categories, attempt |-> 0])
    BY <1>7 DEF Form!Submit
  <2> DEFINE s == [op |-> "validate", id |-> tab[t].id, boxes |-> boxes,
                   categories |-> categories, attempt |-> 0]
  <2>2. tab[t].op = "page" /\ UNCHANGED <<row, links>>
    BY <1>7 DEF Form!Submit
  <2>3. tab[t].id \in Ids /\ (tab[t].id # NULL => row[tab[t].id] # NULL)
    BY <1>1, <2>2 DEF TabOK, KnowsProduct, Form!Closed, Sent, InTheGap
  <2>4. TabOK(s) /\ KnowsProduct(s) /\ HasDeleted(s)
    BY <2>3 DEF TabOK, KnowsProduct, HasDeleted, Sent
  <2> QED
    BY <2>1, <2>2, <2>4, FormPages
<1>8. ASSUME NEW t \in Requests, NEW op \in {"filter", "save", "refused", "delete"},
             tab[t].op \notin {"closed", "page"}, op = "delete" => tab[t].id # NULL,
             tab[t] \in Sent \/ op = "refused",
             Form!Goes(t, [tab[t] EXCEPT !.op = op]), UNCHANGED <<row, links>>
      PROVE  FormInv'
  <2> DEFINE s == [tab[t] EXCEPT !.op = op]
  <2>1. /\ tab[t] \in Sent \cup InTheGap
        /\ tab[t].id # NULL => row[tab[t].id] # NULL
    BY <1>4, <1>8
  <2>2. s.op = op /\ s.id = tab[t].id /\ s \in Sent \cup InTheGap
    BY <1>8, <2>1 DEF Sent, InTheGap
  <2>3. TabOK(s) /\ KnowsProduct(s) /\ HasDeleted(s)
    <3> HIDE DEF s
    <3> QED
      BY <1>8, <2>1, <2>2 DEF TabOK, KnowsProduct, HasDeleted
  <2> QED
    BY <1>8, <2>3, FormPages
<1>9. ASSUME NEW t \in Requests, Form!Validate(t) PROVE FormInv'
  BY <1>4, <1>8, <1>9 DEF Form!Validate
<1>10. ASSUME NEW t \in Requests, Form!catch(t) PROVE FormInv'
  BY <1>2, <1>4, <1>10 DEF Form!catch
<1>11. ASSUME NEW t \in Requests, Form!Rerender(t) PROVE FormInv'
  BY <1>2, <1>4, <1>11 DEF Form!Rerender
<1>12. ASSUME NEW t \in Requests, Form!Refuse(t) PROVE FormInv'
  BY <1>8, <1>12 DEF Form!Refuse
<1>13. ASSUME NEW t \in Requests, Form!create(t) PROVE FormInv'
  <2>1. PICK p \in FormProducts :
          /\ row[p] = NULL
          /\ row' = [row EXCEPT ![p] = Form!Saved(t)]
          /\ links' = [links EXCEPT ![p] = tab[t].categories]
    BY <1>13 DEF Form!create
  <2>2. tab[t] \in Sent
    BY <1>4, <1>13 DEF Form!create
  <2>3. /\ Form!Saved(t) \in SavedRows /\ Form!Saved(t).form = tab[t].categories
        /\ tab[t].categories \in SUBSET Categories
    BY <2>2 DEF Form!Saved, SavedRows, Sent
  <2>4. tab' = [u \in Requests |-> IF u \in {t} THEN Form!Closed ELSE tab[u]]
    BY <1>13 DEF Form!create, Form!Goes, FormInv, FormTypes
  <2>5. ASSUME NEW u \in Requests, tab[u].op = "write", tab[u].id = p PROVE FALSE
    <3>1. p # NULL
      BY FormAssumption DEF Form!ProductFormAssumption
    <3> QED
      BY <1>4, <2>1, <2>5, <3>1
  <2> DEFINE new == Form!Saved(t)
             cats == tab[t].categories
             T == {t}
  <2>6. /\ T \in SUBSET Requests /\ new \in SavedRows \cup {GONE}
        /\ new.form = cats /\ cats \in SUBSET Categories
    BY <2>3
  <2>7. /\ tab' = [u \in Requests |-> IF u \in T THEN Form!Closed ELSE tab[u]]
        /\ row' = [row EXCEPT ![p] = new] /\ links' = [links EXCEPT ![p] = cats]
        /\ \A u \in Requests \ T : tab[u].op = "write" /\ tab[u].id = p =>
                                      cats \subseteq tab[u].deleted
    BY <2>1, <2>4, <2>5
  <2> HIDE DEF SavedRows, new, cats, T
  <2> QED
    BY <2>6, <2>7, FormWrites
<1>14. ASSUME NEW t \in Requests, Form!update(t) PROVE FormInv'
  <2>1. tab[t] \in Sent /\ tab[t].id # NULL /\ UNCHANGED <<row, links>>
    BY <1>4, <1>14 DEF Form!update
  <2>2. Form!Goes(t, Form!Closed) \/ Form!Goes(t, [tab[t] EXCEPT !.op = "delete"])
    BY <1>14 DEF Form!update
  <2> QED
    BY <1>3, <1>8, <1>14, <2>1, <2>2 DEF Form!update
<1>15. ASSUME NEW t \in Requests, Form!deleteMany(t) PROVE FormInv'
  <2>1. tab[t] \in Sent /\ tab[t].id \in FormProducts /\ row[tab[t].id] # NULL
    BY <1>1, <1>4, <1>15 DEF Form!deleteMany, KnowsProduct, Ids
  <2> DEFINE s == [op |-> "write", id |-> tab[t].id, boxes |-> tab[t].boxes,
                   categories |-> tab[t].categories, attempt |-> tab[t].attempt,
                   deleted |-> links[tab[t].id]]
  <2>2. s \in InTheGap
    BY <2>1 DEF Sent, InTheGap, FormInv, FormTypes
  <2>3. tab[t].id # NULL
    BY <2>1, FormAssumption DEF Form!ProductFormAssumption
  <2>4. TabOK(s) /\ KnowsProduct(s) /\ HasDeleted(s)
    BY <2>1, <2>2, <2>3 DEF TabOK, KnowsProduct, HasDeleted
  <2>5. Form!Goes(t, s) /\ UNCHANGED <<row, links>>
    BY <1>15 DEF Form!deleteMany
  <2> QED
    BY <2>4, <2>5, FormPages
<1>16. ASSUME NEW t \in Requests, Form!Write(t) PROVE FormInv'
  <2> DEFINE p == tab[t].id
  <2>1. /\ tab[t] \in InTheGap /\ p \in FormProducts /\ HasDeleted(tab[t])
        /\ tab[t].op = "write"
    BY <1>1, <1>4, <1>16 DEF Form!Write, KnowsProduct, Ids
  <2>2. CASE ~Form!Exists(p)
    BY <1>3, <1>16, <2>2 DEF Form!Write
  <2>3. CASE Form!Exists(p)
    <3>1. /\ Form!InTransaction(t) = {} \/ tab[t].categories = {}
          /\ row' = [row EXCEPT ![p] = Form!Saved(t)]
          /\ links' = [links EXCEPT ![p] = (links[p] \ tab[t].deleted) \cup tab[t].categories]
      BY <1>16, <2>1, <2>3 DEF Form!Write, FormInv, FormTypes
    <3>2. links[p] \ tab[t].deleted = {}
      BY <2>1, <2>3 DEF HasDeleted
    <3>3. links' = [links EXCEPT ![p] = tab[t].categories]
      BY <3>1, <3>2
    <3>4. /\ Form!Saved(t) \in SavedRows /\ Form!Saved(t).form = tab[t].categories
          /\ tab[t].categories \in SUBSET Categories
      BY <2>1 DEF Form!Saved, SavedRows, InTheGap
    <3>5. tab' = [u \in Requests |-> IF u \in {t} THEN Form!Closed ELSE tab[u]]
      BY <1>16 DEF Form!Write, Form!Goes, FormInv, FormTypes
    <3>6. ASSUME NEW u \in Requests \ {t}, tab[u].op = "write", tab[u].id = p
          PROVE  tab[t].categories \subseteq tab[u].deleted
      BY <3>1, <3>6 DEF Form!InTransaction
    <3> DEFINE new == Form!Saved(t)
               cats == tab[t].categories
               T == {t}
    <3>7. /\ T \in SUBSET Requests /\ new \in SavedRows \cup {GONE}
          /\ new.form = cats /\ cats \in SUBSET Categories
      BY <3>4
    <3>8. /\ tab' = [u \in Requests |-> IF u \in T THEN Form!Closed ELSE tab[u]]
          /\ row' = [row EXCEPT ![p] = new] /\ links' = [links EXCEPT ![p] = cats]
          /\ \A u \in Requests \ T : tab[u].op = "write" /\ tab[u].id = p =>
                                        cats \subseteq tab[u].deleted
      BY <3>1, <3>3, <3>5, <3>6
    <3> HIDE DEF SavedRows, p, new, cats, T
    <3> QED
      BY <2>1, <3>7, <3>8, FormWrites
  <2> QED
    BY <2>2, <2>3
<1>17. ASSUME NEW t \in Requests, Form!Deadlock(t) PROVE FormInv'
  <2>1. tab[t] \in InTheGap /\ UNCHANGED <<row, links>>
    BY <1>4, <1>17 DEF Form!Deadlock
  <2> DEFINE s == [op |-> "delete", id |-> tab[t].id, boxes |-> tab[t].boxes,
                   categories |-> tab[t].categories, attempt |-> tab[t].attempt + 1]
  <2>2. s \in Sent
    BY <2>1 DEF Sent, InTheGap
  <2>3. TabOK(s) /\ KnowsProduct(s) /\ HasDeleted(s)
    BY <1>1, <1>4, <1>17, <2>2 DEF Form!Deadlock, TabOK, KnowsProduct, HasDeleted
  <2>4. Form!Goes(t, Form!Closed) \/ Form!Goes(t, s)
    BY <1>17 DEF Form!Deadlock
  <2> QED
    BY <1>3, <2>1, <2>3, <2>4, FormPages
<1>18. ASSUME NEW p \in FormProducts, Form!remove(p) PROVE FormInv'
  <2> DEFINE T == {}
  <2>1. /\ row' = [row EXCEPT ![p] = GONE] /\ links' = [links EXCEPT ![p] = {}]
        /\ tab' = [u \in Requests |-> IF u \in T THEN Form!Closed ELSE tab[u]]
        /\ T \in SUBSET Requests /\ {} \in SUBSET Categories
    BY <1>18 DEF Form!remove, FormInv, FormTypes
  <2> HIDE DEF T
  <2> QED
    BY <2>1, FormWrites
<1> QED
  BY <1>5, <1>6, <1>7, <1>9, <1>10, <1>11, <1>12, <1>13, <1>14, <1>15, <1>16, <1>17, <1>18
  DEF Form!Next

\* However many tabs save a product at the same time, with whatever waits, deadlocks and
\* retries, and deletions of the product, its categories are those of the form that was
\* saved last, the same as the rest of its row (AdminProductsService.update).
THEOREM LastSaveStands == PagesSpec => []CategoriesOfTheLastSave
<1>1. PagesInit => FormInv
  BY FormInit DEF PagesInit
<1>2. FormInv /\ [PagesNext]_pagesVars => FormInv'
  <2> SUFFICES ASSUME FormInv, [PagesNext]_pagesVars PROVE FormInv'
    OBVIOUS
  <2>1. CASE UNCHANGED formVars
    BY <2>1 DEF formVars, FormInv, FormTypes, TabOK, KnowsProduct, HasDeleted, Form!Exists,
                Form!Rows, Form!CategoriesOfTheLastSave
  <2>2. CASE Form!Next
    BY <2>2, FormStep
  <2> QED
    BY <2>1, <2>2 DEF PagesNext, pagesVars
<1>3. FormInv => CategoriesOfTheLastSave
  BY DEF FormInv, CategoriesOfTheLastSave
<1> QED
  BY <1>1, <1>2, <1>3, PTL DEF PagesSpec

----------------------------------------------------------------------------
(* The images of a product (ProductImages) *)

\* The images that were uploaded for the gallery.
Native == {i \in DOMAIN image : image[i].uploadedFor = NULL}
NoStrangers == \A i \in Images!Gallery : image[i].uploadedFor = NULL

ImageRows == [variant : Variants \cup {NULL}, position : Nat, isPrimary : BOOLEAN,
              uploadedFor : Variants \cup {NULL}]

ImageTypes ==
    /\ created \in Nat /\ DOMAIN image \subseteq 1..created
    /\ image \in [DOMAIN image -> ImageRows]
    /\ variants \subseteq Variants
    /\ upload = [r \in Requests |-> upload[r]]
    /\ \A i \in Native : image[i].variant = NULL

IsOrder(q) ==
    \E k \in Nat : /\ q \in [1..k -> Nat]
                   /\ \A m, n \in 1..k : q[m] = q[n] => m = n

Target(s) == IF s.op = "remove" THEN {s.target} ELSE {}

\* An order that will be written is of images that were in the gallery.
OrderOK(s) ==
    /\ IsOrder(s.order)
    /\ Images!Range(s.order) \subseteq 1..created
    /\ \A i \in Images!Range(s.order) \cap DOMAIN image : image[i].variant = NULL
    /\ Target(s) \cap Images!Range(s.order) = {}

RequestOK(s) ==
    \/ s = Images!Idle
    \/ s.op = "add" /\ s.count \in Nat
    \/ s.op = "setVariant" /\ s.variant \in Variants
    \/ s.op \in {"remove", "reorder"} /\ OrderOK(s)

\* The count an upload goes by is right, unless the image of a deleted variant has come;
\* an order has all images that were uploaded for the gallery but the one that is removed.
Current(s) ==
    /\ s.op = "add" => (NoStrangers => s.count = Cardinality(Images!Gallery))
    /\ s.op \in {"remove", "reorder"} => Native \subseteq Images!Range(s.order) \cup Target(s)

UploadAlone ==
    \A r, s \in Requests : r # s /\ Images!Uploads(upload[r]) => upload[s] = Images!Idle

InOrder ==
    NoStrangers =>
      /\ {image[i].position : i \in Images!Gallery} = 0..(Cardinality(Images!Gallery) - 1)
      /\ \A i \in Images!Gallery : image[i].isPrimary <=> image[i].position = 0

\* What holds whatever overlaps, and what holds as long as no upload has.
ImagesKept == ImageTypes /\ \A r \in Requests : RequestOK(upload[r])
Calm == (\A r \in Requests : Current(upload[r])) /\ UploadAlone /\ InOrder

ImagesInv == ImagesKept /\ (disturbed \/ Calm)

\* Cardinality is the same operator in the instance.
LEMMA SameCardinality == \A S : Images!Cardinality(S) = Cardinality(S)
BY DEF Images!Cardinality, Cardinality

\* The orders the service reads are of all of a finite set, each image once.
LEMMA Permutation ==
    ASSUME NEW S \in SUBSET Nat, IsFiniteSet(S), NEW q \in Images!SetToSeqs(S)
    PROVE  /\ Cardinality(S) \in Nat /\ q \in [1..Cardinality(S) -> Nat]
           /\ \A m, n \in 1..Cardinality(S) : q[m] = q[n] => m = n
           /\ Images!Range(q) = S
<1> DEFINE k == Cardinality(S)
<1>1. k \in Nat
  BY FS_CardinalityType
<1>2. q \in [1..k -> S] /\ \A m, n \in 1..k : m # n => q[m] # q[n]
  BY SameCardinality DEF Images!SetToSeqs
<1> HIDE DEF k
<1>3. q \in Injection(1..k, S)
  BY <1>2 DEF Injection, IsInjective
<1>4. Cardinality(1..k) = k
  BY <1>1, FS_Interval
<1>5. q \in Surjection(1..k, S)
  BY <1>3, <1>4, FS_Injection DEF k
<1>6. Images!Range(q) = S
  BY <1>2, <1>5 DEF Surjection, Images!Range
<1> QED
  BY <1>1, <1>2, <1>6 DEF k

\* Moving an image to the front, or changing places with the next one, loses none.
LEMMA Promotes ==
    ASSUME NEW q, IsOrder(q), NEW n \in DOMAIN q
    PROVE  /\ IsOrder(Images!Promoted(q, n))
           /\ Images!Range(Images!Promoted(q, n)) = Images!Range(q)
<1> DEFINE p == Images!Promoted(q, n)
<1>1. PICK k \in Nat : /\ q \in [1..k -> Nat]
                       /\ \A i, j \in 1..k : q[i] = q[j] => i = j
  BY DEF IsOrder
<1>2. /\ n \in 1..k /\ DOMAIN q = 1..k
      /\ p = [m \in 1..k |-> IF m = 1 THEN q[n] ELSE IF m <= n THEN q[m - 1] ELSE q[m]]
  BY <1>1 DEF Images!Promoted
<1> HIDE DEF p
<1>3. p \in [1..k -> Nat]
  BY <1>1, <1>2
<1>4. \A i, j \in 1..k : p[i] = p[j] => i = j
  BY <1>1, <1>2
<1>5. ASSUME NEW m \in 1..k PROVE \E i \in 1..k : p[i] = q[m]
  <2>1. CASE m = n
    BY <1>1, <1>2, <2>1
  <2>2. CASE m < n
    <3>1. m + 1 \in 1..k /\ p[m + 1] = q[m]
      BY <1>1, <1>2, <2>2
    <3> QED
      BY <3>1
  <2>3. CASE m > n
    BY <1>1, <1>2, <2>3
  <2> QED
    BY <1>1, <1>2, <2>1, <2>2, <2>3
<1>6. ASSUME NEW m \in 1..k PROVE \E i \in 1..k : q[i] = p[m]
  BY <1>1, <1>2
<1>7. /\ Images!Range(p) = {p[i] : i \in 1..k}
      /\ Images!Range(q) = {q[i] : i \in 1..k}
  BY <1>1, <1>3 DEF Images!Range
<1>8. Images!Range(p) \subseteq Images!Range(q) /\ Images!Range(q) \subseteq Images!Range(p)
  BY <1>5, <1>6, <1>7
<1> QED
  BY <1>1, <1>3, <1>4, <1>8 DEF p, IsOrder

LEMMA Swaps ==
    ASSUME NEW q, IsOrder(q), NEW n \in DOMAIN q, n + 1 \in DOMAIN q
    PROVE  LET p == [q EXCEPT ![n] = q[n + 1], ![n + 1] = q[n]]
           IN  IsOrder(p) /\ Images!Range(p) = Images!Range(q)
<1> DEFINE p == [q EXCEPT ![n] = q[n + 1], ![n + 1] = q[n]]
<1>1. PICK k \in Nat : /\ q \in [1..k -> Nat]
                       /\ \A i, j \in 1..k : q[i] = q[j] => i = j
  BY DEF IsOrder
<1>2. /\ n \in 1..k /\ n + 1 \in 1..k /\ DOMAIN q = 1..k
      /\ p = [m \in 1..k |-> IF m = n THEN q[n + 1] ELSE IF m = n + 1 THEN q[n] ELSE q[m]]
  BY <1>1
<1> HIDE DEF p
<1>3. p \in [1..k -> Nat]
  BY <1>1, <1>2
<1>4. \A i, j \in 1..k : p[i] = p[j] => i = j
  BY <1>1, <1>2
<1>5. /\ \A m \in 1..k : \E i \in 1..k : p[i] = q[m]
      /\ \A m \in 1..k : \E i \in 1..k : q[i] = p[m]
  BY <1>1, <1>2
<1>6. /\ Images!Range(p) = {p[i] : i \in 1..k}
      /\ Images!Range(q) = {q[i] : i \in 1..k}
  BY <1>1, <1>3 DEF Images!Range
<1>7. Images!Range(p) \subseteq Images!Range(q) /\ Images!Range(q) \subseteq Images!Range(p)
  BY <1>5, <1>6
<1>8. IsOrder(p)
  BY <1>1, <1>3, <1>4 DEF IsOrder
<1> QED
  BY <1>7, <1>8 DEF p

\* The gallery is finite, and an order that is read is of all of it.
LEMMA GalleryIsFinite ==
    ASSUME ImageTypes
    PROVE  /\ Images!Gallery \in SUBSET Nat /\ IsFiniteSet(Images!Gallery)
           /\ Cardinality(Images!Gallery) \in Nat
<1>1. Images!Gallery \in SUBSET (1..created)
  BY DEF ImageTypes, Images!Gallery, Images!ImagesOf, Images!Rows
<1>2. IsFiniteSet(1..created)
  BY FS_Interval DEF ImageTypes
<1> QED
  BY <1>1, <1>2, FS_Subset, FS_CardinalityType DEF ImageTypes

LEMMA ReadsAll ==
    ASSUME ImageTypes, NEW gone, NEW q \in Images!Ordered(gone)
    PROVE  IsOrder(q) /\ Images!Range(q) = Images!Gallery \ {gone}
<1> DEFINE S == Images!Gallery \ {gone}
<1>1. S \in SUBSET Nat /\ IsFiniteSet(S)
  BY GalleryIsFinite, FS_RemoveElement
<1>2. q \in Images!SetToSeqs(S)
  BY DEF Images!Ordered
<1> HIDE DEF S
<1>3. /\ Cardinality(S) \in Nat /\ q \in [1..Cardinality(S) -> Nat]
      /\ \A m, n \in 1..Cardinality(S) : q[m] = q[n] => m = n
      /\ Images!Range(q) = S
  BY <1>1, <1>2, Permutation
<1>4. IsOrder(q)
  BY <1>3 DEF IsOrder
<1> QED
  BY <1>3, <1>4 DEF S

LEMMA CalmWhileUnchanged ==
    ASSUME Calm, UNCHANGED <<image, created, variants, upload>>
    PROVE  Calm'
<1>1. /\ Images!Gallery' = Images!Gallery /\ Native' = Native
  BY DEF Native, Images!Gallery, Images!ImagesOf, Images!Rows
<1>2. NoStrangers' <=> NoStrangers
  BY <1>1 DEF NoStrangers
<1> QED
  BY <1>1, <1>2 DEF Calm, Current, UploadAlone, InOrder

LEMMA ImagesUnchanged == ASSUME ImagesInv, UNCHANGED imagesVars PROVE ImagesInv'
<1>1. /\ image' = image /\ created' = created /\ variants' = variants /\ upload' = upload
      /\ disturbed' = disturbed
  BY DEF imagesVars
<1>2. ImagesKept'
  BY <1>1 DEF ImagesInv, ImagesKept, ImageTypes, RequestOK, OrderOK, Native
<1> QED
  BY <1>1, <1>2, CalmWhileUnchanged DEF ImagesInv

LEMMA ImagesInit == ASSUME Images!Init PROVE ImagesInv
<1> USE DEF Images!Init
<1>1. /\ InGallery \in Nat /\ DOMAIN image = 1..InGallery
      /\ \A i \in 1..InGallery : /\ image[i].variant = NULL /\ image[i].uploadedFor = NULL
                                 /\ image[i].position = i - 1 /\ (image[i].isPrimary <=> i = 1)
                                 /\ image[i] \in ImageRows
  <2>1. /\ InGallery \in Nat /\ DOMAIN image = 1..InGallery
        /\ \A i \in 1..InGallery : image[i] = Images!Row(NULL, i - 1, i = 1)
    BY ImagesAssumption DEF Images!ProductImagesAssumption
  <2>2. ASSUME NEW n \in Nat, NEW b \in BOOLEAN
        PROVE  LET img == Images!Row(NULL, n, b)
               IN  /\ img.variant = NULL /\ img.uploadedFor = NULL /\ img.position = n
                   /\ (img.isPrimary <=> b) /\ img \in ImageRows
    BY DEF Images!Row, ImageRows
  <2>3. ASSUME NEW i \in 1..InGallery
        PROVE  /\ image[i].variant = NULL /\ image[i].uploadedFor = NULL
               /\ image[i].position = i - 1 /\ (image[i].isPrimary <=> i = 1)
               /\ image[i] \in ImageRows
    <3> DEFINE b == i = 1
    <3>1. i - 1 \in Nat /\ b \in BOOLEAN /\ image[i] = Images!Row(NULL, i - 1, b)
      BY <2>1, <2>3
    <3> HIDE DEF b
    <3>2. /\ image[i].variant = NULL /\ image[i].uploadedFor = NULL
          /\ image[i].position = i - 1 /\ (image[i].isPrimary <=> b)
          /\ image[i] \in ImageRows
      BY <2>2, <3>1
    <3> QED
      BY <3>2 DEF b
  <2> QED
    BY <2>1, <2>3
<1>2. ImageTypes
  BY <1>1 DEF ImageTypes, Native
<1>3. \A r \in Requests : RequestOK(upload[r]) /\ Current(upload[r]) /\ ~Images!Uploads(upload[r])
  BY DEF RequestOK, Current, Images!Uploads, Images!Idle
<1>4. Images!Gallery = 1..InGallery
  BY <1>1 DEF Images!Gallery, Images!ImagesOf, Images!Rows
<1>5. Cardinality(Images!Gallery) = InGallery
  BY <1>1, <1>4, FS_Interval
<1>6. {image[i].position : i \in Images!Gallery} = 0..(InGallery - 1)
  <2>1. \A i \in Images!Gallery : i \in 1..InGallery /\ image[i].position = i - 1
    BY <1>1, <1>4
  <2>2. ASSUME NEW n \in 0..(InGallery - 1) PROVE \E i \in Images!Gallery : image[i].position = n
    <3>1. n + 1 \in 1..InGallery
      BY <1>1, <2>2
    <3>2. image[n + 1].position = n
      BY <1>4, <2>1, <3>1
    <3> QED
      BY <1>4, <3>1, <3>2
  <2>3. ASSUME NEW i \in Images!Gallery PROVE image[i].position \in 0..(InGallery - 1)
    <3>1. i \in 1..InGallery /\ image[i].position = i - 1 /\ InGallery \in Nat
      BY <1>1, <2>1
    <3> QED
      BY <3>1
  <2> DEFINE P == {image[i].position : i \in Images!Gallery}
  <2>4. P \subseteq 0..(InGallery - 1)
    BY <2>3
  <2>5. 0..(InGallery - 1) \subseteq P
    BY <2>2
  <2> HIDE DEF P
  <2>6. P = 0..(InGallery - 1)
    BY <2>4, <2>5
  <2> QED
    BY <2>6 DEF P
<1>7. \A i \in Images!Gallery : image[i].isPrimary <=> image[i].position = 0
  BY <1>1, <1>4
<1>8. InOrder
  BY <1>5, <1>6, <1>7 DEF InOrder
<1> QED
  BY <1>2, <1>3, <1>8 DEF ImagesInv, ImagesKept, Calm, UploadAlone

----------------------------------------------------------------------------
(* What holds whatever overlaps *)

\* Requests keep what they have read: no id is used twice, and an image that is in the
\* gallery stays there until it is deleted.
LEMMA RequestsKept ==
    ASSUME ImagesKept, ImageTypes', 1..created \subseteq 1..created',
           \A t \in Requests : upload'[t] = upload[t] \/ RequestOK(upload[t])',
           \A i \in DOMAIN image' \cap 1..created :
             i \in DOMAIN image /\ (image[i].variant = NULL => image'[i].variant = NULL)
    PROVE  ImagesKept'
<1>1. ASSUME NEW t \in Requests, upload'[t] = upload[t] PROVE RequestOK(upload[t])'
  <2>1. RequestOK(upload[t])
    BY DEF ImagesKept
  <2>2. CASE upload[t].op \in {"remove", "reorder"} /\ OrderOK(upload[t])
    <3>1. OrderOK(upload[t])'
      BY <1>1, <2>2 DEF OrderOK
    <3> QED
      BY <1>1, <2>2, <3>1 DEF RequestOK
  <2>3. CASE ~(upload[t].op \in {"remove", "reorder"} /\ OrderOK(upload[t]))
    BY <1>1, <2>1, <2>3 DEF RequestOK
  <2> QED
    BY <2>2, <2>3
<1> QED
  BY <1>1 DEF ImagesKept

\* A request goes on, or ends, and the images stay.
LEMMA ImagesStay ==
    ASSUME ImagesKept, NEW r \in Requests, NEW s, upload' = [upload EXCEPT ![r] = s],
           UNCHANGED <<image, created, variants>>, RequestOK(s)
    PROVE  ImagesKept'
<1>1. /\ upload' = [t \in Requests |-> IF t = r THEN s ELSE upload[t]]
      /\ image' = image /\ created' = created /\ variants' = variants
  BY DEF ImagesKept, ImageTypes
<1>2. ImageTypes'
  BY <1>1 DEF ImagesKept, ImageTypes, Native
<1>3. RequestOK(s)'
  BY <1>1 DEF RequestOK, OrderOK
<1>4. \A t \in Requests : upload'[t] = upload[t] \/ RequestOK(upload[t])'
  BY <1>1, <1>3
<1> QED
  BY <1>1, <1>2, <1>4, RequestsKept

LEMMA ImagesEnd ==
    ASSUME ImagesKept, NEW r \in Requests, Images!End(r), UNCHANGED <<image, created, variants>>
    PROVE  ImagesKept'
<1>1. RequestOK(Images!Idle)
  BY DEF RequestOK
<1> QED
  BY <1>1, ImagesStay DEF Images!End

\* What begins has read the gallery as it is.
LEMMA ImagesReads ==
    ASSUME ImagesKept, NEW r \in Requests,
           \/ Images!AddCounts(r) \/ Images!removeImage(r) \/ Images!setPrimaryImage(r)
           \/ Images!moveImage(r) \/ Images!SetVariantFinds(r)
    PROVE  /\ UNCHANGED <<image, created, variants>>
           /\ \/ UNCHANGED <<upload, disturbed>>
              \/ \E s : Images!Start(r, s) /\ RequestOK(s) /\ Current(s)
<1> USE DEF ImagesKept
<1>0. ASSUME NEW s, s.op \in {"remove", "reorder"}, IsOrder(s.order),
             Images!Range(s.order) = Images!Gallery \ Target(s)
      PROVE  RequestOK(s) /\ Current(s)
  <2>1. Images!Range(s.order) \subseteq 1..created
    BY <1>0 DEF ImageTypes, Images!Gallery, Images!ImagesOf, Images!Rows
  <2>2. \A i \in Images!Range(s.order) : image[i].variant = NULL
    BY <1>0 DEF Images!Gallery, Images!ImagesOf
  <2>3. Native \subseteq Images!Range(s.order) \cup Target(s)
    BY <1>0 DEF ImageTypes, Native, Images!Gallery, Images!ImagesOf, Images!Rows
  <2>4. OrderOK(s)
    BY <1>0, <2>1, <2>2 DEF OrderOK
  <2> QED
    BY <1>0, <2>3, <2>4 DEF RequestOK, Current
<1>1. CASE Images!AddCounts(r)
  <2> DEFINE s == [op |-> "add", count |-> Images!Cardinality(Images!Gallery)]
  <2>1. s.op = "add" /\ s.count = Cardinality(Images!Gallery) /\ s.count \in Nat
    BY GalleryIsFinite, SameCardinality
  <2>2. Images!Start(r, s) /\ UNCHANGED <<image, created, variants>>
    BY <1>1 DEF Images!AddCounts
  <2> HIDE DEF s
  <2>3. RequestOK(s) /\ Current(s)
    BY <2>1 DEF RequestOK, Current
  <2> QED
    BY <2>2, <2>3
<1>2. CASE Images!removeImage(r)
  <2>1. UNCHANGED <<image, created, variants>>
    BY <1>2 DEF Images!removeImage
  <2>2. CASE ~UNCHANGED <<upload, disturbed>>
    <3>0. PICK i : \E q \in Images!Ordered(i) :
            Images!Start(r, [op |-> "remove", target |-> i, order |-> q])
      BY <1>2, <2>2 DEF Images!removeImage
    <3>1. PICK q \in Images!Ordered(i) :
            Images!Start(r, [op |-> "remove", target |-> i, order |-> q])
      BY <3>0
    <3> DEFINE s == [op |-> "remove", target |-> i, order |-> q]
    <3>2. IsOrder(q) /\ Images!Range(q) = Images!Gallery \ {i}
      BY <3>1, ReadsAll
    <3>3. s.order = q /\ Target(s) = {i} /\ s.op = "remove" /\ Images!Start(r, s)
      BY <3>1 DEF Target
    <3> HIDE DEF s
    <3>4. RequestOK(s) /\ Current(s)
      BY <1>0, <3>2, <3>3
    <3> QED
      BY <2>1, <3>3, <3>4
  <2> QED
    BY <2>1, <2>2
<1>3. ASSUME NEW p, IsOrder(p), Images!Range(p) = Images!Gallery,
             Images!Start(r, [op |-> "reorder", order |-> p])
      PROVE  \E s : Images!Start(r, s) /\ RequestOK(s) /\ Current(s)
  <2> DEFINE s == [op |-> "reorder", order |-> p]
  <2>1. s.order = p /\ Target(s) = {} /\ s.op = "reorder" /\ Images!Start(r, s)
    BY <1>3 DEF Target
  <2> HIDE DEF s
  <2>2. RequestOK(s) /\ Current(s)
    BY <1>0, <1>3, <2>1
  <2> QED
    BY <2>1, <2>2
<1>4. Images!Gallery \ {NULL} = Images!Gallery
  BY ImagesAssumption DEF Images!ProductImagesAssumption, ImageTypes, Images!Gallery,
                          Images!ImagesOf, Images!Rows
<1>5. CASE Images!setPrimaryImage(r)
  <2>1. PICK q \in Images!Ordered(NULL) : \E n \in DOMAIN q :
          Images!Start(r, [op |-> "reorder", order |-> Images!Promoted(q, n)])
    BY <1>5 DEF Images!setPrimaryImage
  <2>2. PICK n \in DOMAIN q :
          Images!Start(r, [op |-> "reorder", order |-> Images!Promoted(q, n)])
    BY <2>1
  <2>3. IsOrder(q) /\ Images!Range(q) = Images!Gallery
    BY <1>4, <2>1, ReadsAll
  <2>4. /\ IsOrder(Images!Promoted(q, n))
        /\ Images!Range(Images!Promoted(q, n)) = Images!Gallery
    BY <2>2, <2>3, Promotes
  <2> QED
    BY <1>3, <1>5, <2>2, <2>4 DEF Images!setPrimaryImage
<1>6. CASE Images!moveImage(r)
  <2>1. PICK q \in Images!Ordered(NULL) : \E n \in DOMAIN q :
          /\ n + 1 \in DOMAIN q
          /\ Images!Start(r, [op |-> "reorder",
                              order |-> [q EXCEPT ![n] = q[n + 1], ![n + 1] = q[n]]])
    BY <1>6 DEF Images!moveImage
  <2>2. PICK n \in DOMAIN q :
          /\ n + 1 \in DOMAIN q
          /\ Images!Start(r, [op |-> "reorder",
                              order |-> [q EXCEPT ![n] = q[n + 1], ![n + 1] = q[n]]])
    BY <2>1
  <2> DEFINE p == [q EXCEPT ![n] = q[n + 1], ![n + 1] = q[n]]
  <2>3. IsOrder(q) /\ Images!Range(q) = Images!Gallery
    BY <1>4, <2>1, ReadsAll
  <2>4. IsOrder(p) /\ Images!Range(p) = Images!Gallery
    BY <2>2, <2>3, Swaps
  <2>5. Images!Start(r, [op |-> "reorder", order |-> p])
    BY <2>2
  <2> HIDE DEF p
  <2> QED
    BY <1>3, <1>6, <2>4, <2>5 DEF Images!moveImage
<1>7. CASE Images!SetVariantFinds(r)
  <2>0. PICK v \in variants : \E found :
          Images!Start(r, [op |-> "setVariant", variant |-> v, found |-> found])
    BY <1>7 DEF Images!SetVariantFinds
  <2>1. PICK found : Images!Start(r, [op |-> "setVariant", variant |-> v, found |-> found])
    BY <2>0
  <2> DEFINE s == [op |-> "setVariant", variant |-> v, found |-> found]
  <2>2. RequestOK(s) /\ Current(s)
    BY <2>1 DEF RequestOK, Current, ImageTypes
  <2> QED
    BY <1>7, <2>1, <2>2 DEF Images!SetVariantFinds
<1> QED
  BY <1>1, <1>2, <1>5, <1>6, <1>7

\* A new image has an id of its own, which no request knows.
LEMMA Inserts ==
    ASSUME ImagesKept, NEW img \in ImageRows, img.uploadedFor = NULL => img.variant = NULL,
           Images!Insert(img), variants' = variants, NEW r \in Requests, Images!End(r)
    PROVE  /\ ImagesKept' /\ created + 1 \notin 1..created
           /\ DOMAIN image' = DOMAIN image \cup {created + 1}
           /\ image'[created + 1] = img
           /\ \A i \in DOMAIN image : image'[i] = image[i]
<1> DEFINE x == created + 1
<1>1. /\ created \in Nat /\ DOMAIN image \subseteq 1..created /\ x \notin 1..created /\ x \in Nat
      /\ created' = x /\ 1..created \subseteq 1..x /\ x \in 1..x
  BY DEF ImagesKept, ImageTypes, Images!Insert
<1>2. image' = [i \in DOMAIN image \cup {x} |-> IF i = x THEN img ELSE image[i]]
  BY DEF Images!Insert, Images!Rows
<1>3. upload' = [t \in Requests |-> IF t = r THEN Images!Idle ELSE upload[t]]
  BY DEF ImagesKept, ImageTypes, Images!End
<1> HIDE DEF x
<1>4. /\ DOMAIN image' = DOMAIN image \cup {x} /\ image'[x] = img
      /\ \A i \in DOMAIN image : image'[i] = image[i]
  BY <1>1, <1>2
<1>5. image' \in [DOMAIN image' -> ImageRows]
  BY <1>1, <1>2, <1>4 DEF ImagesKept, ImageTypes
<1>6. \A i \in DOMAIN image' : image'[i].uploadedFor = NULL => image'[i].variant = NULL
  BY <1>4 DEF ImagesKept, ImageTypes, Native
<1>7. ImageTypes'
  BY <1>1, <1>3, <1>4, <1>5, <1>6 DEF ImagesKept, ImageTypes, Native
<1>8. \A t \in Requests : upload'[t] = upload[t] \/ RequestOK(upload[t])'
  BY <1>3 DEF RequestOK
<1>9. ImagesKept'
  BY <1>1, <1>4, <1>7, <1>8, RequestsKept
<1> QED
  BY <1>1, <1>4, <1>9 DEF x

LEMMA VariantImageGoes ==
    ASSUME ImagesKept, NEW v \in Variants, Images!removeVariantImage(v)
    PROVE  /\ ImagesKept' /\ DOMAIN image' \subseteq DOMAIN image /\ upload' = upload
           /\ Images!Gallery' = Images!Gallery
           /\ \A i \in Images!Gallery : image'[i] = image[i]
           /\ \A i \in DOMAIN image' : image'[i].uploadedFor = image[i].uploadedFor
<1> USE DEF Images!Rows, Images!ImagesOf
<1>1. /\ v # NULL /\ upload' = upload /\ created' = created /\ variants' = variants
      /\ image' = [i \in DOMAIN image \ Images!ImagesOf(v) |-> image[i]]
  BY ImagesAssumption DEF Images!ProductImagesAssumption, Images!removeVariantImage, Images!Restrict
<1>2. DOMAIN image' \subseteq DOMAIN image /\ \A i \in DOMAIN image' : image'[i] = image[i]
  BY <1>1
<1>3. ImageTypes'
  BY <1>1, <1>2 DEF ImagesKept, ImageTypes, Native
<1>4. ImagesKept'
  BY <1>1, <1>2, <1>3, RequestsKept
<1>5. Images!Gallery' = Images!Gallery /\ \A i \in Images!Gallery : image'[i] = image[i]
  <2>1. \A i \in Images!Gallery : i \in DOMAIN image'
    BY <1>1 DEF Images!Gallery
  <2>2. Images!Gallery' \subseteq Images!Gallery
    BY <1>2 DEF Images!Gallery
  <2>3. Images!Gallery \subseteq Images!Gallery'
    BY <1>2, <2>1 DEF Images!Gallery
  <2> QED
    BY <1>2, <2>1, <2>2, <2>3
<1> QED
  BY <1>1, <1>2, <1>4, <1>5

LEMMA VariantGoes ==
    ASSUME ImagesKept, NEW v \in Variants, Images!removeVariant(v)
    PROVE  /\ ImagesKept' /\ DOMAIN image' = DOMAIN image /\ upload' = upload
           /\ \A i \in DOMAIN image' : image'[i].uploadedFor = image[i].uploadedFor
           /\ NoStrangers' => /\ Images!Gallery' = Images!Gallery
                              /\ \A i \in Images!Gallery : image'[i] = image[i]
<1> USE DEF Images!Rows, Images!ImagesOf
<1>1. /\ v # NULL /\ upload' = upload /\ created' = created /\ variants' \subseteq variants
      /\ image' = [i \in DOMAIN image |-> IF i \in Images!ImagesOf(v)
                                          THEN [image[i] EXCEPT !.variant = NULL] ELSE image[i]]
  BY ImagesAssumption DEF Images!ProductImagesAssumption, Images!removeVariant, Images!Unlinked
<1>2. image \in [DOMAIN image -> ImageRows]
  BY DEF ImagesKept, ImageTypes
<1>3. /\ DOMAIN image' = DOMAIN image
      /\ \A i \in DOMAIN image : /\ image'[i] \in ImageRows
                                 /\ image'[i].uploadedFor = image[i].uploadedFor
                                 /\ image'[i].variant = IF image[i].variant = v THEN NULL
                                                        ELSE image[i].variant
                                 /\ image[i].variant # v => image'[i] = image[i]
  BY <1>1, <1>2 DEF ImageRows
<1>4. Native' = Native
  BY <1>3 DEF Native
<1>5. ImageTypes'
  BY <1>1, <1>3, <1>4 DEF ImagesKept, ImageTypes, Native
<1>6. ImagesKept'
  BY <1>1, <1>3, <1>5, RequestsKept
<1>7. ASSUME NoStrangers'
      PROVE  Images!Gallery' = Images!Gallery /\ \A i \in Images!Gallery : image'[i] = image[i]
  <2>1. ASSUME NEW i \in DOMAIN image, image[i].variant = v PROVE FALSE
    <3>1. i \in Images!Gallery'
      BY <1>3, <2>1 DEF Images!Gallery
    <3>2. image[i].uploadedFor = NULL
      BY <1>3, <1>7, <2>1, <3>1 DEF NoStrangers
    <3> QED
      BY <1>1, <2>1, <3>2 DEF ImagesKept, ImageTypes, Native
  <2>2. \A i \in DOMAIN image : image'[i] = image[i]
    BY <1>3, <2>1
  <2> QED
    BY <1>3, <2>2 DEF Images!Gallery
<1> QED
  BY <1>1, <1>3, <1>6, <1>7

\* In what is written each image has the place it has in the order, the first one the mark.
LEMMA Places ==
    ASSUME ImageTypes, NEW q, NEW k \in Nat, q \in [1..k -> Nat],
           \A m, n \in 1..k : q[m] = q[n] => m = n, Images!Range(q) \subseteq DOMAIN image,
           NEW new, new = Images!Reordered(q)
    PROVE  /\ DOMAIN new = DOMAIN image /\ new \in [DOMAIN image -> ImageRows]
           /\ \A i \in DOMAIN image : /\ new[i].variant = image[i].variant
                                      /\ new[i].uploadedFor = image[i].uploadedFor
           /\ \A n \in 1..k : new[q[n]].position = n - 1 /\ (new[q[n]].isPrimary <=> n = 1)
<1>1. /\ DOMAIN q = 1..k /\ Images!Range(q) = {q[n] : n \in 1..k}
      /\ image \in [DOMAIN image -> ImageRows]
  BY DEF Images!Range, ImageTypes
<1>2. ASSUME NEW n \in 1..k PROVE Images!Place(q[n], q) = n
  BY <1>1 DEF Images!Place
<1>3. ASSUME NEW i \in Images!Range(q) PROVE Images!Place(i, q) \in 1..k
  BY <1>1, <1>2
<1> DEFINE Placed(img, n, b) == [img EXCEPT !.position = n - 1, !.isPrimary = b]
<1>4. ASSUME NEW img \in ImageRows, NEW n \in 1..k, NEW b \in BOOLEAN
      PROVE  /\ Placed(img, n, b) \in ImageRows /\ Placed(img, n, b).variant = img.variant
             /\ Placed(img, n, b).uploadedFor = img.uploadedFor
             /\ Placed(img, n, b).position = n - 1 /\ Placed(img, n, b).isPrimary = b
  <2> DEFINE r == Placed(img, n, b)
  <2>1. n - 1 \in Nat /\ r = [img EXCEPT !.position = n - 1, !.isPrimary = b]
    OBVIOUS
  <2> HIDE DEF r
  <2>2. /\ r \in ImageRows /\ r.variant = img.variant
        /\ r.uploadedFor = img.uploadedFor /\ r.position = n - 1 /\ r.isPrimary = b
    BY <1>4, <2>1 DEF ImageRows
  <2> QED
    BY <2>2 DEF r
<1>5. ASSUME NEW i \in Images!Range(q)
      PROVE  /\ new[i] \in ImageRows /\ new[i].variant = image[i].variant
             /\ new[i].uploadedFor = image[i].uploadedFor
             /\ new[i].position = Images!Place(i, q) - 1
             /\ new[i].isPrimary <=> Images!Place(i, q) = 1
  <2> DEFINE n == Images!Place(i, q)
             b == n = 1
  <2>1. n \in 1..k /\ b \in BOOLEAN /\ image[i] \in ImageRows /\ i \in DOMAIN image
    BY <1>1, <1>3
  <2>2. new[i] = Placed(image[i], n, b)
    BY <2>1 DEF Images!Reordered, Images!Rows
  <2> HIDE DEF n, b, Placed
  <2>3. /\ new[i] \in ImageRows /\ new[i].variant = image[i].variant
        /\ new[i].uploadedFor = image[i].uploadedFor /\ new[i].position = n - 1
        /\ new[i].isPrimary = b
    BY <1>4, <2>1, <2>2
  <2> QED
    BY <2>3 DEF n, b
<1>6. /\ DOMAIN new = DOMAIN image /\ new = [i \in DOMAIN image |-> new[i]]
      /\ \A i \in DOMAIN image : i \notin Images!Range(q) => new[i] = image[i]
  BY DEF Images!Reordered, Images!Rows
<1>7. new \in [DOMAIN image -> ImageRows]
  BY <1>1, <1>5, <1>6
<1>8. ASSUME NEW i \in DOMAIN image
      PROVE  new[i].variant = image[i].variant /\ new[i].uploadedFor = image[i].uploadedFor
  BY <1>5, <1>6
<1>9. ASSUME NEW n \in 1..k
      PROVE  new[q[n]].position = n - 1 /\ (new[q[n]].isPrimary <=> n = 1)
  <2>1. q[n] \in Images!Range(q)
    BY <1>1
  <2> QED
    BY <1>2, <1>5, <2>1
<1> QED
  BY <1>6, <1>7, <1>8, <1>9

\* An order is written as a whole or not at all.  Each image then has the place it has in
\* the order, and what the order misses has been removed.
LEMMA OrderWritten ==
    ASSUME ImagesKept, NEW r \in Requests, Images!persistOrder(r)
    PROVE  LET s == upload[r] IN
           /\ ImagesKept' /\ upload' = [t \in Requests |-> IF t = r THEN Images!Idle ELSE upload[t]]
           /\ s.op \in {"remove", "reorder"} /\ OrderOK(s)
           /\ \/ UNCHANGED <<image, created, variants>> /\ ~(Images!Range(s.order) \subseteq DOMAIN image)
              \/ /\ Images!Range(s.order) \subseteq DOMAIN image
                 /\ DOMAIN image' = DOMAIN image \ Target(s)
                 /\ Native' = Native \ Target(s)
                 /\ \A i \in DOMAIN image' : image'[i].variant = image[i].variant
                 /\ Images!Gallery' = Images!Range(s.order) => InOrder'
<1> DEFINE s == upload[r]
           q == s.order
           new == Images!Reordered(q)
<1>1. /\ s.op \in {"remove", "reorder"} /\ OrderOK(s) /\ Images!End(r)
      /\ created' = created /\ variants' = variants
  BY DEF Images!persistOrder, ImagesKept, RequestOK, Images!Idle
<1>2. upload' = [t \in Requests |-> IF t = r THEN Images!Idle ELSE upload[t]]
  BY <1>1 DEF Images!End, ImagesKept, ImageTypes
<1>3. CASE ~(Images!Range(q) \subseteq DOMAIN image)
  <2>1. image' = image
    BY <1>3 DEF Images!persistOrder, Images!Rows
  <2>2. ImagesKept'
    BY <1>1, <2>1, ImagesEnd
  <2> QED
    BY <1>1, <1>2, <1>3, <2>1, <2>2
<1>4. CASE Images!Range(q) \subseteq DOMAIN image
  <2>1. image' = [i \in DOMAIN image \ Target(s) |-> new[i]]
    BY <1>1, <1>4 DEF Images!persistOrder, Images!Restrict, Images!Rows, Target
  <2>2. PICK k \in Nat : q \in [1..k -> Nat] /\ \A m, n \in 1..k : q[m] = q[n] => m = n
    BY <1>1 DEF OrderOK, IsOrder
  <2>3. ImageTypes
    BY DEF ImagesKept
  <2> HIDE DEF new, q, s
  <2>4. /\ DOMAIN new = DOMAIN image /\ new \in [DOMAIN image -> ImageRows]
        /\ \A i \in DOMAIN image : /\ new[i].variant = image[i].variant
                                   /\ new[i].uploadedFor = image[i].uploadedFor
        /\ \A n \in 1..k : new[q[n]].position = n - 1 /\ (new[q[n]].isPrimary <=> n = 1)
    BY <1>4, <2>2, <2>3, Places DEF new
  <2>5. /\ DOMAIN image' = DOMAIN image \ Target(s)
        /\ \A i \in DOMAIN image' : /\ image'[i] = new[i] /\ image'[i] \in ImageRows
                                    /\ image'[i].variant = image[i].variant
                                    /\ image'[i].uploadedFor = image[i].uploadedFor
    BY <2>1, <2>4
  <2>6. Native' = Native \ Target(s)
    BY <2>5 DEF Native
  <2>7. ImageTypes'
    <3>1. image' \in [DOMAIN image' -> ImageRows]
      BY <2>1, <2>5
    <3>2. \A i \in Native' : image'[i].variant = NULL
      BY <2>3, <2>5 DEF ImageTypes, Native
    <3> QED
      BY <1>1, <1>2, <2>3, <2>5, <3>1, <3>2 DEF ImageTypes
  <2>8. ImagesKept'
    <3>1. \A t \in Requests : upload'[t] = upload[t] \/ RequestOK(upload[t])'
      BY <1>2 DEF RequestOK
    <3> QED
      BY <1>1, <2>5, <2>7, <3>1, RequestsKept
  <2>9. ASSUME Images!Gallery' = Images!Range(q) PROVE InOrder'
    <3> DEFINE G == Images!Gallery'
               P == {image'[i].position : i \in G}
    <3>1. G \subseteq DOMAIN image'
      BY DEF Images!Gallery, Images!ImagesOf, Images!Rows
    <3>2. G = {q[n] : n \in 1..k}
      BY <2>2, <2>9 DEF Images!Range
    <3> HIDE DEF G
    <3>3. q \in Injection(1..k, G) /\ q \in Surjection(1..k, G)
      BY <2>2, <3>2 DEF Injection, Surjection, IsInjective
    <3>4. Cardinality(G) = k
      <4>1. IsFiniteSet(1..k) /\ Cardinality(1..k) = k
        BY FS_Interval
      <4>2. Cardinality(1..k) = Cardinality(G)
        BY <3>3, <4>1, FS_Surjection
      <4> QED
        BY <4>1, <4>2
    <3>5. \A n \in 1..k : /\ q[n] \in G /\ image'[q[n]].position = n - 1
                          /\ image'[q[n]].isPrimary <=> n = 1
      BY <2>4, <2>5, <3>1, <3>2
    <3>6. P \subseteq 0..(k - 1)
      BY <3>2, <3>5
    <3>7. 0..(k - 1) \subseteq P
      <4>1. ASSUME NEW n \in 0..(k - 1) PROVE \E i \in G : image'[i].position = n
        <5>1. n + 1 \in 1..k /\ (n + 1) - 1 = n
          OBVIOUS
        <5> QED
          BY <3>5, <5>1
      <4> QED
        BY <4>1
    <3>8. \A i \in G : image'[i].isPrimary <=> image'[i].position = 0
      BY <3>2, <3>5
    <3> HIDE DEF P
    <3>9. P = 0..(k - 1)
      BY <3>6, <3>7
    <3> QED
      BY <3>4, <3>8, <3>9 DEF G, P, InOrder
  <2> QED
    BY <1>1, <1>2, <1>4, <2>5, <2>6, <2>8, <2>9 DEF q, s
<1> QED
  BY <1>3, <1>4

----------------------------------------------------------------------------
(* What holds as long as no upload overlaps another request *)

\* A request goes on, or ends, and the images stay.
LEMMA CalmStays ==
    ASSUME ImagesKept, Calm, NEW r \in Requests, NEW s, upload' = [upload EXCEPT ![r] = s],
           UNCHANGED <<image, created, variants>>, Current(s),
           \A t \in Requests \ {r} : /\ Images!Uploads(s) => upload[t] = Images!Idle
                                     /\ s # Images!Idle => ~Images!Uploads(upload[t])
    PROVE  Calm'
<1>1. /\ upload' = [t \in Requests |-> IF t = r THEN s ELSE upload[t]]
      /\ image' = image /\ created' = created /\ variants' = variants
  BY DEF ImagesKept, ImageTypes
<1>2. Images!Gallery' = Images!Gallery /\ Native' = Native
  BY <1>1 DEF Images!Gallery, Images!ImagesOf, Images!Rows, Native
<1>3. NoStrangers' <=> NoStrangers
  BY <1>1, <1>2 DEF NoStrangers
<1>4. \A t \in Requests : Current(upload'[t])
  BY <1>1 DEF Calm
<1>5. \A t \in Requests : Current(upload[t])'
  BY <1>2, <1>3, <1>4 DEF Current
<1>6. ~Images!Uploads(Images!Idle)
  BY DEF Images!Uploads, Images!Idle
<1>7. UploadAlone'
  BY <1>1, <1>6 DEF Calm, UploadAlone
<1>8. InOrder'
  BY <1>1, <1>2, <1>3 DEF Calm, InOrder
<1> QED
  BY <1>5, <1>7, <1>8 DEF Calm

LEMMA CalmAtEnd ==
    ASSUME ImagesKept, Calm, NEW r \in Requests, Images!End(r), UNCHANGED <<image, created, variants>>
    PROVE  Calm'
<1>1. Current(Images!Idle) /\ ~Images!Uploads(Images!Idle)
  BY DEF Current, Images!Uploads, Images!Idle
<1> QED
  BY <1>1, CalmStays DEF Images!End

LEMMA CalmStart ==
    ASSUME ImagesKept, Calm, ~disturbed', NEW r \in Requests, NEW s, Images!Start(r, s),
           UNCHANGED <<image, created, variants>>, Current(s)
    PROVE  Calm'
<1>1. \A t \in Requests \ {r} : /\ ~Images!Uploads(upload[t])
                                /\ Images!Uploads(s) => upload[t] = Images!Idle
  BY DEF Images!Start
<1>2. upload' = [upload EXCEPT ![r] = s]
  BY DEF Images!Start
<1> QED
  BY <1>1, <1>2, CalmStays

\* Images of variants come and go, and as long as none is in the gallery it stays as it is.
LEMMA CalmBeside ==
    ASSUME Calm, Native' \subseteq Native,
           \A t \in Requests : upload'[t] = upload[t] \/ upload'[t] = Images!Idle,
           NoStrangers' => /\ Images!Gallery' = Images!Gallery
                           /\ \A i \in Images!Gallery : image'[i] = image[i]
    PROVE  Calm'
<1>1. NoStrangers' => NoStrangers /\ InOrder'
  BY DEF NoStrangers, Calm, InOrder
<1>2. InOrder'
  BY <1>1 DEF InOrder
<1>3. ASSUME NEW t \in Requests PROVE Current(upload[t])'
  <2>1. CASE upload'[t] = Images!Idle
    BY <2>1 DEF Current, Images!Idle
  <2>2. CASE upload'[t] = upload[t]
    BY <1>1, <2>2 DEF Calm, Current
  <2> QED
    BY <2>1, <2>2
<1>4. ~Images!Uploads(Images!Idle)
  BY DEF Images!Uploads, Images!Idle
<1>5. UploadAlone'
  BY <1>4 DEF Calm, UploadAlone
<1> QED
  BY <1>2, <1>3, <1>5 DEF Calm

LEMMA AtRest ==
    ASSUME \A t \in Requests : upload'[t] = Images!Idle, InOrder'
    PROVE  Calm'
BY DEF Calm, Current, UploadAlone, Images!Uploads, Images!Idle

\* The new last image comes after the others.
LEMMA AddCreates ==
    ASSUME ImagesKept, NEW r \in Requests, Images!AddCreates(r)
    PROVE  ImagesKept' /\ (Calm => Calm')
<1> DEFINE x == created + 1
           c == upload[r].count
           b == c = 0
           img == Images!Row(NULL, c, b)
<1>1. Images!Uploads(upload[r]) /\ c \in Nat
  BY DEF Images!AddCreates, Images!Uploads, ImagesKept, RequestOK, Images!Idle
<1>2. Calm => /\ \A t \in Requests : upload'[t] = Images!Idle
              /\ NoStrangers => c = Cardinality(Images!Gallery)
  BY <1>1 DEF Images!AddCreates, Images!End, Images!Uploads, ImagesKept, ImageTypes,
              Calm, UploadAlone, Current
<1>3. Images!Insert(img) /\ variants' = variants /\ Images!End(r)
  BY DEF Images!AddCreates
<1>4. b \in BOOLEAN /\ (b <=> c = 0)
  OBVIOUS
<1> HIDE DEF b, c
<1>5. /\ img \in ImageRows /\ img.uploadedFor = NULL /\ img.variant = NULL
      /\ img.position = c /\ (img.isPrimary <=> b)
  BY <1>1, <1>4 DEF Images!Row, ImageRows
<1> HIDE DEF img
<1>6. /\ ImagesKept' /\ x \notin 1..created
      /\ DOMAIN image' = DOMAIN image \cup {x} /\ image'[x] = img
      /\ \A i \in DOMAIN image : image'[i] = image[i]
  BY <1>3, <1>5, Inserts
<1> HIDE DEF x
<1> DEFINE G == Images!Gallery
<1>7. /\ Images!Gallery' = G \cup {x} /\ x \notin G
      /\ \A i \in G : image'[i] = image[i]
  BY <1>5, <1>6 DEF Images!Gallery, Images!ImagesOf, Images!Rows, ImagesKept, ImageTypes
<1>8. IsFiniteSet(G) /\ Cardinality(G) \in Nat
  BY GalleryIsFinite DEF ImagesKept
<1>9. ASSUME Calm PROVE InOrder'
  <2> SUFFICES ASSUME NoStrangers'
               PROVE  /\ {image'[i].position : i \in Images!Gallery'}
                           = 0..(Cardinality(Images!Gallery') - 1)
                      /\ \A i \in Images!Gallery' : image'[i].isPrimary <=> image'[i].position = 0
    BY DEF InOrder
  <2>1. NoStrangers /\ c = Cardinality(G)
    BY <1>2, <1>7, <1>9 DEF NoStrangers
  <2> DEFINE P == {image[i].position : i \in G}
             Q == {image'[i].position : i \in Images!Gallery'}
  <2>2. /\ P = 0..(c - 1)
        /\ \A i \in G : image[i].isPrimary <=> image[i].position = 0
    BY <1>9, <2>1 DEF Calm, InOrder
  <2>3. Cardinality(Images!Gallery') = c + 1
    BY <1>7, <1>8, <2>1, FS_AddElement
  <2> HIDE DEF G
  <2>4. Q = P \cup {c}
    BY <1>5, <1>6, <1>7
  <2> HIDE DEF P, Q
  <2>5. Q = 0..c
    BY <1>1, <2>2, <2>4
  <2>6. \A i \in Images!Gallery' : image'[i].isPrimary <=> image'[i].position = 0
    <3>1. image'[x].isPrimary <=> image'[x].position = 0
      BY <1>4, <1>5, <1>6
    <3> QED
      BY <1>7, <2>2, <3>1
  <2> QED
    BY <1>1, <2>3, <2>5, <2>6 DEF Q
<1> QED
  BY <1>2, <1>6, <1>9, AtRest

LEMMA SetVariantWrites ==
    ASSUME ImagesKept, NEW r \in Requests, Images!SetVariantWrites(r)
    PROVE  ImagesKept' /\ (Calm => Calm')
<1> DEFINE v == upload[r].variant
           img == Images!Row(v, 0, FALSE)
<1>1. v \in Variants /\ v # NULL /\ Images!End(r) /\ variants' = variants
  BY ImagesAssumption
  DEF Images!ProductImagesAssumption, Images!SetVariantWrites, ImagesKept, RequestOK, Images!Idle
<1>2. CASE UNCHANGED <<image, created>>
  BY <1>1, <1>2, ImagesEnd, CalmAtEnd
<1>3. CASE Images!Insert(img)
  <2>1. \A t \in Requests : upload'[t] = upload[t] \/ upload'[t] = Images!Idle
    BY <1>1 DEF Images!End, ImagesKept, ImageTypes
  <2>2. img \in ImageRows /\ img.variant = v /\ img.uploadedFor = v
    BY <1>1 DEF Images!Row, ImageRows
  <2> DEFINE x == created + 1
  <2> HIDE DEF img, v
  <2>3. /\ ImagesKept' /\ x \notin 1..created
        /\ DOMAIN image' = DOMAIN image \cup {x} /\ image'[x] = img
        /\ \A i \in DOMAIN image : image'[i] = image[i]
    BY <1>1, <1>3, <2>2, Inserts
  <2> HIDE DEF x
  <2>4. /\ Images!Gallery' = Images!Gallery /\ \A i \in Images!Gallery : image'[i] = image[i]
        /\ Native' = Native
    BY <1>1, <2>2, <2>3 DEF Native, Images!Gallery, Images!ImagesOf, Images!Rows
  <2> QED
    BY <2>1, <2>3, <2>4, CalmBeside
<1> QED
  BY <1>2, <1>3 DEF Images!SetVariantWrites

\* The order is of all images when it was read in calm, and then, or when the gallery turns
\* out to be what it says, the images are in order.
LEMMA OrderBringsCalm ==
    ASSUME ImagesKept, NEW r \in Requests, Images!persistOrder(r),
           disturbed \/ Calm, ~disturbed'
    PROVE  Calm'
<1> DEFINE s == upload[r]
           q == s.order
<1>1. /\ ImagesKept' /\ upload' = [t \in Requests |-> IF t = r THEN Images!Idle ELSE upload[t]]
      /\ s.op \in {"remove", "reorder"} /\ OrderOK(s)
      /\ \/ UNCHANGED <<image, created, variants>> /\ ~(Images!Range(q) \subseteq DOMAIN image)
         \/ /\ Images!Range(q) \subseteq DOMAIN image
            /\ DOMAIN image' = DOMAIN image \ Target(s)
            /\ Native' = Native \ Target(s)
            /\ \A i \in DOMAIN image' : image'[i].variant = image[i].variant
            /\ Images!Gallery' = Images!Range(q) => InOrder'
  BY OrderWritten
<1>2. Images!Gallery' \subseteq DOMAIN image' /\ DOMAIN image' \subseteq DOMAIN image
  BY <1>1 DEF Images!Gallery, Images!ImagesOf, Images!Rows
<1>3. CASE disturbed
  <2>1. Images!Alone(r) /\ Images!Gallery' = Images!Range(q)
    BY <1>3 DEF Images!persistOrder
  <2>2. \A t \in Requests : upload'[t] = Images!Idle
    BY <1>1, <2>1 DEF Images!Alone
  <2>3. InOrder'
    BY <1>1, <1>2, <2>1
  <2> QED
    BY <2>2, <2>3, AtRest
<1>4. CASE Calm /\ UNCHANGED <<image, created, variants>>
  BY <1>4, CalmAtEnd DEF Images!persistOrder
<1>5. CASE /\ Calm /\ Images!Range(q) \subseteq DOMAIN image
           /\ DOMAIN image' = DOMAIN image \ Target(s)
           /\ Native' = Native \ Target(s)
           /\ \A i \in DOMAIN image' : image'[i].variant = image[i].variant
           /\ Images!Gallery' = Images!Range(q) => InOrder'
  <2> HIDE DEF q, s
  <2>1. \A t \in Requests : ~Images!Uploads(upload'[t]) /\ Current(upload'[t])
    <3>1. s # Images!Idle /\ ~Images!Uploads(s) /\ ~Images!Uploads(Images!Idle)
      BY <1>1 DEF Images!Uploads, Images!Idle
    <3>2. Current(Images!Idle)
      BY DEF Current, Images!Idle
    <3>3. \A t \in Requests : ~Images!Uploads(upload[t]) /\ Current(upload[t])
      BY <1>5, <3>1 DEF Calm, UploadAlone, s
    <3> QED
      BY <1>1, <3>1, <3>2, <3>3
  <2>2. \A t \in Requests : Current(upload[t])'
    BY <1>5, <2>1 DEF Current, Images!Uploads
  <2>3. ASSUME NoStrangers' PROVE Images!Gallery' = Images!Range(q)
    <3>1. Images!Gallery' = {i \in DOMAIN image' : image'[i].variant = NULL}
      BY DEF Images!Gallery, Images!ImagesOf, Images!Rows
    <3>2. Images!Gallery' \subseteq Native'
      BY <2>3, <3>1 DEF NoStrangers, Native
    <3>3. Native \subseteq Images!Range(q) \cup Target(s)
      BY <1>1, <1>5 DEF Calm, Current, q, s
    <3>4. Images!Gallery' \subseteq Images!Range(q)
      BY <1>5, <3>2, <3>3
    <3>5. Images!Range(q) \subseteq Images!Gallery'
      BY <1>1, <1>5, <3>1 DEF OrderOK, q
    <3> QED
      BY <3>4, <3>5
  <2>4. InOrder'
    BY <1>5, <2>3 DEF InOrder
  <2> QED
    BY <2>1, <2>2, <2>4 DEF Calm, UploadAlone
<1> QED
  BY <1>1, <1>3, <1>4, <1>5

LEMMA ImagesStep == ASSUME ImagesInv, Images!Next PROVE ImagesInv'
<1>1. ImagesKept /\ (disturbed \/ Calm)
  BY DEF ImagesInv
<1>2. SUFFICES ImagesKept' /\ (~disturbed' => Calm')
  BY DEF ImagesInv
<1>3. ASSUME NEW r \in Requests, Images!Abort(r) PROVE ImagesKept' /\ (~disturbed' => Calm')
  BY <1>1, <1>3, ImagesEnd, CalmAtEnd DEF Images!Abort
<1>4. ASSUME NEW r \in Requests,
             \/ Images!AddCounts(r) \/ Images!removeImage(r) \/ Images!setPrimaryImage(r)
             \/ Images!moveImage(r) \/ Images!SetVariantFinds(r)
      PROVE  ImagesKept' /\ (~disturbed' => Calm')
  <2>1. UNCHANGED <<image, created, variants>>
    BY <1>1, <1>4, ImagesReads
  <2>2. CASE UNCHANGED <<upload, disturbed>>
    <3>1. UNCHANGED <<image, created, variants, upload, disturbed>>
      BY <2>1, <2>2
    <3> QED
      BY <3>1, ImagesUnchanged DEF ImagesInv, imagesVars
  <2>3. ASSUME NEW s, Images!Start(r, s), RequestOK(s), Current(s)
        PROVE  ImagesKept' /\ (~disturbed' => Calm')
    <3>1. upload' = [upload EXCEPT ![r] = s] /\ (disturbed => disturbed')
      BY <2>3 DEF Images!Start
    <3>2. ImagesKept'
      BY <1>1, <2>1, <2>3, <3>1, ImagesStay
    <3> QED
      BY <1>1, <2>1, <2>3, <3>1, <3>2, CalmStart
  <2> QED
    BY <1>1, <1>4, <2>2, <2>3, ImagesReads
<1>5. ASSUME NEW r \in Requests, Images!AddCreates(r) \/ Images!SetVariantWrites(r)
      PROVE  ImagesKept' /\ (~disturbed' => Calm')
  <2>1. disturbed' = disturbed
    BY <1>5 DEF Images!AddCreates, Images!SetVariantWrites
  <2> QED
    BY <1>1, <1>5, <2>1, AddCreates, SetVariantWrites
<1>6. ASSUME NEW r \in Requests, Images!persistOrder(r)
      PROVE  ImagesKept' /\ (~disturbed' => Calm')
  BY <1>1, <1>6, OrderWritten, OrderBringsCalm
<1>7. ASSUME NEW v \in Variants, Images!removeVariantImage(v) \/ Images!removeVariant(v)
      PROVE  ImagesKept' /\ (~disturbed' => Calm')
  <2>1. disturbed' = disturbed
    BY <1>7 DEF Images!removeVariantImage, Images!removeVariant
  <2>2. /\ ImagesKept' /\ DOMAIN image' \subseteq DOMAIN image /\ upload' = upload
        /\ \A i \in DOMAIN image' : image'[i].uploadedFor = image[i].uploadedFor
        /\ NoStrangers' => /\ Images!Gallery' = Images!Gallery
                           /\ \A i \in Images!Gallery : image'[i] = image[i]
    BY <1>1, <1>7, VariantImageGoes, VariantGoes
  <2>3. Native' \subseteq Native
    BY <2>2 DEF Native
  <2> QED
    BY <1>1, <2>1, <2>2, <2>3, CalmBeside
<1> QED
  BY <1>3, <1>4, <1>5, <1>6, <1>7 DEF Images!Next

\* Whatever is added, removed, promoted and moved, and however many requests overlap, the
\* gallery has the positions 0..n and one thumbnail, its first image, unless the image of a
\* deleted variant is in it.  After an upload that overlaps another request (both may go by
\* the same count) it is so again from the next order that is written alone, of all images
\* (persistOrder).
THEOREM GalleryStaysInOrder == PagesSpec => []GalleryInOrder
<1>1. PagesInit => ImagesInv
  BY ImagesInit DEF PagesInit
<1>2. ImagesInv /\ [PagesNext]_pagesVars => ImagesInv'
  <2> SUFFICES ASSUME ImagesInv, [PagesNext]_pagesVars PROVE ImagesInv'
    OBVIOUS
  <2>1. CASE UNCHANGED imagesVars
    BY <2>1, ImagesUnchanged
  <2>2. CASE Images!Next
    BY <2>2, ImagesStep
  <2>3. Images!Next \/ UNCHANGED imagesVars
    BY DEF PagesNext, pagesVars
  <2> QED
    BY <2>1, <2>2, <2>3
<1>3. ImagesInv => GalleryInOrder
  BY SameCardinality
  DEF ImagesInv, Calm, InOrder, NoStrangers, GalleryInOrder, Images!GalleryInOrder
<1> QED
  BY <1>1, <1>2, <1>3, PTL DEF PagesSpec

----------------------------------------------------------------------------
(* The addresses of products (SlugRedirects) *)

\* Bound of the theorem: one save at a time for each product, and no save is lost between
\* the row and its redirect.
SavesEnd == Exclusive /\ "record" \notin LostAt

\* A save on its way.
Saving ==
    [op : {"probe", "write", "record"}, product : Products, from : Addresses!Slugs \cup {UNBORN},
     tries : Candidates, n : Nat, shown : BOOLEAN]

\* It knows the slug of its product, or has just written it.
KnowsSlug(s) ==
    /\ s.n \in DOMAIN s.tries
    /\ slug[s.product] = IF s.op = "record" THEN s.tries[s.n] ELSE s.from
    /\ s.op = "record" => s.from \in Addresses!Slugs

SavesKnow ==
    /\ \A r \in Requests :
         saving[r] = Addresses!Idle \/ (saving[r] \in Saving /\ KnowsSlug(saving[r]))
    /\ \A r, q \in Requests :
         /\ saving[r] # Addresses!Idle /\ saving[q] # Addresses!Idle
         /\ saving[r].product = saving[q].product
         => r = q

\* The addresses some product had.
Held == {s \in Addresses!Slugs : holder[s] # NULL}

AddressTypes ==
    /\ saving = [r \in Requests |-> saving[r]]
    /\ slug \in [Products -> Addresses!Slugs \cup {UNBORN, GONE}]
    /\ \A p, q \in Products : slug[p] \in Addresses!Slugs /\ slug[p] = slug[q] => p = q
    /\ active \subseteq {p \in Products : slug[p] \in Addresses!Slugs}
    /\ DOMAIN redirect \subseteq Addresses!Slugs
    /\ \A s \in DOMAIN redirect : redirect[s] \in Held
    /\ holder \in [Addresses!Slugs -> Products \cup {NULL}]
    /\ \A p \in Products : slug[p] \in Addresses!Slugs => holder[slug[p]] = p

Occupied(s) == \E p \in Products : slug[p] = s

\* Redirects lead out of X from occupied addresses only.
Stays(X) == \A s \in X \cap DOMAIN redirect : Occupied(s) \/ redirect[s] \in X

\* Somebody is at the address, or whoever was there last is gone, or about to leave a redirect.
Settled(s) ==
    \/ Occupied(s)
    \/ slug[holder[s]] = GONE
    \/ \E r \in Requests : saving[r].op = "record" /\ saving[r].from = s

\* The redirects neither end at an address that was left nor go round in a circle: no set of
\* such addresses holds on to whoever enters it.
NoTrap == \A X \in SUBSET Held : X # {} /\ Stays(X) => \E s \in X : Settled(s)

AddressInv == AddressTypes /\ SavesKnow /\ NoTrap

LEMMA AddressInit == Addresses!Init => AddressInv
<1> SUFFICES ASSUME Addresses!Init PROVE AddressInv
  OBVIOUS
<1>1. UNBORN \notin Addresses!Slugs /\ GONE \notin Addresses!Slugs
  BY AddressesAssumption DEF Addresses!SlugRedirectsAssumption, Addresses!Slugs
<1>2. Held = {}
  BY DEF Held, Addresses!Init
<1>3. DOMAIN redirect = {}
  BY DEF Addresses!Init
<1>4. AddressTypes
  BY <1>1, <1>3 DEF AddressTypes, Addresses!Init
<1>5. SavesKnow
  BY DEF SavesKnow, Addresses!Init
<1> QED
  BY <1>2, <1>4, <1>5 DEF AddressInv, NoTrap

\* A step that only moves one save along, and leaves a redirect pending as it was.
LEMMA SaveGoes ==
    ASSUME AddressInv, NEW r \in Requests, NEW s, saving' = [saving EXCEPT ![r] = s],
           UNCHANGED <<slug, active, redirect, holder>>,
           s # Addresses!Idle => s \in Saving /\ KnowsSlug(s),
           saving[r].op # "record", s.op # "record",
           s # Addresses!Idle => \/ saving[r] # Addresses!Idle /\ saving[r].product = s.product
                                 \/ ~ Addresses!Busy(s.product)
    PROVE  AddressInv'
<1>1. saving' = [q \in Requests |-> IF q = r THEN s ELSE saving[q]]
  BY DEF AddressInv, AddressTypes
<1>2. AddressTypes'
  BY <1>1 DEF AddressInv, AddressTypes, Held
<1>3. \A t : KnowsSlug(t)' <=> KnowsSlug(t)
  BY DEF KnowsSlug
<1>4. SavesKnow'
  <2>1. \A q \in Requests :
          saving'[q] = Addresses!Idle \/ (saving'[q] \in Saving /\ KnowsSlug(saving'[q]))
    BY <1>1 DEF AddressInv, SavesKnow
  <2>2. ASSUME NEW p \in Requests, NEW q \in Requests, saving'[p] # Addresses!Idle,
               saving'[q] # Addresses!Idle, saving'[p].product = saving'[q].product
        PROVE  p = q
    BY <1>1, <2>2 DEF AddressInv, SavesKnow, Addresses!Busy
  <2> QED
    BY <1>1, <1>3, <2>1, <2>2 DEF SavesKnow, KnowsSlug
<1>5. NoTrap'
  <2>1. ASSUME NEW t PROVE Settled(t) => Settled(t)'
    <3>1. ASSUME NEW q \in Requests, saving[q].op = "record" /\ saving[q].from = t
          PROVE  saving'[q].op = "record" /\ saving'[q].from = t
      BY <1>1, <3>1
    <3> QED
      BY <3>1 DEF Settled, Occupied
  <2> SUFFICES ASSUME NEW X \in SUBSET Held', X # {}, Stays(X)' PROVE \E t \in X : Settled(t)'
    BY DEF NoTrap
  <2>2. X \in SUBSET Held /\ Stays(X)
    BY DEF Held, Stays, Occupied
  <2> QED
    BY <2>1, <2>2 DEF AddressInv, NoTrap
<1> QED
  BY <1>2, <1>4, <1>5 DEF AddressInv

LEMMA SaveBegins ==
    ASSUME AddressInv, SavesEnd, NEW r \in Requests, NEW p \in Products, Addresses!Save(r, p)
    PROVE  AddressInv'
<1>1. PICK c \in Candidates, shown \in BOOLEAN :
        Addresses!Continue(r, [op |-> "probe", product |-> p, from |-> slug[p],
                               tries |-> c, n |-> 1, shown |-> shown])
  BY DEF Addresses!Save
<1> DEFINE s == [op |-> "probe", product |-> p, from |-> slug[p],
                 tries |-> c, n |-> 1, shown |-> shown]
<1>2. slug[p] \in Addresses!Slugs \cup {UNBORN}
  BY DEF Addresses!Save, AddressInv, AddressTypes
<1>3. 1 \in DOMAIN c
  BY AddressesAssumption DEF Addresses!SlugRedirectsAssumption
<1>4. s \in Saving /\ KnowsSlug(s)
  BY <1>2, <1>3 DEF Saving, KnowsSlug
<1>5. saving[r].op # "record" /\ s.op # "record" /\ ~ Addresses!Busy(s.product)
  BY DEF Addresses!Save, Addresses!Idle, SavesEnd
<1>6. saving' = [saving EXCEPT ![r] = s] /\ UNCHANGED <<slug, active, redirect, holder>>
  BY <1>1 DEF Addresses!Save, Addresses!Continue
<1> HIDE DEF s
<1> QED
  BY <1>4, <1>5, <1>6, SaveGoes

\* A save that is on its way.
LEMMA UnderWay ==
    ASSUME AddressInv, NEW r \in Requests, saving[r].op # "idle"
    PROVE  /\ saving[r] # Addresses!Idle /\ saving[r] \in Saving /\ KnowsSlug(saving[r])
           /\ Addresses!Candidate(r) \in Addresses!Slugs
<1>1. saving[r] # Addresses!Idle /\ saving[r] \in Saving /\ KnowsSlug(saving[r])
  BY DEF AddressInv, SavesKnow, Addresses!Idle
<1>2. saving[r].tries \in Candidates /\ saving[r].n \in DOMAIN saving[r].tries
  BY <1>1 DEF Saving, KnowsSlug
<1> QED
  BY <1>1, <1>2 DEF Addresses!Candidate, Addresses!Slugs, Addresses!Range

LEMMA SaveProbes ==
    ASSUME AddressInv, NEW r \in Requests, Addresses!uniqueSlug(r)
    PROVE  AddressInv'
<1>1. saving[r].op = "probe" /\ UNCHANGED <<slug, active, redirect, holder>>
  BY DEF Addresses!uniqueSlug
<1>2. saving[r] # Addresses!Idle /\ saving[r] \in Saving /\ KnowsSlug(saving[r])
  BY <1>1, UnderWay
<1>3. CASE Addresses!Taken(r)
  <2> DEFINE s == [saving[r] EXCEPT !.n = @ + 1]
  <2>1. saving[r].n + 1 \in DOMAIN saving[r].tries /\ saving' = [saving EXCEPT ![r] = s]
    BY <1>3 DEF Addresses!uniqueSlug, Addresses!Continue
  <2>2. /\ s \in Saving /\ s.n = saving[r].n + 1 /\ s.op = "probe" /\ s.tries = saving[r].tries
        /\ s.product = saving[r].product /\ s.from = saving[r].from
    BY <1>1, <1>2 DEF Saving
  <2> HIDE DEF s
  <2>3. KnowsSlug(s)
    BY <1>1, <1>2, <2>1, <2>2 DEF KnowsSlug
  <2> QED
    BY <1>1, <1>2, <2>1, <2>2, <2>3, SaveGoes
<1>4. CASE ~ Addresses!Taken(r)
  <2> DEFINE s == [saving[r] EXCEPT !.op = "write"]
  <2>1. saving' = [saving EXCEPT ![r] = s]
    BY <1>4 DEF Addresses!uniqueSlug, Addresses!Continue
  <2>2. /\ s \in Saving /\ s.n = saving[r].n /\ s.op = "write" /\ s.tries = saving[r].tries
        /\ s.product = saving[r].product /\ s.from = saving[r].from
    BY <1>1, <1>2 DEF Saving
  <2> HIDE DEF s
  <2>3. KnowsSlug(s)
    BY <1>1, <1>2, <2>2 DEF KnowsSlug
  <2> QED
    BY <1>1, <1>2, <2>1, <2>2, <2>3, SaveGoes
<1> QED
  BY <1>3, <1>4

LEMMA SaveLost ==
    ASSUME AddressInv, SavesEnd, NEW r \in Requests, Addresses!Lost(r)
    PROVE  AddressInv'
<1>1. saving[r].op # "record"
  BY DEF Addresses!Lost, SavesEnd
<1>2. Addresses!Idle.op # "record"
  BY DEF Addresses!Idle
<1>3. saving' = [saving EXCEPT ![r] = Addresses!Idle] /\ UNCHANGED <<slug, active, redirect, holder>>
  BY DEF Addresses!Lost, Addresses!Continue
<1> QED
  BY <1>1, <1>2, <1>3, SaveGoes

\* The row moves to a slug that nobody has, and leaves a redirect pending where it was.
LEMMA SaveWrites ==
    ASSUME AddressInv, NEW r \in Requests, Addresses!createOrFail(r)
    PROVE  AddressInv'
<1> DEFINE p == saving[r].product
           c == Addresses!Candidate(r)
<1>1. saving[r].op = "write" /\ redirect' = redirect
  BY DEF Addresses!createOrFail
<1>2. /\ saving[r] # Addresses!Idle /\ saving[r] \in Saving /\ KnowsSlug(saving[r])
      /\ c \in Addresses!Slugs /\ p \in Products
  BY <1>1, UnderWay DEF Saving
<1>3. CASE Addresses!Duplicate(r) \/ slug[p] = GONE
  <2>1. saving' = [saving EXCEPT ![r] = Addresses!Idle] /\ UNCHANGED <<slug, active, redirect, holder>>
    BY <1>1, <1>3 DEF Addresses!createOrFail, Addresses!Continue
  <2>2. Addresses!Idle.op # "record"
    BY DEF Addresses!Idle
  <2> QED
    BY <1>1, <2>1, <2>2, SaveGoes
<1>4. CASE ~ (Addresses!Duplicate(r) \/ slug[p] = GONE)
  <2> DEFINE s == IF Addresses!Moved(r) THEN [saving[r] EXCEPT !.op = "record"] ELSE Addresses!Idle
  <2>1. /\ slug' = [slug EXCEPT ![p] = c]
        /\ active' = IF saving[r].shown THEN active \cup {p} ELSE active \ {p}
        /\ holder' = [holder EXCEPT ![c] = p]
        /\ saving' = [saving EXCEPT ![r] = s]
    BY <1>4 DEF Addresses!createOrFail, Addresses!Continue
  <2>2. /\ \A q \in Products \ {p} : slug[q] # c
        /\ slug[p] = saving[r].from
        /\ Addresses!Moved(r) <=> slug[p] \notin {UNBORN, c}
        /\ c = saving[r].tries[saving[r].n]
        /\ saving[r].from \in Addresses!Slugs \cup {UNBORN}
    BY <1>1, <1>2, <1>4 DEF Addresses!Duplicate, KnowsSlug, Addresses!Moved, Addresses!Candidate, Saving
  <2>3. UNBORN \notin Addresses!Slugs /\ GONE \notin Addresses!Slugs
    BY AddressesAssumption DEF Addresses!SlugRedirectsAssumption, Addresses!Slugs
  <2>4. /\ Addresses!Moved(r) => /\ s \in Saving /\ s.op = "record" /\ s.product = p
                                 /\ s.from = slug[p] /\ s.tries = saving[r].tries /\ s.n = saving[r].n
        /\ ~ Addresses!Moved(r) => s = Addresses!Idle
    BY <1>2, <2>2 DEF Saving
  <2> HIDE DEF s, p, c
  <2>5. /\ saving' = [q \in Requests |-> IF q = r THEN s ELSE saving[q]]
        /\ slug' = [q \in Products |-> IF q = p THEN c ELSE slug[q]]
        /\ holder' = [t \in Addresses!Slugs |-> IF t = c THEN p ELSE holder[t]]
    BY <2>1 DEF AddressInv, AddressTypes
  <2>6. p # NULL /\ Held' = Held \cup {c}
    <3>1. p # NULL
      BY <1>2, AddressesAssumption DEF Addresses!SlugRedirectsAssumption
    <3> QED
      BY <1>2, <2>5, <3>1 DEF Held
  <2>7. AddressTypes'
    <3>1. /\ slug' \in [Products -> Addresses!Slugs \cup {UNBORN, GONE}]
          /\ \A q, u \in Products : slug'[q] \in Addresses!Slugs /\ slug'[q] = slug'[u] => q = u
      BY <1>2, <2>2, <2>5 DEF AddressInv, AddressTypes
    <3>2. active' \subseteq {q \in Products : slug'[q] \in Addresses!Slugs}
      BY <1>2, <2>1, <2>5 DEF AddressInv, AddressTypes
    <3>3. /\ DOMAIN redirect' \subseteq Addresses!Slugs
          /\ \A t \in DOMAIN redirect' : redirect'[t] \in Held'
      BY <1>1, <2>6 DEF AddressInv, AddressTypes
    <3>4. /\ holder' \in [Addresses!Slugs -> Products \cup {NULL}]
          /\ \A q \in Products : slug'[q] \in Addresses!Slugs => holder'[slug'[q]] = q
      BY <1>2, <2>2, <2>5 DEF AddressInv, AddressTypes
    <3> QED
      BY <2>5, <3>1, <3>2, <3>3, <3>4 DEF AddressTypes
  <2>8. SavesKnow'
    <3>1. ASSUME NEW q \in Requests
          PROVE  saving'[q] = Addresses!Idle \/ (saving[q] \in Saving /\ KnowsSlug(saving[q]))'
      <4>1. CASE q = r
        BY <1>2, <2>2, <2>3, <2>4, <2>5, <4>1 DEF KnowsSlug
      <4>2. CASE q # r /\ saving[q] # Addresses!Idle
        <5>1. saving[q] \in Saving /\ KnowsSlug(saving[q]) /\ saving[q].product # p
          BY <1>2, <4>2 DEF AddressInv, SavesKnow, p
        <5>2. saving'[q] = saving[q] /\ slug'[saving[q].product] = slug[saving[q].product]
          BY <2>5, <4>2, <5>1 DEF Saving
        <5> QED
          BY <5>1, <5>2 DEF KnowsSlug
      <4> QED
        BY <2>5, <4>1, <4>2
    <3>2. ASSUME NEW u \in Requests, NEW q \in Requests, saving'[u] # Addresses!Idle,
                 saving'[q] # Addresses!Idle, saving'[u].product = saving'[q].product
          PROVE  u = q
      <4>1. \A t \in Requests : saving'[t] # Addresses!Idle =>
              saving[t] # Addresses!Idle /\ saving'[t].product = saving[t].product
        BY <1>2, <2>4, <2>5 DEF p
      <4> QED
        BY <3>2, <4>1 DEF AddressInv, SavesKnow
    <3> QED
      BY <3>1, <3>2 DEF SavesKnow
  <2>9. NoTrap'
    <3> SUFFICES ASSUME NEW X \in SUBSET Held', X # {}, Stays(X)'
                 PROVE  \E t \in X : Settled(t)'
      BY DEF NoTrap
    <3>1. CASE c \in X
      <4>1. PICK t \in X : t = c
        BY <3>1
      <4>2. Settled(t)'
        BY <1>2, <2>5, <4>1 DEF Settled, Occupied
      <4> QED
        BY <4>2
    <3>2. CASE c \notin X
      <4>1. X \in SUBSET Held
        BY <2>6, <3>2
      <4>2. \A t \in X : Occupied(t)' => Occupied(t)
        BY <2>5, <3>2 DEF Occupied
      <4>3. Stays(X)
        BY <1>1, <4>2 DEF Stays
      <4>4. PICK t \in X : Settled(t)
        BY <4>1, <4>3 DEF AddressInv, NoTrap
      <4>5. t # c /\ holder'[t] = holder[t] /\ holder[t] \in Products /\ t \in Addresses!Slugs
        BY <2>5, <3>2, <4>1 DEF Held, AddressInv, AddressTypes
      <4>6. CASE Occupied(t)
        <5>1. PICK q \in Products : slug[q] = t
          BY <4>6 DEF Occupied
        <5>2. CASE q # p
          BY <2>5, <5>1, <5>2 DEF Settled, Occupied
        <5>3. CASE q = p
          <6>1. Addresses!Moved(r)
            BY <2>2, <2>3, <4>5, <5>1, <5>3
          <6>2. saving'[r].op = "record" /\ saving'[r].from = t
            BY <2>4, <2>5, <5>1, <5>3, <6>1
          <6> QED
            BY <6>2 DEF Settled
        <5> QED
          BY <5>2, <5>3
      <4>7. CASE slug[holder[t]] = GONE
        <5>1. holder[t] # p
          BY <1>4, <4>7 DEF p
        <5> QED
          BY <2>5, <4>5, <4>7, <5>1 DEF Settled
      <4>8. CASE \E q \in Requests : saving[q].op = "record" /\ saving[q].from = t
        BY <1>1, <2>5, <4>8 DEF Settled
      <4> QED
        BY <4>4, <4>6, <4>7, <4>8 DEF Settled
    <3> QED
      BY <3>1, <3>2
  <2> QED
    BY <2>7, <2>8, <2>9 DEF AddressInv
<1> QED
  BY <1>3, <1>4

\* The redirect leads to where the product is now.
LEMMA SaveRecords ==
    ASSUME AddressInv, NEW r \in Requests, Addresses!record(r)
    PROVE  AddressInv'
<1> DEFINE f == saving[r].from
           c == Addresses!Candidate(r)
<1>1. /\ saving[r].op = "record" /\ UNCHANGED <<slug, active, holder>>
      /\ redirect' = [s \in DOMAIN redirect \cup {f} |-> IF s = f THEN c ELSE redirect[s]]
      /\ saving' = [saving EXCEPT ![r] = Addresses!Idle]
  BY DEF Addresses!record, Addresses!Upserted, Addresses!Continue
<1>2. /\ saving[r] # Addresses!Idle /\ saving[r] \in Saving /\ KnowsSlug(saving[r])
      /\ c \in Addresses!Slugs
  BY <1>1, UnderWay
<1>3. slug[saving[r].product] = c /\ f \in Addresses!Slugs /\ saving[r].product \in Products
  BY <1>1, <1>2 DEF KnowsSlug, Addresses!Candidate, Saving
<1> HIDE DEF c, f
<1>4. saving' = [q \in Requests |-> IF q = r THEN Addresses!Idle ELSE saving[q]]
  BY <1>1 DEF AddressInv, AddressTypes
<1>5. Occupied(c) /\ c \in Held
  <2>1. holder[c] = saving[r].product /\ saving[r].product # NULL
    BY <1>2, <1>3, AddressesAssumption DEF AddressInv, AddressTypes, Addresses!SlugRedirectsAssumption
  <2> QED
    BY <1>2, <1>3, <2>1 DEF Occupied, Held
<1>6. AddressTypes'
  BY <1>1, <1>3, <1>4, <1>5 DEF AddressInv, AddressTypes, Held
<1>7. SavesKnow'
  BY <1>1, <1>4 DEF AddressInv, SavesKnow, KnowsSlug
<1>8. NoTrap'
  <2> SUFFICES ASSUME NEW X \in SUBSET Held', X # {}, Stays(X)'
               PROVE  \E t \in X : Settled(t)'
    BY DEF NoTrap
  <2>1. X \in SUBSET Held
    BY <1>1 DEF Held
  <2>2. ASSUME NEW t \in X, Occupied(t) PROVE Settled(t)'
    BY <1>1, <2>2 DEF Settled, Occupied
  <2>3. CASE f \in X
    <3>1. CASE Occupied(f)
      BY <2>2, <2>3, <3>1
    <3>2. CASE ~ Occupied(f)
      <4>1. c \in X
        BY <1>1, <2>3, <3>2 DEF Stays, Occupied
      <4> QED
        BY <1>5, <2>2, <4>1
    <3> QED
      BY <3>1, <3>2
  <2>4. CASE f \notin X
    <3>1. Stays(X)
      BY <1>1, <2>4 DEF Stays, Occupied
    <3>2. PICK t \in X : Settled(t)
      BY <2>1, <3>1 DEF AddressInv, NoTrap
    <3>3. ASSUME NEW q \in Requests, saving[q].op = "record", saving[q].from = t
          PROVE  saving'[q].op = "record" /\ saving'[q].from = t
      <4>1. q # r
        BY <2>4, <3>3 DEF f
      <4> QED
        BY <1>4, <3>3, <4>1
    <3>4. Settled(t)'
      BY <1>1, <3>2, <3>3 DEF Settled, Occupied
    <3> QED
      BY <3>4
  <2> QED
    BY <2>3, <2>4
<1> QED
  BY <1>6, <1>7, <1>8 DEF AddressInv

LEMMA ProductGoes ==
    ASSUME AddressInv, SavesEnd, NEW p \in Products, Addresses!remove(p)
    PROVE  AddressInv'
<1>1. /\ slug[p] # UNBORN /\ ~ Addresses!Busy(p)
      /\ slug' = [q \in Products |-> IF q = p THEN GONE ELSE slug[q]]
      /\ active' = active \ {p}
      /\ UNCHANGED <<redirect, saving, holder>>
  BY DEF Addresses!remove, SavesEnd, AddressInv, AddressTypes
<1>2. GONE \notin Addresses!Slugs
  BY AddressesAssumption DEF Addresses!SlugRedirectsAssumption, Addresses!Slugs
<1>3. AddressTypes'
  BY <1>1, <1>2 DEF AddressInv, AddressTypes, Held
<1>4. SavesKnow'
  <2>1. ASSUME NEW q \in Requests
        PROVE  saving[q] = Addresses!Idle \/ (saving[q] \in Saving /\ KnowsSlug(saving[q])')
    <3>1. CASE saving[q] # Addresses!Idle
      <4>1. saving[q] \in Saving /\ KnowsSlug(saving[q]) /\ saving[q].product # p
        BY <1>1, <3>1 DEF AddressInv, SavesKnow, Addresses!Busy
      <4>2. slug'[saving[q].product] = slug[saving[q].product]
        BY <1>1, <4>1 DEF Saving
      <4> QED
        BY <1>1, <4>1, <4>2 DEF KnowsSlug
    <3> QED
      BY <3>1
  <2> QED
    BY <1>1, <2>1 DEF AddressInv, SavesKnow, KnowsSlug
<1>5. NoTrap'
  <2> SUFFICES ASSUME NEW X \in SUBSET Held', X # {}, Stays(X)'
               PROVE  \E t \in X : Settled(t)'
    BY DEF NoTrap
  <2>1. X \in SUBSET Held
    BY <1>1 DEF Held
  <2>2. \A t \in X : Occupied(t)' => Occupied(t)
    BY <1>1, <1>2, <2>1 DEF Occupied, Held
  <2>3. Stays(X)
    BY <1>1, <2>2 DEF Stays
  <2>4. PICK t \in X : Settled(t)
    BY <2>1, <2>3 DEF AddressInv, NoTrap
  <2>5. t \in Addresses!Slugs /\ holder[t] \in Products
    BY <2>1 DEF Held, AddressInv, AddressTypes
  <2>6. Settled(t)'
    <3>1. CASE Occupied(t)
      <4>1. PICK q \in Products : slug[q] = t /\ holder[t] = q
        BY <2>5, <3>1 DEF Occupied, AddressInv, AddressTypes
      <4> QED
        BY <1>1, <4>1 DEF Settled, Occupied
    <3>2. CASE ~ Occupied(t)
      BY <1>1, <2>4, <2>5, <3>2 DEF Settled
    <3> QED
      BY <3>1, <3>2
  <2> QED
    BY <2>6
<1> QED
  BY <1>3, <1>4, <1>5 DEF AddressInv

LEMMA AddressStep == ASSUME AddressInv, SavesEnd, Addresses!Next PROVE AddressInv'
BY SaveBegins, SaveProbes, SaveWrites, SaveRecords, SaveLost, ProductGoes DEF Addresses!Next

LEMMA AddressStutters == ASSUME AddressInv, UNCHANGED addressesVars PROVE AddressInv'
<1>1. /\ slug' = slug /\ active' = active /\ redirect' = redirect
      /\ saving' = saving /\ holder' = holder
  BY DEF addressesVars
<1> QED
  BY <1>1 DEF AddressInv, AddressTypes, SavesKnow, KnowsSlug, NoTrap, Held, Stays, Occupied, Settled

\* Whatever is renamed, hidden and deleted, and in whatever order the slugs are left and
\* taken again, no former address of a product that is shown is dead, and no redirects go
\* round in a circle (createOrFail, record); but saves of one product follow each other and
\* none is lost before its redirect.
THEOREM FormerAddressesLead == SavesEnd => (PagesSpec => []FormerAddressesResolve)
<1> SUFFICES ASSUME SavesEnd PROVE PagesSpec => []FormerAddressesResolve
  OBVIOUS
<1>1. PagesInit => AddressInv
  BY AddressInit DEF PagesInit
<1>2. AddressInv /\ [PagesNext]_pagesVars => AddressInv'
  BY AddressStep, AddressStutters DEF PagesNext, pagesVars
<1>3. AddressInv => FormerAddressesResolve
  <2> SUFFICES ASSUME AddressInv, \A r \in Requests : saving[r].op # "record",
                      NEW s \in Addresses!Slugs, holder[s] # NULL
               PROVE  \E t \in Addresses!Visited(s) : Addresses!Live(t) \/ Addresses!Withdrawn(t)
    BY DEF FormerAddressesResolve, Addresses!FormerAddressesResolve
  <2> DEFINE X == Addresses!Visited(s)
  <2>1. Held \in SUBSET Addresses!Slugs /\ Addresses!Followed(Held) /\ s \in Held
    BY DEF Held, Addresses!Followed, AddressInv, AddressTypes
  <2>2. X \in SUBSET Held /\ s \in X
    BY <2>1 DEF Addresses!Visited
  <2>3. ASSUME NEW t \in X, Occupied(t) PROVE Addresses!Live(t) \/ Addresses!Withdrawn(t)
    <3>1. PICK q \in Products : slug[q] = t
      BY <2>3 DEF Occupied
    <3>2. t \in Addresses!Slugs /\ holder[t] = q /\ holder[t] # NULL
      BY <2>2, <3>1 DEF Held, AddressInv, AddressTypes
    <3> QED
      BY <3>1, <3>2 DEF Addresses!Live, Addresses!Withdrawn
  <2>4. Stays(X)
    <3>1. ASSUME NEW t \in X \cap DOMAIN redirect, ~ Occupied(t) PROVE redirect[t] \in X
      <4>1. ~ Addresses!Live(t)
        BY <3>1 DEF Addresses!Live, Occupied, AddressInv, AddressTypes
      <4>2. redirect[t] \in Addresses!Slugs
        BY <3>1 DEF AddressInv, AddressTypes, Held
      <4> QED
        BY <3>1, <4>1, <4>2 DEF Addresses!Visited, Addresses!Followed
    <3> QED
      BY <3>1 DEF Stays
  <2> HIDE DEF X
  <2>5. PICK t \in X : Settled(t)
    BY <2>2, <2>4 DEF AddressInv, NoTrap
  <2>6. CASE slug[holder[t]] = GONE
    <3>1. holder[t] \in Products /\ holder[t] # NULL
      BY <2>2 DEF Held, AddressInv, AddressTypes
    <3>2. GONE \notin Addresses!Slugs
      BY AddressesAssumption DEF Addresses!SlugRedirectsAssumption, Addresses!Slugs
    <3>3. holder[t] \notin active
      BY <2>6, <3>1, <3>2 DEF AddressInv, AddressTypes
    <3> QED
      BY <3>1, <3>3 DEF Addresses!Withdrawn, X
  <2> QED
    BY <2>3, <2>5, <2>6 DEF Settled, X
<1> QED
  BY <1>1, <1>2, <1>3, PTL DEF PagesSpec

----------------------------------------------------------------------------
(* The categories and the menu (CategoryPages) *)

Slugs == Catalogue!Slugs

\* A save of a category on its way.
Editing ==
    [op : {"resolve", "write", "record"}, id : Categories, tries : Seq(Slugs),
     parent : Categories \cup {NULL}, isActive : BOOLEAN, from : Slugs \cup {NULL}]

\* It knows the slug of its category, or has just written it; or makes a category whose id
\* is among those given, `ids`.
KnowsRow(s, ids) ==
    /\ s.tries # <<>> /\ s.id \in ids
    /\ s.from # NULL => s.id \in DOMAIN category
    /\ s.from # NULL => category[s.id].slug = IF s.op = "record" THEN Head(s.tries) ELSE s.from
    /\ s.op = "record" => s.from # NULL
    /\ s.from = NULL => s.id \notin DOMAIN category /\ \A t \in Slugs : owner[t] # s.id

EditsKnow ==
    /\ \A r \in Requests :
         editing[r] = Catalogue!Idle \/ (editing[r] \in Editing /\ KnowsRow(editing[r], used))
    /\ \A r, q \in Requests :
         editing[r] # Catalogue!Idle /\ editing[q] # Catalogue!Idle /\ editing[r].id = editing[q].id
         => r = q

CatalogueTypes ==
    /\ editing = [r \in Requests |-> editing[r]]
    /\ category = [c \in DOMAIN category |-> category[c]]
    /\ DOMAIN category \subseteq used /\ used \subseteq Categories
    /\ \A c \in DOMAIN category : category[c].slug \in Slugs /\ owner[category[c].slug] = c
    /\ DOMAIN moved \subseteq Slugs
    /\ \A s \in DOMAIN moved : moved[s] \in Slugs
    /\ owner \in [Slugs -> used \cup {NULL}]
    /\ \A l \in menu : l.slug \in Slugs
    /\ loading # NULL => \A l \in loading : l.slug \in Slugs

\* The slugs of X are the category's, and no redirect leads out of them unless it is at one.
Keeps(X, c) ==
    /\ X # {} /\ \A s \in X : owner[s] = c
    /\ \A s \in X \cap DOMAIN moved : category[c].slug = s \/ moved[s] \in X

\* The category is there, or about to leave a redirect.
Found(s, c) ==
    \/ category[c].slug = s
    \/ \E r \in Requests : editing[r].op = "record" /\ editing[r].from = s

\* No redirects among the slugs a category has left go round in a circle, or end there.
NoDeadEnd ==
    \A c \in DOMAIN category : \A X \in SUBSET Slugs :
        Keeps(X, c) => \E s \in X : Found(s, c)

CatalogueInv == CatalogueTypes /\ EditsKnow /\ NoDeadEnd

LEMMA CatalogueInit == Catalogue!Init => CatalogueInv
<1> SUFFICES ASSUME Catalogue!Init PROVE CatalogueInv
  OBVIOUS
<1>1. DOMAIN category = {} /\ DOMAIN moved = {}
  BY DEF Catalogue!Init
<1>2. category = [c \in DOMAIN category |-> category[c]]
  BY DEF Catalogue!Init
<1>3. CatalogueTypes
  BY <1>1, <1>2 DEF CatalogueTypes, Catalogue!Init, Slugs
<1>4. EditsKnow
  BY DEF EditsKnow, Catalogue!Init
<1> QED
  BY <1>1, <1>3, <1>4 DEF CatalogueInv, NoDeadEnd

\* A step that only moves one save along, and leaves a redirect pending as it was.
LEMMA EditGoes ==
    ASSUME CatalogueInv, NEW r \in Requests, NEW s, editing' = [editing EXCEPT ![r] = s],
           UNCHANGED <<category, moved, loading, menu, owner>>,
           used \subseteq used', used' \subseteq Categories,
           s # Catalogue!Idle => s \in Editing /\ KnowsRow(s, used'),
           editing[r].op # "record", s.op # "record",
           s # Catalogue!Idle => \/ editing[r] # Catalogue!Idle /\ editing[r].id = s.id
                                 \/ ~ Catalogue!Busy(s.id)
    PROVE  CatalogueInv'
<1>1. editing' = [q \in Requests |-> IF q = r THEN s ELSE editing[q]]
  BY DEF CatalogueInv, CatalogueTypes
<1>2. CatalogueTypes'
  BY <1>1 DEF CatalogueInv, CatalogueTypes
<1>3. EditsKnow'
  <2>1. ASSUME NEW q \in Requests
        PROVE  \/ editing'[q] = Catalogue!Idle
               \/ editing'[q] \in Editing /\ KnowsRow(editing'[q], used')
    <3>1. CASE q = r
      BY <1>1, <3>1
    <3>2. CASE q # r
      BY <1>1, <3>2 DEF CatalogueInv, EditsKnow, KnowsRow
    <3> QED
      BY <3>1, <3>2
  <2>2. ASSUME NEW p \in Requests, NEW q \in Requests, editing'[p] # Catalogue!Idle,
               editing'[q] # Catalogue!Idle, editing'[p].id = editing'[q].id
        PROVE  p = q
    BY <1>1, <2>2 DEF CatalogueInv, EditsKnow, Catalogue!Busy
  <2>3. \A q \in Requests : (KnowsRow(editing[q], used))' <=> KnowsRow(editing'[q], used')
    BY DEF KnowsRow
  <2> QED
    BY <2>1, <2>2, <2>3 DEF EditsKnow
<1>4. NoDeadEnd'
  <2>1. ASSUME NEW c, NEW t, Found(t, c) PROVE Found(t, c)'
    <3>1. ASSUME NEW q \in Requests, editing[q].op = "record", editing[q].from = t
          PROVE  editing'[q].op = "record" /\ editing'[q].from = t
      BY <1>1, <3>1
    <3> QED
      BY <2>1, <3>1 DEF Found
  <2>2. ASSUME NEW c, NEW X, Keeps(X, c)' PROVE Keeps(X, c)
    BY <2>2 DEF Keeps
  <2> QED
    BY <2>1, <2>2 DEF CatalogueInv, NoDeadEnd
<1> QED
  BY <1>2, <1>3, <1>4 DEF CatalogueInv

\* A save that is on its way.
LEMMA EditUnderWay ==
    ASSUME CatalogueInv, NEW r \in Requests, editing[r].op # "idle"
    PROVE  /\ editing[r] # Catalogue!Idle /\ editing[r] \in Editing /\ KnowsRow(editing[r], used)
           /\ Head(editing[r].tries) \in Slugs /\ editing[r].id \in Categories
<1>1. editing[r] # Catalogue!Idle /\ editing[r] \in Editing /\ KnowsRow(editing[r], used)
  BY DEF CatalogueInv, EditsKnow, Catalogue!Idle
<1> QED
  BY <1>1 DEF Editing, KnowsRow

LEMMA EditBegins ==
    ASSUME CatalogueInv, NEW r \in Requests, NEW c \in Categories, Catalogue!Save(r, c)
    PROVE  CatalogueInv'
<1>1. PICK t \in Texts, p \in Catalogue!Parents(c), shown \in BOOLEAN :
        Catalogue!Continue(r, [op |-> "resolve", id |-> c, tries |-> t, parent |-> p,
                               isActive |-> shown,
                               from |-> IF c \in Catalogue!Rows THEN category[c].slug ELSE NULL])
  BY DEF Catalogue!Save
<1> DEFINE from == IF c \in DOMAIN category THEN category[c].slug ELSE NULL
           s == [op |-> "resolve", id |-> c, tries |-> t, parent |-> p, isActive |-> shown,
                 from |-> from]
<1>2. editing' = [editing EXCEPT ![r] = s] /\ editing[r] = Catalogue!Idle /\ ~ Catalogue!Busy(c)
  BY <1>1 DEF Catalogue!Save, Catalogue!Continue, Catalogue!Rows
<1>3. /\ UNCHANGED <<category, moved, loading, menu, owner>> /\ used' = used \cup {c}
      /\ c \in DOMAIN category \/ c \notin used
  BY DEF Catalogue!Save, Catalogue!Rows
<1>4. /\ t \in Seq(Slugs) /\ t # <<>> /\ NULL \notin Slugs /\ NULL \notin Categories
  BY CatalogueAssumption DEF Catalogue!CategoryPagesAssumption, Slugs, Catalogue!Slugs
<1>5. p \in Categories \cup {NULL} /\ from \in Slugs \cup {NULL}
  BY DEF Catalogue!Parents, Catalogue!Rows, CatalogueInv, CatalogueTypes
<1>6. s \in Editing
  BY <1>4, <1>5 DEF Editing
<1>7. KnowsRow(s, used')
  BY <1>3, <1>4 DEF KnowsRow, CatalogueInv, CatalogueTypes
<1>8. s.op # "record" /\ s.id = c /\ used' \subseteq Categories /\ editing[r].op # "record"
  BY <1>2, <1>3 DEF CatalogueInv, CatalogueTypes, Catalogue!Idle
<1> HIDE DEF s
<1> QED
  BY <1>2, <1>3, <1>6, <1>7, <1>8, EditGoes

LEMMA EditResolves ==
    ASSUME CatalogueInv, NEW r \in Requests, Catalogue!resolveSlug(r)
    PROVE  CatalogueInv'
<1>1. editing[r].op = "resolve" /\ UNCHANGED <<category, used, moved, loading, menu, owner>>
  BY DEF Catalogue!resolveSlug
<1>2. /\ editing[r] # Catalogue!Idle /\ editing[r] \in Editing /\ KnowsRow(editing[r], used)
      /\ used \subseteq Categories
  BY <1>1, EditUnderWay DEF CatalogueInv, CatalogueTypes
<1>3. CASE Catalogue!Taken(r)
  <2> DEFINE s == [editing[r] EXCEPT !.tries = Tail(@)]
  <2>1. Len(editing[r].tries) > 1 /\ editing' = [editing EXCEPT ![r] = s]
    BY <1>3 DEF Catalogue!resolveSlug, Catalogue!Continue, Catalogue!Len, Catalogue!Tail
  <2>2. Tail(editing[r].tries) \in Seq(Slugs) /\ Tail(editing[r].tries) # <<>>
    <3> DEFINE rest == Tail(editing[r].tries)
    <3>1. editing[r].tries \in Seq(Slugs) /\ editing[r].tries # <<>>
      BY <1>2 DEF Editing, KnowsRow
    <3>2. rest \in Seq(Slugs) /\ Len(rest) = Len(editing[r].tries) - 1
      BY <3>1, HeadTailProperties
    <3>3. Len(editing[r].tries) \in Nat /\ Len(<<>>) = 0
      BY <3>1, EmptySeq
    <3> HIDE DEF rest
    <3>4. rest # <<>>
      BY <2>1, <3>2, <3>3
    <3> QED
      BY <3>2, <3>4 DEF rest
  <2>3. /\ s \in Editing /\ s.tries = Tail(editing[r].tries) /\ s.op = "resolve"
        /\ s.id = editing[r].id /\ s.from = editing[r].from
    BY <1>1, <1>2, <2>2 DEF Editing
  <2> HIDE DEF s
  <2>4. KnowsRow(s, used')
    BY <1>1, <1>2, <2>2, <2>3 DEF KnowsRow
  <2> QED
    BY <1>1, <1>2, <2>1, <2>3, <2>4, EditGoes
<1>4. CASE ~ Catalogue!Taken(r)
  <2> DEFINE s == [editing[r] EXCEPT !.op = "write"]
  <2>1. editing' = [editing EXCEPT ![r] = s]
    BY <1>4 DEF Catalogue!resolveSlug, Catalogue!Continue
  <2>2. /\ s \in Editing /\ s.tries = editing[r].tries /\ s.op = "write"
        /\ s.id = editing[r].id /\ s.from = editing[r].from
    BY <1>1, <1>2 DEF Editing
  <2> HIDE DEF s
  <2>3. KnowsRow(s, used')
    BY <1>1, <1>2, <2>2 DEF KnowsRow
  <2> QED
    BY <1>1, <1>2, <2>1, <2>2, <2>3, EditGoes
<1> QED
  BY <1>3, <1>4

\* The row moves to a slug that nobody has, and leaves a redirect pending where it was.
LEMMA EditWrites ==
    ASSUME CatalogueInv, NEW r \in Requests, Catalogue!Write(r)
    PROVE  CatalogueInv'
<1> DEFINE c == editing[r].id
           x == Head(editing[r].tries)
           new == [slug |-> x, parent |-> editing[r].parent, isActive |-> editing[r].isActive]
<1>1. editing[r].op = "write" /\ UNCHANGED <<used, moved, loading, menu>>
  BY DEF Catalogue!Write
<1>2. /\ editing[r] # Catalogue!Idle /\ editing[r] \in Editing /\ KnowsRow(editing[r], used)
      /\ x \in Slugs /\ c \in Categories
  BY <1>1, EditUnderWay
<1>3. CASE Catalogue!Refused(r)
  <2>1. editing' = [editing EXCEPT ![r] = Catalogue!Idle] /\ UNCHANGED <<category, owner>>
    BY <1>3 DEF Catalogue!Write, Catalogue!Continue
  <2>2. Catalogue!Idle.op # "record" /\ used \subseteq Categories
    BY DEF Catalogue!Idle, CatalogueInv, CatalogueTypes
  <2> QED
    BY <1>1, <2>1, <2>2, EditGoes
<1>4. CASE ~ Catalogue!Refused(r)
  <2> DEFINE s == IF Catalogue!Moved(r) THEN [editing[r] EXCEPT !.op = "record"] ELSE Catalogue!Idle
  <2>1. /\ category' = [d \in DOMAIN category \cup {c} |-> IF d = c THEN new ELSE category[d]]
        /\ owner' = [owner EXCEPT ![x] = c]
        /\ editing' = [editing EXCEPT ![r] = s]
    BY <1>4 DEF Catalogue!Write, Catalogue!Continue, Catalogue!Put, Catalogue!Head
  <2>2. /\ \A d \in DOMAIN category \ {c} : category[d].slug # x
        /\ Catalogue!Moved(r) <=> editing[r].from \notin {NULL, x}
    BY <1>4 DEF Catalogue!Refused, Catalogue!Taken, Catalogue!Moved, Catalogue!Rows, Catalogue!Head
  <2>3. /\ Catalogue!Moved(r) => /\ s \in Editing /\ s.op = "record" /\ s.id = c
                                 /\ s.from = editing[r].from /\ s.tries = editing[r].tries
        /\ ~ Catalogue!Moved(r) => s = Catalogue!Idle
    BY <1>2 DEF Editing
  <2>4. new.slug = x /\ c \in used /\ NULL \notin Categories /\ editing[r].tries # <<>>
    BY <1>2, CatalogueAssumption DEF Catalogue!CategoryPagesAssumption, KnowsRow
  <2>5. /\ editing[r].from # NULL => c \in DOMAIN category /\ category[c].slug = editing[r].from
        /\ editing[r].from = NULL => c \notin DOMAIN category /\ \A t \in Slugs : owner[t] # c
    BY <1>1, <1>2 DEF KnowsRow
  <2>6. Catalogue!Moved(r) => x = Head(s.tries)
    BY <2>3
  <2>7. ASSUME NEW q \in Requests \ {r}, editing[q] # Catalogue!Idle PROVE editing[q].id # c
    BY <1>2, <2>7 DEF CatalogueInv, EditsKnow
  <2> HIDE DEF s, new, x, c
  <2>8. /\ editing' = [q \in Requests |-> IF q = r THEN s ELSE editing[q]]
        /\ owner' = [t \in Slugs |-> IF t = x THEN c ELSE owner[t]]
        /\ DOMAIN category' = DOMAIN category \cup {c} /\ category'[c] = new
        /\ \A d \in DOMAIN category \ {c} : category'[d] = category[d]
    BY <2>1 DEF CatalogueInv, CatalogueTypes
  <2>9. CatalogueTypes'
    <3>1. \A d \in DOMAIN category' : category'[d].slug \in Slugs /\ owner'[category'[d].slug] = d
      BY <1>2, <2>2, <2>4, <2>8 DEF CatalogueInv, CatalogueTypes
    <3>2. category' = [d \in DOMAIN category' |-> category'[d]]
      BY <2>1
    <3> QED
      BY <1>1, <1>2, <2>4, <2>8, <3>1, <3>2 DEF CatalogueInv, CatalogueTypes
  <2>10. EditsKnow'
    <3>1. ASSUME NEW q \in Requests
          PROVE  editing'[q] = Catalogue!Idle \/ (editing[q] \in Editing /\ KnowsRow(editing[q], used))'
      <4>1. CASE q = r
        BY <1>1, <1>2, <2>2, <2>3, <2>4, <2>6, <2>8, <4>1 DEF KnowsRow
      <4>2. CASE q # r /\ editing[q] # Catalogue!Idle
        <5>1. editing[q] \in Editing /\ KnowsRow(editing[q], used) /\ editing[q].id # c
          BY <2>7, <4>2 DEF CatalogueInv, EditsKnow
        <5>2. editing'[q] = editing[q]
          BY <2>8, <4>2
        <5> QED
          BY <1>1, <2>8, <5>1, <5>2 DEF KnowsRow
      <4> QED
        BY <2>8, <4>1, <4>2
    <3>2. ASSUME NEW u \in Requests, NEW q \in Requests, editing'[u] # Catalogue!Idle,
                 editing'[q] # Catalogue!Idle, editing'[u].id = editing'[q].id
          PROVE  u = q
      <4>1. \A t \in Requests : editing'[t] # Catalogue!Idle =>
              editing[t] # Catalogue!Idle /\ editing'[t].id = editing[t].id
        BY <1>2, <2>3, <2>8 DEF c
      <4> QED
        BY <3>2, <4>1 DEF CatalogueInv, EditsKnow
    <3> QED
      BY <3>1, <3>2 DEF EditsKnow
  <2>11. NoDeadEnd'
    <3> SUFFICES ASSUME NEW d \in DOMAIN category', NEW X \in SUBSET Slugs, Keeps(X, d)'
                 PROVE  \E t \in X : Found(t, d)'
      BY DEF NoDeadEnd
    <3>1. X # {} /\ \A t \in X : owner'[t] = d
      BY DEF Keeps
    <3>2. CASE d = c /\ x \in X
      <4>1. PICK t \in X : t = x
        BY <3>2
      <4>2. Found(t, d)'
        BY <2>4, <2>8, <3>2, <4>1 DEF Found
      <4> QED
        BY <4>2
    <3>3. CASE d # c \/ x \notin X
      <4>1. x \notin X /\ \A t \in X : owner[t] = d
        BY <1>2, <2>8, <3>1, <3>3
      <4>2. d \in DOMAIN category
        BY <2>5, <2>8, <3>1, <4>1
      <4>3. Keeps(X, d)
        BY <1>1, <2>4, <2>8, <3>1, <4>1, <4>2 DEF Keeps
      <4>4. PICK t \in X : Found(t, d)
        BY <4>2, <4>3 DEF CatalogueInv, NoDeadEnd
      <4>5. CASE category[d].slug = t /\ d # c
        BY <2>8, <4>2, <4>5 DEF Found
      <4>6. CASE category[d].slug = t /\ d = c
        <5>1. editing[r].from = t /\ Catalogue!Moved(r)
          BY <2>2, <2>5, <4>1, <4>2, <4>6, CatalogueAssumption
          DEF Catalogue!CategoryPagesAssumption, Slugs, Catalogue!Slugs
        <5>2. editing'[r].op = "record" /\ editing'[r].from = t
          BY <2>3, <2>8, <5>1
        <5> QED
          BY <5>2 DEF Found
      <4>7. CASE \E q \in Requests : editing[q].op = "record" /\ editing[q].from = t
        BY <1>1, <2>8, <4>7 DEF Found
      <4> QED
        BY <4>4, <4>5, <4>6, <4>7 DEF Found
    <3> QED
      BY <3>2, <3>3
  <2> QED
    BY <2>9, <2>10, <2>11 DEF CatalogueInv
<1> QED
  BY <1>3, <1>4

\* The redirect leads to where the category is now.
LEMMA EditRecords ==
    ASSUME CatalogueInv, NEW r \in Requests, Catalogue!Record(r)
    PROVE  CatalogueInv'
<1> DEFINE f == editing[r].from
           x == Head(editing[r].tries)
           e == editing[r].id
<1>1. /\ editing[r].op = "record" /\ UNCHANGED <<category, used, loading, menu, owner>>
      /\ moved' = [s \in DOMAIN moved \cup {f} |-> IF s = f THEN x ELSE moved[s]]
      /\ editing' = [editing EXCEPT ![r] = Catalogue!Idle]
  BY DEF Catalogue!Record, Catalogue!Recorded, Catalogue!Put, Catalogue!Continue, Catalogue!Head
<1>2. /\ editing[r] # Catalogue!Idle /\ editing[r] \in Editing /\ KnowsRow(editing[r], used)
      /\ x \in Slugs
  BY <1>1, EditUnderWay
<1>3. f \in Slugs /\ e \in DOMAIN category /\ category[e].slug = x /\ owner[x] = e
  BY <1>1, <1>2 DEF KnowsRow, Editing, CatalogueInv, CatalogueTypes
<1> HIDE DEF f, x, e
<1>4. editing' = [q \in Requests |-> IF q = r THEN Catalogue!Idle ELSE editing[q]]
  BY <1>1 DEF CatalogueInv, CatalogueTypes
<1>5. CatalogueTypes'
  BY <1>1, <1>2, <1>3, <1>4 DEF CatalogueInv, CatalogueTypes
<1>6. EditsKnow'
  BY <1>1, <1>4 DEF CatalogueInv, EditsKnow, KnowsRow
<1>7. NoDeadEnd'
  <2> SUFFICES ASSUME NEW d \in DOMAIN category, NEW X \in SUBSET Slugs, Keeps(X, d)'
               PROVE  \E t \in X : Found(t, d)'
    BY <1>1 DEF NoDeadEnd
  <2>1. X # {} /\ \A t \in X : owner[t] = d
    BY <1>1 DEF Keeps
  <2>2. CASE category[d].slug \in X
    BY <1>1, <2>2 DEF Found
  <2>3. CASE category[d].slug \notin X
    <3>1. f \notin X
      <4>1. SUFFICES ASSUME f \in X PROVE FALSE
        OBVIOUS
      <4>2. x \in X
        BY <1>1, <2>3, <4>1 DEF Keeps
      <4> QED
        BY <1>3, <2>1, <2>3, <4>2
    <3>2. Keeps(X, d)
      BY <1>1, <3>1 DEF Keeps
    <3>3. PICK t \in X : Found(t, d)
      BY <3>2 DEF CatalogueInv, NoDeadEnd
    <3>4. ASSUME NEW q \in Requests, editing[q].op = "record", editing[q].from = t
          PROVE  editing'[q].op = "record" /\ editing'[q].from = t
      BY <1>4, <3>1, <3>4 DEF f
    <3>5. Found(t, d)'
      BY <1>1, <3>3, <3>4 DEF Found
    <3> QED
      BY <3>5
  <2> QED
    BY <2>2, <2>3
<1> QED
  BY <1>5, <1>6, <1>7 DEF CatalogueInv

LEMMA CategoryGoes ==
    ASSUME CatalogueInv, NEW c \in Categories, Catalogue!remove(c)
    PROVE  CatalogueInv'
<1>1. /\ c \in DOMAIN category /\ ~ Catalogue!Busy(c)
      /\ category' = [d \in DOMAIN category \ {c} |->
           IF category[d].parent = c THEN [category[d] EXCEPT !.parent = NULL] ELSE category[d]]
      /\ UNCHANGED <<used, moved, editing, loading, menu, owner>>
  BY DEF Catalogue!remove, Catalogue!Rows
<1>2. /\ DOMAIN category' = DOMAIN category \ {c}
      /\ category' = [d \in DOMAIN category' |-> category'[d]]
  BY <1>1
<1>3. \A d \in DOMAIN category' : category'[d].slug = category[d].slug
  BY <1>1
<1>4. CatalogueTypes'
  BY <1>1, <1>2, <1>3 DEF CatalogueInv, CatalogueTypes
<1>5. EditsKnow'
  <2>1. ASSUME NEW q \in Requests
        PROVE  \/ editing[q] = Catalogue!Idle
               \/ editing[q] \in Editing /\ KnowsRow(editing[q], used)'
    BY <1>1, <1>2, <1>3 DEF CatalogueInv, EditsKnow, KnowsRow, Catalogue!Busy
  <2> QED
    BY <1>1, <2>1 DEF CatalogueInv, EditsKnow, KnowsRow
<1>6. NoDeadEnd'
  <2> SUFFICES ASSUME NEW d \in DOMAIN category', NEW X \in SUBSET Slugs, Keeps(X, d)'
               PROVE  \E t \in X : Found(t, d)'
    BY DEF NoDeadEnd
  <2>1. Keeps(X, d)
    BY <1>1, <1>3 DEF Keeps
  <2>2. PICK t \in X : Found(t, d)
    BY <1>2, <2>1 DEF CatalogueInv, NoDeadEnd
  <2> QED
    BY <1>1, <1>3, <2>2 DEF Found
<1> QED
  BY <1>4, <1>5, <1>6 DEF CatalogueInv

LEMMA MenuRefreshes ==
    ASSUME CatalogueInv, Catalogue!FindTopLevel \/ Catalogue!FindChildren
    PROVE  CatalogueInv'
<1>1. UNCHANGED <<category, used, moved, editing, owner>>
  BY DEF Catalogue!FindTopLevel, Catalogue!FindChildren
<1>2. \A C \in SUBSET DOMAIN category : \A l \in Catalogue!Links(C) : l.slug \in Slugs
  BY DEF Catalogue!Links, CatalogueInv, CatalogueTypes
<1>3. /\ \A l \in menu' : l.slug \in Slugs
      /\ loading' # NULL => \A l \in loading' : l.slug \in Slugs
  <2>1. CASE Catalogue!FindTopLevel
    <3>1. Catalogue!TopLevel \subseteq DOMAIN category
      BY DEF Catalogue!TopLevel, Catalogue!Active, Catalogue!Rows
    <3> QED
      BY <1>2, <2>1, <3>1 DEF Catalogue!FindTopLevel, CatalogueInv, CatalogueTypes
  <2>2. CASE Catalogue!FindChildren
    <3> DEFINE top == {link.to : link \in loading}
               children == {c \in Catalogue!Active : category[c].parent \in top}
    <3>1. loading # NULL /\ loading' = NULL /\ menu' = loading \cup Catalogue!Links(children)
      BY <2>2 DEF Catalogue!FindChildren
    <3>2. children \in SUBSET DOMAIN category
      BY DEF Catalogue!Active, Catalogue!Rows
    <3> HIDE DEF children
    <3> QED
      BY <1>2, <3>1, <3>2 DEF CatalogueInv, CatalogueTypes
  <2> QED
    BY <2>1, <2>2
<1> QED
  BY <1>1, <1>3 DEF CatalogueInv, CatalogueTypes, EditsKnow, KnowsRow, NoDeadEnd, Keeps, Found

LEMMA CatalogueStep == ASSUME CatalogueInv, Catalogue!Next PROVE CatalogueInv'
BY EditBegins, EditResolves, EditWrites, EditRecords, CategoryGoes, MenuRefreshes
DEF Catalogue!Next

LEMMA CatalogueStutters == ASSUME CatalogueInv, UNCHANGED categoriesVars PROVE CatalogueInv'
<1>1. /\ category' = category /\ used' = used /\ moved' = moved
      /\ editing' = editing /\ loading' = loading /\ menu' = menu /\ owner' = owner
  BY DEF categoriesVars
<1> QED
  BY <1>1 DEF CatalogueInv, CatalogueTypes, EditsKnow, KnowsRow, NoDeadEnd, Keeps, Found

\* However old the menu is, and however many saves of different categories overlap, a link
\* leads to its category while that one is shown, or to an address another one has taken
\* from it (resolveSlug, record).
THEOREM MenuLinksLead == PagesSpec => []MenuLinksResolve
<1>1. PagesInit => CatalogueInv
  BY CatalogueInit DEF PagesInit
<1>2. CatalogueInv /\ [PagesNext]_pagesVars => CatalogueInv'
  BY CatalogueStep, CatalogueStutters DEF PagesNext, pagesVars
<1>3. CatalogueInv => MenuLinksResolve
  <2> SUFFICES ASSUME CatalogueInv, \A r \in Requests : editing[r].op # "record",
                      NEW link \in menu, link.to \in Catalogue!Active,
                      \A t \in Catalogue!Visited(link.slug) : owner[t] = link.to
               PROVE  \E t \in Catalogue!Visited(link.slug) : category[link.to].slug = t
    BY DEF MenuLinksResolve, Catalogue!MenuLinksResolve, Catalogue!LeadsTo
  <2> DEFINE c == link.to
             X == Catalogue!Visited(link.slug)
  <2>1. c \in DOMAIN category /\ link.slug \in Slugs
    BY DEF Catalogue!Active, Catalogue!Rows, CatalogueInv, CatalogueTypes
  <2>2. X \in SUBSET Slugs /\ link.slug \in X
    BY <2>1 DEF Catalogue!Visited, Slugs
  <2>3. ASSUME NEW s \in X \cap DOMAIN moved, category[c].slug # s PROVE moved[s] \in X
    <3>1. ~ Catalogue!Live(s)
      BY <2>3 DEF Catalogue!Live, Catalogue!Active, Catalogue!Rows, CatalogueInv, CatalogueTypes
    <3>2. moved[s] \in Slugs
      BY <2>3 DEF CatalogueInv, CatalogueTypes
    <3> QED
      BY <2>3, <3>1, <3>2 DEF Catalogue!Visited, Catalogue!Followed, Slugs
  <2> HIDE DEF X
  <2>4. Keeps(X, c)
    BY <2>2, <2>3 DEF Keeps, X
  <2>5. PICK s \in X : Found(s, c)
    BY <2>1, <2>2, <2>4 DEF CatalogueInv, NoDeadEnd
  <2> QED
    BY <2>5 DEF Found, X
<1> QED
  BY <1>1, <1>2, <1>3, PTL DEF PagesSpec

----------------------------------------------------------------------------
(* The calendar of the dashboard (Analytics) *)

\* The least-number principle.
LEMMA LeastOf == ASSUME NEW T \in SUBSET Nat, T # {} PROVE \E n \in T : \A m \in T : n <= m
<1> DEFINE R == OpToRel(<, Nat)
<1>1. IsWellFoundedOn(R, Nat)
  BY NatLessThanWellFounded
<1>2. ASSUME NEW m \in Nat, NEW k \in Nat, m < k PROVE <<m, k>> \in R
  <2> DEFINE ss == <<m, k>>
  <2>1. ss \in Nat \X Nat /\ ss[1] < ss[2]
    BY <1>2
  <2>2. R = {t \in Nat \X Nat : t[1] < t[2]}
    BY DEF OpToRel
  <2> HIDE DEF ss, R
  <2>3. ss \in R
    BY <2>1, <2>2
  <2> QED
    BY <2>3 DEF ss
<1> HIDE DEF R
<1>3. PICK n \in T : \A m \in T : <<m, n>> \notin R
  BY <1>1, WFMin
<1>4. \A m \in T : ~ (m < n)
  BY <1>2, <1>3
<1> QED
  BY <1>3, <1>4

\* A unit goes k times into x, or fewer times.
LEMMA DivBound ==
    ASSUME NEW x \in Nat, NEW w \in Nat \ {0}, NEW k \in Int
    PROVE  /\ x \div w \in Nat
           /\ k * w <= x <=> k <= x \div w
           /\ x - (x % w) = (x \div w) * w
<1> DEFINE d == x \div w
<1>1. d \in Int
  OBVIOUS
<1>2. d >= 0
  OBVIOUS
<1>3. w * d <= x
  OBVIOUS
<1>4. x < w * d + w
  OBVIOUS
<1>5. x - (x % w) = w * d
  OBVIOUS
<1> HIDE DEF d
<1>6. k <= d => k * w <= d * w
  BY <1>1
<1>7. k >= d + 1 => k * w >= d * w + w
  BY <1>1
<1>8. w * d = d * w /\ k * w \in Int
  BY <1>1
<1>9. k * w <= x <=> k <= d
  BY <1>1, <1>3, <1>4, <1>6, <1>7, <1>8
<1>10. x - (x % w) = d * w
  BY <1>5, <1>8
<1> QED
  BY <1>1, <1>2, <1>9, <1>10 DEF d

LEMMA DivMonotone ==
    ASSUME NEW x \in Nat, NEW y \in Nat, x <= y, NEW w \in Nat \ {0}
    PROVE  x \div w <= y \div w
<1> DEFINE d == x \div w
<1>1. d \in Nat
  BY DivBound
<1>2. d * w <= x
  BY <1>1, DivBound
<1>3. d * w \in Int
  BY <1>1
<1> HIDE DEF d
<1>4. d * w <= y
  BY <1>2, <1>3
<1> QED
  BY <1>1, <1>4, DivBound DEF d

\* Months are in order.
LEMMA MonthsAscend ==
    ASSUME NEW m \in DOMAIN FirstOfMonth, NEW n \in DOMAIN FirstOfMonth, m < n
    PROVE  FirstOfMonth[m] < FirstOfMonth[n]
<1> USE SalesAssumption DEF Sales!AnalyticsAssumption
<1>1. PICK last \in DOMAIN FirstOfMonth : FirstOfMonth \in [0..last -> Nat]
  OBVIOUS
<1> DEFINE T == {k \in DOMAIN FirstOfMonth : m < k /\ ~ FirstOfMonth[m] < FirstOfMonth[k]}
<1>2. T \in SUBSET Nat /\ m \in 0..last /\ n \in 0..last
  BY <1>1
<1>3. SUFFICES ASSUME T # {} PROVE FALSE
  BY <1>2
<1>4. PICK k \in T : \A j \in T : k <= j
  BY <1>2, <1>3, LeastOf
<1>5. k - 1 \in DOMAIN FirstOfMonth /\ k \in DOMAIN FirstOfMonth /\ m < k
  BY <1>1, <1>2, <1>4
<1>6. FirstOfMonth[k - 1] < FirstOfMonth[k]
  BY <1>2, <1>4, <1>5
<1>7. k - 1 \notin T
  BY <1>2, <1>4
<1>8. CASE k - 1 = m
  BY <1>4, <1>6, <1>8
<1>9. CASE m < k - 1
  <2>1. FirstOfMonth[m] < FirstOfMonth[k - 1]
    BY <1>5, <1>7, <1>9
  <2>2. FirstOfMonth[m] \in Nat /\ FirstOfMonth[k - 1] \in Nat /\ FirstOfMonth[k] \in Nat
    BY <1>1, <1>5
  <2> QED
    BY <1>4, <1>6, <2>1, <2>2
<1> QED
  BY <1>2, <1>5, <1>8, <1>9

\* The months that have begun by a day are the ones up to its own.
LEMMA MonthOf ==
    ASSUME NEW day \in Nat
    PROVE  /\ Sales!Month(day) \in DOMAIN FirstOfMonth
           /\ DOMAIN FirstOfMonth \subseteq Nat
           /\ \A m \in DOMAIN FirstOfMonth : FirstOfMonth[m] \in Nat
           /\ \A m \in DOMAIN FirstOfMonth : FirstOfMonth[m] <= day <=> m <= Sales!Month(day)
<1>1. PICK last \in DOMAIN FirstOfMonth : FirstOfMonth \in [0..last -> Nat]
  BY SalesAssumption DEF Sales!AnalyticsAssumption
<1>2. last \in Nat /\ FirstOfMonth[0] = 0 /\ DOMAIN FirstOfMonth = 0..last
  BY <1>1, SalesAssumption DEF Sales!AnalyticsAssumption
<1> DEFINE S == {m \in DOMAIN FirstOfMonth : FirstOfMonth[m] <= day}
           T == {k \in Nat : \A m \in S : m <= k}
<1>3. S \in SUBSET (0..last) /\ 0 \in S /\ last \in T
  BY <1>2
<1>4. PICK k \in T : \A j \in T : k <= j
  BY <1>3, LeastOf
<1>5. k \in S
  <2>1. CASE k = 0
    BY <1>3, <2>1
  <2>2. CASE k # 0
    <3>1. k - 1 \in Nat /\ k - 1 \notin T
      BY <1>4, <2>2
    <3>2. PICK m \in S : ~ m <= k - 1
      BY <3>1
    <3>3. m <= k /\ m \in Nat
      BY <1>3, <1>4, <3>2
    <3> QED
      BY <1>4, <3>2, <3>3
  <2> QED
    BY <2>1, <2>2
<1>6. \A m \in S : k >= m
  BY <1>3, <1>4
<1> DEFINE max == Sales!Month(day)
<1>7. max = CHOOSE x \in S : \A y \in S : x >= y
  BY DEF Sales!Month, Sales!Max
<1> HIDE DEF S, T, max
<1>8. max \in S /\ \A y \in S : max >= y
  BY <1>5, <1>6, <1>7
<1>9. ASSUME NEW m \in DOMAIN FirstOfMonth PROVE FirstOfMonth[m] <= day <=> m <= max
  <2>1. CASE m = max
    BY <1>8, <2>1 DEF S
  <2>2. CASE m < max
    <3>1. FirstOfMonth[m] < FirstOfMonth[max] /\ FirstOfMonth[max] <= day
      BY <1>8, <2>2, MonthsAscend DEF S
    <3>2. FirstOfMonth[m] \in Nat /\ FirstOfMonth[max] \in Nat
      BY <1>1, <1>8 DEF S
    <3> QED
      BY <1>2, <1>3, <1>8, <2>2, <3>1, <3>2
  <2>3. CASE max < m
    BY <1>2, <1>3, <1>8, <2>3 DEF S
  <2> QED
    BY <1>2, <1>3, <1>8, <2>1, <2>2, <2>3
<1> QED
  BY <1>1, <1>2, <1>8, <1>9 DEF S, max

\* How the bucket n back from today's compares with a day, and which one that day is in.
LEMMA BucketOf ==
    ASSUME NEW bucket \in {"day", "week", "month"}, NEW today \in Nat, NEW day \in Nat, day <= today
    PROVE  /\ Sales!Age(bucket, day, today) \in Nat
           /\ bucket = "month" => Sales!Age(bucket, day, today) <= Sales!Month(today)
           /\ Sales!Back(bucket, Sales!Age(bucket, day, today), today) = Sales!bucketExpr(bucket, day)
           /\ \A n \in Nat : (bucket = "month" => n <= Sales!Month(today)) =>
                /\ Sales!Back(bucket, n, today) \in Int
                /\ Sales!Back(bucket, n, today) <= day <=> Sales!Age(bucket, day, today) <= n
<1>1. CASE bucket = "day"
  BY <1>1 DEF Sales!Age, Sales!Back, Sales!bucketExpr
<1>2. CASE bucket = "week"
  <2> DEFINE a == today \div WeekDays
             b == day \div WeekDays
  <2>1. WeekDays \in Nat \ {0}
    BY SalesAssumption DEF Sales!AnalyticsAssumption
  <2>2. a \in Nat /\ b \in Nat /\ b <= a
    <3>1. today \div WeekDays \in Nat
      BY <2>1, DivBound
    <3>2. day \div WeekDays \in Nat
      BY <2>1, DivBound
    <3>3. day \div WeekDays <= today \div WeekDays
      BY <2>1, DivMonotone
    <3> QED
      BY <3>1, <3>2, <3>3
  <2>3. Sales!Monday(today) = a * WeekDays /\ Sales!Monday(day) = b * WeekDays
    <3>1. today - (today % WeekDays) = (today \div WeekDays) * WeekDays
      BY <2>1, DivBound
    <3>2. day - (day % WeekDays) = (day \div WeekDays) * WeekDays
      BY <2>1, DivBound
    <3> QED
      BY <3>1, <3>2 DEF Sales!Monday
  <2>4. /\ Sales!Age(bucket, day, today) = a - b
        /\ Sales!bucketExpr(bucket, day) = b * WeekDays
        /\ \A n \in Nat : Sales!Back(bucket, n, today) = a * WeekDays - n * WeekDays
    BY <1>2, <2>3 DEF Sales!Age, Sales!Back, Sales!bucketExpr
  <2>5. \A k \in Int : k * WeekDays <= day <=> k <= b
    BY <2>1, DivBound
  <2> HIDE DEF a, b
  <2>6. \A n \in Nat : a * WeekDays - n * WeekDays = (a - n) * WeekDays /\ (a - n) * WeekDays \in Int
    BY <2>1, <2>2
  <2>7. \A n \in Nat : /\ Sales!Back(bucket, n, today) = (a - n) * WeekDays
                       /\ (a - n) * WeekDays \in Int
    BY <2>4, <2>6
  <2>8. a - b \in Nat /\ a - (a - b) = b
    BY <2>2
  <2>9. Sales!Back(bucket, a - b, today) = b * WeekDays
    BY <2>7, <2>8
  <2>10. ASSUME NEW n \in Nat
         PROVE  Sales!Back(bucket, n, today) <= day <=> a - b <= n
    <3>1. a - n \in Int /\ (a - n <= b <=> a - b <= n)
      BY <2>2
    <3> QED
      BY <2>5, <2>7, <3>1
  <2> QED
    BY <1>2, <2>4, <2>7, <2>8, <2>9, <2>10
<1>3. CASE bucket = "month"
  <2> DEFINE a == Sales!Month(today)
             b == Sales!Month(day)
  <2>1. /\ a \in DOMAIN FirstOfMonth /\ b \in DOMAIN FirstOfMonth
        /\ DOMAIN FirstOfMonth \subseteq Nat
        /\ \A m \in DOMAIN FirstOfMonth : /\ FirstOfMonth[m] \in Nat
                                          /\ FirstOfMonth[m] <= day <=> m <= b
                                          /\ FirstOfMonth[m] <= today <=> m <= a
    BY MonthOf
  <2>2. /\ Sales!Age(bucket, day, today) = a - b
        /\ Sales!bucketExpr(bucket, day) = FirstOfMonth[b]
        /\ \A n \in Nat : Sales!Back(bucket, n, today) = FirstOfMonth[a - n]
    BY <1>3 DEF Sales!Age, Sales!Back, Sales!bucketExpr
  <2> HIDE DEF a, b
  <2>3. b <= a
    BY <2>1
  <2>4. a - b \in Nat /\ a - (a - b) = b
    BY <2>1, <2>3
  <2>5. \A n \in Nat : n <= a => a - n \in DOMAIN FirstOfMonth
    <3>1. PICK last \in DOMAIN FirstOfMonth : FirstOfMonth \in [0..last -> Nat]
      BY SalesAssumption DEF Sales!AnalyticsAssumption
    <3>2. DOMAIN FirstOfMonth = 0..last /\ last \in Nat
      BY <2>1, <3>1
    <3> QED
      BY <2>1, <3>2
  <2>6. \A n \in Nat : n <= a => /\ Sales!Back(bucket, n, today) \in Int
                                 /\ Sales!Back(bucket, n, today) <= day <=> a - b <= n
    <3>1. \A n \in Nat : a - n <= b <=> a - b <= n
      BY <2>1
    <3> QED
      BY <2>1, <2>2, <2>5, <3>1
  <2>7. Sales!Back(bucket, a - b, today) = FirstOfMonth[b] /\ a - b <= a
    BY <2>1, <2>2, <2>4
  <2>8. /\ Sales!Age(bucket, day, today) \in Nat
        /\ Sales!Age(bucket, day, today) <= Sales!Month(today)
    BY <2>2, <2>4, <2>7 DEF a
  <2>9. Sales!Back(bucket, Sales!Age(bucket, day, today), today) = Sales!bucketExpr(bucket, day)
    BY <2>2, <2>7
  <2>10. ASSUME NEW n \in Nat, n <= Sales!Month(today)
         PROVE  /\ Sales!Back(bucket, n, today) \in Int
                /\ Sales!Back(bucket, n, today) <= day <=> Sales!Age(bucket, day, today) <= n
    BY <2>2, <2>6, <2>10 DEF a
  <2> QED
    BY <1>3, <2>8, <2>9, <2>10
<1> QED
  BY <1>1, <1>2, <1>3

\* The further back, the earlier.
LEMMA BackDescends ==
    ASSUME NEW bucket \in {"day", "week", "month"}, NEW today \in Nat,
           NEW n \in Nat, NEW k \in 0..n, bucket = "month" => n <= Sales!Month(today)
    PROVE  Sales!Back(bucket, n, today) <= Sales!Back(bucket, k, today)
<1>1. CASE bucket = "day"
  BY <1>1 DEF Sales!Back
<1>2. CASE bucket = "week"
  <2>1. WeekDays \in Nat \ {0}
    BY SalesAssumption DEF Sales!AnalyticsAssumption
  <2>2. k * WeekDays <= n * WeekDays /\ k * WeekDays \in Int /\ n * WeekDays \in Int
    BY <2>1
  <2>3. today % WeekDays \in Int
    BY <2>1
  <2> DEFINE a == Sales!Monday(today)
  <2>4. a \in Int
    BY <2>3 DEF Sales!Monday
  <2> HIDE DEF a
  <2>5. a - n * WeekDays <= a - k * WeekDays
    BY <2>2, <2>4
  <2> QED
    BY <1>2, <2>5 DEF Sales!Back, a
<1>3. CASE bucket = "month"
  <2> DEFINE a == Sales!Month(today)
  <2>1. PICK last \in DOMAIN FirstOfMonth : FirstOfMonth \in [0..last -> Nat]
    BY SalesAssumption DEF Sales!AnalyticsAssumption
  <2>2. a \in 0..last /\ last \in Nat /\ n <= a
    BY <1>3, <2>1, MonthOf
  <2> HIDE DEF a
  <2>3. a - n \in 0..last /\ a - k \in 0..last /\ a - n <= a - k
    BY <2>2
  <2>4. FirstOfMonth[a - n] \in Nat /\ FirstOfMonth[a - k] \in Nat /\ DOMAIN FirstOfMonth = 0..last
    BY <2>1, <2>3
  <2>5. FirstOfMonth[a - n] <= FirstOfMonth[a - k]
    <3>1. CASE a - n = a - k
      BY <2>4, <3>1
    <3>2. CASE a - n < a - k
      BY <2>3, <2>4, <3>2, MonthsAscend
    <3> QED
      BY <2>2, <2>3, <3>1, <3>2
  <2> QED
    BY <1>3, <2>5 DEF Sales!Back, a
<1> QED
  BY <1>1, <1>2, <1>3

\* The current period is the last `units` buckets, the previous one as many before them.
LEMMA PeriodOf ==
    ASSUME NEW cfg \in RANGES, NEW today \in Nat, NEW day \in 0..today, NEW c,
           c.buckets = Sales!buildBuckets(cfg, today), c.prevStart = Sales!prevStartKey(cfg, today),
           cfg.bucket = "month" => 2 * cfg.units - 1 <= Sales!Month(today)
    PROVE  /\ cfg.units \in Nat \ {0} /\ cfg.bucket \in {"day", "week", "month"}
           /\ Sales!Age(cfg.bucket, day, today) \in Nat
           /\ Sales!Start(c) \in Int /\ c.prevStart \in Int
           /\ Sales!Start(c) <= day <=> Sales!Age(cfg.bucket, day, today) < cfg.units
           /\ c.prevStart <= day <=> Sales!Age(cfg.bucket, day, today) <= 2 * cfg.units - 1
<1> DEFINE units == cfg.units
           back(n) == Sales!Back(cfg.bucket, n, today)
           age == Sales!Age(cfg.bucket, day, today)
<1>1. units \in Nat \ {0} /\ cfg.bucket \in {"day", "week", "month"}
  BY SalesAssumption DEF Sales!AnalyticsAssumption
<1>2. c.buckets = {back(i) : i \in 0..(units - 1)} /\ c.prevStart = back(units * 2 - 1)
  BY DEF Sales!buildBuckets, Sales!prevStartKey
<1>3. \A n \in 0..(2 * units - 1) : cfg.bucket = "month" => n <= Sales!Month(today)
  <2>1. DOMAIN FirstOfMonth \subseteq Nat /\ Sales!Month(today) \in DOMAIN FirstOfMonth
    BY MonthOf
  <2> QED
    BY <1>1, <2>1
<1>4. age \in Nat /\ \A n \in 0..(2 * units - 1) : back(n) \in Int /\ (back(n) <= day <=> age <= n)
  <2>1. day \in Nat /\ day <= today
    OBVIOUS
  <2>2. 0..(2 * units - 1) \subseteq Nat
    BY <1>1
  <2> QED
    BY <1>1, <1>3, <2>1, <2>2, BucketOf
<1>5. units - 1 \in 0..(2 * units - 1) /\ 2 * units - 1 \in 0..(2 * units - 1) /\ units * 2 = 2 * units
  BY <1>1
<1>6. \A k \in 0..(units - 1) : back(units - 1) <= back(k)
  BY <1>1, <1>3, <1>5, BackDescends
<1>7. Sales!Start(c) = CHOOSE x \in c.buckets : \A y \in c.buckets : x <= y
  BY DEF Sales!Start, Sales!Min
<1> HIDE DEF back, units, age
<1>8. back(units - 1) \in c.buckets /\ \A y \in c.buckets : back(units - 1) <= y
  BY <1>1, <1>2, <1>6
<1>9. Sales!Start(c) \in c.buckets /\ \A y \in c.buckets : Sales!Start(c) <= y
  BY <1>7, <1>8
<1>10. PICK k \in 0..(units - 1) : Sales!Start(c) = back(k)
  BY <1>2, <1>9
<1>11. k \in 0..(2 * units - 1)
  BY <1>1
<1>12. Sales!Start(c) = back(units - 1)
  BY <1>4, <1>5, <1>6, <1>8, <1>9, <1>10, <1>11
<1>13. age <= units - 1 <=> age < units
  BY <1>1, <1>4
<1> QED
  BY <1>1, <1>2, <1>4, <1>5, <1>12, <1>13 DEF units, age

----------------------------------------------------------------------------
(* The sales dashboard (Analytics) *)

Sale ==
    [status : {"none", "open", "sold", "out"}, placedAt : Nat \cup {NULL}, paidAt : Nat \cup {NULL}]

\* What is placed, or sold, was so by some time.
DoneBy(x, time) ==
    /\ x.status \in {"open", "sold"} => x.placedAt \in 0..time
    /\ x.paidAt = NULL \/ x.paidAt \in 0..time

\* An order never returns to what it was: every change of it is to a later stage.
Stage(x) ==
    IF x.status = "none" THEN 0 ELSE IF x.status = "out" THEN 3 ELSE IF x.paidAt = NULL THEN 1 ELSE 2

DayOf(x) == Sales!Day(IF x.paidAt = NULL THEN x.placedAt ELSE x.paidAt)

\* The sales of the current period, and of the one before it, as c has them.
IsCurrent(x, c) == x.status = "sold" /\ Sales!Start(c) <= DayOf(x)
IsPrevious(x, c) == x.status = "sold" /\ c.prevStart <= DayOf(x) /\ DayOf(x) < Sales!Start(c)

\* The computation c for the range cfg: when it began and what it saw, and what it found of
\* the orders that are still as they were.
Computed(c, rows, cfg) ==
    /\ c = [buckets |-> Sales!buildBuckets(cfg, c.today), prevStart |-> Sales!prevStartKey(cfg, c.today),
            trend |-> c.trend, kpis |-> c.kpis, today |-> c.today, seen |-> c.seen]
    /\ c.today \in Nat
    /\ cfg.bucket = "month" => 2 * cfg.units - 1 <= Sales!Month(c.today)
    /\ \A o \in Orders :
         /\ c.seen[o].status = "sold" => DayOf(c.seen[o]) \in 0..c.today
         /\ Stage(c.seen[o]) <= Stage(rows[o])
         /\ Stage(c.seen[o]) \in 0..3
         /\ c.trend # NULL /\ rows[o] = c.seen[o] => \A key \in c.buckets :
              o \in c.trend[key] <=>
                IsCurrent(c.seen[o], c) /\ Sales!bucketExpr(cfg.bucket, DayOf(c.seen[o])) = key
         /\ c.kpis # NULL /\ rows[o] = c.seen[o] =>
              /\ o \in c.kpis.cur <=> IsCurrent(c.seen[o], c)
              /\ o \in c.kpis.prev <=> IsPrevious(c.seen[o], c)

SalesTypes ==
    /\ now \in Nat /\ range \in RANGES
    /\ range.bucket = "month" =>
         /\ 2 * range.units - 1 \in DOMAIN FirstOfMonth
         /\ FirstOfMonth[2 * range.units - 1] <= Sales!Day(now)
    /\ order \in [Orders -> Sale] /\ \A o \in Orders : DoneBy(order[o], now)
    /\ computing = [q \in Viewers |-> computing[q]]

SalesInv ==
    /\ SalesTypes
    /\ \A q \in Viewers : computing[q] # NULL => Computed(computing[q], order, range)
    /\ cache # NULL => /\ Computed(cache.data, order, range)
                       /\ cache.data.trend # NULL /\ cache.data.kpis # NULL

LEMMA SalesInit == Sales!Init => SalesInv
<1> SUFFICES ASSUME Sales!Init PROVE SalesInv
  OBVIOUS
<1>1. now \in Starts /\ now \in Nat /\ range \in RANGES
  BY SalesAssumption DEF Sales!Init, Sales!AnalyticsAssumption
<1>2. range.bucket = "month" =>
        /\ 2 * range.units - 1 \in DOMAIN FirstOfMonth
        /\ FirstOfMonth[2 * range.units - 1] <= Sales!Day(now)
  BY <1>1, SalesAssumption DEF Sales!AnalyticsAssumption, Sales!Day
<1>3. Sales!Past(now) \subseteq {x \in Sale : DoneBy(x, now)}
  BY <1>1, SalesAssumption DEF Sales!AnalyticsAssumption, Sales!Past, Sales!Placed, Sale, DoneBy
<1>4. order \in [Orders -> Sale] /\ \A o \in Orders : DoneBy(order[o], now)
  BY <1>3 DEF Sales!Init
<1>5. /\ computing = [q \in Viewers |-> computing[q]] /\ cache = NULL
      /\ \A q \in Viewers : computing[q] = NULL
  BY DEF Sales!Init
<1> QED
  BY <1>1, <1>2, <1>4, <1>5 DEF SalesInv, SalesTypes

\* What was computed stays right of the orders that have not changed since.
LEMMA OrderMoves ==
    ASSUME SalesInv, NEW o \in Orders, NEW x \in Sale, order' = [order EXCEPT ![o] = x],
           DoneBy(x, now), Stage(order[o]) < Stage(x), UNCHANGED <<now, range, computing, cache>>
    PROVE  SalesInv'
<1>1. /\ order' = [p \in Orders |-> IF p = o THEN x ELSE order[p]]
      /\ now' = now /\ range' = range /\ computing' = computing /\ cache' = cache
  BY DEF SalesInv, SalesTypes
<1>2. Stage(order[o]) \in 0..3 /\ Stage(x) \in 0..3
  BY DEF Stage
<1>3. SalesTypes'
  BY <1>1 DEF SalesInv, SalesTypes
<1>4. ASSUME NEW c, Computed(c, order, range) PROVE Computed(c, order', range)
  <2>1. ASSUME NEW p \in Orders
        PROVE  /\ Stage(c.seen[p]) <= Stage(order'[p])
               /\ order'[p] = c.seen[p] => order[p] = c.seen[p]
    <3>1. CASE p = o
      <4>1. Stage(c.seen[o]) \in 0..3 /\ Stage(c.seen[o]) <= Stage(order[o]) /\ order'[o] = x
        BY <1>1, <1>4 DEF Computed
      <4>2. Stage(c.seen[o]) < Stage(x)
        BY <1>2, <4>1
      <4>3. c.seen[o] # x
        BY <1>2, <4>2
      <4> QED
        BY <1>2, <3>1, <4>1, <4>2, <4>3
    <3>2. CASE p # o
      BY <1>1, <1>4, <3>2 DEF Computed
    <3> QED
      BY <3>1, <3>2
  <2> QED
    BY <1>4, <2>1 DEF Computed
<1> QED
  BY <1>1, <1>3, <1>4 DEF SalesInv

LEMMA SalesOrders ==
    ASSUME SalesInv, NEW o \in Orders, Sales!Place(o) \/ Sales!Pay(o) \/ Sales!Withdraw(o)
    PROVE  SalesInv'
<1>1. order[o] \in Sale /\ now \in Nat /\ NULL \notin Nat /\ DoneBy(order[o], now)
  BY SalesAssumption DEF SalesInv, SalesTypes, Sales!AnalyticsAssumption
<1>2. CASE Sales!Place(o)
  <2>1. PICK status \in {"open", "sold"} : order' = [order EXCEPT ![o] = Sales!Placed(status, now)]
    BY <1>2 DEF Sales!Place
  <2> DEFINE x == Sales!Placed(status, now)
  <2>2. x \in Sale /\ DoneBy(x, now) /\ Stage(x) = 1
    BY <1>1 DEF Sales!Placed, Sale, DoneBy, Stage
  <2>3. Stage(order[o]) = 0 /\ UNCHANGED <<now, range, computing, cache>>
    BY <1>2 DEF Sales!Place, Stage
  <2> HIDE DEF x
  <2>4. order' = [order EXCEPT ![o] = x] /\ Stage(order[o]) < Stage(x)
    BY <2>1, <2>2, <2>3 DEF x
  <2> QED
    BY <2>2, <2>3, <2>4, OrderMoves
<1>3. CASE Sales!Pay(o)
  <2> DEFINE x == [order[o] EXCEPT !.status = "sold", !.paidAt = now]
  <2>1. order' = [order EXCEPT ![o] = x] /\ UNCHANGED <<now, range, computing, cache>>
    BY <1>3 DEF Sales!Pay
  <2>2. order[o].status \in {"open", "sold"} /\ order[o].paidAt = NULL
    BY <1>3 DEF Sales!Pay
  <2>3. /\ x \in Sale /\ x.status = "sold" /\ x.paidAt = now /\ x.placedAt = order[o].placedAt
    BY <1>1 DEF Sale
  <2> HIDE DEF x
  <2>4. DoneBy(x, now) /\ Stage(order[o]) = 1 /\ Stage(x) = 2
    BY <1>1, <2>2, <2>3 DEF DoneBy, Stage
  <2>5. Stage(order[o]) < Stage(x)
    BY <2>4
  <2> QED
    BY <2>1, <2>3, <2>4, <2>5, OrderMoves
<1>4. CASE Sales!Withdraw(o)
  <2> DEFINE x == [order[o] EXCEPT !.status = "out"]
  <2>1. order' = [order EXCEPT ![o] = x] /\ UNCHANGED <<now, range, computing, cache>>
    BY <1>4 DEF Sales!Withdraw
  <2>2. order[o].status \in {"open", "sold"}
    BY <1>4 DEF Sales!Withdraw
  <2>3. x \in Sale /\ x.status = "out" /\ x.paidAt = order[o].paidAt
    BY <1>1 DEF Sale
  <2> HIDE DEF x
  <2>4. DoneBy(x, now) /\ Stage(order[o]) \in {1, 2} /\ Stage(x) = 3
    BY <1>1, <2>2, <2>3 DEF DoneBy, Stage
  <2>5. Stage(order[o]) < Stage(x)
    BY <2>4
  <2> QED
    BY <2>1, <2>3, <2>4, <2>5, OrderMoves
<1> QED
  BY <1>2, <1>3, <1>4

LEMMA SalesClock == ASSUME SalesInv, Sales!Tick PROVE SalesInv'
<1>1. /\ now' = now + 1 /\ range' = range /\ order' = order
      /\ computing' = computing /\ cache' = cache
  BY DEF Sales!Tick
<1>2. now \in Nat /\ now + 1 \in Nat /\ DayTicks \in Nat \ {0}
  BY SalesAssumption DEF SalesInv, SalesTypes, Sales!AnalyticsAssumption
<1>3. /\ now \div DayTicks <= (now + 1) \div DayTicks
      /\ now \div DayTicks \in Nat /\ (now + 1) \div DayTicks \in Nat
  <2>1. now \div DayTicks <= (now + 1) \div DayTicks
    BY <1>2, DivMonotone
  <2>2. now \div DayTicks \in Nat
    BY <1>2, DivBound
  <2>3. (now + 1) \div DayTicks \in Nat
    BY <1>2, DivBound
  <2> QED
    BY <2>1, <2>2, <2>3
<1>4. range.bucket = "month" => FirstOfMonth[2 * range.units - 1] \in Nat
  BY <1>2, MonthOf DEF SalesInv, SalesTypes
<1>5. range.bucket = "month" => FirstOfMonth[2 * range.units - 1] <= (now + 1) \div DayTicks
  BY <1>3, <1>4 DEF SalesInv, SalesTypes, Sales!Day
<1>6. ASSUME NEW o \in Orders PROVE DoneBy(order[o], now + 1)
  BY <1>2 DEF SalesInv, SalesTypes, DoneBy
<1>7. SalesTypes'
  BY <1>1, <1>2, <1>5, <1>6 DEF SalesInv, SalesTypes, Sales!Day
<1> QED
  BY <1>1, <1>7 DEF SalesInv

\* A step of one computation.
LEMMA DashboardGoes ==
    ASSUME SalesInv, NEW q \in Viewers, NEW c, computing' = [computing EXCEPT ![q] = c],
           c # NULL => Computed(c, order, range), UNCHANGED <<now, range, order, cache>>
    PROVE  SalesInv'
<1>1. /\ computing' = [p \in Viewers |-> IF p = q THEN c ELSE computing[p]]
      /\ now' = now /\ range' = range /\ order' = order /\ cache' = cache
  BY DEF SalesInv, SalesTypes
<1>2. SalesTypes'
  BY <1>1 DEF SalesInv, SalesTypes
<1> QED
  BY <1>1, <1>2 DEF SalesInv

LEMMA DashboardBegins == ASSUME SalesInv, NEW q \in Viewers, Sales!dashboard(q) PROVE SalesInv'
<1> DEFINE today == Sales!Day(now)
           c == [buckets |-> Sales!buildBuckets(range, today),
                 prevStart |-> Sales!prevStartKey(range, today),
                 trend |-> NULL, kpis |-> NULL, today |-> today, seen |-> order]
<1>1. computing' = [computing EXCEPT ![q] = c] /\ UNCHANGED <<now, range, order, cache>>
  BY DEF Sales!dashboard, Sales!Computes
<1>2. today \in Nat
  BY DivBound, SalesAssumption DEF SalesInv, SalesTypes, Sales!Day, Sales!AnalyticsAssumption
<1>3. range.bucket = "month" => 2 * range.units - 1 <= Sales!Month(today)
  <2> HIDE DEF today
  <2> QED
    BY <1>2, MonthOf DEF SalesInv, SalesTypes, today
<1>4. ASSUME NEW o \in Orders
      PROVE  /\ order[o].status = "sold" => DayOf(order[o]) \in 0..today
             /\ Stage(order[o]) \in 0..3
  <2> DEFINE at == IF order[o].paidAt = NULL THEN order[o].placedAt ELSE order[o].paidAt
  <2>1. order[o].status = "sold" => at \in Nat /\ at <= now
    BY DEF SalesInv, SalesTypes, DoneBy
  <2>2. now \in Nat /\ DayTicks \in Nat \ {0}
    BY SalesAssumption DEF SalesInv, SalesTypes, Sales!AnalyticsAssumption
  <2> HIDE DEF at
  <2>3. at \in Nat /\ at <= now => at \div DayTicks \in Nat
    BY <2>2, DivBound
  <2>4. at \in Nat /\ at <= now => at \div DayTicks <= now \div DayTicks
    BY <2>2, DivMonotone
  <2>5. order[o].status = "sold" => DayOf(order[o]) \in 0..today
    BY <1>2, <2>1, <2>3, <2>4 DEF DayOf, Sales!Day, at
  <2> QED
    BY <2>5 DEF Stage
<1>5. Computed(c, order, range)
  BY <1>2, <1>3, <1>4 DEF Computed
<1> HIDE DEF c
<1> QED
  BY <1>1, <1>5, DashboardGoes

\* A query finds the sales among the orders as they are.
LEMMA SalesFound ==
    ASSUME NEW c, NEW o \in Orders, order[o] = c.seen[o]
    PROVE  /\ Sales!SaleDay(o) = DayOf(c.seen[o])
           /\ o \in Sales!SoldSince(Sales!Start(c)) <=> IsCurrent(c.seen[o], c)
           /\ o \in Sales!SoldBetween(c.prevStart, Sales!Start(c)) <=> IsPrevious(c.seen[o], c)
<1>1. Sales!SaleDay(o) = DayOf(c.seen[o])
  BY DEF Sales!SaleDay, DayOf
<1> QED
  BY <1>1 DEF Sales!SoldSince, Sales!SoldBetween, Sales!SOLD, IsCurrent, IsPrevious

LEMMA DashboardCounts == ASSUME SalesInv, NEW q \in Viewers, Sales!Trend(q) PROVE SalesInv'
<1> DEFINE c == computing[q]
           trend == [key \in c.buckets |-> {o \in Sales!SoldSince(Sales!Start(c)) :
                       Sales!bucketExpr(range.bucket, Sales!SaleDay(o)) = key}]
           d == [c EXCEPT !.trend = trend]
<1>1. /\ computing' = [computing EXCEPT ![q] = d] /\ c # NULL
      /\ UNCHANGED <<now, range, order, cache>>
  BY DEF Sales!Trend, Sales!Computes
<1>2. Computed(c, order, range)
  BY <1>1 DEF SalesInv
<1> HIDE DEF c
<1>3. d = [buckets |-> c.buckets, prevStart |-> c.prevStart, trend |-> trend,
           kpis |-> c.kpis, today |-> c.today, seen |-> c.seen]
  <2> HIDE DEF trend
  <2> QED
    BY <1>2 DEF Computed
<1>4. ASSUME NEW o \in Orders, order[o] = c.seen[o], NEW key \in c.buckets
      PROVE  o \in trend[key] <=>
               IsCurrent(c.seen[o], c) /\ Sales!bucketExpr(range.bucket, DayOf(c.seen[o])) = key
  BY <1>4, SalesFound
<1> HIDE DEF trend, d
<1>5. /\ Sales!Start(d) = Sales!Start(c) /\ d.prevStart = c.prevStart /\ d.seen = c.seen
      /\ d.buckets = c.buckets /\ d.kpis = c.kpis /\ d.today = c.today /\ d.trend = trend
  BY <1>3 DEF Sales!Start
<1>6. \A x : (IsCurrent(x, d) <=> IsCurrent(x, c)) /\ (IsPrevious(x, d) <=> IsPrevious(x, c))
  BY <1>5 DEF IsCurrent, IsPrevious
<1>7. Computed(d, order, range)
  BY <1>2, <1>3, <1>4, <1>5, <1>6 DEF Computed
<1> QED
  BY <1>1, <1>7, DashboardGoes

LEMMA DashboardTotals == ASSUME SalesInv, NEW q \in Viewers, Sales!Kpis(q) PROVE SalesInv'
<1> DEFINE c == computing[q]
           kpis == [cur |-> Sales!SoldSince(Sales!Start(c)),
                    prev |-> Sales!SoldBetween(c.prevStart, Sales!Start(c))]
           d == [c EXCEPT !.kpis = kpis]
<1>1. /\ computing' = [computing EXCEPT ![q] = d] /\ c # NULL
      /\ UNCHANGED <<now, range, order, cache>>
  BY DEF Sales!Kpis, Sales!Computes
<1>2. Computed(c, order, range)
  BY <1>1 DEF SalesInv
<1> HIDE DEF c
<1>3. d = [buckets |-> c.buckets, prevStart |-> c.prevStart, trend |-> c.trend,
           kpis |-> kpis, today |-> c.today, seen |-> c.seen]
  <2> HIDE DEF kpis
  <2> QED
    BY <1>2 DEF Computed
<1>4. ASSUME NEW o \in Orders, order[o] = c.seen[o]
      PROVE  /\ o \in kpis.cur <=> IsCurrent(c.seen[o], c)
             /\ o \in kpis.prev <=> IsPrevious(c.seen[o], c)
  BY <1>4, SalesFound
<1> HIDE DEF kpis, d
<1>5. /\ Sales!Start(d) = Sales!Start(c) /\ d.prevStart = c.prevStart /\ d.seen = c.seen
      /\ d.buckets = c.buckets /\ d.kpis = kpis /\ d.today = c.today /\ d.trend = c.trend
  BY <1>3 DEF Sales!Start
<1>6. \A x : (IsCurrent(x, d) <=> IsCurrent(x, c)) /\ (IsPrevious(x, d) <=> IsPrevious(x, c))
  BY <1>5 DEF IsCurrent, IsPrevious
<1>7. Computed(d, order, range)
  BY <1>2, <1>3, <1>4, <1>5, <1>6 DEF Computed
<1> QED
  BY <1>1, <1>7, DashboardGoes

LEMMA DashboardEnds == ASSUME SalesInv, NEW q \in Viewers, Sales!Shape(q) PROVE SalesInv'
<1>1. /\ computing' = [computing EXCEPT ![q] = NULL]
      /\ cache' = [at |-> now, data |-> computing[q]]
      /\ now' = now /\ range' = range /\ order' = order
      /\ computing[q] # NULL /\ computing[q].trend # NULL /\ computing[q].kpis # NULL
  BY DEF Sales!Shape, Sales!Computes
<1>2. computing' = [p \in Viewers |-> IF p = q THEN NULL ELSE computing[p]]
  BY <1>1 DEF SalesInv, SalesTypes
<1>3. cache'.data = computing[q] /\ Computed(computing[q], order, range)
  BY <1>1 DEF SalesInv
<1>4. SalesTypes'
  BY <1>1, <1>2 DEF SalesInv, SalesTypes
<1> QED
  BY <1>1, <1>2, <1>3, <1>4 DEF SalesInv

LEMMA SalesStep == ASSUME SalesInv, Sales!Next PROVE SalesInv'
<1>1. ASSUME NEW o \in Orders, Sales!Place(o) \/ Sales!Pay(o) \/ Sales!Withdraw(o) PROVE SalesInv'
  BY <1>1, SalesOrders
<1>2. ASSUME NEW q \in Viewers, Sales!dashboard(q) PROVE SalesInv'
  BY <1>2, DashboardBegins
<1>3. ASSUME NEW q \in Viewers, Sales!Trend(q) PROVE SalesInv'
  BY <1>3, DashboardCounts
<1>4. ASSUME NEW q \in Viewers, Sales!Kpis(q) PROVE SalesInv'
  BY <1>4, DashboardTotals
<1>5. ASSUME NEW q \in Viewers, Sales!Shape(q) PROVE SalesInv'
  BY <1>5, DashboardEnds
<1>6. CASE Sales!Tick
  BY <1>6, SalesClock
<1> QED
  BY <1>1, <1>2, <1>3, <1>4, <1>5, <1>6 DEF Sales!Next

LEMMA SalesRest == ASSUME SalesInv, UNCHANGED salesVars PROVE SalesInv'
BY DEF SalesInv, SalesTypes, salesVars

LEMMA OneOrNone == \A x : Sales!Cardinality({x}) = 1 /\ Sales!Cardinality({}) = 0
<1>1. \A S : Sales!Cardinality(S) = Cardinality(S)
  BY DEF Sales!Cardinality, Cardinality
<1> QED
  BY <1>1, FS_Singleton, FS_EmptySet

\* Each sale is where its day puts it.
LEMMA SalesAreCounted == SalesInv => EachSaleCountedOnce
<1> DEFINE d == cache.data
<1> SUFFICES ASSUME SalesInv, cache # NULL, NEW o \in Orders, order[o].status = "sold",
                    order[o] = d.seen[o]
             PROVE  LET age == Sales!Age(range.bucket, Sales!SaleDay(o), d.today)
                    IN  /\ o \in d.kpis.cur <=> age < range.units
                        /\ o \in d.kpis.prev <=> age \in range.units..(2 * range.units - 1)
                        /\ Sales!Cardinality({key \in d.buckets : o \in d.trend[key]}) =
                             IF age < range.units THEN 1 ELSE 0
  BY DEF EachSaleCountedOnce, Sales!EachSaleCountedOnce, Sales!SOLD
<1>1. Computed(d, order, range) /\ d.trend # NULL /\ d.kpis # NULL /\ range \in RANGES
  BY DEF SalesInv, SalesTypes
<1> HIDE DEF d
<1> DEFINE day == DayOf(d.seen[o])
           today == d.today
           age == Sales!Age(range.bucket, day, today)
           units == range.units
           in == {key \in d.buckets : o \in d.trend[key]}
<1>2. /\ Sales!SaleDay(o) = day /\ d.seen[o].status = "sold"
      /\ day \in 0..today /\ today \in Nat
      /\ d.buckets = Sales!buildBuckets(range, today) /\ d.prevStart = Sales!prevStartKey(range, today)
      /\ range.bucket = "month" => 2 * range.units - 1 <= Sales!Month(today)
  <2>1. d.buckets = Sales!buildBuckets(range, today) /\ d.prevStart = Sales!prevStartKey(range, today)
    BY <1>1 DEF Computed
  <2> QED
    BY <1>1, <2>1, SalesFound DEF Computed
<1> HIDE DEF day, today
<1>3. /\ units \in Nat \ {0} /\ range.bucket \in {"day", "week", "month"}
      /\ age \in Nat
      /\ Sales!Start(d) \in Int /\ d.prevStart \in Int
      /\ Sales!Start(d) <= day <=> age < units
      /\ d.prevStart <= day <=> age <= 2 * units - 1
  BY <1>1, <1>2, PeriodOf
<1>4. IsCurrent(d.seen[o], d) <=> age < units
  BY <1>2, <1>3 DEF IsCurrent, day
<1>5. IsPrevious(d.seen[o], d) <=> age \in units..(2 * units - 1)
  <2>1. IsPrevious(d.seen[o], d) <=> d.prevStart <= day /\ day < Sales!Start(d)
    BY <1>2 DEF IsPrevious, day
  <2>2. day \in Int
    BY <1>2
  <2> HIDE DEF age, units
  <2> QED
    BY <1>3, <2>1, <2>2
<1>6. /\ o \in d.kpis.cur <=> age < units
      /\ o \in d.kpis.prev <=> age \in units..(2 * units - 1)
  BY <1>1, <1>4, <1>5 DEF Computed
<1>7. in = {key \in d.buckets : age < units /\ Sales!bucketExpr(range.bucket, day) = key}
  BY <1>1, <1>4 DEF Computed, day
<1>8. CASE age < units
  <2> DEFINE key == Sales!bucketExpr(range.bucket, day)
  <2>1. Sales!Back(range.bucket, age, today) = key
    <3>1. day \in Nat /\ today \in Nat /\ day <= today
      BY <1>2
    <3>2. range.bucket \in {"day", "week", "month"}
      BY <1>3
    <3> QED
      BY <3>1, <3>2, BucketOf
  <2>2. age \in 0..(units - 1)
    BY <1>3, <1>8
  <2> HIDE DEF key, age
  <2>3. key \in d.buckets
    BY <1>2, <2>1, <2>2 DEF Sales!buildBuckets
  <2>4. in = {key}
    BY <1>7, <1>8, <2>3 DEF key
  <2> QED
    BY <1>2, <1>6, <1>8, <2>4, OneOrNone DEF age, today
<1>9. CASE ~ age < units
  <2>1. in = {}
    BY <1>7, <1>9
  <2> QED
    BY <1>2, <1>6, <1>9, <2>1, OneOrNone DEF today
<1> QED
  BY <1>8, <1>9

\* A sale made before a dashboard was begun, and not changed since, is in the figures of its
\* period, in one point of their trend, and in no other figures: for any calendar, whatever
\* happens between the queries (AnalyticsService.compute).
THEOREM SalesCountedOnce == PagesSpec => []EachSaleCountedOnce
<1>1. PagesInit => SalesInv
  BY SalesInit DEF PagesInit
<1>2. SalesInv /\ [PagesNext]_pagesVars => SalesInv'
  <2> SUFFICES ASSUME SalesInv, [PagesNext]_pagesVars PROVE SalesInv'
    OBVIOUS
  <2>1. Sales!Next \/ UNCHANGED salesVars
    BY DEF PagesNext, pagesVars
  <2> QED
    BY <2>1, SalesStep, SalesRest
<1> QED
  BY <1>1, <1>2, SalesAreCounted, PTL DEF PagesSpec
=============================================================================
