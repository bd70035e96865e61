----------------------------- MODULE AdminTeam -----------------------------
(***************************************************************************)
(* The admin team: users with a role, changed by requests that first pass  *)
(* the guards and then await the database several times.  Every await is a *)
(* step; requests interleave between them.                                 *)
(*                                                                         *)
(* Nothing ever sets isActive to FALSE, so it is left out, and so are the  *)
(* audit entries, whose failures AuditService.log swallows.                *)
(***************************************************************************)
EXTENDS Naturals, FiniteSets

CONSTANTS Users,     \* accounts that exist or may be created
          Founders,  \* the admins of the start
          Actors,    \* the users who open the team page
          Requests   \* requests in flight

ASSUME AdminTeamAssumption ==
    /\ Founders \subseteq Users /\ Founders # {}
    /\ Actors \subseteq Users
    /\ IsFiniteSet(Users)

VARIABLES
    role,    \* User.role; "NEW" before the row exists, "GONE" after its deletion
    request, \* what each request does and how far it is
    raced    \* history: an admin was taken while another request had looked and not yet written

vars == <<role, request, raced>>

Roles == {"ADMIN", "STAFF"}
Exists(u) == role[u] \in Roles

Idle == [at |-> "idle"]
Calls == [at : {"handler", "count", "write"}, op : {"create", "setRole", "remove"},
          id : Users, role : Roles, by : Users]

End(r) == request' = [request EXCEPT ![r] = Idle]
Goto(r, at) == request' = [request EXCEPT ![r].at = at]

activeAdminCount == Cardinality({u \in Users : role[u] = "ADMIN"})

----------------------------------------------------------------------------

\* SessionAuthGuard loads the user of the cookie, RolesGuard wants an ADMIN;
\* anybody else is refused.
Guard(r) ==
    /\ request[r] = Idle
    /\ \E call \in Calls :
         /\ call.at = "handler"
         /\ call.by \in Actors
         /\ request' = IF role[call.by] = "ADMIN" THEN [request EXCEPT ![r] = call] ELSE request
    /\ UNCHANGED <<role, raced>>

\* The address must be unused.
create(r) ==
    /\ request[r].at = "handler"
    /\ LET call == request[r] IN
         /\ call.op = "create"
         /\ role' = IF role[call.id] = "NEW" THEN [role EXCEPT ![call.id] = call.role] ELSE role
    /\ End(r)
    /\ UNCHANGED raced

\* The target exists and is not the acting user.
Allowed(call) == Exists(call.id) /\ call.id # call.by

\* Demoting or deleting an admin.
TakesAnAdmin(call) ==
    /\ role[call.id] = "ADMIN"
    /\ call.op = "setRole" => call.role # "ADMIN"

\* The target is read and checked; setting the role it has is a no-op.
FindTarget(r) ==
    /\ request[r].at = "handler"
    /\ LET call == request[r] IN
         /\ call.op \in {"setRole", "remove"}
         /\ IF ~Allowed(call) \/ (call.op = "setRole" /\ role[call.id] = call.role)
            THEN End(r)
            ELSE Goto(r, IF TakesAnAdmin(call) THEN "count" ELSE "write")
    /\ UNCHANGED <<role, raced>>

\* Mutant: off by one.
NoneLeft == activeAdminCount < 1

LastAdmin == activeAdminCount <= 1

CountAdmins(r) ==
    /\ request[r].at = "count"
    /\ IF LastAdmin THEN End(r) ELSE Goto(r, "write")
    /\ UNCHANGED <<role, raced>>

NewRole(call) == [role EXCEPT ![call.id] = IF call.op = "remove" THEN "GONE" ELSE call.role]

\* A row that has gone in the meantime fails the write.
Write(r) ==
    /\ request[r].at = "write"
    /\ role' = IF Exists(request[r].id) THEN NewRole(request[r]) ELSE role
    /\ raced' = (raced \/ /\ TakesAnAdmin(request[r])
                          /\ \E s \in Requests \ {r} : request[s].at = "write")
    /\ End(r)

----------------------------------------------------------------------------

Init ==
    /\ role = [u \in Users |-> IF u \in Founders THEN "ADMIN" ELSE "NEW"]
    /\ request = [r \in Requests |-> Idle]
    /\ raced = FALSE

Next == \E r \in Requests :
    Guard(r) \/ create(r) \/ FindTarget(r) \/ CountAdmins(r) \/ Write(r)

Spec == Init /\ [][Next]_vars

----------------------------------------------------------------------------
(* Properties *)

TypeOK ==
    /\ role \in [Users -> Roles \cup {"NEW", "GONE"}]
    /\ request \in [Requests -> Calls \cup {Idle}]
    /\ raced \in BOOLEAN

\* "An admin can never lock the team out": somebody can still sign in as ADMIN.
AdminRemains == \E u \in Users : role[u] = "ADMIN"

\* Requests go on for admins who were demoted or deleted after the guard had let them
\* pass.  The last look before the write is the count (setRole, remove): an admin remains,
\* whoever acts, unless one was taken between that look of a request and its write.
LooksKeepAnAdmin == ~raced => AdminRemains
=============================================================================
