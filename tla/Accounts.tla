------------------------------- MODULE Accounts -------------------------------
(***************************************************************************)
(* Who is who: sign-in (authn/service.py over authn/users.py), tenants and *)
(* memberships (authn/tenants.py), invitations by email (authn/invites.py) *)
(* and the tenant routes that write them.                                  *)
(*                                                                         *)
(* Every record is a JSON file of its own.  No two files are written       *)
(* together and no lock is taken, so the requests of several threads       *)
(* interleave between any two file accesses, and a process that dies       *)
(* leaves behind the files it had written.                                 *)
(***************************************************************************)
EXTENDS Naturals

CONSTANTS
  Users,       \* people, each with one Google account and one email address
  Orgs,        \* ids of organization tenants, fresh for every tenant
  Threads,
  NoUser,      \* "", stored for a caller whose bearer resolves to nobody
  None,        \* no role, no tenant asked for
  MayCrash,    \* TRUE: a request may be cut off between any two accesses
  MaxRequests  \* bound on the requests accepted

\* A personal tenant's id is derived from its user's, so the user stands for it.
Tenants == Orgs \union Users

Everyone == Users \union {NoUser}

Roles == {"member", "admin"}

ASSUME AccountsAssumption ==
  /\ Orgs \intersect Users = {} /\ None \notin Tenants /\ None \notin Roles /\ NoUser \notin Users
  /\ MayCrash \in BOOLEAN /\ MaxRequests \in Nat

VARIABLES
  users,     \* users/: who has an account
  tenants,   \* tenants/
  member,    \* memberships/<tenant>__<user>: the role
  invite,    \* pending_invites/<tenant>__<email>: the role offered
  refresh,   \* who holds a refresh token
  req,       \* the request each thread serves
  promised,  \* invitations an admin was told are "added" or "pending"
  disturbed, \* who has had two sign-ins overlap, or one cut off
  requests

files == <<users, tenants, member, invite, refresh>>
ghosts == <<promised, disturbed>>
vars == <<users, tenants, member, invite, refresh, req, promised, disturbed, requests>>

NoRequest == [pc |-> "idle"]

\* asked: the tenant requested, or None; todo: invitation files listed and not
\* yet read; got: what was read from them; at: the one in hand.
SignInStages ==
  {"create", "createAgain", "ensure", "own", "list", "read", "unlink", "join", "add",
   "ensureHome", "ownHome", "session"}

SignInRequest ==
  [pc : SignInStages,
   user : Users, asked : Tenants \union {None}, todo : SUBSET Orgs,
   got : [Orgs -> Roles \union {None}], at : Orgs \union {None}, tenant : Tenants \union {None}]

CreateRequest == [pc : {"ownOrg"}, user : Everyone, org : Orgs]

InviteRequest ==
  [pc : {"find", "addMember", "writeInvite"}, org : Orgs, user : Users, role : Roles]

RefreshRequest ==
  [pc : {"refreshed", "noMembership"}, user : Users, asked : Tenants \union {None},
   tenant : Tenants \union {None}]

Requests ==
  SignInRequest \union CreateRequest \union InviteRequest \union RefreshRequest \union {NoRequest}

Init ==
  /\ users = {} /\ tenants = {} /\ refresh = {} /\ promised = {} /\ disturbed = {}
  /\ member = [t \in Tenants |-> [u \in Everyone |-> None]]
  /\ invite = [o \in Orgs |-> [u \in Users |-> None]]
  /\ req = [th \in Threads |-> NoRequest]
  /\ requests = 0

-----------------------------------------------------------------------------
At(th, label) == req[th].pc = label

Set(th, request) == req' = [req EXCEPT ![th] = request]

Turn(r, label) == [r EXCEPT !.pc = label]

Goto(th, label) == Set(th, Turn(req[th], label))

Finish(th) == Set(th, NoRequest)

User(th) == req[th].user

Accept(th) ==
  /\ At(th, "idle")
  /\ requests < MaxRequests
  /\ requests' = requests + 1

IsMember(t, u) == member[t][u] # None

\* list_for_user.
MembershipsOf(u) == {t \in Tenants : IsMember(t, u)}

AddMember(t, u, role) == member' = [member EXCEPT ![t][u] = role]

Nobody == [o \in Orgs |-> None]

\* What a sign-in holds of tenant o: the role it was invited to, or None.
Holding(r, o, role) == [r EXCEPT !.got = [@ EXCEPT ![o] = role]]

Facing(r, o) == [r EXCEPT !.at = o]

Opens(r, t) == Turn([r EXCEPT !.tenant = t], "session")

(***************************************************************************)
(* _resolve_active_membership: the tenant asked for, else the personal     *)
(* one, else whichever file comes first.                                   *)
(***************************************************************************)
ActiveTenants(u, asked) ==
  IF asked # None THEN {asked} \intersect MembershipsOf(u)
  ELSE IF IsMember(u, u) THEN {u}
  ELSE MembershipsOf(u)

-----------------------------------------------------------------------------
\* sign_in_with_google, and its local stand-in: is this a new user?
SigningIn(u) == \E th \in Threads : req[th] \in SignInRequest /\ User(th) = u

BeginSignIn(th, u, asked) ==
  /\ Accept(th)
  /\ disturbed' = IF SigningIn(u) THEN disturbed \union {u} ELSE disturbed
  /\ Set(th, [pc |-> IF u \in users THEN "createAgain" ELSE "create", user |-> u,
              asked |-> asked, todo |-> {}, got |-> Nobody, at |-> None, tenant |-> None])
  /\ UNCHANGED <<files, promised>>

FindOrCreate(th) ==
  /\ req[th].pc \in {"create", "createAgain"}
  /\ users' = users \union {User(th)}
  /\ Goto(th, IF At(th, "create") THEN "ensure" ELSE "list")
  /\ UNCHANGED <<tenants, member, invite, refresh, ghosts, requests>>

\* ensure_personal_tenant, of a new user and of one without any membership.
EnsurePersonalTenant(th) ==
  /\ req[th].pc \in {"ensure", "ensureHome"}
  /\ tenants' = tenants \union {User(th)}
  /\ Goto(th, IF At(th, "ensure") THEN "own" ELSE "ownHome")
  /\ UNCHANGED <<users, member, invite, refresh, ghosts, requests>>

\* The new membership is all the fallback knows of.
HomeOnly(th) ==
  IF req[th].asked \in {None, User(th)}
  THEN Set(th, Opens(req[th], User(th)))
  ELSE Finish(th)

OwnPersonalTenant(th) ==
  /\ req[th].pc \in {"own", "ownHome"}
  /\ AddMember(User(th), User(th), "admin")
  /\ \/ At(th, "own") /\ Goto(th, "list")
     \/ At(th, "ownHome") /\ HomeOnly(th)
  /\ UNCHANGED <<users, tenants, invite, refresh, ghosts, requests>>

(***************************************************************************)
(* pop_for_email lists the invitations of this email, then reads and       *)
(* unlinks one after the other.                                            *)
(***************************************************************************)
ListInvites(th) ==
  /\ At(th, "list")
  /\ Set(th, Turn([req[th] EXCEPT !.todo = {o \in Orgs : invite[o][User(th)] # None}], "read"))
  /\ UNCHANGED <<files, ghosts, requests>>

\* Variant: the file is unlinked before it is read.
ReadUnlinkedInvite(th) ==
  /\ At(th, "read")
  /\ \E o \in req[th].todo :
       /\ invite' = [invite EXCEPT ![o][User(th)] = None]
       /\ Set(th, Turn(Facing(req[th], o), "unlink"))
  /\ UNCHANGED <<users, tenants, member, refresh, ghosts, requests>>

\* A listed invitation that another sign-in has unlinked by now raises, and
\* ends this one.
ReadInvite(th) ==
  /\ At(th, "read")
  /\ \E o \in req[th].todo :
       IF invite[o][User(th)] = None THEN Finish(th)
       ELSE Set(th, Turn(Facing(Holding(req[th], o, invite[o][User(th)]), o), "unlink"))
  /\ UNCHANGED <<files, ghosts, requests>>

UnlinkInvite(th) ==
  /\ At(th, "unlink")
  /\ invite' = [invite EXCEPT ![req[th].at][User(th)] = None]
  /\ Set(th, Turn(Facing([req[th] EXCEPT !.todo = @ \ {req[th].at}], None), "read"))
  /\ UNCHANGED <<users, tenants, member, refresh, ghosts, requests>>

InvitesRead(th) ==
  /\ At(th, "read") /\ req[th].todo = {}
  /\ Goto(th, "join")
  /\ UNCHANGED <<files, ghosts, requests>>

\* Each invitation that was popped becomes a membership, unless there is one.
CheckMembership(th) ==
  /\ At(th, "join")
  /\ \E o \in Orgs :
       /\ req[th].got[o] # None
       /\ IF IsMember(o, User(th)) THEN Set(th, Holding(req[th], o, None))
          ELSE Set(th, Turn(Facing(req[th], o), "add"))
  /\ UNCHANGED <<files, ghosts, requests>>

JoinOrg(th) ==
  LET o == req[th].at IN
  /\ At(th, "add")
  /\ AddMember(o, User(th), req[th].got[o])
  /\ Set(th, Turn(Facing(Holding(req[th], o, None), None), "join"))
  /\ UNCHANGED <<users, tenants, invite, refresh, ghosts, requests>>

\* Variant: the tenant asked for is taken without a look at the memberships.
ListMembershipsTrusting(th) ==
  /\ At(th, "join") /\ req[th].got = Nobody
  /\ IF req[th].asked # None
     THEN Set(th, Opens(req[th], req[th].asked))
     ELSE Goto(th, "ensureHome")
  /\ UNCHANGED <<files, ghosts, requests>>

\* list_for_user, and the tenant that becomes active.  A tenant the user is
\* not in ends the sign-in with NOT_TENANT_MEMBER.
ListMemberships(th) ==
  /\ At(th, "join") /\ req[th].got = Nobody
  /\ \/ MembershipsOf(User(th)) = {} /\ Goto(th, "ensureHome")
     \/ /\ MembershipsOf(User(th)) # {}
        /\ ActiveTenants(User(th), req[th].asked) = {}
        /\ Finish(th)
     \/ \E t \in ActiveTenants(User(th), req[th].asked) :
          Set(th, Opens(req[th], t))
  /\ UNCHANGED <<files, ghosts, requests>>

\* The refresh token is issued, and the session is the answer.
IssueTokens(th) ==
  /\ At(th, "session")
  /\ refresh' = refresh \union {User(th)}
  /\ Finish(th)
  /\ UNCHANGED <<users, tenants, member, invite, ghosts, requests>>

\* refresh(): there is no fallback here, memberships[0] of none raises.
Refresh(th, u, asked) ==
  LET answer(label, t) == Set(th, [pc |-> label, user |-> u, asked |-> asked, tenant |-> t]) IN
  /\ u \in refresh /\ u \in users
  /\ Accept(th)
  /\ \/ asked = None /\ MembershipsOf(u) = {} /\ answer("noMembership", None)
     \/ asked # None /\ ActiveTenants(u, asked) = {} /\ UNCHANGED req
     \/ \E t \in ActiveTenants(u, asked) : answer("refreshed", t)
  /\ UNCHANGED <<files, ghosts>>

AnswerRefresh(th) ==
  /\ req[th].pc \in {"refreshed", "noMembership"}
  /\ Finish(th)
  /\ UNCHANGED <<files, ghosts, requests>>

-----------------------------------------------------------------------------
(***************************************************************************)
(* Who passes the authorizer of the tenant routes: whoever has signed in,  *)
(* as himself with the token of a session; with a personal access token,   *)
(* which the authorizer accepts, as nobody, since _require_caller resolves *)
(* it without a token store.                                               *)
(***************************************************************************)
Callers == IF refresh = {} THEN {} ELSE refresh \union {NoUser}

\* Variant: the tenant's file is written after the membership, if at all.
CreateTenantLater(th, u, o) ==
  /\ u \in Callers /\ o \notin tenants
  /\ Accept(th)
  /\ Set(th, [pc |-> "ownOrg", user |-> u, org |-> o])
  /\ UNCHANGED <<files, ghosts>>

(***************************************************************************)
(* create_tenant: the tenant, then its creator's membership, stored under  *)
(* caller.user_id or "".                                                   *)
(***************************************************************************)
CreateTenant(th, u, o) ==
  /\ u \in Callers /\ o \notin tenants
  /\ Accept(th)
  /\ tenants' = tenants \union {o}
  /\ Set(th, [pc |-> "ownOrg", user |-> u, org |-> o])
  /\ UNCHANGED <<users, member, invite, refresh, ghosts>>

OwnOrg(th) ==
  /\ At(th, "ownOrg")
  /\ AddMember(req[th].org, User(th), "admin")
  /\ Finish(th)
  /\ UNCHANGED <<users, tenants, invite, refresh, ghosts, requests>>

\* _require_admin finds the membership of "" for a caller resolved to nobody.
HasAdmin(o) == \E a \in Everyone : member[o][a] = "admin"

\* Variant: the role in the request is stored as it came.
BeginInviteAnyRole(th, o, u, role) ==
  /\ HasAdmin(o)
  /\ Accept(th)
  /\ Set(th, [pc |-> "find", org |-> o, user |-> u, role |-> "owner"])
  /\ UNCHANGED <<files, ghosts>>

\* invite_member, by an admin of the tenant.
BeginInvite(th, o, u, role) ==
  /\ HasAdmin(o)
  /\ Accept(th)
  /\ Set(th, [pc |-> "find", org |-> o, user |-> u, role |-> role])
  /\ UNCHANGED <<files, ghosts>>

\* find_by_email, and for an account the check that it is no member yet.
FindInvitee(th) ==
  LET o == req[th].org
      u == User(th)
  IN
  /\ At(th, "find")
  /\ \/ u \notin users /\ Goto(th, "writeInvite")
     \/ u \in users /\ IsMember(o, u) /\ Finish(th)
     \/ u \in users /\ ~IsMember(o, u) /\ Goto(th, "addMember")
  /\ UNCHANGED <<files, ghosts, requests>>

AddInvitee(th) ==
  /\ At(th, "addMember")
  /\ AddMember(req[th].org, User(th), req[th].role)
  /\ promised' = promised \union {<<req[th].org, User(th)>>}
  /\ Finish(th)
  /\ UNCHANGED <<users, tenants, invite, refresh, disturbed, requests>>

WriteInvite(th) ==
  /\ At(th, "writeInvite")
  /\ invite' = [invite EXCEPT ![req[th].org][User(th)] = req[th].role]
  /\ promised' = promised \union {<<req[th].org, User(th)>>}
  /\ Finish(th)
  /\ UNCHANGED <<users, tenants, member, refresh, disturbed, requests>>

Crash(th) ==
  /\ MayCrash /\ ~At(th, "idle")
  /\ disturbed' = IF req[th] \in SignInRequest THEN disturbed \union {User(th)} ELSE disturbed
  /\ Finish(th)
  /\ UNCHANGED <<files, promised, requests>>

-----------------------------------------------------------------------------
Begin(th) ==
  \/ \E u \in Users, asked \in Tenants \union {None} : BeginSignIn(th, u, asked)
  \/ \E u \in Users, asked \in Tenants \union {None} : Refresh(th, u, asked)
  \/ \E u \in Everyone, o \in Orgs : CreateTenant(th, u, o)
  \/ \E o \in Orgs, u \in Users, role \in Roles : BeginInvite(th, o, u, role)

SignInStep(th) ==
  \/ FindOrCreate(th) \/ EnsurePersonalTenant(th) \/ OwnPersonalTenant(th)
  \/ ListInvites(th) \/ ReadInvite(th) \/ UnlinkInvite(th) \/ InvitesRead(th)
  \/ CheckMembership(th) \/ JoinOrg(th) \/ ListMemberships(th) \/ IssueTokens(th)

Next ==
  \E th \in Threads :
    \/ Begin(th)
    \/ SignInStep(th)
    \/ AnswerRefresh(th)
    \/ OwnOrg(th)
    \/ FindInvitee(th) \/ AddInvitee(th) \/ WriteInvite(th)
    \/ Crash(th)

Spec == Init /\ [][Next]_vars

-----------------------------------------------------------------------------
TypeOK ==
  /\ users \in SUBSET Users /\ tenants \in SUBSET Tenants
  /\ member \in [Tenants -> [Everyone -> Roles \union {None}]]
  /\ invite \in [Orgs -> [Users -> Roles \union {None}]]
  /\ refresh \in SUBSET Users
  /\ req \in [Threads -> Requests]
  /\ promised \in SUBSET (Orgs \X Users) /\ disturbed \in SUBSET Users
  /\ requests \in 0..MaxRequests

\* Nothing dangles, whatever is cut off where.  A membership is "always created
\* with its tenant", and for a real user -- save that of the creator of an
\* organization whose bearer resolved to nobody (tenant_routes.py's "membership
\* always created for a real user" overlooks that one).  An invitation is to a
\* tenant that exists.  And an organization that has let in or invited anybody
\* has an admin: no overlap of invitations takes that role from its creator.
RecordsAreBacked ==
  /\ \A t \in Tenants, u \in Everyone : IsMember(t, u) =>
       t \in tenants /\ (u \in users \/ (u = NoUser /\ t \in Orgs))
  /\ \A o \in Orgs, u \in Users : invite[o][u] # None => o \in tenants

OrgsHaveAdmins ==
  \A o \in Orgs : (\E u \in Users : IsMember(o, u) \/ invite[o][u] # None) => HasAdmin(o)

MembershipsAreBacked == RecordsAreBacked /\ OrgsHaveAdmins

\* A session acts in a tenant its user is a member of, and in the one that was
\* asked for; a refresh, which has no fallback, always finds a membership.
\* Without a tenant asked for it opens in the personal tenant, "never an
\* arbitrary/first-found tenant" (service.py) -- unless sign-ins overlap or one
\* was cut off.
SessionsAreBacked ==
  \A th \in Threads :
    /\ req[th].pc \in {"session", "refreshed"} =>
         /\ IsMember(req[th].tenant, User(th))
         /\ req[th].asked \in {None, req[th].tenant}
         /\ req[th].asked = None /\ User(th) \notin disturbed => req[th].tenant = User(th)
    /\ ~At(th, "noMembership")

\* The invitation is a membership, or still pending, or in a sign-in's hands.
Kept(o, u) ==
  \/ IsMember(o, u)
  \/ invite[o][u] # None
  \/ \E th \in Threads :
       req[th] \in SignInRequest /\ User(th) = u /\ req[th].got[o] # None

InvitationsAreKeptInPeace ==
  \A o \in Orgs, u \in Users : <<o, u>> \in promised /\ u \notin disturbed => Kept(o, u)
=============================================================================
