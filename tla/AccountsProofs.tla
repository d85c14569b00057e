---------------------------- MODULE AccountsProofs ----------------------------
(***************************************************************************)
(* What accounts, memberships, sessions and invitations keep for any       *)
(* number of people, organizations and handler threads, whatever overlaps  *)
(* and wherever a request is cut off.                                      *)
(***************************************************************************)
EXTENDS Accounts, TLAPS

USE AccountsAssumption DEF Everyone

SignIn(th) == req[th] \in SignInRequest
SignInOf(th, u) == SignIn(th) /\ User(th) = u

(* What a request has made sure of by the stage it is at.                  *)
Warrant(r) ==
  /\ r \in SignInRequest =>
       /\ r.pc # "create" => r.user \in users
       /\ r.pc \in {"own", "ownHome"} => r.user \in tenants
       /\ \A o \in Orgs : r.got[o] # None => o \in tenants
       /\ r.pc \in {"ensureHome", "ownHome", "session"} => \A o \in Orgs : r.got[o] = None
       /\ r.pc \in {"unlink", "add"} => r.at \in Orgs /\ r.got[r.at] # None
       /\ r.pc = "session" =>
            r.tenant \in Tenants /\ IsMember(r.tenant, r.user) /\ r.asked \in {None, r.tenant}
  /\ r \in CreateRequest => r.org \in tenants /\ r.user \in users \union {NoUser}
  /\ r \in InviteRequest => r.org \in tenants /\ (r.pc = "addMember" => r.user \in users)
  /\ r \in RefreshRequest =>
       /\ r.pc = "refreshed"
       /\ r.tenant \in Tenants /\ IsMember(r.tenant, r.user) /\ r.asked \in {None, r.tenant}
Warrants == \A th \in Threads : Warrant(req[th])

(* Whoever holds a refresh token has an account and a membership.          *)
RefreshBacked ==
  /\ refresh \subseteq users
  /\ \A u \in refresh : \E t \in Tenants : IsMember(t, u)

(* Of a user who is not disturbed: one sign-in at a time, which finds the  *)
(* personal membership in place unless it is about to make it, and the     *)
(* invitations it has listed where it saw them.                            *)
Settling(th, u) == SignInOf(th, u) /\ req[th].pc \in {"ensure", "own"}
Alone(u) == \A th, ti \in Threads : SignInOf(th, u) /\ SignInOf(ti, u) => th = ti
Housed(u) == u \in users => IsMember(u, u) \/ \E th \in Threads : Settling(th, u)
Settled(u) ==
  \A th \in Threads :
    SignInOf(th, u) /\ req[th].pc \notin {"create", "ensure", "own"} => IsMember(u, u)
Returning(u) == u \in refresh => IsMember(u, u)
AtHome(u) ==
  \A th \in Threads :
    req[th].pc \in {"session", "refreshed"} /\ User(th) = u /\ req[th].asked = None =>
      req[th].tenant = u
Listing(u) ==
  \A th \in Threads : SignInOf(th, u) =>
    \A o \in req[th].todo :
      req[th].pc = "read" \/ (req[th].pc = "unlink" /\ req[th].at # o) => invite[o][u] # None
Promises(u) == \A o \in Orgs : <<o, u>> \in promised => Kept(o, u)
InPeace(u) ==
  /\ Alone(u) /\ Housed(u) /\ Settled(u) /\ Returning(u) /\ AtHome(u)
  /\ Listing(u) /\ Promises(u)

Backed == TypeOK /\ RecordsAreBacked /\ Warrants /\ RefreshBacked

(* The inductive invariant.                                                *)
IInv == Backed /\ \A u \in Users \ disturbed : InPeace(u)

-----------------------------------------------------------------------------
(* The stage of a request tells what kind of request it is.                *)
LEMMA Kinds ==
  ASSUME NEW r \in Requests
  PROVE  /\ r \in SignInRequest <=> r.pc \in SignInStages
         /\ r \in CreateRequest <=> r.pc = "ownOrg"
         /\ r \in InviteRequest <=> r.pc \in {"find", "addMember", "writeInvite"}
         /\ r \in RefreshRequest <=> r.pc \in {"refreshed", "noMembership"}
  BY DEF Requests, SignInRequest, SignInStages, CreateRequest, InviteRequest, RefreshRequest,
         NoRequest

(* What the operators on a sign-in's record change, and what they keep.    *)
LEMMA TurnFacts ==
  ASSUME NEW r \in SignInRequest, NEW label \in SignInStages
  PROVE  LET n == Turn(r, label) IN
         /\ n \in SignInRequest /\ n.pc = label
         /\ n.user = r.user /\ n.asked = r.asked /\ n.todo = r.todo
         /\ n.got = r.got /\ n.at = r.at /\ n.tenant = r.tenant
  BY DEF Turn, SignInRequest

LEMMA FacingFacts ==
  ASSUME NEW r \in SignInRequest, NEW o \in Orgs \union {None}
  PROVE  LET n == Facing(r, o) IN
         /\ n \in SignInRequest /\ n.at = o
         /\ n.pc = r.pc /\ n.user = r.user /\ n.asked = r.asked /\ n.todo = r.todo
         /\ n.got = r.got /\ n.tenant = r.tenant
  BY DEF Facing, SignInRequest

LEMMA HoldingFacts ==
  ASSUME NEW r \in SignInRequest, NEW o \in Orgs, NEW role \in Roles \union {None}
  PROVE  LET n == Holding(r, o, role) IN
         /\ n \in SignInRequest
         /\ n.got[o] = role /\ \A p \in Orgs \ {o} : n.got[p] = r.got[p]
         /\ n.pc = r.pc /\ n.user = r.user /\ n.asked = r.asked /\ n.todo = r.todo
         /\ n.at = r.at /\ n.tenant = r.tenant
<1> DEFINE got == [r.got EXCEPT ![o] = role]
<1>1. r.got \in [Orgs -> Roles \union {None}]
  BY DEF SignInRequest
<1>2. /\ got \in [Orgs -> Roles \union {None}]
      /\ got[o] = role /\ \A p \in Orgs \ {o} : got[p] = r.got[p]
  BY <1>1
<1>3. Holding(r, o, role) = [r EXCEPT !.got = got]
  BY DEF Holding, SignInRequest
<1> HIDE DEF got
<1>4. [r EXCEPT !.got = got] \in SignInRequest /\ [r EXCEPT !.got = got].got = got
  BY <1>2 DEF SignInRequest
<1> QED
  BY <1>2, <1>3, <1>4 DEF SignInRequest

LEMMA TodoFacts ==
  ASSUME NEW r \in SignInRequest, NEW todo \in SUBSET Orgs
  PROVE  LET n == [r EXCEPT !.todo = todo] IN
         /\ n \in SignInRequest /\ n.todo = todo
         /\ n.pc = r.pc /\ n.user = r.user /\ n.asked = r.asked
         /\ n.got = r.got /\ n.at = r.at /\ n.tenant = r.tenant
  BY DEF SignInRequest

LEMMA OpensFacts ==
  ASSUME NEW r \in SignInRequest, NEW t \in Tenants
  PROVE  LET n == Opens(r, t) IN
         /\ n \in SignInRequest /\ n.pc = "session" /\ n.tenant = t
         /\ n.user = r.user /\ n.asked = r.asked /\ n.todo = r.todo
         /\ n.got = r.got /\ n.at = r.at
<1> DEFINE m == [r EXCEPT !.tenant = t]
<1>1. /\ m \in SignInRequest /\ m.tenant = t
      /\ m.user = r.user /\ m.asked = r.asked /\ m.todo = r.todo /\ m.got = r.got /\ m.at = r.at
  BY DEF SignInRequest
<1>2. Opens(r, t) = Turn(m, "session")
  BY DEF Opens
<1> HIDE DEF m
<1> QED
  BY <1>1, <1>2, TurnFacts DEF SignInStages

(* Replacing one thread's request changes no other's.                      *)
LEMMA SetFacts ==
  ASSUME TypeOK, NEW th \in Threads, NEW r \in Requests, Set(th, r)
  PROVE  /\ req' \in [Threads -> Requests]
         /\ req'[th] = r
         /\ \A ti \in Threads \ {th} : req'[ti] = req[ti]
  BY DEF TypeOK, Set

LEMMA FinishFacts ==
  ASSUME TypeOK, NEW th \in Threads, Finish(th)
  PROVE  /\ req' \in [Threads -> Requests]
         /\ req'[th] = NoRequest /\ req'[th].pc = "idle"
         /\ \A ti \in Threads \ {th} : req'[ti] = req[ti]
<1>1. NoRequest \in Requests /\ NoRequest.pc = "idle"
  BY DEF Requests, NoRequest
<1> QED
  BY <1>1, SetFacts DEF Finish

-----------------------------------------------------------------------------
(* What each step of a sign-in makes of its request.                       *)
Others(th) == \A ti \in Threads \ {th} : req'[ti] = req[ti]
Works(th, label) ==
  /\ req' \in [Threads -> Requests] /\ Others(th)
  /\ req'[th] \in SignInRequest /\ req'[th].pc = label
  /\ req'[th].user = req[th].user /\ req'[th].asked = req[th].asked
Holds(th) == req'[th].todo = req[th].todo /\ req'[th].got = req[th].got /\ req'[th].at = req[th].at

LEMMA SignInIsARequest == SignInRequest \subseteq Requests
  BY DEF Requests

LEMMA SignInOnly ==
  ASSUME NEW r \in Requests, r \in SignInRequest
  PROVE  r \notin CreateRequest /\ r \notin InviteRequest /\ r \notin RefreshRequest
  BY Kinds DEF SignInStages

LEMMA StageFacts ==
  ASSUME TypeOK, NEW th \in Threads, req[th].pc \in SignInStages
  PROVE  /\ req[th] \in SignInRequest /\ User(th) \in Users /\ User(th) \in Tenants
         /\ req[th].todo \subseteq Orgs /\ req[th].got \in [Orgs -> Roles \union {None}]
<1>1. req[th] \in SignInRequest
  BY Kinds DEF TypeOK
<1> QED
  BY <1>1 DEF SignInRequest, User, Tenants

LEMMA GotoFacts ==
  ASSUME TypeOK, NEW th \in Threads, req[th] \in SignInRequest, NEW label \in SignInStages,
         Goto(th, label)
  PROVE  Works(th, label) /\ Holds(th) /\ req'[th].tenant = req[th].tenant
<1> DEFINE n == Turn(req[th], label)
<1>1. /\ n \in SignInRequest /\ n.pc = label
      /\ n.user = req[th].user /\ n.asked = req[th].asked /\ n.todo = req[th].todo
      /\ n.got = req[th].got /\ n.at = req[th].at /\ n.tenant = req[th].tenant
  BY TurnFacts
<1>2. Set(th, n)
  BY DEF Goto
<1> HIDE DEF n
<1> QED
  BY <1>1, <1>2, SetFacts, SignInIsARequest DEF Works, Others, Holds

LEMMA OpenFacts ==
  ASSUME TypeOK, NEW th \in Threads, req[th] \in SignInRequest, NEW t \in Tenants,
         Set(th, Opens(req[th], t))
  PROVE  Works(th, "session") /\ Holds(th) /\ req'[th].tenant = t
<1> DEFINE n == Opens(req[th], t)
<1>1. /\ n \in SignInRequest /\ n.pc = "session" /\ n.tenant = t
      /\ n.user = req[th].user /\ n.asked = req[th].asked /\ n.todo = req[th].todo
      /\ n.got = req[th].got /\ n.at = req[th].at
  BY OpensFacts
<1>2. Set(th, n)
  OBVIOUS
<1> HIDE DEF n
<1> QED
  BY <1>1, <1>2, SetFacts, SignInIsARequest DEF Works, Others, Holds

LEMMA BeginSignInFacts ==
  ASSUME TypeOK, NEW th \in Threads, NEW u \in Users, NEW asked \in Tenants \union {None},
         BeginSignIn(th, u, asked)
  PROVE  /\ req' \in [Threads -> Requests] /\ Others(th)
         /\ req'[th] \in SignInRequest
         /\ req'[th].pc = IF u \in users THEN "createAgain" ELSE "create"
         /\ req'[th].user = u /\ req'[th].got = Nobody
<1> DEFINE n == [pc |-> IF u \in users THEN "createAgain" ELSE "create", user |-> u,
                 asked |-> asked, todo |-> {}, got |-> Nobody, at |-> None, tenant |-> None]
<1>1. /\ n \in SignInRequest /\ n.user = u /\ n.got = Nobody
      /\ n.pc = IF u \in users THEN "createAgain" ELSE "create"
  BY DEF SignInRequest, SignInStages, Nobody
<1>2. Set(th, n)
  BY DEF BeginSignIn
<1> HIDE DEF n
<1> QED
  BY <1>1, <1>2, SetFacts, SignInIsARequest DEF Others

LEMMA FindOrCreateFacts ==
  ASSUME TypeOK, NEW th \in Threads, FindOrCreate(th)
  PROVE  /\ SignIn(th) /\ Holds(th)
         /\ Works(th, IF At(th, "create") THEN "ensure" ELSE "list")
  BY StageFacts, GotoFacts DEF FindOrCreate, SignIn, SignInStages

LEMMA EnsureFacts ==
  ASSUME TypeOK, NEW th \in Threads, EnsurePersonalTenant(th)
  PROVE  /\ SignIn(th) /\ Holds(th)
         /\ Works(th, IF At(th, "ensure") THEN "own" ELSE "ownHome")
  BY StageFacts, GotoFacts DEF EnsurePersonalTenant, SignIn, SignInStages

LEMMA OwnFacts ==
  ASSUME TypeOK, NEW th \in Threads, OwnPersonalTenant(th)
  PROVE  /\ SignIn(th)
         /\ \/ Works(th, "list") /\ Holds(th)
            \/ Finish(th) /\ At(th, "ownHome")
            \/ /\ Works(th, "session") /\ Holds(th) /\ At(th, "ownHome")
               /\ req'[th].tenant = User(th) /\ req[th].asked \in {None, User(th)}
<1>1. SignIn(th) /\ User(th) \in Tenants
  BY StageFacts DEF OwnPersonalTenant, SignIn, SignInStages
<1>2. CASE At(th, "own") /\ Goto(th, "list")
  BY <1>1, <1>2, GotoFacts DEF SignIn, SignInStages
<1>3. CASE At(th, "ownHome") /\ HomeOnly(th)
  BY <1>1, <1>3, OpenFacts DEF HomeOnly, SignIn
<1> QED
  BY <1>2, <1>3 DEF OwnPersonalTenant

LEMMA ListInvitesFacts ==
  ASSUME TypeOK, NEW th \in Threads, ListInvites(th)
  PROVE  /\ SignIn(th) /\ Works(th, "read")
         /\ req'[th].got = req[th].got
         /\ req'[th].todo = {o \in Orgs : invite[o][User(th)] # None}
<1> DEFINE todo == {o \in Orgs : invite[o][User(th)] # None}
           m == [req[th] EXCEPT !.todo = todo]
           n == Turn(m, "read")
<1>1. SignIn(th)
  BY StageFacts DEF ListInvites, At, SignIn, SignInStages
<1>2. todo \in SUBSET Orgs
  OBVIOUS
<1>3. Set(th, n)
  BY DEF ListInvites
<1> HIDE DEF todo
<1>4. /\ m \in SignInRequest /\ m.todo = todo
      /\ m.user = req[th].user /\ m.asked = req[th].asked /\ m.got = req[th].got
  BY <1>1, <1>2, TodoFacts DEF SignIn
<1> HIDE DEF m
<1>5. /\ n \in SignInRequest /\ n.pc = "read" /\ n.todo = todo
      /\ n.user = req[th].user /\ n.asked = req[th].asked /\ n.got = req[th].got
  BY <1>4, TurnFacts DEF SignInStages
<1> HIDE DEF n
<1>6. Works(th, "read") /\ req'[th].got = req[th].got /\ req'[th].todo = todo
  BY <1>3, <1>5, SetFacts, SignInIsARequest DEF Works, Others
<1> QED
  BY <1>1, <1>6 DEF todo

LEMMA ReadInviteFacts ==
  ASSUME TypeOK, NEW th \in Threads, ReadInvite(th)
  PROVE  /\ SignIn(th)
         /\ \E o \in req[th].todo :
              \/ Finish(th) /\ invite[o][User(th)] = None
              \/ /\ Works(th, "unlink") /\ invite[o][User(th)] # None
                 /\ req'[th].todo = req[th].todo /\ req'[th].at = o
                 /\ req'[th].got[o] = invite[o][User(th)]
                 /\ \A p \in Orgs \ {o} : req'[th].got[p] = req[th].got[p]
<1>1. /\ req[th] \in SignInRequest /\ User(th) \in Users
      /\ req[th].todo \subseteq Orgs
  BY StageFacts DEF ReadInvite, At, SignInStages
<1>2. ASSUME NEW o \in req[th].todo, invite[o][User(th)] # None,
             Set(th, Turn(Facing(Holding(req[th], o, invite[o][User(th)]), o), "unlink"))
      PROVE  /\ Works(th, "unlink")
             /\ req'[th].todo = req[th].todo /\ req'[th].at = o
             /\ req'[th].got[o] = invite[o][User(th)]
             /\ \A p \in Orgs \ {o} : req'[th].got[p] = req[th].got[p]
  <2> DEFINE role == invite[o][User(th)]
             l == Holding(req[th], o, role)
             m == Facing(l, o)
             n == Turn(m, "unlink")
  <2>1. o \in Orgs /\ role \in Roles \union {None}
    BY <1>1 DEF TypeOK
  <2>2. Set(th, n)
    BY <1>2
  <2> HIDE DEF role
  <2>3. /\ l \in SignInRequest
        /\ l.got[o] = role /\ \A p \in Orgs \ {o} : l.got[p] = req[th].got[p]
        /\ l.user = req[th].user /\ l.asked = req[th].asked /\ l.todo = req[th].todo
    BY <1>1, <2>1, HoldingFacts
  <2> HIDE DEF l
  <2>4. /\ m \in SignInRequest /\ m.at = o
        /\ m.user = l.user /\ m.asked = l.asked /\ m.todo = l.todo /\ m.got = l.got
    BY <2>1, <2>3, FacingFacts
  <2> HIDE DEF m
  <2>5. /\ n \in SignInRequest /\ n.pc = "unlink" /\ n.at = o
        /\ n.user = l.user /\ n.asked = l.asked /\ n.todo = l.todo /\ n.got = l.got
    BY <2>4, TurnFacts DEF SignInStages
  <2> HIDE DEF n
  <2>6. /\ req' \in [Threads -> Requests] /\ Others(th) /\ req'[th] = n
    BY <2>2, <2>5, SetFacts, SignInIsARequest DEF Others
  <2> QED
    BY <2>3, <2>5, <2>6 DEF Works, role
<1> QED
  BY <1>1, <1>2 DEF ReadInvite, SignIn

LEMMA UnlinkInviteFacts ==
  ASSUME TypeOK, NEW th \in Threads, UnlinkInvite(th)
  PROVE  /\ SignIn(th) /\ Works(th, "read")
         /\ req'[th].got = req[th].got /\ req'[th].at = None
         /\ req'[th].todo = req[th].todo \ {req[th].at}
<1> DEFINE todo == req[th].todo \ {req[th].at}
           l == [req[th] EXCEPT !.todo = todo]
           m == Facing(l, None)
           n == Turn(m, "read")
<1>1. SignIn(th) /\ req[th].todo \subseteq Orgs
  BY StageFacts DEF UnlinkInvite, At, SignIn, SignInStages
<1>2. Set(th, n)
  BY <1>1 DEF UnlinkInvite, SignIn, SignInRequest
<1>3. todo \in SUBSET Orgs
  BY <1>1
<1> HIDE DEF todo
<1>4. /\ l \in SignInRequest /\ l.todo = todo
      /\ l.user = req[th].user /\ l.asked = req[th].asked /\ l.got = req[th].got
  BY <1>1, <1>3, TodoFacts DEF SignIn
<1> HIDE DEF l
<1>5. /\ m \in SignInRequest /\ m.at = None
      /\ m.user = l.user /\ m.asked = l.asked /\ m.todo = l.todo /\ m.got = l.got
  BY <1>4, FacingFacts
<1> HIDE DEF m
<1>6. /\ n \in SignInRequest /\ n.pc = "read" /\ n.at = None
      /\ n.user = l.user /\ n.asked = l.asked /\ n.todo = l.todo /\ n.got = l.got
  BY <1>5, TurnFacts DEF SignInStages
<1> HIDE DEF n
<1>7. req' \in [Threads -> Requests] /\ Others(th) /\ req'[th] = n
  BY <1>2, <1>6, SetFacts, SignInIsARequest DEF Others
<1> QED
  BY <1>1, <1>4, <1>6, <1>7 DEF Works, todo

LEMMA InvitesReadFacts ==
  ASSUME TypeOK, NEW th \in Threads, InvitesRead(th)
  PROVE  SignIn(th) /\ Holds(th) /\ Works(th, "join")
  BY StageFacts, GotoFacts DEF InvitesRead, At, SignIn, SignInStages

LEMMA CheckMembershipFacts ==
  ASSUME TypeOK, NEW th \in Threads, CheckMembership(th)
  PROVE  /\ SignIn(th)
         /\ \E o \in Orgs :
              /\ req[th].got[o] # None
              /\ \/ /\ Works(th, "join") /\ IsMember(o, User(th))
                    /\ req'[th].got[o] = None
                    /\ \A p \in Orgs \ {o} : req'[th].got[p] = req[th].got[p]
                 \/ /\ Works(th, "add") /\ req'[th].at = o /\ ~IsMember(o, User(th))
                    /\ req'[th].got = req[th].got
<1>1. SignIn(th) /\ At(th, "join")
  BY StageFacts DEF CheckMembership, At, SignIn, SignInStages
<1>2. ASSUME NEW o \in Orgs, Set(th, Holding(req[th], o, None))
      PROVE  /\ Works(th, "join")
             /\ req'[th].got[o] = None
             /\ \A p \in Orgs \ {o} : req'[th].got[p] = req[th].got[p]
  <2> DEFINE n == Holding(req[th], o, None)
  <2>1. /\ n \in SignInRequest /\ n.pc = "join"
        /\ n.got[o] = None /\ \A p \in Orgs \ {o} : n.got[p] = req[th].got[p]
        /\ n.user = req[th].user /\ n.asked = req[th].asked
    BY <1>1, HoldingFacts DEF At, SignIn
  <2>2. Set(th, n)
    BY <1>2
  <2> HIDE DEF n
  <2> QED
    BY <2>1, <2>2, SetFacts, SignInIsARequest DEF Works, Others
<1>3. ASSUME NEW o \in Orgs, Set(th, Turn(Facing(req[th], o), "add"))
      PROVE  Works(th, "add") /\ req'[th].at = o /\ req'[th].got = req[th].got
  <2> DEFINE m == Facing(req[th], o)
             n == Turn(m, "add")
  <2>1. /\ m \in SignInRequest /\ m.at = o
        /\ m.user = req[th].user /\ m.asked = req[th].asked /\ m.got = req[th].got
    BY <1>1, FacingFacts DEF SignIn
  <2>2. Set(th, n)
    BY <1>3
  <2> HIDE DEF m
  <2>3. /\ n \in SignInRequest /\ n.pc = "add" /\ n.at = o
        /\ n.user = req[th].user /\ n.asked = req[th].asked /\ n.got = req[th].got
    BY <2>1, TurnFacts DEF SignInStages
  <2> HIDE DEF n
  <2> QED
    BY <2>2, <2>3, SetFacts, SignInIsARequest DEF Works, Others
<1> QED
  BY <1>1, <1>2, <1>3 DEF CheckMembership

LEMMA JoinOrgFacts ==
  ASSUME TypeOK, NEW th \in Threads, JoinOrg(th), req[th].at \in Orgs
  PROVE  /\ SignIn(th) /\ Works(th, "join")
         /\ req'[th].got[req[th].at] = None
         /\ \A p \in Orgs \ {req[th].at} : req'[th].got[p] = req[th].got[p]
<1> DEFINE o == req[th].at
           l == Holding(req[th], o, None)
           m == Facing(l, None)
           n == Turn(m, "join")
<1>1. SignIn(th)
  BY StageFacts DEF JoinOrg, At, SignIn, SignInStages
<1>2. Set(th, n) /\ o \in Orgs
  BY DEF JoinOrg
<1> HIDE DEF o
<1>3. /\ l \in SignInRequest
      /\ l.got[o] = None /\ \A p \in Orgs \ {o} : l.got[p] = req[th].got[p]
      /\ l.user = req[th].user /\ l.asked = req[th].asked
  BY <1>1, <1>2, HoldingFacts DEF SignIn
<1> HIDE DEF l
<1>4. m \in SignInRequest /\ m.user = l.user /\ m.asked = l.asked /\ m.got = l.got
  BY <1>3, FacingFacts
<1> HIDE DEF m
<1>5. /\ n \in SignInRequest /\ n.pc = "join"
      /\ n.user = l.user /\ n.asked = l.asked /\ n.got = l.got
  BY <1>4, TurnFacts DEF SignInStages
<1> HIDE DEF n
<1>6. req' \in [Threads -> Requests] /\ Others(th) /\ req'[th] = n
  BY <1>2, <1>5, SetFacts, SignInIsARequest DEF Others
<1> QED
  BY <1>1, <1>3, <1>5, <1>6 DEF Works, o

LEMMA ListMembershipsFacts ==
  ASSUME TypeOK, NEW th \in Threads, ListMemberships(th)
  PROVE  /\ SignIn(th) /\ req[th].got = Nobody
         /\ \/ Works(th, "ensureHome") /\ Holds(th)
            \/ Finish(th)
            \/ /\ Works(th, "session") /\ Holds(th)
               /\ req'[th].tenant \in ActiveTenants(User(th), req[th].asked)
<1>1. SignIn(th)
  BY StageFacts DEF ListMemberships, At, SignIn, SignInStages
<1>2. CASE Goto(th, "ensureHome")
  BY <1>1, <1>2, GotoFacts DEF ListMemberships, SignIn, SignInStages
<1>3. ASSUME NEW t \in ActiveTenants(User(th), req[th].asked), Set(th, Opens(req[th], t))
      PROVE  Works(th, "session") /\ Holds(th) /\ req'[th].tenant = t
  <2>1. t \in Tenants
    BY StageFacts DEF ListMemberships, At, SignInStages, ActiveTenants, MembershipsOf, Tenants
  <2> QED
    BY <1>1, <1>3, <2>1, OpenFacts DEF SignIn
<1> QED
  BY <1>1, <1>2, <1>3 DEF ListMemberships

-----------------------------------------------------------------------------
(* What the other requests are made of.                                    *)
LEMMA RefreshFacts ==
  ASSUME TypeOK, NEW th \in Threads, NEW u \in Users, NEW asked \in Tenants \union {None},
         Refresh(th, u, asked)
  PROVE  /\ req' \in [Threads -> Requests] /\ Others(th)
         /\ \/ req' = req
            \/ /\ req'[th] \in RefreshRequest
               /\ req'[th].user = u /\ req'[th].asked = asked
               /\ \/ req'[th].pc = "noMembership" /\ MembershipsOf(u) = {}
                  \/ req'[th].pc = "refreshed" /\ req'[th].tenant \in ActiveTenants(u, asked)
<1>1. ASSUME NEW label \in {"refreshed", "noMembership"}, NEW t \in Tenants \union {None},
             Set(th, [pc |-> label, user |-> u, asked |-> asked, tenant |-> t])
      PROVE  /\ req' \in [Threads -> Requests] /\ Others(th)
             /\ req'[th] \in RefreshRequest
             /\ req'[th].user = u /\ req'[th].asked = asked
             /\ req'[th].pc = label /\ req'[th].tenant = t
  <2> DEFINE n == [pc |-> label, user |-> u, asked |-> asked, tenant |-> t]
  <2>1. /\ n \in RefreshRequest /\ n \in Requests
        /\ n.user = u /\ n.asked = asked /\ n.pc = label /\ n.tenant = t
    BY DEF RefreshRequest, Requests
  <2>2. Set(th, n)
    BY <1>1
  <2> HIDE DEF n
  <2> QED
    BY <2>1, <2>2, SetFacts DEF Others
<1>2. CASE UNCHANGED req
  BY <1>2 DEF TypeOK, Others
<1>3. CASE /\ MembershipsOf(u) = {}
           /\ Set(th, [pc |-> "noMembership", user |-> u, asked |-> asked, tenant |-> None])
  BY <1>1, <1>3
<1>4. ASSUME NEW t \in ActiveTenants(u, asked),
             Set(th, [pc |-> "refreshed", user |-> u, asked |-> asked, tenant |-> t])
      PROVE  /\ req' \in [Threads -> Requests] /\ Others(th)
             /\ req'[th] \in RefreshRequest
             /\ req'[th].user = u /\ req'[th].asked = asked
             /\ req'[th].pc = "refreshed" /\ req'[th].tenant = t
  <2>1. t \in Tenants
    BY DEF ActiveTenants, MembershipsOf, Tenants
  <2> QED
    BY <1>1, <1>4, <2>1
<1> QED
  BY <1>2, <1>3, <1>4 DEF Refresh

LEMMA CreateTenantFacts ==
  ASSUME TypeOK, NEW th \in Threads, NEW u \in Everyone, NEW o \in Orgs, CreateTenant(th, u, o)
  PROVE  /\ req' \in [Threads -> Requests] /\ Others(th)
         /\ req'[th] \in CreateRequest /\ req'[th].user = u /\ req'[th].org = o
<1> DEFINE n == [pc |-> "ownOrg", user |-> u, org |-> o]
<1>1. n \in CreateRequest /\ n \in Requests /\ n.user = u /\ n.org = o
  BY DEF CreateRequest, Requests
<1>2. Set(th, n)
  BY DEF CreateTenant
<1> HIDE DEF n
<1> QED
  BY <1>1, <1>2, SetFacts DEF Others

LEMMA BeginInviteFacts ==
  ASSUME TypeOK, NEW th \in Threads, NEW o \in Orgs, NEW u \in Users, NEW role \in Roles,
         BeginInvite(th, o, u, role)
  PROVE  /\ req' \in [Threads -> Requests] /\ Others(th)
         /\ req'[th] \in InviteRequest /\ req'[th].pc = "find" /\ req'[th].org = o
<1> DEFINE n == [pc |-> "find", org |-> o, user |-> u, role |-> role]
<1>1. n \in InviteRequest /\ n \in Requests /\ n.pc = "find" /\ n.org = o
  BY DEF InviteRequest, Requests
<1>2. Set(th, n)
  BY DEF BeginInvite
<1> HIDE DEF n
<1> QED
  BY <1>1, <1>2, SetFacts DEF Others

LEMMA FindInviteeFacts ==
  ASSUME TypeOK, NEW th \in Threads, FindInvitee(th)
  PROVE  /\ req[th] \in InviteRequest
         /\ \/ Finish(th)
            \/ /\ req' \in [Threads -> Requests] /\ Others(th)
               /\ req'[th] \in InviteRequest /\ req'[th].org = req[th].org
               /\ req'[th].pc = "addMember" =>
                    /\ User(th) \in users /\ req'[th].user = User(th)
                    /\ ~IsMember(req[th].org, User(th))
<1>1. req[th] \in InviteRequest
  BY Kinds DEF FindInvitee, At, TypeOK
<1>2. ASSUME NEW label \in {"addMember", "writeInvite"}, Goto(th, label)
      PROVE  /\ req' \in [Threads -> Requests] /\ Others(th)
             /\ req'[th] \in InviteRequest /\ req'[th].pc = label
             /\ req'[th].org = req[th].org /\ req'[th].user = User(th)
  <2> DEFINE n == Turn(req[th], label)
  <2>1. /\ n \in InviteRequest /\ n \in Requests
        /\ n.pc = label /\ n.org = req[th].org /\ n.user = User(th)
    BY <1>1 DEF Turn, InviteRequest, Requests, User
  <2>2. Set(th, n)
    BY <1>2 DEF Goto
  <2> HIDE DEF n
  <2> QED
    BY <2>1, <2>2, SetFacts DEF Others
<1> QED
  BY <1>1, <1>2 DEF FindInvitee

-----------------------------------------------------------------------------
(* Nobody has an account, nothing is stored.                               *)
LEMMA InitIInv == Init => IInv
<1> SUFFICES ASSUME Init PROVE IInv
  OBVIOUS
<1>1. NoRequest \in Requests /\ NoRequest.pc = "idle"
  BY DEF Requests, NoRequest
<1>2. \A th \in Threads : req[th] = NoRequest /\ req[th].pc = "idle" /\ req[th] \in Requests
  BY <1>1 DEF Init
<1>3. TypeOK
  <2>1. req \in [Threads -> Requests]
    BY <1>1 DEF Init
  <2>2. /\ member \in [Tenants -> [Everyone -> Roles \union {None}]]
        /\ invite \in [Orgs -> [Users -> Roles \union {None}]]
    BY Zenon DEF Init
  <2>3. requests \in 0..MaxRequests
    <3>1. requests = 0
      BY DEF Init
    <3> QED
      BY <3>1, SMT
  <2> QED
    BY <2>1, <2>2, <2>3 DEF Init, TypeOK
<1>4. RecordsAreBacked
  BY DEF Init, RecordsAreBacked, IsMember
<1>5. \A th \in Threads : /\ req[th] \notin SignInRequest /\ req[th] \notin CreateRequest
                          /\ req[th] \notin InviteRequest /\ req[th] \notin RefreshRequest
  BY <1>2, Kinds DEF SignInStages
<1>6. Warrants /\ RefreshBacked
  BY <1>5 DEF Init, Warrants, Warrant, RefreshBacked
<1>7. \A u \in Users : InPeace(u)
  BY <1>2, <1>5 DEF Init, InPeace, Alone, Housed, Settled, Returning, AtHome, Listing, Promises,
                    SignInOf, SignIn
<1> QED
  BY <1>3, <1>4, <1>6, <1>7 DEF IInv, Backed

-----------------------------------------------------------------------------
(* Accounts, tenants and memberships are never taken away.                 *)
Grows ==
  /\ users \subseteq users' /\ tenants \subseteq tenants' /\ disturbed \subseteq disturbed'
  /\ \A t \in Tenants, u \in Users : IsMember(t, u) => IsMember(t, u)'

LEMMA AddMemberFacts ==
  ASSUME TypeOK, NEW t \in Tenants, NEW u \in Everyone, NEW role \in Roles, AddMember(t, u, role)
  PROVE  /\ member' \in [Tenants -> [Everyone -> Roles \union {None}]]
         /\ member'[t][u] = role /\ role # None
         /\ \A p \in Tenants, v \in Everyone :
              p # t \/ v # u => member'[p][v] = member[p][v]
         /\ \A p \in Tenants, v \in Users : IsMember(p, v) => IsMember(p, v)'
<1>1. /\ member \in [Tenants -> [Everyone -> Roles \union {None}]]
      /\ member' = [member EXCEPT ![t] = [member[t] EXCEPT ![u] = role]]
  BY DEF TypeOK, AddMember
<1>2. [member[t] EXCEPT ![u] = role] \in [Everyone -> Roles \union {None}]
  BY <1>1
<1>3. /\ member' \in [Tenants -> [Everyone -> Roles \union {None}]]
      /\ member'[t][u] = role /\ role # None
      /\ \A p \in Tenants, v \in Everyone :
           p # t \/ v # u => member'[p][v] = member[p][v]
  BY <1>1, <1>2
<1> QED
  BY <1>3 DEF IsMember

(* Types, and what only grows, one action at a time.                       *)
LEMMA StepTyped ==
  ASSUME Backed, [Next]_vars
  PROVE  TypeOK' /\ Grows
<1> USE DEF Backed
<1>0. CASE UNCHANGED vars
  BY <1>0 DEF vars, files, TypeOK, Grows, IsMember
<1>a. ASSUME NEW th \in Threads, Accept(th)
      PROVE  requests' \in 0..MaxRequests
  BY <1>a, SMT DEF Accept, TypeOK
<1>m. member' = member => \A t \in Tenants, u \in Users : IsMember(t, u) => IsMember(t, u)'
  BY DEF IsMember
<1>1. ASSUME NEW th \in Threads, Begin(th)
      PROVE  TypeOK' /\ Grows
  <2>1. ASSUME NEW u \in Users, NEW asked \in Tenants \union {None}, BeginSignIn(th, u, asked)
        PROVE  TypeOK' /\ Grows
    BY <1>a, <1>m, <2>1, BeginSignInFacts DEF BeginSignIn, files, TypeOK, Grows
  <2>2. ASSUME NEW u \in Users, NEW asked \in Tenants \union {None}, Refresh(th, u, asked)
        PROVE  TypeOK' /\ Grows
    <3>1. Accept(th) /\ UNCHANGED <<files, ghosts>>
      BY <2>2 DEF Refresh
    <3> QED
      BY <1>a, <1>m, <2>2, <3>1, RefreshFacts DEF files, ghosts, TypeOK, Grows
  <2>3. ASSUME NEW u \in Everyone, NEW o \in Orgs, CreateTenant(th, u, o)
        PROVE  TypeOK' /\ Grows
    BY <1>a, <1>m, <2>3, CreateTenantFacts DEF CreateTenant, Tenants, ghosts, TypeOK, Grows
  <2>4. ASSUME NEW o \in Orgs, NEW u \in Users, NEW role \in Roles, BeginInvite(th, o, u, role)
        PROVE  TypeOK' /\ Grows
    BY <1>a, <1>m, <2>4, BeginInviteFacts DEF BeginInvite, files, ghosts, TypeOK, Grows
  <2> QED
    BY <1>1, <2>1, <2>2, <2>3, <2>4 DEF Begin
<1>2. ASSUME NEW th \in Threads, SignInStep(th)
      PROVE  TypeOK' /\ Grows
  <2>0. Warrant(req[th])
    BY DEF Warrants
  <2>1. CASE FindOrCreate(th)
    BY <1>m, <2>1, StageFacts, FindOrCreateFacts
    DEF FindOrCreate, SignInStages, Works, ghosts, TypeOK, Grows
  <2>2. CASE EnsurePersonalTenant(th)
    BY <1>m, <2>2, StageFacts, EnsureFacts
    DEF EnsurePersonalTenant, SignInStages, Works, ghosts, TypeOK, Grows
  <2>3. CASE OwnPersonalTenant(th)
    <3>1. User(th) \in Users /\ User(th) \in Tenants /\ "admin" \in Roles
      BY <2>3, StageFacts DEF OwnPersonalTenant, SignInStages, Roles
    <3>2. /\ member' \in [Tenants -> [Everyone -> Roles \union {None}]]
          /\ \A t \in Tenants, u \in Users : IsMember(t, u) => IsMember(t, u)'
      BY <2>3, <3>1, AddMemberFacts DEF OwnPersonalTenant
    <3> QED
      BY <2>3, <3>2, OwnFacts, FinishFacts DEF OwnPersonalTenant, Works, ghosts, TypeOK, Grows
  <2>4. CASE ListInvites(th)
    BY <1>m, <2>4, ListInvitesFacts DEF ListInvites, Works, files, ghosts, TypeOK, Grows
  <2>5. CASE ReadInvite(th)
    BY <1>m, <2>5, ReadInviteFacts, FinishFacts DEF ReadInvite, Works, files, ghosts, TypeOK, Grows
  <2>6. CASE UnlinkInvite(th)
    <3>1. invite' \in [Orgs -> [Users -> Roles \union {None}]]
      BY <2>6 DEF UnlinkInvite, TypeOK
    <3> QED
      BY <1>m, <2>6, <3>1, UnlinkInviteFacts DEF UnlinkInvite, Works, ghosts, TypeOK, Grows
  <2>7. CASE InvitesRead(th)
    BY <1>m, <2>7, InvitesReadFacts DEF InvitesRead, Works, files, ghosts, TypeOK, Grows
  <2>8. CASE CheckMembership(th)
    BY <1>m, <2>8, CheckMembershipFacts DEF CheckMembership, Works, files, ghosts, TypeOK, Grows
  <2>9. CASE JoinOrg(th)
    <3>1. /\ req[th] \in SignInRequest /\ User(th) \in Users
          /\ req[th].got \in [Orgs -> Roles \union {None}]
      BY <2>9, StageFacts DEF JoinOrg, At, SignInStages
    <3>2. req[th].at \in Orgs /\ req[th].got[req[th].at] \in Roles /\ req[th].at \in Tenants
      BY <2>0, <2>9, <3>1 DEF JoinOrg, At, Warrant, Tenants
    <3>3. /\ member' \in [Tenants -> [Everyone -> Roles \union {None}]]
          /\ \A t \in Tenants, u \in Users : IsMember(t, u) => IsMember(t, u)'
      BY <2>9, <3>1, <3>2, AddMemberFacts DEF JoinOrg
    <3> QED
      BY <2>9, <3>2, <3>3, JoinOrgFacts DEF JoinOrg, Works, ghosts, TypeOK, Grows
  <2>10. CASE ListMemberships(th)
    BY <1>m, <2>10, ListMembershipsFacts, FinishFacts
    DEF ListMemberships, Works, files, ghosts, TypeOK, Grows
  <2>11. CASE IssueTokens(th)
    BY <1>m, <2>11, StageFacts, FinishFacts
    DEF IssueTokens, At, SignInStages, ghosts, TypeOK, Grows
  <2> QED
    BY <1>2, <2>1, <2>2, <2>3, <2>4, <2>5, <2>6, <2>7, <2>8, <2>9, <2>10, <2>11 DEF SignInStep
<1>3. ASSUME NEW th \in Threads,
             AnswerRefresh(th) \/ OwnOrg(th) \/ FindInvitee(th) \/ AddInvitee(th)
               \/ WriteInvite(th) \/ Crash(th)
      PROVE  TypeOK' /\ Grows
  <2>1. CASE AnswerRefresh(th)
    BY <1>m, <2>1, FinishFacts DEF AnswerRefresh, files, ghosts, TypeOK, Grows
  <2>2. CASE OwnOrg(th)
    <3>1. req[th].org \in Tenants /\ User(th) \in Everyone /\ "admin" \in Roles
      BY <2>2, Kinds DEF OwnOrg, At, TypeOK, CreateRequest, User, Tenants, Roles
    <3>2. /\ member' \in [Tenants -> [Everyone -> Roles \union {None}]]
          /\ \A t \in Tenants, u \in Users : IsMember(t, u) => IsMember(t, u)'
      BY <2>2, <3>1, AddMemberFacts DEF OwnOrg
    <3> QED
      BY <2>2, <3>2, FinishFacts DEF OwnOrg, ghosts, TypeOK, Grows
  <2>3. CASE FindInvitee(th)
    BY <1>m, <2>3, FindInviteeFacts, FinishFacts DEF FindInvitee, files, ghosts, TypeOK, Grows
  <2>4. CASE AddInvitee(th)
    <3>1. req[th].org \in Orgs /\ req[th].org \in Tenants /\ User(th) \in Users /\ req[th].role \in Roles
      BY <2>4, Kinds DEF AddInvitee, At, TypeOK, InviteRequest, User, Tenants
    <3>a. AddMember(req[th].org, User(th), req[th].role) /\ User(th) \in Everyone
      BY <2>4, <3>1 DEF AddInvitee
    <3>b. promised' \in SUBSET (Orgs \X Users)
      BY <2>4, <3>1 DEF AddInvitee, TypeOK
    <3>2. /\ member' \in [Tenants -> [Everyone -> Roles \union {None}]]
          /\ \A t \in Tenants, u \in Users : IsMember(t, u) => IsMember(t, u)'
      BY <3>1, <3>a, AddMemberFacts
    <3> QED
      BY <2>4, <3>2, <3>b, FinishFacts DEF AddInvitee, TypeOK, Grows
  <2>5. CASE WriteInvite(th)
    <3>1. req[th].org \in Orgs /\ User(th) \in Users /\ req[th].role \in Roles
      BY <2>5, Kinds DEF WriteInvite, At, TypeOK, InviteRequest, User
    <3>2. invite' \in [Orgs -> [Users -> Roles \union {None}]]
      BY <2>5, <3>1 DEF WriteInvite, TypeOK
    <3>3. promised' \in SUBSET (Orgs \X Users)
      BY <2>5, <3>1 DEF WriteInvite, TypeOK
    <3> QED
      BY <1>m, <2>5, <3>2, <3>3, FinishFacts DEF WriteInvite, TypeOK, Grows
  <2>6. CASE Crash(th)
    <3>1. req[th] \in SignInRequest => User(th) \in Users
      BY DEF SignInRequest, User
    <3> QED
      BY <1>m, <2>6, <3>1, FinishFacts DEF Crash, files, TypeOK, Grows
  <2> QED
    BY <1>3, <2>1, <2>2, <2>3, <2>4, <2>5, <2>6
<1> QED
  BY <1>0, <1>1, <1>2, <1>3 DEF Next

-----------------------------------------------------------------------------
(* What a request has made sure of stays so while others work.             *)
LEMMA WarrantKept ==
  ASSUME TypeOK, Grows, NEW th \in Threads, Warrant(req[th]), req'[th] = req[th]
  PROVE  Warrant(req[th])'
<1>1. /\ req[th] \in SignInRequest => req[th].user \in Users
      /\ req[th] \in RefreshRequest => req[th].user \in Users
  BY DEF SignInRequest, RefreshRequest
<1> QED
  BY <1>1 DEF Warrant, Grows

(* Memberships, invitations and tokens rest on what is there, and every    *)
(* request makes sure of what its next step rests on.                      *)
LEMMA StepBacked ==
  ASSUME Backed, [Next]_vars
  PROVE  Backed'
<1> USE DEF Backed
<1>0. TypeOK' /\ Grows
  BY StepTyped
<1>k. ASSUME NEW th \in Threads, Others(th), Warrant(req[th])'
      PROVE  Warrants'
  BY <1>0, <1>k, WarrantKept DEF Warrants, Others
<1>f. ASSUME NEW th \in Threads, Finish(th)
      PROVE  Warrants'
  <2>1. req'[th].pc = "idle" /\ Others(th)
    BY <1>f, FinishFacts DEF Others
  <2>2. Warrant(req[th])'
    <3>1. req'[th] \in Requests
      BY <1>0 DEF TypeOK
    <3> QED
      BY <2>1, <3>1, Kinds DEF Warrant, SignInStages
  <2> QED
    BY <1>k, <2>1, <2>2
<1>r. refresh' = refresh => RefreshBacked'
  BY <1>0 DEF RefreshBacked, Grows, TypeOK
<1>m. member' = member /\ invite' = invite => RecordsAreBacked'
  BY <1>0 DEF RecordsAreBacked, IsMember, Grows
<1>u. CASE UNCHANGED vars
  BY <1>u, <1>0, <1>m, <1>r, WarrantKept DEF vars, files, Warrants
<1>j. ASSUME NEW t \in tenants, NEW u \in users \union {NoUser}, u = NoUser => t \in Orgs,
             NEW role \in Roles, AddMember(t, u, role), invite' = invite
      PROVE  RecordsAreBacked'
  <2>1. t \in Tenants /\ u \in Everyone
    BY DEF TypeOK
  <2> QED
    BY <1>0, <1>j, <2>1, AddMemberFacts DEF RecordsAreBacked, IsMember, Grows
<1>1. ASSUME NEW th \in Threads, Begin(th)
      PROVE  Backed'
  <2>1. ASSUME NEW u \in Users, NEW asked \in Tenants \union {None}, BeginSignIn(th, u, asked)
        PROVE  Backed'
    <3>1. Warrant(req[th])'
      <4>1. req'[th] \in Requests
        BY <1>0 DEF TypeOK
      <4> QED
        BY <2>1, <4>1, BeginSignInFacts, Kinds DEF BeginSignIn, files, Warrant, Nobody, SignInStages
    <3> QED
      BY <1>0, <1>k, <1>m, <1>r, <2>1, <3>1, BeginSignInFacts DEF BeginSignIn, files
  <2>2. ASSUME NEW u \in Users, NEW asked \in Tenants \union {None}, Refresh(th, u, asked)
        PROVE  Backed'
    <3>1. u \in refresh /\ UNCHANGED <<files, ghosts>>
      BY <2>2 DEF Refresh
    <3>2. MembershipsOf(u) # {}
      BY <3>1 DEF RefreshBacked, MembershipsOf
    <3>3. CASE req' = req
      BY <1>0, <1>m, <1>r, <3>1, <3>3, WarrantKept DEF files, Warrants
    <3>4. CASE /\ req'[th] \in RefreshRequest
               /\ req'[th].user = u /\ req'[th].asked = asked
               /\ req'[th].pc = "refreshed" /\ req'[th].tenant \in ActiveTenants(u, asked)
      <4>1. /\ req'[th].tenant \in Tenants /\ IsMember(req'[th].tenant, u)
            /\ asked \in {None, req'[th].tenant}
        BY <3>4 DEF ActiveTenants, MembershipsOf, Tenants
      <4>2. req'[th] \in Requests
        BY <1>0 DEF TypeOK
      <4>3. member'[req'[th].tenant][u] # None
        BY <1>0, <4>1 DEF Grows, IsMember
      <4>4. Warrant(req[th])'
        BY <3>4, <4>1, <4>2, <4>3, Kinds DEF Warrant, SignInStages, IsMember
      <4> QED
        BY <1>0, <1>k, <1>m, <1>r, <2>2, <3>1, <4>4, RefreshFacts DEF files
    <3> QED
      BY <2>2, <3>2, <3>3, <3>4, RefreshFacts
  <2>3. ASSUME NEW u \in Everyone, NEW o \in Orgs, CreateTenant(th, u, o)
        PROVE  Backed'
    <3>1. Warrant(req[th])'
      <4>1. req'[th] \in Requests
        BY <1>0 DEF TypeOK
      <4>2. u \in users' \union {NoUser} /\ o \in tenants'
        BY <1>0, <2>3 DEF CreateTenant, Callers, RefreshBacked, Grows
      <4> QED
        BY <2>3, <4>1, <4>2, CreateTenantFacts, Kinds DEF Warrant, SignInStages
    <3> QED
      BY <1>0, <1>k, <1>m, <1>r, <2>3, <3>1, CreateTenantFacts DEF CreateTenant
  <2>4. ASSUME NEW o \in Orgs, NEW u \in Users, NEW role \in Roles, BeginInvite(th, o, u, role)
        PROVE  Backed'
    <3>1. o \in tenants
      BY <2>4 DEF BeginInvite, HasAdmin, RecordsAreBacked, IsMember, Tenants, Roles
    <3>2. Warrant(req[th])'
      <4>1. req'[th] \in Requests
        BY <1>0 DEF TypeOK
      <4> QED
        BY <1>0, <2>4, <3>1, <4>1, BeginInviteFacts, Kinds DEF Warrant, SignInStages, Grows
    <3> QED
      BY <1>0, <1>k, <1>m, <1>r, <2>4, <3>2, BeginInviteFacts DEF BeginInvite, files
  <2> QED
    BY <1>1, <2>1, <2>2, <2>3, <2>4 DEF Begin
<1>2. ASSUME NEW th \in Threads, SignInStep(th)
      PROVE  Backed'
  <2>0. Warrant(req[th])
    BY DEF Warrants
  <2>1. CASE FindOrCreate(th)
    <3>1. Warrant(req[th])'
      <4>1. User(th) \in users'
        BY <2>1, StageFacts DEF FindOrCreate, SignInStages
      <4>2. /\ req[th] \in SignInRequest /\ req'[th] \in Requests /\ req'[th] \in SignInRequest
            /\ req'[th].user = req[th].user /\ req'[th].got = req[th].got
            /\ req'[th].pc \in {"ensure", "list"}
        BY <1>0, <2>1, FindOrCreateFacts DEF Works, Holds, SignIn
      <4>3. \A o \in Orgs : req'[th].got[o] # None => o \in tenants'
        BY <1>0, <2>0, <4>2 DEF Warrant, Grows
      <4> QED
        BY <4>1, <4>2, <4>3, SignInOnly DEF Warrant, User
    <3> QED
      BY <1>0, <1>k, <1>m, <1>r, <2>1, <3>1, FindOrCreateFacts DEF FindOrCreate, Works
  <2>2. CASE EnsurePersonalTenant(th)
    <3>0. /\ SignIn(th) /\ Holds(th)
          /\ req[th].user \in users' /\ req[th].user \in tenants'
          /\ \A p \in Orgs : req[th].got[p] # None => p \in tenants'
          /\ At(th, "ensureHome") => \A p \in Orgs : req[th].got[p] = None
      BY <1>0, <2>0, <2>2, EnsureFacts
      DEF EnsurePersonalTenant, At, Warrant, Grows, SignIn, User
    <3>1. Warrant(req[th])'
      <4>1. CASE Works(th, "own") /\ At(th, "ensure")
        BY <1>0, <3>0, <4>1, Kinds DEF Warrant, Works, Holds, SignInStages, TypeOK
      <4>2. CASE Works(th, "ownHome") /\ At(th, "ensureHome")
        BY <1>0, <3>0, <4>2, Kinds DEF Warrant, Works, Holds, SignInStages, TypeOK
      <4> QED
        BY <2>2, <4>1, <4>2, EnsureFacts DEF EnsurePersonalTenant, At
    <3> QED
      BY <1>0, <1>k, <1>m, <1>r, <2>2, <3>1, EnsureFacts DEF EnsurePersonalTenant, Works
  <2>3. CASE OwnPersonalTenant(th)
    <3>1. /\ req[th] \in SignInRequest
          /\ User(th) \in users /\ User(th) \in tenants /\ User(th) \in Users /\ "admin" \in Roles
      BY <2>0, <2>3, OwnFacts, StageFacts
      DEF OwnPersonalTenant, SignIn, SignInStages, Warrant, User, Roles
    <3>2. RecordsAreBacked'
      <4>1. User(th) # NoUser
        BY <3>1
      <4> QED
        BY <1>j, <2>3, <3>1, <4>1 DEF OwnPersonalTenant
    <3>3. member'[User(th)][User(th)] # None
      <4>1. User(th) \in Tenants /\ User(th) \in Everyone
        BY <3>1 DEF Tenants
      <4> QED
        BY <2>3, <3>1, <4>1, AddMemberFacts DEF OwnPersonalTenant
    <3>4. CASE Works(th, "list") /\ Holds(th)
      <4>1. Warrant(req[th])'
        BY <1>0, <2>0, <3>1, <3>4, Kinds DEF Warrant, Works, Holds, Grows, User, SignInStages, TypeOK
      <4> QED
        BY <1>0, <1>k, <1>r, <2>3, <3>2, <3>4, <4>1 DEF OwnPersonalTenant, Works
    <3>5. CASE /\ Works(th, "session") /\ Holds(th) /\ At(th, "ownHome")
               /\ req'[th].tenant = User(th) /\ req[th].asked \in {None, User(th)}
      <4>0. /\ req[th].user \in users' /\ req[th].user \in Tenants
            /\ \A p \in Orgs : req[th].got[p] = None
        BY <1>0, <2>0, <3>1, <3>5 DEF Warrant, Grows, At, User, Tenants
      <4>1. Warrant(req[th])'
        BY <1>0, <3>3, <3>5, <4>0, Kinds
        DEF Warrant, IsMember, Works, Holds, User, SignInStages, TypeOK
      <4> QED
        BY <1>0, <1>k, <1>r, <2>3, <3>2, <3>5, <4>1 DEF OwnPersonalTenant, Works
    <3> QED
      BY <1>0, <1>f, <1>r, <2>3, <3>2, <3>4, <3>5, OwnFacts DEF OwnPersonalTenant
  <2>4. CASE ListInvites(th)
    <3>1. Warrant(req[th])'
      <4>1. /\ req[th] \in SignInRequest /\ req'[th] \in Requests /\ req'[th] \in SignInRequest
            /\ req'[th].user = req[th].user /\ req'[th].got = req[th].got
            /\ req[th].pc = "list" /\ req'[th].pc = "read"
        BY <1>0, <2>4, ListInvitesFacts DEF Works, SignIn, ListInvites, At
      <4>2. req'[th].user \in users' /\ \A o \in Orgs : req'[th].got[o] # None => o \in tenants'
        BY <1>0, <2>0, <4>1 DEF Warrant, Grows
      <4> QED
        BY <4>1, <4>2, SignInOnly DEF Warrant
    <3> QED
      BY <1>0, <1>k, <1>m, <1>r, <2>4, <3>1, ListInvitesFacts DEF ListInvites, Works, files
  <2>5. CASE ReadInvite(th)
    <3>1. CASE Finish(th)
      BY <1>0, <1>f, <1>m, <1>r, <2>5, <3>1 DEF ReadInvite, files
    <3>2. ASSUME NEW o \in req[th].todo,
                 Works(th, "unlink"), invite[o][User(th)] # None, req'[th].at = o,
                 req'[th].got[o] = invite[o][User(th)],
                 \A p \in Orgs \ {o} : req'[th].got[p] = req[th].got[p]
          PROVE  Backed'
      <4>1. o \in Orgs /\ User(th) \in Users
        BY <2>5, StageFacts DEF ReadInvite, At, SignInStages
      <4>2. o \in tenants
        BY <3>2, <4>1 DEF RecordsAreBacked
      <4>3. \A p \in Orgs : req'[th].got[p] # None => p \in tenants'
        BY <1>0, <2>0, <2>5, <3>2, <4>2, ReadInviteFacts DEF Warrant, SignIn, Grows
      <4>4. req[th].user \in users'
        BY <1>0, <2>0, <2>5, ReadInviteFacts DEF ReadInvite, At, Warrant, SignIn, Grows
      <4>5. Warrant(req[th])'
        BY <1>0, <3>2, <4>1, <4>3, <4>4, Kinds DEF Warrant, Works, SignInStages, TypeOK
      <4> QED
        BY <1>0, <1>k, <1>m, <1>r, <2>5, <3>2, <4>5 DEF ReadInvite, Works, files
    <3> QED
      BY <2>5, <3>1, <3>2, ReadInviteFacts
  <2>6. CASE UnlinkInvite(th)
    <3>1. Warrant(req[th])'
      <4>1. /\ req[th] \in SignInRequest /\ req'[th] \in Requests /\ req'[th] \in SignInRequest
            /\ req'[th].user = req[th].user /\ req'[th].got = req[th].got
            /\ req[th].pc = "unlink" /\ req'[th].pc = "read"
        BY <1>0, <2>6, UnlinkInviteFacts DEF Works, SignIn, UnlinkInvite, At
      <4>2. req'[th].user \in users' /\ \A o \in Orgs : req'[th].got[o] # None => o \in tenants'
        BY <1>0, <2>0, <4>1 DEF Warrant, Grows
      <4> QED
        BY <4>1, <4>2, SignInOnly DEF Warrant
    <3>2. \A o \in Orgs, u \in Users : invite'[o][u] # None => invite[o][u] # None
      BY <2>6 DEF UnlinkInvite, TypeOK
    <3>3. RecordsAreBacked'
      BY <1>0, <2>6, <3>2 DEF UnlinkInvite, RecordsAreBacked, IsMember, Grows
    <3> QED
      BY <1>0, <1>k, <1>r, <2>6, <3>1, <3>3, UnlinkInviteFacts DEF UnlinkInvite, Works
  <2>7. CASE InvitesRead(th)
    <3>1. Warrant(req[th])'
      <4>1. /\ req[th] \in SignInRequest /\ req'[th] \in Requests /\ req'[th] \in SignInRequest
            /\ req'[th].user = req[th].user /\ req'[th].got = req[th].got
            /\ req[th].pc = "read" /\ req'[th].pc = "join"
        BY <1>0, <2>7, InvitesReadFacts DEF Works, Holds, SignIn, InvitesRead, At
      <4>2. req'[th].user \in users' /\ \A o \in Orgs : req'[th].got[o] # None => o \in tenants'
        BY <1>0, <2>0, <4>1 DEF Warrant, Grows
      <4> QED
        BY <4>1, <4>2, SignInOnly DEF Warrant
    <3> QED
      BY <1>0, <1>k, <1>m, <1>r, <2>7, <3>1, InvitesReadFacts DEF InvitesRead, Works, files
  <2>8. CASE CheckMembership(th)
    <3>0. req[th].user \in users' /\ \A p \in Orgs : req[th].got[p] # None => p \in tenants'
      BY <1>0, <2>0, <2>8, CheckMembershipFacts DEF CheckMembership, At, Warrant, SignIn, Grows
    <3>1. Warrant(req[th])'
      <4>1. ASSUME NEW o \in Orgs, Works(th, "join"), req'[th].got[o] = None,
                   \A p \in Orgs \ {o} : req'[th].got[p] = req[th].got[p]
            PROVE  Warrant(req[th])'
        BY <1>0, <3>0, <4>1, Kinds DEF Warrant, Works, SignInStages, TypeOK
      <4>2. ASSUME NEW o \in Orgs, req[th].got[o] # None, Works(th, "add"), req'[th].at = o,
                   req'[th].got = req[th].got
            PROVE  Warrant(req[th])'
        BY <1>0, <3>0, <4>2, Kinds DEF Warrant, Works, SignInStages, TypeOK
      <4> QED
        BY <2>8, <4>1, <4>2, CheckMembershipFacts
    <3> QED
      BY <1>0, <1>k, <1>m, <1>r, <2>8, <3>1, CheckMembershipFacts DEF CheckMembership, Works, files
  <2>9. CASE JoinOrg(th)
    <3>1. /\ req[th] \in SignInRequest /\ User(th) \in Users
          /\ req[th].got \in [Orgs -> Roles \union {None}]
      BY <2>9, StageFacts DEF JoinOrg, At, SignInStages
    <3>2. /\ req[th].at \in Orgs /\ req[th].got[req[th].at] \in Roles
          /\ req[th].at \in tenants /\ User(th) \in users
      BY <2>0, <2>9, <3>1 DEF JoinOrg, At, Warrant, User
    <3>3. RecordsAreBacked'
      BY <1>j, <2>9, <3>2 DEF JoinOrg
    <3>4. Warrant(req[th])'
      <4>1. /\ req'[th] \in Requests /\ req'[th] \in SignInRequest /\ req'[th].pc = "join"
            /\ req'[th].user = req[th].user /\ req'[th].got[req[th].at] = None
            /\ \A p \in Orgs \ {req[th].at} : req'[th].got[p] = req[th].got[p]
        BY <1>0, <2>9, <3>2, JoinOrgFacts DEF Works, TypeOK
      <4>2. req[th].user \in users' /\ \A o \in Orgs : req[th].got[o] # None => o \in tenants'
        BY <1>0, <2>0, <3>1, <3>2 DEF Warrant, Grows, User
      <4>3. \A o \in Orgs : req'[th].got[o] # None => o \in tenants'
        BY <4>1, <4>2
      <4> QED
        BY <4>1, <4>2, <4>3, SignInOnly DEF Warrant
    <3> QED
      BY <1>0, <1>k, <1>r, <2>9, <3>2, <3>3, <3>4, JoinOrgFacts DEF JoinOrg, Works
  <2>10. CASE ListMemberships(th)
    <3>0. req[th].user \in users' /\ \A p \in Orgs : req[th].got[p] = None
      BY <1>0, <2>0, <2>10, ListMembershipsFacts
      DEF ListMemberships, At, Warrant, SignIn, Grows, Nobody
    <3>1. CASE Works(th, "ensureHome") /\ Holds(th)
      <4>1. Warrant(req[th])'
        BY <1>0, <3>0, <3>1, Kinds DEF Warrant, Works, Holds, SignInStages, TypeOK
      <4> QED
        BY <1>0, <1>k, <1>m, <1>r, <2>10, <3>1, <4>1 DEF ListMemberships, Works, files
    <3>2. CASE /\ Works(th, "session") /\ Holds(th)
               /\ req'[th].tenant \in ActiveTenants(User(th), req[th].asked)
      <4>1. /\ req'[th].tenant \in Tenants /\ IsMember(req'[th].tenant, User(th))
            /\ req[th].asked \in {None, req'[th].tenant} /\ User(th) \in Users
        BY <2>10, <3>2, StageFacts
        DEF ListMemberships, At, SignInStages, ActiveTenants, MembershipsOf, Tenants
      <4>2. member'[req'[th].tenant][User(th)] # None
        BY <2>10, <4>1 DEF ListMemberships, files, IsMember
      <4>3. Warrant(req[th])'
        BY <1>0, <3>0, <3>2, <4>1, <4>2, Kinds
        DEF Warrant, IsMember, Works, Holds, User, SignInStages, TypeOK
      <4> QED
        BY <1>0, <1>k, <1>m, <1>r, <2>10, <3>2, <4>3 DEF ListMemberships, Works, files
    <3> QED
      BY <1>0, <1>f, <1>m, <1>r, <2>10, <3>1, <3>2, ListMembershipsFacts DEF ListMemberships, files
  <2>11. CASE IssueTokens(th)
    <3>1. /\ req[th] \in SignInRequest /\ User(th) \in users
          /\ req[th].tenant \in Tenants /\ IsMember(req[th].tenant, User(th))
      BY <2>0, <2>11, StageFacts DEF IssueTokens, At, SignInStages, Warrant, User
    <3>2. RefreshBacked'
      BY <2>11, <3>1 DEF IssueTokens, RefreshBacked, IsMember
    <3> QED
      BY <1>0, <1>f, <1>m, <2>11, <3>2 DEF IssueTokens
  <2> QED
    BY <1>2, <2>1, <2>2, <2>3, <2>4, <2>5, <2>6, <2>7, <2>8, <2>9, <2>10, <2>11 DEF SignInStep
<1>3. ASSUME NEW th \in Threads,
             AnswerRefresh(th) \/ OwnOrg(th) \/ FindInvitee(th) \/ AddInvitee(th)
               \/ WriteInvite(th) \/ Crash(th)
      PROVE  Backed'
  <2>0. Warrant(req[th])
    BY DEF Warrants
  <2>1. CASE AnswerRefresh(th) \/ Crash(th)
    BY <1>0, <1>f, <1>m, <1>r, <2>1 DEF AnswerRefresh, Crash, files
  <2>2. CASE OwnOrg(th)
    <3>1. /\ req[th].org \in tenants /\ req[th].org \in Orgs
          /\ User(th) \in users \union {NoUser} /\ "admin" \in Roles
      BY <2>0, <2>2, Kinds DEF OwnOrg, At, TypeOK, Warrant, User, Roles, CreateRequest
    <3> QED
      BY <1>0, <1>f, <1>j, <1>r, <2>2, <3>1 DEF OwnOrg
  <2>3. CASE FindInvitee(th)
    <3>1. CASE Finish(th)
      BY <1>0, <1>f, <1>m, <1>r, <2>3, <3>1 DEF FindInvitee, files
    <3>2. CASE /\ req' \in [Threads -> Requests] /\ Others(th)
               /\ req'[th] \in InviteRequest /\ req'[th].org = req[th].org
               /\ req'[th].pc = "addMember" => User(th) \in users /\ req'[th].user = User(th)
      <4>1. req[th].org \in tenants'
        BY <1>0, <2>0, <2>3, FindInviteeFacts DEF Warrant, Grows
      <4>2. req'[th].pc = "addMember" => req'[th].user \in users'
        BY <1>0, <3>2 DEF Grows
      <4>3. Warrant(req[th])'
        BY <1>0, <3>2, <4>1, <4>2, Kinds DEF Warrant, SignInStages, TypeOK
      <4> QED
        BY <1>0, <1>k, <1>m, <1>r, <2>3, <3>2, <4>3 DEF FindInvitee, files
    <3> QED
      BY <2>3, <3>1, <3>2, FindInviteeFacts
  <2>4. CASE AddInvitee(th)
    <3>1. /\ req[th].org \in tenants /\ req[th].org \in Orgs
          /\ User(th) \in users /\ req[th].role \in Roles
      BY <2>0, <2>4, Kinds DEF AddInvitee, At, TypeOK, Warrant, User, InviteRequest
    <3>2. RecordsAreBacked'
      BY <1>j, <2>4, <3>1 DEF AddInvitee
    <3> QED
      BY <1>0, <1>f, <1>r, <2>4, <3>2 DEF AddInvitee
  <2>5. CASE WriteInvite(th)
    <3>1. req[th].org \in tenants /\ req[th].org \in Orgs
      BY <2>0, <2>5, Kinds DEF WriteInvite, At, TypeOK, Warrant, InviteRequest
    <3>2. \A o \in Orgs, u \in Users : invite'[o][u] # None => invite[o][u] # None \/ o = req[th].org
      BY <2>5 DEF WriteInvite, TypeOK
    <3>3. RecordsAreBacked'
      BY <1>0, <2>5, <3>1, <3>2 DEF WriteInvite, RecordsAreBacked, IsMember, Grows
    <3> QED
      BY <1>0, <1>f, <1>r, <2>5, <3>3 DEF WriteInvite
  <2> QED
    BY <1>3, <2>1, <2>2, <2>3, <2>4, <2>5
<1> QED
  BY <1>1, <1>2, <1>3, <1>u DEF Next

-----------------------------------------------------------------------------
(* How the step of one thread leaves a user in peace.  It is not, before   *)
(* or after, a sign-in of this user, and takes nothing of theirs away.     *)
LEMMA Aside ==
  ASSUME Backed, Backed', Grows, NEW th \in Threads, Others(th), NEW u \in Users, InPeace(u),
         ~SignInOf(th, u), ~SignInOf(th, u)',
         u \in users' => u \in users, u \in refresh' => u \in refresh,
         req'[th].pc = "refreshed" /\ req'[th].user = u /\ req'[th].asked = None =>
           req'[th].tenant = u,
         \A o \in Orgs : invite[o][u] # None => invite'[o][u] # None,
         \A o \in Orgs : <<o, u>> \in promised' =>
           <<o, u>> \in promised \/ IsMember(o, u)' \/ invite'[o][u] # None
  PROVE  InPeace(u)'
<1>1. \A ti \in Threads : /\ SignInOf(ti, u)' <=> SignInOf(ti, u)
                          /\ SignInOf(ti, u) => req'[ti] = req[ti]
  BY DEF Others, SignInOf, SignIn, User
<1>2. IsMember(u, u) => IsMember(u, u)'
  BY DEF Grows, Tenants
<1>3. Alone(u)'
  BY <1>1 DEF InPeace, Alone
<1>4. Housed(u)' /\ Settled(u)' /\ Returning(u)'
  BY <1>1, <1>2 DEF InPeace, Housed, Settling, Settled, Returning
<1>5. AtHome(u)'
  <2>1. req'[th].pc = "session" => req'[th] \in SignInRequest
    <3>1. req'[th] \in Requests
      BY DEF Backed, TypeOK
    <3> QED
      BY <3>1, Kinds DEF SignInStages
  <2>2. req'[th].pc = "session" => req'[th].user # u
    BY <2>1 DEF SignInOf, SignIn, User
  <2> QED
    BY <2>2 DEF InPeace, AtHome, Others, User
<1>6. Listing(u)'
  <2>1. ASSUME NEW ti \in Threads, SignInOf(ti, u)', NEW o \in req'[ti].todo,
               req'[ti].pc = "read" \/ (req'[ti].pc = "unlink" /\ req'[ti].at # o)
        PROVE  invite'[o][u] # None
    <3>1. SignInOf(ti, u) /\ req'[ti] = req[ti]
      BY <1>1, <2>1
    <3>2. o \in Orgs
      BY <3>1, <2>1 DEF SignInOf, SignIn, SignInRequest
    <3> QED
      BY <2>1, <3>1, <3>2 DEF InPeace, Listing
  <2> QED
    BY <2>1 DEF Listing
<1>7. Promises(u)'
  <2>1. ASSUME NEW o \in Orgs, Kept(o, u)
        PROVE  Kept(o, u)'
    <3>1. IsMember(o, u) => IsMember(o, u)'
      BY DEF Grows, Tenants
    <3> QED
      BY <1>1, <2>1, <3>1 DEF Kept, SignInOf, SignIn
  <2>2. \A o \in Orgs : IsMember(o, u)' \/ invite'[o][u] # None => Kept(o, u)'
    BY DEF Kept
  <2> QED
    BY <2>1, <2>2 DEF InPeace, Promises
<1> QED
  BY <1>3, <1>4, <1>5, <1>6, <1>7 DEF InPeace

(* It is the user's only sign-in, and has kept what it must.               *)
LEMMA OwnStep ==
  ASSUME Backed', NEW th \in Threads, Others(th), NEW u \in Users, AtHome(u),
         \A ti \in Threads \ {th} : ~SignInOf(ti, u),
         u \in users' => IsMember(u, u)' \/ Settling(th, u)',
         SignInOf(th, u)' /\ req'[th].pc \notin {"create", "ensure", "own"} => IsMember(u, u)',
         u \in refresh' => IsMember(u, u)',
         req'[th].pc \in {"session", "refreshed"} /\ req'[th].user = u /\ req'[th].asked = None =>
           req'[th].tenant = u,
         SignInOf(th, u)' =>
           \A o \in req'[th].todo :
             req'[th].pc = "read" \/ (req'[th].pc = "unlink" /\ req'[th].at # o) =>
               invite'[o][u] # None,
         \A o \in Orgs : <<o, u>> \in promised' => Kept(o, u)'
  PROVE  InPeace(u)'
<1>1. \A ti \in Threads \ {th} : ~SignInOf(ti, u)'
  BY DEF Others, SignInOf, SignIn, User
<1>2. Alone(u)' /\ Housed(u)' /\ Settled(u)' /\ Returning(u)'
  BY <1>1 DEF Alone, Housed, Settled, Returning
<1>3. AtHome(u)'
  BY DEF AtHome, Others, User
<1>4. Listing(u)' /\ Promises(u)'
  BY <1>1 DEF Listing, Promises
<1> QED
  BY <1>2, <1>3, <1>4 DEF InPeace

(* Every step of a sign-in leaves every user in peace who was.             *)
LEMMA SignInKeepsPeace ==
  ASSUME Backed, Backed', Grows, NEW th \in Threads, SignInStep(th), NEW u \in Users, InPeace(u)
  PROVE  InPeace(u)'
<1> USE DEF Backed
<1>0. /\ req[th] \in SignInRequest /\ User(th) \in Users /\ promised' = promised
      /\ req[th].todo \subseteq Orgs /\ req[th].got \in [Orgs -> Roles \union {None}]
  BY StageFacts
  DEF SignInStep, SignInStages, At, ghosts, FindOrCreate, EnsurePersonalTenant, OwnPersonalTenant,
      ListInvites, ReadInvite, UnlinkInvite, InvitesRead, CheckMembership, JoinOrg,
      ListMemberships, IssueTokens
<1>w. Warrant(req[th])
  BY DEF Warrants
<1>1. \/ Finish(th)
      \/ \E label \in SignInStages : Works(th, label)
  <2>1. CASE FindOrCreate(th)
    BY <2>1, FindOrCreateFacts DEF SignInStages
  <2>2. CASE EnsurePersonalTenant(th)
    BY <2>2, EnsureFacts DEF SignInStages
  <2>3. CASE OwnPersonalTenant(th)
    BY <2>3, OwnFacts DEF SignInStages
  <2>4. CASE ListInvites(th) \/ ReadInvite(th) \/ UnlinkInvite(th) \/ InvitesRead(th)
    BY <2>4, ListInvitesFacts, ReadInviteFacts, UnlinkInviteFacts, InvitesReadFacts
    DEF SignInStages
  <2>5. CASE CheckMembership(th)
    BY <2>5, CheckMembershipFacts DEF SignInStages
  <2>6. CASE JoinOrg(th)
    <3>1. req[th].at \in Orgs
      BY <1>0, <1>w, <2>6 DEF Warrant, JoinOrg, At
    <3> QED
      BY <2>6, <3>1, JoinOrgFacts DEF SignInStages
  <2>7. CASE ListMemberships(th)
    BY <2>7, ListMembershipsFacts DEF SignInStages
  <2>8. CASE IssueTokens(th)
    BY <2>8 DEF IssueTokens
  <2> QED
    BY <2>1, <2>2, <2>3, <2>4, <2>5, <2>6, <2>7, <2>8 DEF SignInStep
<1>2. Others(th) /\ (req'[th].pc = "idle" \/ (req'[th] \in SignInRequest /\ req'[th].user = User(th)))
  BY <1>1, FinishFacts DEF Works, Others, User
<1>3. CASE User(th) # u
  <2>1. ~SignInOf(th, u) /\ ~SignInOf(th, u)'
    <3>1. req'[th] \in Requests
      BY DEF TypeOK
    <3> QED
      BY <1>2, <1>3, <3>1, Kinds DEF SignInOf, SignIn, User, SignInStages
  <2>2. (u \in users' => u \in users) /\ (u \in refresh' => u \in refresh)
    BY <1>3 DEF SignInStep, files, FindOrCreate, EnsurePersonalTenant, OwnPersonalTenant, ListInvites,
                ReadInvite, UnlinkInvite, InvitesRead, CheckMembership, JoinOrg, ListMemberships,
                IssueTokens
  <2>3. \A o \in Orgs : invite'[o][u] = invite[o][u]
    <3>1. CASE UnlinkInvite(th)
      BY <1>3, <3>1 DEF UnlinkInvite, TypeOK
    <3>2. CASE UNCHANGED invite
      BY <3>2
    <3> QED
      BY <3>1, <3>2 DEF SignInStep, files, FindOrCreate, EnsurePersonalTenant, OwnPersonalTenant,
                        ListInvites, ReadInvite, InvitesRead, CheckMembership, JoinOrg,
                        ListMemberships, IssueTokens
  <2>4. req'[th].pc # "refreshed"
    <3>1. req'[th] \in SignInRequest => req'[th].pc \in SignInStages
      BY DEF SignInRequest
    <3> QED
      BY <1>2, <3>1 DEF SignInStages
  <2> QED
    BY <1>0, <1>2, <2>1, <2>2, <2>3, <2>4, Aside
<1>4. CASE User(th) = u
  <2>0. /\ SignInOf(th, u) /\ AtHome(u)
        /\ \A ti \in Threads \ {th} : ~SignInOf(ti, u)
        /\ u \in users => IsMember(u, u) \/ req[th].pc \in {"ensure", "own"}
        /\ req[th].pc \notin {"create", "ensure", "own"} => IsMember(u, u)
        /\ u \in refresh => IsMember(u, u)
        /\ IsMember(u, u) => IsMember(u, u)'
        /\ \A o \in req[th].todo :
             req[th].pc = "read" \/ (req[th].pc = "unlink" /\ req[th].at # o) => invite[o][u] # None
    BY <1>0, <1>4 DEF InPeace, SignInOf, SignIn, Alone, Housed, Settling, Settled, Returning, Listing,
                      Grows, Tenants
  <2>k. \A o \in Orgs : <<o, u>> \in promised =>
          IsMember(o, u) \/ invite[o][u] # None \/ req[th].got[o] # None
    BY <2>0 DEF InPeace, Promises, Kept, SignInOf, SignIn
  <2>m. \A o \in Orgs : IsMember(o, u) => IsMember(o, u)'
    BY DEF Grows, Tenants
  <2>p. ASSUME \A o \in Orgs : invite[o][u] # None \/ req[th].got[o] # None =>
                 \/ IsMember(o, u)' \/ invite'[o][u] # None
                 \/ req'[th] \in SignInRequest /\ req'[th].user = u /\ req'[th].got[o] # None
        PROVE  \A o \in Orgs : <<o, u>> \in promised' => Kept(o, u)'
    BY <1>0, <2>k, <2>m, <2>p DEF Kept, User
  <2>1. CASE FindOrCreate(th)
    <3>1. CASE At(th, "create") /\ Works(th, "ensure")
      <4>1. Settling(th, u)'
        BY <1>4, <3>1 DEF Settling, SignInOf, SignIn, Works, User
      <4> QED
        BY <1>2, <1>4, <2>0, <2>p, <2>1, <3>1, <4>1, FindOrCreateFacts, OwnStep
        DEF FindOrCreate, Works, Holds, User
    <3>2. CASE At(th, "createAgain") /\ Works(th, "list")
      BY <1>2, <1>4, <2>0, <2>p, <2>1, <3>2, FindOrCreateFacts, OwnStep
      DEF FindOrCreate, At, Works, Holds, User
    <3> QED
      BY <2>1, <3>1, <3>2, FindOrCreateFacts DEF FindOrCreate, At
  <2>2. CASE EnsurePersonalTenant(th)
    <3>1. CASE At(th, "ensure") /\ Works(th, "own")
      <4>1. Settling(th, u)'
        BY <1>4, <3>1 DEF Settling, SignInOf, SignIn, Works, User
      <4> QED
        BY <1>2, <1>4, <2>0, <2>p, <2>2, <3>1, <4>1, EnsureFacts, OwnStep
        DEF EnsurePersonalTenant, Works, Holds, User
    <3>2. CASE At(th, "ensureHome") /\ Works(th, "ownHome")
      BY <1>2, <1>4, <2>0, <2>p, <2>2, <3>2, EnsureFacts, OwnStep
      DEF EnsurePersonalTenant, At, Works, Holds, User
    <3> QED
      BY <2>2, <3>1, <3>2, EnsureFacts DEF EnsurePersonalTenant, At
  <2>3. CASE OwnPersonalTenant(th)
    <3>1. IsMember(u, u)'
      <4>1. u \in Tenants /\ "admin" \in Roles
        BY DEF Tenants, Roles
      <4>2. member'[u][u] # None
        BY <1>4, <2>3, <4>1, AddMemberFacts DEF OwnPersonalTenant
      <4> QED
        BY <4>2 DEF IsMember
    <3>2. CASE Works(th, "list") /\ Holds(th)
      BY <1>2, <1>4, <2>0, <2>p, <2>3, <3>1, <3>2, OwnStep DEF OwnPersonalTenant, Works, Holds, User
    <3>3. CASE Works(th, "session") /\ Holds(th) /\ req'[th].tenant = User(th)
      BY <1>2, <1>4, <2>0, <2>p, <2>3, <3>1, <3>3, OwnStep DEF OwnPersonalTenant, Works, Holds, User
    <3>4. CASE Finish(th) /\ At(th, "ownHome")
      <4>1. \A o \in Orgs : req[th].got[o] = None
        BY <1>0, <1>w, <3>4 DEF Warrant, At
      <4>2. ~SignInOf(th, u)' /\ req'[th].pc = "idle"
        BY <3>4, FinishFacts, Kinds DEF SignInOf, SignIn, SignInStages
      <4> QED
        BY <1>2, <2>0, <2>p, <2>3, <3>1, <4>1, <4>2, OwnStep DEF OwnPersonalTenant
    <3> QED
      BY <2>3, <3>2, <3>3, <3>4, OwnFacts
  <2>4. CASE ListInvites(th)
    <3>1. IsMember(u, u)'
      BY <2>0, <2>4 DEF ListInvites, At
    <3>2. req'[th].todo = {o \in Orgs : invite[o][u] # None} /\ invite' = invite
      BY <1>4, <2>4, ListInvitesFacts DEF ListInvites, files
    <3> QED
      BY <1>2, <1>4, <2>0, <2>p, <2>4, <3>1, <3>2, ListInvitesFacts, OwnStep
      DEF ListInvites, files, Works, User
  <2>5. CASE ReadInvite(th)
    <3>1. IsMember(u, u)' /\ invite' = invite /\ refresh' = refresh
      BY <2>0, <2>5 DEF ReadInvite, At, files
    <3>2. \A o \in req[th].todo : o \in Orgs /\ invite[o][u] # None
      BY <1>0, <2>0, <2>5 DEF ReadInvite, At
    <3>3. ASSUME NEW o \in req[th].todo,
                 Works(th, "unlink"), req'[th].todo = req[th].todo, req'[th].at = o,
                 req'[th].got[o] = invite[o][User(th)],
                 \A p \in Orgs \ {o} : req'[th].got[p] = req[th].got[p]
          PROVE  InPeace(u)'
      <4>1. \A p \in Orgs : req[th].got[p] # None => req'[th].got[p] # None
        BY <1>4, <3>2, <3>3
      <4>2. \A p \in Orgs : <<p, u>> \in promised' => Kept(p, u)'
        BY <1>4, <2>p, <3>1, <3>3, <4>1 DEF Works, User
      <4> QED
        BY <1>2, <1>4, <2>0, <3>1, <3>2, <3>3, <4>2, OwnStep DEF Works, User
    <3> QED
      BY <1>4, <2>5, <3>2, <3>3, ReadInviteFacts
  <2>6. CASE UnlinkInvite(th)
    <3>0. req[th].at \in Orgs /\ req[th].got[req[th].at] # None /\ req[th].pc = "unlink"
      BY <1>0, <1>w, <2>6 DEF UnlinkInvite, At, Warrant
    <3>1. IsMember(u, u)' /\ refresh' = refresh
      BY <2>0, <3>0, <2>6 DEF UnlinkInvite
    <3>2. \A o \in Orgs : o # req[th].at => invite'[o][u] = invite[o][u]
      BY <2>6, <3>0 DEF UnlinkInvite, TypeOK
    <3>3. /\ Works(th, "read") /\ req'[th].got = req[th].got
          /\ req'[th].todo = req[th].todo \ {req[th].at}
      BY <2>6, UnlinkInviteFacts
    <3>4. \A o \in Orgs : <<o, u>> \in promised' => Kept(o, u)'
      BY <1>4, <2>p, <3>0, <3>2, <3>3 DEF Works, User
    <3>5. \A o \in req'[th].todo : invite'[o][u] # None
      BY <1>0, <2>0, <3>0, <3>2, <3>3
    <3> QED
      BY <1>2, <1>4, <2>0, <3>1, <3>3, <3>4, <3>5, OwnStep DEF Works, User
  <2>7. CASE InvitesRead(th)
    BY <1>2, <1>4, <2>0, <2>p, <2>7, InvitesReadFacts, OwnStep
    DEF InvitesRead, At, files, Works, Holds, User
  <2>8. CASE CheckMembership(th)
    <3>1. IsMember(u, u)' /\ invite' = invite /\ refresh' = refresh
      BY <2>0, <2>8 DEF CheckMembership, At, files
    <3>2. \A p \in Orgs : <<p, u>> \in promised' => Kept(p, u)'
      <4>1. ASSUME NEW o \in Orgs, Works(th, "join"), IsMember(o, User(th)),
                   \A p \in Orgs \ {o} : req'[th].got[p] = req[th].got[p]
            PROVE  \A p \in Orgs : <<p, u>> \in promised' => Kept(p, u)'
        BY <1>4, <2>m, <2>p, <3>1, <4>1 DEF Works, User
      <4>2. CASE Works(th, "add") /\ req'[th].got = req[th].got
        BY <1>4, <2>p, <3>1, <4>2 DEF Works, User
      <4> QED
        BY <2>8, <4>1, <4>2, CheckMembershipFacts
    <3>3. req'[th].pc \in {"join", "add"}
      BY <2>8, CheckMembershipFacts DEF Works
    <3> QED
      BY <1>2, <2>0, <3>1, <3>2, <3>3, OwnStep
  <2>9. CASE JoinOrg(th)
    <3>0. /\ req[th].at \in Orgs /\ req[th].at \in Tenants
          /\ req[th].got[req[th].at] \in Roles
      BY <1>0, <1>w, <2>9 DEF JoinOrg, At, Warrant, Tenants
    <3>1. IsMember(u, u)' /\ invite' = invite /\ refresh' = refresh
      BY <2>0, <2>9 DEF JoinOrg, At
    <3>2. member'[req[th].at][u] # None
      BY <1>0, <1>4, <2>9, <3>0, AddMemberFacts DEF JoinOrg
    <3>3. \A p \in Orgs : <<p, u>> \in promised' => Kept(p, u)'
      <4>1. /\ Works(th, "join")
            /\ \A p \in Orgs \ {req[th].at} : req'[th].got[p] = req[th].got[p]
        BY <2>9, <3>0, JoinOrgFacts
      <4>2. \A p \in Orgs : p = req[th].at => member'[p][u] # None
        BY <3>2
      <4> QED
        BY <1>4, <2>p, <3>1, <4>1, <4>2 DEF Works, User, IsMember
    <3>4. req'[th].pc = "join"
      BY <2>9, <3>0, JoinOrgFacts DEF Works
    <3> QED
      BY <1>2, <2>0, <3>1, <3>3, <3>4, OwnStep
  <2>10. CASE ListMemberships(th)
    <3>1. /\ IsMember(u, u) /\ IsMember(u, u)' /\ invite' = invite /\ refresh' = refresh
          /\ \A o \in Orgs : req[th].got[o] = None
      BY <2>0, <2>10 DEF ListMemberships, At, files, Nobody
    <3>2. \A o \in Orgs : <<o, u>> \in promised' => Kept(o, u)'
      BY <2>p, <3>1
    <3>3. CASE Works(th, "ensureHome")
      BY <1>2, <2>0, <3>1, <3>2, <3>3, OwnStep DEF Works
    <3>4. CASE Works(th, "session") /\ req'[th].tenant \in ActiveTenants(User(th), req[th].asked)
      <4>1. req'[th].asked = None => req'[th].tenant = u
        BY <1>4, <3>1, <3>4 DEF Works, ActiveTenants
      <4> QED
        BY <1>2, <2>0, <3>1, <3>2, <3>4, <4>1, OwnStep DEF Works
    <3>5. CASE Finish(th)
      <4>1. ~SignInOf(th, u)' /\ req'[th].pc = "idle"
        BY <3>5, FinishFacts, Kinds DEF SignInOf, SignIn, SignInStages
      <4> QED
        BY <1>2, <2>0, <3>1, <3>2, <4>1, OwnStep
    <3> QED
      BY <2>10, <3>3, <3>4, <3>5, ListMembershipsFacts
  <2>11. CASE IssueTokens(th)
    <3>1. /\ IsMember(u, u)' /\ invite' = invite
          /\ \A o \in Orgs : req[th].got[o] = None
      BY <1>0, <1>w, <2>0, <2>11 DEF IssueTokens, At, Warrant
    <3>2. ~SignInOf(th, u)' /\ req'[th].pc = "idle"
      BY <2>11, FinishFacts, Kinds DEF IssueTokens, SignInOf, SignIn, SignInStages
    <3> QED
      BY <1>2, <2>0, <2>p, <3>1, <3>2, OwnStep
  <2> QED
    BY <2>1, <2>2, <2>3, <2>4, <2>5, <2>6, <2>7, <2>8, <2>9, <2>10, <2>11 DEF SignInStep
<1> QED
  BY <1>3, <1>4

(* A sign-in that begins is the user's only one, or the user is disturbed; *)
(* what else begins does not touch who is in peace.                        *)
LEMMA BeginKeepsPeace ==
  ASSUME Backed, Backed', Grows, NEW th \in Threads, Begin(th),
         NEW u \in Users, u \notin disturbed', InPeace(u)
  PROVE  InPeace(u)'
<1> USE DEF Backed
<1>0. At(th, "idle") /\ ~SignInOf(th, u)
  <2>1. At(th, "idle")
    BY DEF Begin, BeginSignIn, Refresh, CreateTenant, BeginInvite, Accept
  <2> QED
    BY <2>1, Kinds DEF At, TypeOK, SignInOf, SignIn, SignInStages
<1>1. req'[th] \in Requests
  BY DEF TypeOK
<1>2. ASSUME NEW v \in Users, NEW asked \in Tenants \union {None}, BeginSignIn(th, v, asked)
      PROVE  InPeace(u)'
  <2>1. /\ Others(th) /\ req'[th].user = v /\ req'[th] \in SignInRequest
        /\ req'[th].pc = IF v \in users THEN "createAgain" ELSE "create"
        /\ users' = users /\ member' = member /\ invite' = invite /\ refresh' = refresh
        /\ promised' = promised
    BY <1>2, BeginSignInFacts DEF BeginSignIn, files
  <2>2. CASE v # u
    BY <1>0, <2>1, <2>2, Aside DEF SignInOf, SignIn, User
  <2>3. CASE v = u
    <3>1. \A ti \in Threads : ~SignInOf(ti, u)
      BY <1>2, <2>3 DEF BeginSignIn, SigningIn, SignInOf, SignIn
    <3>2. AtHome(u) /\ (u \in users => IsMember(u, u)) /\ (u \in refresh => IsMember(u, u))
      BY <3>1 DEF InPeace, Housed, Settling, Returning
    <3>3. IsMember(u, u) => IsMember(u, u)'
      BY DEF Grows, Tenants
    <3>4. \A o \in Orgs : <<o, u>> \in promised' => Kept(o, u)'
      BY <2>1, <3>1 DEF InPeace, Promises, Kept, SignInOf, SignIn, IsMember
    <3> QED
      BY <2>1, <2>3, <3>1, <3>2, <3>3, <3>4, OwnStep
  <2> QED
    BY <2>2, <2>3
<1>3. ASSUME NEW v \in Users, NEW asked \in Tenants \union {None}, Refresh(th, v, asked)
      PROVE  InPeace(u)'
  <2>1. Others(th) /\ UNCHANGED <<users, member, invite, refresh, promised>> /\ v \in refresh
    BY <1>3, RefreshFacts DEF Refresh, files, ghosts
  <2>2. CASE req' = req
    BY <1>0, <2>1, <2>2, Aside DEF At, SignInOf, SignIn, User
  <2>3. CASE req'[th] \in RefreshRequest
    <3>1. ~SignInOf(th, u)'
      BY <1>1, <2>3, Kinds DEF SignInOf, SignIn, SignInStages
    <3>2. ASSUME req'[th].pc = "refreshed", req'[th].user = u, req'[th].asked = None
          PROVE  req'[th].tenant = u
      <4>1. v = u /\ asked = None /\ req'[th].tenant \in ActiveTenants(u, None)
        BY <1>0, <1>3, <2>3, <3>2, RefreshFacts DEF At
      <4>2. IsMember(u, u)
        BY <2>1, <4>1 DEF InPeace, Returning
      <4> QED
        BY <4>1, <4>2 DEF ActiveTenants
    <3> QED
      BY <1>0, <2>1, <3>1, <3>2, Aside
  <2> QED
    BY <1>3, <2>2, <2>3, RefreshFacts
<1>4. ASSUME NEW v \in Everyone, NEW o \in Orgs, CreateTenant(th, v, o)
      PROVE  InPeace(u)'
  <2>1. /\ Others(th) /\ req'[th] \in CreateRequest
        /\ UNCHANGED <<users, member, invite, refresh, promised>>
    BY <1>4, CreateTenantFacts DEF CreateTenant, ghosts
  <2>2. ~SignInOf(th, u)' /\ req'[th].pc # "refreshed"
    BY <1>1, <2>1, Kinds DEF SignInOf, SignIn, SignInStages
  <2> QED
    BY <1>0, <2>1, <2>2, Aside
<1>5. ASSUME NEW o \in Orgs, NEW v \in Users, NEW role \in Roles, BeginInvite(th, o, v, role)
      PROVE  InPeace(u)'
  <2>1. /\ Others(th) /\ req'[th] \in InviteRequest /\ req'[th].pc = "find"
        /\ UNCHANGED <<users, member, invite, refresh, promised>>
    BY <1>5, BeginInviteFacts DEF BeginInvite, files, ghosts
  <2>2. ~SignInOf(th, u)'
    BY <1>1, <2>1, Kinds DEF SignInOf, SignIn, SignInStages
  <2> QED
    BY <1>0, <2>1, <2>2, Aside
<1> QED
  BY <1>2, <1>3, <1>4, <1>5 DEF Begin

(* The last steps of a request, and a crash, which disturbs the user whose *)
(* sign-in it cuts off.                                                    *)
LEMMA EndKeepsPeace ==
  ASSUME Backed, Backed', Grows, NEW th \in Threads,
         AnswerRefresh(th) \/ OwnOrg(th) \/ FindInvitee(th) \/ AddInvitee(th)
           \/ WriteInvite(th) \/ Crash(th),
         NEW u \in Users, u \notin disturbed', InPeace(u)
  PROVE  InPeace(u)'
<1> USE DEF Backed
<1>0. ~SignInOf(th, u)
  <2>1. CASE Crash(th)
    BY <2>1 DEF Crash, SignInOf, SignIn
  <2>2. CASE ~Crash(th)
    <3>1. req[th].pc \in {"refreshed", "noMembership", "ownOrg", "find", "addMember", "writeInvite"}
      BY <2>2 DEF AnswerRefresh, OwnOrg, FindInvitee, AddInvitee, WriteInvite, At
    <3> QED
      BY <3>1, Kinds DEF TypeOK, SignInOf, SignIn, SignInStages
  <2> QED
    BY <2>1, <2>2
<1>1. users' = users /\ refresh' = refresh
  BY DEF AnswerRefresh, OwnOrg, FindInvitee, AddInvitee, WriteInvite, Crash, files
<1>2. Others(th) /\ ~SignInOf(th, u)' /\ req'[th].pc # "refreshed"
  <2>1. CASE Finish(th)
    BY <2>1, FinishFacts, Kinds DEF Others, SignInOf, SignIn, SignInStages
  <2>2. CASE Others(th) /\ req'[th] \in InviteRequest
    <3>1. req'[th] \in Requests
      BY DEF TypeOK
    <3> QED
      BY <2>2, <3>1, Kinds DEF SignInOf, SignIn, SignInStages
  <2> QED
    BY <2>1, <2>2, FindInviteeFacts DEF AnswerRefresh, OwnOrg, AddInvitee, WriteInvite, Crash
<1>3. /\ \A o \in Orgs : invite[o][u] # None => invite'[o][u] # None
      /\ \A o \in Orgs : <<o, u>> \in promised' =>
           <<o, u>> \in promised \/ IsMember(o, u)' \/ invite'[o][u] # None
  <2>1. CASE invite' = invite /\ promised' = promised
    BY <2>1
  <2>2. CASE AddInvitee(th)
    <3>1. /\ req[th].org \in Orgs /\ req[th].org \in Tenants /\ User(th) \in Users
          /\ req[th].role \in Roles
      BY <2>2, Kinds DEF AddInvitee, At, TypeOK, InviteRequest, User, Tenants
    <3>2. member'[req[th].org][User(th)] # None
      BY <2>2, <3>1, AddMemberFacts DEF AddInvitee
    <3>3. \A o \in Orgs : o = req[th].org /\ u = User(th) => IsMember(o, u)'
      BY <3>2 DEF IsMember
    <3> QED
      BY <2>2, <3>3 DEF AddInvitee
  <2>3. CASE WriteInvite(th)
    <3>1. req[th].org \in Orgs /\ User(th) \in Users /\ req[th].role \in Roles
      BY <2>3, Kinds DEF WriteInvite, At, TypeOK, InviteRequest, User
    <3>2. /\ invite'[req[th].org][User(th)] = req[th].role /\ req[th].role # None
          /\ \A o \in Orgs : o # req[th].org \/ u # User(th) => invite'[o][u] = invite[o][u]
      BY <2>3, <3>1 DEF WriteInvite, TypeOK
    <3> QED
      BY <2>3, <3>2 DEF WriteInvite
  <2> QED
    BY <2>1, <2>2, <2>3 DEF AnswerRefresh, OwnOrg, FindInvitee, Crash, files, ghosts
<1> QED
  BY <1>0, <1>1, <1>2, <1>3, Aside

(* The inductive invariant holds throughout.                               *)
LEMMA Invariant == Spec => []IInv
<1>1. ASSUME IInv, [Next]_vars
      PROVE  IInv'
  <2>1. Backed /\ \A u \in Users \ disturbed : InPeace(u)
    BY <1>1 DEF IInv
  <2>2. Backed' /\ Grows
    BY <1>1, <2>1, StepTyped, StepBacked
  <2>3. ASSUME NEW u \in Users, u \notin disturbed'
        PROVE  InPeace(u)'
    <3>1. InPeace(u)
      BY <2>1, <2>2, <2>3 DEF Grows
    <3>2. CASE UNCHANGED vars
      BY <3>1, <3>2
      DEF vars, files, InPeace, Alone, Housed, Settling, Settled, Returning, AtHome, Listing,
          Promises, Kept, SignInOf, SignIn, User, IsMember
    <3>3. CASE Next
      BY <2>1, <2>2, <2>3, <3>1, <3>3, BeginKeepsPeace, SignInKeepsPeace, EndKeepsPeace DEF Next
    <3> QED
      BY <1>1, <3>2, <3>3
  <2> QED
    BY <2>2, <2>3 DEF IInv
<1> QED
  BY <1>1, InitIInv, PTL DEF Spec

-----------------------------------------------------------------------------
(* Why an organization keeps an admin.  A request that is about to write a *)
(* membership threatens the role of whoever it writes it for.  It found    *)
(* that user to be no member, so no request ever threatens an admin who    *)
(* was not threatened when the first invitation began.                     *)
Threat(th, o, a) ==
  /\ User(th) = a
  /\ \/ At(th, "addMember") /\ req[th].org = o
     \/ At(th, "add") /\ req[th].at = o

Unthreatened(o, a) == member[o][a] = "admin" /\ \A th \in Threads : ~Threat(th, o, a)

Concerns(th, o) ==
  \/ req[th] \in InviteRequest /\ req[th].org = o
  \/ req[th] \in SignInRequest /\ req[th].got[o] # None

Touched(o) ==
  \/ \E u \in Users : IsMember(o, u) \/ invite[o][u] # None
  \/ \E th \in Threads : Concerns(th, o)

Ruled == \A o \in Orgs : Touched(o) => \E a \in Everyone : Unthreatened(o, a)

(* A step that neither takes the role of an admin it does not threaten,    *)
(* nor threatens a member anew.                                            *)
Spares(th) ==
  \A o \in Orgs, a \in Everyone :
    member[o][a] = "admin" /\ ~Threat(th, o, a) => member'[o][a] = "admin" /\ ~Threat(th, o, a)'

LEMMA RuledStep ==
  ASSUME Ruled, NEW th \in Threads, Others(th), Spares(th),
         \A o \in Orgs : Touched(o)' => Touched(o) \/ \E a \in Everyone : Unthreatened(o, a)'
  PROVE  Ruled'
<1>1. \A ti \in Threads \ {th}, o \in Orgs, a \in Everyone : Threat(ti, o, a)' <=> Threat(ti, o, a)
  BY DEF Others, Threat, At, User
<1>2. \A o \in Orgs, a \in Everyone : Unthreatened(o, a) => Unthreatened(o, a)'
  BY <1>1 DEF Spares, Unthreatened
<1> QED
  BY <1>2 DEF Ruled

(* A step that writes no membership of an organization, and is not about   *)
(* to write one.                                                           *)
LEMMA CalmSpares ==
  ASSUME NEW th \in Threads, req'[th].pc \notin {"add", "addMember"},
         \A o \in Orgs : member'[o] = member[o]
  PROVE  Spares(th)
  BY DEF Spares, Threat, At

LEMMA CalmTouches ==
  ASSUME TypeOK, NEW th \in Threads, Others(th),
         \A o \in Orgs : member'[o] = member[o],
         \A o \in Orgs, u \in Users : invite'[o][u] # None => invite[o][u] # None,
         \A o \in Orgs : Concerns(th, o)' => Touched(o)
  PROVE  \A o \in Orgs : Touched(o)' => Touched(o)
<1>1. \A ti \in Threads \ {th}, o \in Orgs : Concerns(ti, o)' => Concerns(ti, o)
  BY DEF Others, Concerns
<1>2. ASSUME NEW o \in Orgs, Touched(o)' PROVE Touched(o)
  <2>1. CASE \E u \in Users : IsMember(o, u)' \/ invite'[o][u] # None
    BY <2>1 DEF Touched, IsMember
  <2>2. CASE \E ti \in Threads : Concerns(ti, o)'
    BY <1>1, <2>2 DEF Touched
  <2> QED
    BY <1>2, <2>1, <2>2 DEF Touched
<1> QED
  BY <1>2

LEMMA Calm ==
  ASSUME TypeOK, Ruled, NEW th \in Threads, Others(th),
         req'[th].pc \notin {"add", "addMember"},
         \A o \in Orgs : member'[o] = member[o],
         \A o \in Orgs, u \in Users : invite'[o][u] # None => invite[o][u] # None,
         \A o \in Orgs : Concerns(th, o)' => Touched(o)
  PROVE  Ruled'
  BY CalmSpares, CalmTouches, RuledStep

(* A request that is answered or cut off concerns nobody any more.         *)
LEMMA Gone ==
  ASSUME TypeOK, NEW th \in Threads, Finish(th)
  PROVE  Others(th) /\ req'[th].pc = "idle" /\ \A o \in Orgs : ~Concerns(th, o)'
<1>1. /\ req'[th].pc = "idle" /\ req'[th] \in Requests
      /\ \A ti \in Threads \ {th} : req'[ti] = req[ti]
  BY FinishFacts
<1>2. req'[th] \notin InviteRequest /\ req'[th] \notin SignInRequest
  BY <1>1, Kinds DEF SignInStages
<1> QED
  BY <1>1, <1>2 DEF Others, Concerns

(* A sign-in that goes on holds no more than it held.                      *)
LEMMA GoesOn ==
  ASSUME TypeOK, NEW th \in Threads, NEW label \in SignInStages, SignIn(th), Works(th, label),
         \A o \in Orgs : req'[th].got[o] # None => Touched(o)
  PROVE  Others(th) /\ req'[th].pc = label /\ \A o \in Orgs : Concerns(th, o)' => Touched(o)
<1>1. req'[th] \in Requests /\ req'[th] \in SignInRequest
  BY DEF Works
<1>2. req'[th] \notin InviteRequest
  BY <1>1, SignInOnly
<1> QED
  BY <1>2 DEF Works, Concerns

LEMMA HeldTouches ==
  ASSUME NEW th \in Threads, SignIn(th)
  PROVE  \A o \in Orgs : req[th].got[o] # None => Touched(o)
  BY DEF SignIn, Touched, Concerns

LEMMA BeginKeepsRuled ==
  ASSUME Backed, Backed', Ruled, NEW th \in Threads, Begin(th)
  PROVE  Ruled'
<1> USE DEF Backed
<1>1. ASSUME NEW u \in Users, NEW asked \in Tenants \union {None}, BeginSignIn(th, u, asked)
      PROVE  Ruled'
  <2>1. /\ Others(th) /\ req'[th].pc \in {"create", "createAgain"}
        /\ req'[th] \in SignInRequest /\ req'[th] \in Requests /\ req'[th].got = Nobody
    BY <1>1, BeginSignInFacts DEF TypeOK
  <2>2. \A o \in Orgs : ~Concerns(th, o)'
    BY <2>1, SignInOnly DEF Concerns, Nobody
  <2>3. UNCHANGED files
    BY <1>1 DEF BeginSignIn
  <2> QED
    BY <2>1, <2>2, <2>3, Calm DEF files
<1>2. ASSUME NEW u \in Users, NEW asked \in Tenants \union {None}, Refresh(th, u, asked)
      PROVE  Ruled'
  <2>1. UNCHANGED files
    BY <1>2 DEF Refresh
  <2>2. CASE req' = req
    BY <2>1, <2>2
    DEF files, Ruled, Touched, Concerns, Unthreatened, Threat, At, User, IsMember
  <2>3. CASE Others(th) /\ req'[th] \in RefreshRequest
    <3>1. req'[th] \in Requests
      BY DEF TypeOK
    <3>2. /\ req'[th].pc \in {"refreshed", "noMembership"}
          /\ req'[th] \notin InviteRequest /\ req'[th] \notin SignInRequest
      BY <2>3, <3>1, Kinds DEF SignInStages
    <3> QED
      BY <2>1, <2>3, <3>2, Calm DEF files, Concerns
  <2> QED
    BY <1>2, <2>2, <2>3, RefreshFacts
<1>3. ASSUME NEW u \in Everyone, NEW o \in Orgs, CreateTenant(th, u, o)
      PROVE  Ruled'
  <2>1. Others(th) /\ req'[th] \in CreateRequest
    BY <1>3, CreateTenantFacts
  <2>2. req'[th] \in Requests
    BY DEF TypeOK
  <2>3. req'[th].pc = "ownOrg" /\ req'[th] \notin InviteRequest /\ req'[th] \notin SignInRequest
    BY <2>1, <2>2, Kinds DEF SignInStages
  <2> QED
    BY <1>3, <2>1, <2>3, Calm DEF CreateTenant, Concerns
<1>4. ASSUME NEW o \in Orgs, NEW u \in Users, NEW role \in Roles, BeginInvite(th, o, u, role)
      PROVE  Ruled'
  <2>1. /\ Others(th) /\ req'[th] \in InviteRequest /\ req'[th].pc = "find" /\ req'[th].org = o
        /\ req'[th] \in Requests
    BY <1>4, BeginInviteFacts DEF TypeOK
  <2>2. member' = member /\ invite' = invite /\ HasAdmin(o)
    BY <1>4 DEF BeginInvite, files
  <2>3. Spares(th)
    BY <2>1, <2>2, CalmSpares
  <2>4. ASSUME NEW p \in Orgs, Touched(p)', ~Touched(p)
        PROVE  \E a \in Everyone : Unthreatened(p, a)'
    <3>1. \A ti \in Threads : ~Concerns(ti, p)
      BY <2>4 DEF Touched
    <3>2. PICK ti \in Threads : Concerns(ti, p)'
      BY <2>2, <2>4 DEF Touched, IsMember
    <3>3. ti = th
      BY <2>1, <3>1, <3>2 DEF Others, Concerns
    <3>4. p = o
      BY <2>1, <3>2, <3>3, SignInOnly DEF Concerns
    <3>5. PICK a \in Everyone : member[o][a] = "admin"
      BY <2>2 DEF HasAdmin
    <3>6. ASSUME NEW tj \in Threads, Threat(tj, o, a)'
          PROVE  FALSE
      <4>1. tj # th /\ req'[tj] = req[tj] /\ req[tj] \in Requests /\ Warrant(req[tj])
        BY <2>1, <3>6 DEF Threat, At, Others, TypeOK, Warrants
      <4>2. \/ req[tj].pc = "addMember" /\ req[tj].org = o
            \/ req[tj].pc = "add" /\ req[tj].at = o
        BY <3>6, <4>1 DEF Threat, At
      <4>3. Concerns(tj, o)
        BY <4>1, <4>2, Kinds DEF Concerns, Warrant, SignInStages
      <4> QED
        BY <3>1, <3>4, <4>3
    <3>7. Unthreatened(o, a)'
      BY <2>2, <3>5, <3>6 DEF Unthreatened
    <3> QED
      BY <3>4, <3>7
  <2> QED
    BY <2>1, <2>3, <2>4, RuledStep
<1> QED
  BY <1>1, <1>2, <1>3, <1>4 DEF Begin

LEMMA SignInKeepsRuled ==
  ASSUME Backed, Backed', Ruled, NEW th \in Threads, SignInStep(th)
  PROVE  Ruled'
<1> USE DEF Backed
<1>h. SignIn(th) => \A o \in Orgs : req[th].got[o] # None => Touched(o)
  BY HeldTouches
<1>1. CASE FindOrCreate(th)
  <2>1. \A o \in Orgs : Concerns(th, o)' => Touched(o)
    BY <1>1, <1>h, FindOrCreateFacts, GoesOn DEF Holds, SignInStages
  <2> QED
    BY <1>1, <2>1, FindOrCreateFacts, Calm DEF FindOrCreate, Works
<1>2. CASE EnsurePersonalTenant(th)
  <2>1. \A o \in Orgs : Concerns(th, o)' => Touched(o)
    BY <1>2, <1>h, EnsureFacts, GoesOn DEF Holds, SignInStages
  <2> QED
    BY <1>2, <2>1, EnsureFacts, Calm DEF EnsurePersonalTenant, Works
<1>3. CASE OwnPersonalTenant(th)
  <2>1. User(th) \in Users /\ User(th) \in Tenants /\ "admin" \in Roles
    BY <1>3, StageFacts DEF OwnPersonalTenant, SignInStages, Roles
  <2>2. \A o \in Orgs : member'[o] = member[o]
    BY <1>3, <2>1 DEF OwnPersonalTenant, AddMember, TypeOK, Tenants
  <2>3. CASE Finish(th)
    BY <1>3, <2>2, <2>3, Gone, Calm DEF OwnPersonalTenant
  <2>4. ASSUME NEW label \in {"list", "session"}, Works(th, label), Holds(th)
        PROVE  Ruled'
    <3>1. Others(th) /\ req'[th].pc = label /\ \A o \in Orgs : Concerns(th, o)' => Touched(o)
      BY <1>3, <1>h, <2>4, OwnFacts, GoesOn DEF Holds, SignInStages
    <3> QED
      BY <1>3, <2>2, <3>1, Calm DEF OwnPersonalTenant
  <2> QED
    BY <1>3, <2>3, <2>4, OwnFacts
<1>4. CASE ListInvites(th)
  <2>1. Others(th) /\ req'[th].pc = "read" /\ \A o \in Orgs : Concerns(th, o)' => Touched(o)
    BY <1>4, <1>h, ListInvitesFacts, GoesOn DEF SignInStages
  <2> QED
    BY <1>4, <2>1, Calm DEF ListInvites, files
<1>5. CASE ReadInvite(th)
  <2>1. CASE Finish(th)
    BY <1>5, <2>1, Gone, Calm DEF ReadInvite, files
  <2>2. ASSUME NEW o \in req[th].todo, Works(th, "unlink"), invite[o][User(th)] # None,
               \A p \in Orgs \ {o} : req'[th].got[p] = req[th].got[p]
        PROVE  Ruled'
    <3>1. SignIn(th) /\ User(th) \in Users /\ o \in Orgs
      BY <1>5, StageFacts DEF ReadInvite, At, SignIn, SignInStages
    <3>2. Touched(o)
      BY <2>2, <3>1 DEF Touched
    <3>3. \A p \in Orgs : req'[th].got[p] # None => Touched(p)
      BY <1>h, <2>2, <3>1, <3>2
    <3>4. Others(th) /\ req'[th].pc = "unlink" /\ \A p \in Orgs : Concerns(th, p)' => Touched(p)
      BY <2>2, <3>1, <3>3, GoesOn DEF SignInStages
    <3> QED
      BY <1>5, <3>4, Calm DEF ReadInvite, files
  <2> QED
    BY <1>5, <2>1, <2>2, ReadInviteFacts
<1>6. CASE UnlinkInvite(th)
  <2>1. Others(th) /\ req'[th].pc = "read" /\ \A o \in Orgs : Concerns(th, o)' => Touched(o)
    BY <1>6, <1>h, UnlinkInviteFacts, GoesOn DEF SignInStages
  <2>2. \A o \in Orgs, u \in Users : invite'[o][u] # None => invite[o][u] # None
    BY <1>6 DEF UnlinkInvite, TypeOK
  <2> QED
    BY <1>6, <2>1, <2>2, Calm DEF UnlinkInvite
<1>7. CASE InvitesRead(th)
  <2>1. Others(th) /\ req'[th].pc = "join" /\ \A o \in Orgs : Concerns(th, o)' => Touched(o)
    BY <1>7, <1>h, InvitesReadFacts, GoesOn DEF Holds, SignInStages
  <2> QED
    BY <1>7, <2>1, Calm DEF InvitesRead, files
<1>8. CASE CheckMembership(th)
  <2>1. SignIn(th) /\ UNCHANGED files
    BY <1>8, CheckMembershipFacts DEF CheckMembership
  <2>2. ASSUME NEW o \in Orgs, Works(th, "join"), req'[th].got[o] = None,
               \A p \in Orgs \ {o} : req'[th].got[p] = req[th].got[p]
        PROVE  Ruled'
    <3>1. Others(th) /\ req'[th].pc = "join" /\ \A p \in Orgs : Concerns(th, p)' => Touched(p)
      BY <1>h, <2>1, <2>2, GoesOn DEF SignInStages
    <3> QED
      BY <2>1, <3>1, Calm DEF files
  <2>3. ASSUME NEW o \in Orgs, Works(th, "add"), req'[th].at = o, ~IsMember(o, User(th)),
               req'[th].got = req[th].got
        PROVE  Ruled'
    <3>1. Others(th) /\ req'[th].pc = "add" /\ \A p \in Orgs : Concerns(th, p)' => Touched(p)
      BY <1>h, <2>1, <2>3, GoesOn DEF SignInStages
    <3>2. \A p \in Orgs : Touched(p)' => Touched(p)
      BY <2>1, <3>1, CalmTouches DEF files
    <3>3. req'[th].user = User(th)
      BY <2>3 DEF Works, User
    <3>4. Spares(th)
      <4>1. ASSUME NEW p \in Orgs, NEW a \in Everyone, member[p][a] = "admin", Threat(th, p, a)'
            PROVE  FALSE
        <5>1. p = o /\ a = User(th)
          BY <2>3, <3>1, <3>3, <4>1 DEF Threat, At, User
        <5> QED
          BY <2>3, <4>1, <5>1 DEF IsMember, Roles
      <4> QED
        BY <2>1, <4>1 DEF files, Spares
    <3> QED
      BY <3>1, <3>2, <3>4, RuledStep
  <2> QED
    BY <1>8, <2>2, <2>3, CheckMembershipFacts
<1>9. CASE JoinOrg(th)
  <2>0. Warrant(req[th])
    BY DEF Warrants
  <2>1. /\ SignIn(th) /\ User(th) \in Users /\ req[th].got \in [Orgs -> Roles \union {None}]
        /\ At(th, "add")
    BY <1>9, StageFacts DEF JoinOrg, At, SignIn, SignInStages
  <2>2. req[th].at \in Orgs /\ req[th].got[req[th].at] \in Roles /\ req[th].at \in Tenants
    BY <2>0, <2>1 DEF At, SignIn, Warrant, Tenants
  <2>3. Touched(req[th].at)
    BY <1>h, <2>0, <2>1, <2>2 DEF At, SignIn, Warrant
  <2>4. \A p \in Tenants, v \in Everyone :
          p # req[th].at \/ v # User(th) => member'[p][v] = member[p][v]
    BY <1>9, <2>1, <2>2, AddMemberFacts DEF JoinOrg
  <2>5. Others(th) /\ req'[th].pc = "join" /\ \A p \in Orgs : Concerns(th, p)' => Touched(p)
    BY <1>9, <1>h, <2>1, <2>2, JoinOrgFacts, GoesOn DEF SignInStages
  <2>6. \A p \in Orgs : Touched(p)' => Touched(p)
    <3>1. \A p \in Orgs \ {req[th].at}, u \in Users : IsMember(p, u)' => IsMember(p, u)
      BY <2>4 DEF IsMember, Tenants
    <3>2. \A ti \in Threads, p \in Orgs : Concerns(ti, p)' => Touched(p)
      BY <2>5 DEF Others, Concerns, Touched
    <3>3. invite' = invite
      BY <1>9 DEF JoinOrg
    <3> QED
      BY <2>3, <3>1, <3>2, <3>3 DEF Touched
  <2>7. Spares(th)
    BY <2>1, <2>4, <2>5 DEF Spares, Threat, At, Tenants
  <2> QED
    BY <2>5, <2>6, <2>7, RuledStep
<1>10. CASE ListMemberships(th)
  <2>1. CASE Finish(th)
    BY <1>10, <2>1, Gone, Calm DEF ListMemberships, files
  <2>2. ASSUME NEW label \in {"ensureHome", "session"}, Works(th, label), Holds(th)
        PROVE  Ruled'
    <3>1. Others(th) /\ req'[th].pc = label /\ \A o \in Orgs : Concerns(th, o)' => Touched(o)
      BY <1>10, <1>h, <2>2, ListMembershipsFacts, GoesOn DEF Holds, SignInStages
    <3> QED
      BY <1>10, <3>1, Calm DEF ListMemberships, files
  <2> QED
    BY <1>10, <2>1, <2>2, ListMembershipsFacts
<1>11. CASE IssueTokens(th)
  BY <1>11, Gone, Calm DEF IssueTokens
<1> QED
  BY <1>1, <1>2, <1>3, <1>4, <1>5, <1>6, <1>7, <1>8, <1>9, <1>10, <1>11 DEF SignInStep

LEMMA EndKeepsRuled ==
  ASSUME Backed, Backed', Ruled, NEW th \in Threads,
         AnswerRefresh(th) \/ OwnOrg(th) \/ FindInvitee(th) \/ AddInvitee(th)
           \/ WriteInvite(th) \/ Crash(th)
  PROVE  Ruled'
<1> USE DEF Backed
<1>1. CASE AnswerRefresh(th) \/ Crash(th)
  BY <1>1, Gone, Calm DEF AnswerRefresh, Crash, files
<1>2. CASE OwnOrg(th)
  <2>a. req[th].org \in Orgs /\ User(th) \in Everyone /\ At(th, "ownOrg")
    BY <1>2, Kinds DEF OwnOrg, At, TypeOK, CreateRequest, User
  <2>o. PICK o \in Orgs : o = req[th].org
    BY <2>a
  <2>u. PICK u \in Everyone : u = User(th)
    BY <2>a
  <2>1. /\ o \in Tenants /\ "admin" \in Roles /\ invite' = invite
        /\ AddMember(o, u, "admin") /\ Finish(th)
    BY <1>2, <2>o, <2>u DEF OwnOrg, Tenants, Roles
  <2>2. /\ member'[o][u] = "admin"
        /\ \A p \in Tenants, v \in Everyone :
             p # o \/ v # u => member'[p][v] = member[p][v]
    BY <2>1, AddMemberFacts
  <2>3. Others(th) /\ req'[th].pc = "idle" /\ \A p \in Orgs : ~Concerns(th, p)'
    BY <2>1, Gone
  <2>4. Spares(th)
    BY <2>1, <2>2, <2>3 DEF Spares, Threat, At, Tenants
  <2>5. ASSUME NEW p \in Orgs, Touched(p)', ~Touched(p)
        PROVE  \E a \in Everyone : Unthreatened(p, a)'
    <3>1. \A ti \in Threads : ~Concerns(ti, p)
      BY <2>5 DEF Touched
    <3>2. \A ti \in Threads : ~Concerns(ti, p)'
      BY <2>3, <3>1 DEF Others, Concerns
    <3>3. \A v \in Users : ~IsMember(p, v) /\ invite[p][v] = None
      BY <2>5 DEF Touched
    <3>4. PICK v \in Users : IsMember(p, v)'
      BY <2>1, <2>5, <3>2, <3>3 DEF Touched
    <3>5. p = o
      BY <2>2, <3>3, <3>4 DEF IsMember, Tenants
    <3>6. ASSUME NEW tj \in Threads, Threat(tj, o, u)'
          PROVE  FALSE
      <4>1. req'[tj] = req[tj] /\ req[tj] \in Requests /\ Warrant(req[tj])
        BY <2>3, <3>6 DEF Threat, At, Others, TypeOK, Warrants
      <4>2. \/ req[tj].pc = "addMember" /\ req[tj].org = o
            \/ req[tj].pc = "add" /\ req[tj].at = o
        BY <3>6, <4>1 DEF Threat, At
      <4>3. Concerns(tj, o)
        BY <4>1, <4>2, Kinds DEF Concerns, Warrant, SignInStages
      <4> QED
        BY <3>1, <3>5, <4>3
    <3>7. Unthreatened(o, u)'
      BY <2>2, <3>6 DEF Unthreatened
    <3> QED
      BY <3>5, <3>7
  <2> QED
    BY <2>3, <2>4, <2>5, RuledStep
<1>3. CASE FindInvitee(th)
  <2>1. req[th] \in InviteRequest /\ UNCHANGED files
    BY <1>3, FindInviteeFacts DEF FindInvitee
  <2>2. CASE Finish(th)
    BY <2>1, <2>2, Gone, Calm DEF files
  <2>3. CASE /\ Others(th) /\ req'[th] \in InviteRequest /\ req'[th].org = req[th].org
             /\ req'[th].pc = "addMember" =>
                  req'[th].user = User(th) /\ ~IsMember(req[th].org, User(th))
    <3>1. req'[th] \in Requests
      BY DEF TypeOK
    <3>2. req'[th] \notin SignInRequest /\ req'[th].pc # "add"
      BY <2>3, <3>1, Kinds DEF SignInStages
    <3>3. \A p \in Orgs : Concerns(th, p)' => Touched(p)
      BY <2>1, <2>3, <3>2 DEF Concerns, Touched
    <3>4. \A p \in Orgs : Touched(p)' => Touched(p)
      BY <2>1, <2>3, <3>3, CalmTouches DEF files
    <3>5. Spares(th)
      <4>1. ASSUME NEW p \in Orgs, NEW a \in Everyone, member[p][a] = "admin", Threat(th, p, a)'
            PROVE  FALSE
        <5>1. p = req[th].org /\ a = User(th) /\ ~IsMember(req[th].org, User(th))
          BY <2>3, <3>2, <4>1 DEF Threat, At, User
        <5> QED
          BY <4>1, <5>1 DEF IsMember, Roles
      <4> QED
        BY <2>1, <4>1 DEF files, Spares
    <3> QED
      BY <2>3, <3>4, <3>5, RuledStep
  <2> QED
    BY <1>3, <2>2, <2>3, FindInviteeFacts
<1>4. CASE AddInvitee(th) \/ WriteInvite(th)
  <2>1. /\ req[th] \in InviteRequest /\ req[th].org \in Orgs /\ req[th].org \in Tenants
        /\ User(th) \in Users /\ req[th].role \in Roles
    BY <1>4, Kinds DEF AddInvitee, WriteInvite, At, TypeOK, InviteRequest, User, Tenants
  <2>2. Touched(req[th].org)
    BY <2>1 DEF Touched, Concerns
  <2>3. Others(th) /\ req'[th].pc = "idle" /\ \A p \in Orgs : ~Concerns(th, p)'
    BY <1>4, Gone DEF AddInvitee, WriteInvite
  <2>4. \A p \in Orgs \ {req[th].org}, u \in Users : invite'[p][u] = invite[p][u]
    BY <1>4, <2>1 DEF AddInvitee, WriteInvite, TypeOK
  <2>5. \A p \in Tenants, v \in Everyone :
          p # req[th].org \/ v # User(th) => member'[p][v] = member[p][v]
    BY <1>4, <2>1, AddMemberFacts DEF AddInvitee, WriteInvite
  <2>6. \A p \in Orgs : Touched(p)' => Touched(p)
    <3>1. \A p \in Orgs \ {req[th].org}, u \in Users : IsMember(p, u)' => IsMember(p, u)
      BY <2>5 DEF IsMember, Tenants
    <3>2. \A ti \in Threads, p \in Orgs : Concerns(ti, p)' => Touched(p)
      BY <2>3 DEF Others, Concerns, Touched
    <3> QED
      BY <2>2, <2>4, <3>1, <3>2 DEF Touched
  <2>7. Spares(th)
    <3>1. CASE AddInvitee(th)
      BY <2>1, <2>3, <2>5, <3>1 DEF AddInvitee, Spares, Threat, At, Tenants
    <3>2. CASE WriteInvite(th)
      BY <2>3, <3>2, CalmSpares DEF WriteInvite
    <3> QED
      BY <1>4, <3>1, <3>2
  <2> QED
    BY <2>3, <2>6, <2>7, RuledStep
<1> QED
  BY <1>1, <1>2, <1>3, <1>4

LEMMA RuledForever == Spec => [](IInv /\ Ruled)
<1>1. ASSUME Init PROVE Ruled
  <2>1. IInv
    BY <1>1, InitIInv
  <2>2. \A th \in Threads : req[th].pc = "idle" /\ req[th] \in Requests
    BY <1>1, <2>1 DEF Init, NoRequest, IInv, Backed, TypeOK
  <2>3. \A th \in Threads : req[th] \notin InviteRequest /\ req[th] \notin SignInRequest
    BY <2>2, Kinds DEF SignInStages
  <2> QED
    BY <1>1, <2>3 DEF Init, Ruled, Touched, Concerns, IsMember, Tenants
<1>2. ASSUME IInv, IInv', Ruled, [Next]_vars PROVE Ruled'
  <2>1. CASE UNCHANGED vars
    BY <1>2, <2>1
    DEF vars, files, Ruled, Touched, Concerns, Unthreatened, Threat, At, User, IsMember
  <2>2. CASE Next
    BY <1>2, <2>2, BeginKeepsRuled, SignInKeepsRuled, EndKeepsRuled DEF IInv, Next
  <2> QED
    BY <1>2, <2>1, <2>2
<1> QED
  BY <1>1, <1>2, Invariant, PTL DEF Spec

-----------------------------------------------------------------------------
(* Every file and every request in hand is of the form the code gives it.  *)
THEOREM TypeCorrect == Spec => []TypeOK
<1>1. IInv => TypeOK
  BY DEF IInv, Backed
<1> QED
  BY <1>1, Invariant, PTL

(* A membership never outruns its tenant or its user -- but for that of a  *)
(* creator who resolved to nobody -- nor an invitation its tenant, and an  *)
(* organization that has let in or invited anybody has an admin, although  *)
(* each record is a file of its own, requests overlap and may be cut off   *)
(* between any two writes (service.py, tenant_routes.py).                  *)
THEOREM NothingDangles == Spec => []MembershipsAreBacked
<1>1. IInv => RecordsAreBacked
  BY DEF IInv, Backed
<1>2. Ruled => OrgsHaveAdmins
  BY DEF Ruled, OrgsHaveAdmins, Touched, Unthreatened, HasAdmin
<1> QED
  BY <1>1, <1>2, RuledForever, PTL DEF MembershipsAreBacked

(* A session or a refresh acts in a tenant its user is a member of, the    *)
(* one asked for or else the personal one, and a refresh always finds a    *)
(* membership (service.py, _resolve_active_membership).                    *)
THEOREM SessionsBacked == Spec => []SessionsAreBacked
<1>1. ASSUME IInv PROVE SessionsAreBacked
  <2>1. ASSUME NEW th \in Threads
        PROVE  /\ req[th].pc \in {"session", "refreshed"} =>
                    IsMember(req[th].tenant, User(th)) /\ req[th].asked \in {None, req[th].tenant}
               /\ ~At(th, "noMembership")
    <3>1. req[th] \in Requests /\ Warrant(req[th])
      BY <1>1 DEF IInv, Backed, TypeOK, Warrants
    <3> QED
      BY <3>1, Kinds DEF Warrant, At, User, SignInStages
  <2>2. ASSUME NEW th \in Threads, req[th].pc \in {"session", "refreshed"},
               req[th].asked = None, User(th) \notin disturbed
        PROVE  req[th].tenant = User(th)
    <3>1. User(th) \in Users
      <4>1. req[th] \in Requests
        BY <1>1 DEF IInv, Backed, TypeOK
      <4>2. req[th] \in SignInRequest \/ req[th] \in RefreshRequest
        BY <2>2, <4>1, Kinds DEF SignInStages
      <4> QED
        BY <4>2 DEF SignInRequest, RefreshRequest, User
    <3> QED
      BY <1>1, <2>2, <3>1 DEF IInv, InPeace, AtHome
  <2> QED
    BY <2>1, <2>2 DEF SessionsAreBacked
<1> QED
  BY <1>1, Invariant, PTL

(* An invitation an admin was told of is a membership, still pending, or   *)
(* in the hands of the invitee's sign-in, as long as no two of the         *)
(* invitee's sign-ins overlapped and none was cut off (invites.py).        *)
THEOREM InvitationsKept == Spec => []InvitationsAreKeptInPeace
<1>1. IInv => InvitationsAreKeptInPeace
  BY DEF IInv, InPeace, Promises, InvitationsAreKeptInPeace
<1> QED
  BY <1>1, Invariant, PTL
=============================================================================
