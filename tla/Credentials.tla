----------------------------- MODULE Credentials -----------------------------
(***************************************************************************)
(* The secrets people leave with the registry: personal access tokens      *)
(* (authn/pat.py behind api/account_routes.py), and a tenant's GitHub      *)
(* OAuth App and the connection made through it (api/github_routes.py).    *)
(*                                                                         *)
(* Each is a JSON file of its own, written by write_text: the file is      *)
(* opened, which empties it, and filled afterwards.  Connecting GitHub is  *)
(* a chain of browser redirects in which the only thing that travels is a  *)
(* signed state; administrators, callbacks and reloads of a callback meet  *)
(* on the files in any order, and any of them may be cut off.              *)
(***************************************************************************)
EXTENDS Naturals

CONSTANTS
  Tenants, Users,
  Members, Admins,  \* who belongs to a tenant, and in which role
  Writers,          \* users whose session grants skills:write
  Known,            \* users with an account file
  Apps,             \* client ids with their secrets
  Flows,            \* connect flows: a state, and GitHub's code and token for it
  Pats,             \* personal access token ids
  Threads,
  None,             \* no file, no flow, nobody
  Torn,             \* a file that does not parse
  MayCrash,         \* TRUE: a request may be cut off between any two accesses
  MaxRequests       \* bound on the requests accepted

ASSUME CredentialsAssumption ==
  /\ Members \in [Tenants -> SUBSET Users]
  /\ Admins \in [Tenants -> SUBSET Users]
  /\ \A t \in Tenants : Admins[t] \subseteq Members[t]
  /\ Writers \subseteq Users /\ Known \subseteq Users
  /\ Users \intersect Pats = {}
  /\ None # Torn /\ {None, Torn} \intersect (Users \union Apps \union Flows) = {}
  /\ MayCrash \in BOOLEAN /\ MaxRequests \in Nat

VARIABLES
  app,       \* github_oauth_apps/<tenant>.json
  con,       \* github_connections/<tenant>.json: the flow its token comes from, and who began it
  pat,       \* personal_access_tokens/<id>.json: the owner
  flow,      \* the state that was signed, and what GitHub knows of the flow
  late,      \* flows and tokens past their expiry
  req,       \* the request each thread serves
  conLine, appLine, \* the last line of the audit log about a tenant's connection and app
  shownTo,   \* the user a token was shown to
  dropped,   \* tokens a user was told are revoked
  stored,    \* flows whose token has been stored
  used,      \* tokens GitHub was called with, and for which tenant
  disturbed, \* files of tenants two requests have written at once, or one was cut off at
  requests

files == <<app, con, pat>>
github == <<flow, late>>
lines == <<conLine, appLine>>
ghosts == <<shownTo, dropped, stored, used>>
vars == <<app, con, pat, flow, late, req, conLine, appLine,
          shownTo, dropped, stored, used, disturbed, requests>>

Bearers == Users \union Pats

Connection == [flow : Flows, by : Users]

\* approved: the user consented at GitHub; spent: the code has been exchanged.
Flow == [tenant : Tenants, by : Users, app : Apps, approved : BOOLEAN, spent : BOOLEAN]

\* No file and no flow are not mistaken for one.
ASSUME RecordsAssumption == {None, Torn} \intersect Connection = {} /\ None \notin Flow

NoRequest == [pc |-> "idle"]

CallbackRequest ==
  [pc : {"readApp", "exchange", "askUser", "openCon", "writeCon", "logCon"},
   flow : Flows, client : Apps \union {None}]

DisconnectRequest ==
  [pc : {"unlinkCon", "logGone"}, tenant : Tenants, saw : Connection \union {None}]

AppRequest ==
  [pc : {"openApp", "writeApp", "logApp", "unlinkApp", "logNoApp"}, tenant : Tenants,
   app : Apps \union {None}]

PatRequest == [pc : {"openPat", "writePat", "showPat", "unlinkPat"}, user : Users, pat : Pats]

Requests == CallbackRequest \union DisconnectRequest \union AppRequest \union PatRequest

Init ==
  /\ app = [t \in Tenants |-> None] /\ con = [t \in Tenants |-> None]
  /\ pat = [p \in Pats |-> None]
  /\ flow = [f \in Flows |-> None] /\ late = {}
  /\ req = [th \in Threads |-> NoRequest]
  /\ conLine = [t \in Tenants |-> None] /\ appLine = [t \in Tenants |-> None]
  /\ shownTo = [p \in Pats |-> None]
  /\ dropped = {} /\ stored = {} /\ used = {} /\ disturbed = {}
  /\ requests = 0

-----------------------------------------------------------------------------
At(th, label) == req[th].pc = label

Set(th, request) == req' = [req EXCEPT ![th] = request]

Goto(th, label) == Set(th, [req[th] EXCEPT !.pc = label])

Finish(th) == Set(th, NoRequest)

\* What a request is about to write: a tenant's file, or nothing others write.
Target(r) ==
  IF r \in CallbackRequest THEN {<<flow[r.flow].tenant, "con">>}
  ELSE IF r \in DisconnectRequest THEN {<<r.tenant, "con">>}
  ELSE IF r \in AppRequest THEN {<<r.tenant, "app">>}
  ELSE {}

Busy == UNION {Target(req[th]) : th \in Threads}

Accept(th, request) ==
  /\ At(th, "idle")
  /\ requests < MaxRequests
  /\ requests' = requests + 1
  /\ Set(th, request)
  /\ disturbed' = disturbed \union (Target(request) \intersect Busy)

Continue == UNCHANGED <<disturbed, requests>>

(***************************************************************************)
(* What a file may hold once the text written to it since it was opened is *)
(* flushed.  Where requests met on it, two texts lie on top of each other, *)
(* or the text went to a file that was unlinked since.                     *)
(***************************************************************************)
Filled(file, text, target) ==
  IF target \notin disturbed THEN {text}
  ELSE IF file = None THEN {None}
  ELSE {file, text, Torn}

(***************************************************************************)
(* JwtAuthorizer.check: the signature, the expiry, for a personal access   *)
(* token its record, and the scope these routes all ask for, which a token *)
(* has from the session or token it was made with.  (They name no tenant   *)
(* for the boundary of a feature flag that is off by default.)             *)
(***************************************************************************)
Admitted(b) ==
  \/ b \in Writers
  \/ b \in Pats /\ b \notin late /\ pat[b] \in Writers

\* decode_token's subject, of a bearer that was admitted.
Subject(b) == IF b \in Users THEN b ELSE pat[b]

(***************************************************************************)
(* resolve_caller_context as the GitHub routes call it, without the store  *)
(* of personal access tokens: whoever presents one is nobody.              *)
(***************************************************************************)
Caller(b) == IF b \in Users THEN b ELSE None

ActsAsAdmin(b, t) == Admitted(b) /\ Caller(b) \in Admins[t]

ActsAsMember(b, t) == Admitted(b) /\ Caller(b) \in Members[t]

-----------------------------------------------------------------------------
\* put_github_oauth_app.
PutApp(th, b, t, a) ==
  /\ ActsAsAdmin(b, t)
  /\ Accept(th, [pc |-> "openApp", tenant |-> t, app |-> a])
  /\ UNCHANGED <<files, github, lines, ghosts>>

OpenApp(th) ==
  /\ At(th, "openApp")
  /\ app' = [app EXCEPT ![req[th].tenant] = Torn]
  /\ Goto(th, "writeApp")
  /\ UNCHANGED <<con, pat, github, lines, ghosts>> /\ Continue

WriteApp(th) ==
  LET t == req[th].tenant IN
  /\ At(th, "writeApp")
  /\ \E text \in Filled(app[t], req[th].app, <<t, "app">>) :
       app' = [app EXCEPT ![t] = text]
  /\ Goto(th, "logApp")
  /\ UNCHANGED <<con, pat, github, lines, ghosts>> /\ Continue

LogApp(th) ==
  /\ At(th, "logApp")
  /\ appLine' = [appLine EXCEPT ![req[th].tenant] = req[th].app]
  /\ Finish(th)
  /\ UNCHANGED <<files, github, conLine, ghosts>> /\ Continue

\* delete_github_oauth_app.
DeleteApp(th, b, t) ==
  /\ ActsAsAdmin(b, t)
  /\ Accept(th, [pc |-> "unlinkApp", tenant |-> t, app |-> None])
  /\ UNCHANGED <<files, github, lines, ghosts>>

UnlinkApp(th) ==
  LET t == req[th].tenant IN
  /\ At(th, "unlinkApp")
  /\ \/ app[t] = None /\ Finish(th)
     \/ app[t] # None /\ Goto(th, "logNoApp")
  /\ app' = [app EXCEPT ![t] = None]
  /\ UNCHANGED <<con, pat, github, lines, ghosts>> /\ Continue

LogNoApp(th) ==
  /\ At(th, "logNoApp")
  /\ appLine' = [appLine EXCEPT ![req[th].tenant] = None]
  /\ Finish(th)
  /\ UNCHANGED <<files, github, conLine, ghosts>> /\ Continue

-----------------------------------------------------------------------------
\* Variant: any member may begin a connection.
MemberConnectUrl(b, t, f) ==
  /\ ActsAsMember(b, t)
  /\ app[t] \in Apps /\ flow[f] = None
  /\ flow' = [flow EXCEPT ![f] = [tenant |-> t, by |-> Caller(b), app |-> app[t],
                                  approved |-> FALSE, spent |-> FALSE]]
  /\ UNCHANGED <<files, late, req, lines, ghosts>> /\ Continue

\* get_github_connect_url: the state is signed for this tenant and this admin,
\* the URL names the app on file.
ConnectUrl(b, t, f) ==
  /\ ActsAsAdmin(b, t)
  /\ app[t] \in Apps /\ flow[f] = None
  /\ flow' = [flow EXCEPT ![f] = [tenant |-> t, by |-> Caller(b), app |-> app[t],
                                  approved |-> FALSE, spent |-> FALSE]]
  /\ UNCHANGED <<files, late, req, lines, ghosts>> /\ Continue

\* The user consents at GitHub, which redirects the browser with a code.
Approve(f) ==
  /\ flow[f] # None /\ ~flow[f].approved
  /\ flow' = [flow EXCEPT ![f].approved = TRUE]
  /\ UNCHANGED <<files, late, req, lines, ghosts>> /\ Continue

\* The ten minutes of a state, or the lifetime of a token, are over.
Expire(x) ==
  /\ x \notin late
  /\ \/ x \in Flows /\ flow[x] # None
     \/ x \in Pats /\ shownTo[x] # None
  /\ late' = late \union {x}
  /\ UNCHANGED <<files, flow, req, lines, ghosts>> /\ Continue

\* github_callback: verify_state.  The browser may come here more than once.
Callback(th, f) ==
  /\ flow[f] # None /\ flow[f].approved /\ f \notin late
  /\ Accept(th, [pc |-> "readApp", flow |-> f, client |-> None])
  /\ UNCHANGED <<files, github, lines, ghosts>>

\* No app ends in the error page, a torn file in an exception.
ReadApp(th) ==
  LET a == app[flow[req[th].flow].tenant] IN
  /\ At(th, "readApp")
  /\ \/ a \in Apps /\ Set(th, [req[th] EXCEPT !.pc = "exchange", !.client = a])
     \/ a \notin Apps /\ Finish(th)
  /\ UNCHANGED <<files, github, lines, ghosts>> /\ Continue

\* Variant: a code that GitHub will not exchange again is let pass.
ExchangeAgain(th) ==
  LET f == req[th].flow IN
  /\ At(th, "exchange")
  /\ req[th].client = flow[f].app
  /\ flow' = [flow EXCEPT ![f].spent = TRUE]
  /\ Goto(th, "askUser")
  /\ UNCHANGED <<files, late, lines, ghosts>> /\ Continue

(***************************************************************************)
(* exchange_code_for_token.  GitHub gives a token once for a code, and to  *)
(* the app it issued the code for; the answer may also be lost.            *)
(***************************************************************************)
Exchange(th) ==
  LET f == req[th].flow
      good == req[th].client = flow[f].app /\ ~flow[f].spent
  IN
  /\ At(th, "exchange")
  /\ \/ /\ good
        /\ flow' = [flow EXCEPT ![f].spent = TRUE]
        /\ Goto(th, "askUser") \/ Finish(th)
     \/ UNCHANGED flow /\ Finish(th)
  /\ UNCHANGED <<files, late, lines, ghosts>> /\ Continue

\* get_authenticated_user.
AskUser(th) ==
  /\ At(th, "askUser")
  /\ Goto(th, "openCon") \/ Finish(th)
  /\ UNCHANGED <<files, github, lines, ghosts>> /\ Continue

OpenConnection(th) ==
  /\ At(th, "openCon")
  /\ con' = [con EXCEPT ![flow[req[th].flow].tenant] = Torn]
  /\ Goto(th, "writeCon")
  /\ UNCHANGED <<app, pat, github, lines, ghosts>> /\ Continue

WriteConnection(th) ==
  LET f == req[th].flow
      t == flow[f].tenant
  IN
  /\ At(th, "writeCon")
  /\ \E text \in Filled(con[t], [flow |-> f, by |-> flow[f].by], <<t, "con">>) :
       con' = [con EXCEPT ![t] = text]
  /\ stored' = stored \union {f}
  /\ Goto(th, "logCon")
  /\ UNCHANGED <<app, pat, github, lines, shownTo, dropped, used>> /\ Continue

LogConnection(th) ==
  LET f == req[th].flow IN
  /\ At(th, "logCon")
  /\ conLine' = [conLine EXCEPT ![flow[f].tenant] = [flow |-> f, by |-> flow[f].by]]
  /\ Finish(th)
  /\ UNCHANGED <<files, github, appLine, ghosts>> /\ Continue

\* delete_github_connection reads the connection for the audit line first; one
\* that does not parse raises.
Disconnect(th, b, t) ==
  /\ ActsAsAdmin(b, t) /\ con[t] # Torn
  /\ Accept(th, [pc |-> "unlinkCon", tenant |-> t, saw |-> con[t]])
  /\ UNCHANGED <<files, github, lines, ghosts>>

\* Variant: the absence of a connection is logged as a disconnect too.
UnlinkAnyConnection(th) ==
  LET t == req[th].tenant IN
  /\ At(th, "unlinkCon")
  /\ con' = [con EXCEPT ![t] = None]
  /\ Finish(th)
  /\ UNCHANGED <<app, pat, github, lines, ghosts>> /\ Continue

UnlinkConnection(th) ==
  LET t == req[th].tenant IN
  /\ At(th, "unlinkCon")
  /\ \/ con[t] = None /\ Finish(th)
     \/ con[t] # None /\ Goto(th, "logGone")
  /\ con' = [con EXCEPT ![t] = None]
  /\ UNCHANGED <<app, pat, github, lines, ghosts>> /\ Continue

LogDisconnect(th) ==
  /\ At(th, "logGone")
  /\ conLine' = [conLine EXCEPT ![req[th].tenant] = None]
  /\ Finish(th)
  /\ UNCHANGED <<files, github, appLine, ghosts>> /\ Continue

\* list_github_repos and list_github_branches, with the token on file.
ListRepos(b, t) ==
  /\ ActsAsMember(b, t) /\ con[t] \in Connection
  /\ used' = used \union {<<t, con[t].flow>>}
  /\ UNCHANGED <<files, github, req, lines, shownTo, dropped, stored>> /\ Continue

-----------------------------------------------------------------------------
\* Variant: the record is made out to resolve_caller_context's caller.
CreatePatOfCaller(th, b, p) ==
  /\ Admitted(b)
  /\ pat[p] = None /\ shownTo[p] = None
  /\ \A other \in Threads : req[other] \in PatRequest => req[other].pat # p
  /\ Accept(th, [pc |-> "openPat", user |-> Caller(b), pat |-> p])
  /\ UNCHANGED <<files, github, lines, ghosts>>

(***************************************************************************)
(* create_pat, for somebody with an account: the record, then a token with *)
(* the claims of the bearer.  Ids are random, so a new one has never been  *)
(* used.                                                                   *)
(***************************************************************************)
CreatePat(th, b, p) ==
  /\ Admitted(b) /\ Subject(b) \in Known
  /\ pat[p] = None /\ shownTo[p] = None
  /\ \A other \in Threads : req[other] \in PatRequest => req[other].pat # p
  /\ Accept(th, [pc |-> "openPat", user |-> Subject(b), pat |-> p])
  /\ UNCHANGED <<files, github, lines, ghosts>>

OpenPat(th) ==
  /\ At(th, "openPat")
  /\ pat' = [pat EXCEPT ![req[th].pat] = Torn]
  /\ Goto(th, "writePat")
  /\ UNCHANGED <<app, con, github, lines, ghosts>> /\ Continue

WritePat(th) ==
  /\ At(th, "writePat")
  /\ pat' = [pat EXCEPT ![req[th].pat] = req[th].user]
  /\ Goto(th, "showPat")
  /\ UNCHANGED <<app, con, github, lines, ghosts>> /\ Continue

ShowPat(th) ==
  /\ At(th, "showPat")
  /\ shownTo' = [shownTo EXCEPT ![req[th].pat] = req[th].user]
  /\ Finish(th)
  /\ UNCHANGED <<files, github, lines, dropped, stored, used>> /\ Continue

\* Variant: whoever knows an id may revoke it.
RevokeAnyPat(th, b, p) ==
  /\ Admitted(b) /\ pat[p] \in Users
  /\ Accept(th, [pc |-> "unlinkPat", user |-> Subject(b), pat |-> p])
  /\ UNCHANGED <<files, github, lines, ghosts>>

\* revoke_pat reads the record, compares the owner, and unlinks what is there.
RevokePat(th, b, p) ==
  /\ Admitted(b) /\ pat[p] = Subject(b)
  /\ Accept(th, [pc |-> "unlinkPat", user |-> Subject(b), pat |-> p])
  /\ UNCHANGED <<files, github, lines, ghosts>>

UnlinkPat(th) ==
  /\ At(th, "unlinkPat")
  /\ pat' = [pat EXCEPT ![req[th].pat] = None]
  /\ dropped' = dropped \union {<<req[th].user, req[th].pat>>}
  /\ Finish(th)
  /\ UNCHANGED <<app, con, github, lines, shownTo, stored, used>> /\ Continue

CutOff(th) ==
  /\ MayCrash /\ ~At(th, "idle")
  /\ disturbed' = disturbed \union Target(req[th])
  /\ Finish(th)
  /\ UNCHANGED <<files, github, lines, ghosts, requests>>

-----------------------------------------------------------------------------
Begin(th) ==
  \/ \E b \in Bearers, t \in Tenants : DeleteApp(th, b, t) \/ Disconnect(th, b, t)
  \/ \E b \in Bearers, t \in Tenants, a \in Apps : PutApp(th, b, t, a)
  \/ \E f \in Flows : Callback(th, f)
  \/ \E b \in Bearers, p \in Pats : CreatePat(th, b, p) \/ RevokePat(th, b, p)

Step(th) ==
  \/ OpenApp(th) \/ WriteApp(th) \/ LogApp(th) \/ UnlinkApp(th) \/ LogNoApp(th)
  \/ ReadApp(th) \/ Exchange(th) \/ AskUser(th)
  \/ OpenConnection(th) \/ WriteConnection(th) \/ LogConnection(th)
  \/ UnlinkConnection(th) \/ LogDisconnect(th)
  \/ OpenPat(th) \/ WritePat(th) \/ ShowPat(th) \/ UnlinkPat(th)

Next ==
  \/ \E th \in Threads : Begin(th) \/ Step(th) \/ CutOff(th)
  \/ \E b \in Bearers, t \in Tenants : ListRepos(b, t) \/ \E f \in Flows : ConnectUrl(b, t, f)
  \/ \E f \in Flows : Approve(f)
  \/ \E x \in Flows \union Pats : Expire(x)

Spec == Init /\ [][Next]_vars

-----------------------------------------------------------------------------
TypeOK ==
  /\ app \in [Tenants -> Apps \union {None, Torn}]
  /\ con \in [Tenants -> Connection \union {None, Torn}]
  /\ pat \in [Pats -> Users \union {None, Torn}]
  /\ flow \in [Flows -> Flow \union {None}] /\ late \subseteq Flows \union Pats
  /\ req \in [Threads -> Requests \union {NoRequest}]
  /\ conLine \in [Tenants -> Connection \union {None}]
  /\ appLine \in [Tenants -> Apps \union {None}]
  /\ shownTo \in [Pats -> Users \union {None}]
  /\ dropped \subseteq Users \X Pats /\ stored \subseteq Flows
  /\ used \subseteq Tenants \X Flows
  /\ disturbed \subseteq Tenants \X {"con", "app"}
  /\ requests \in 0..MaxRequests

Consented(t, f) ==
  flow[f] # None /\ flow[f].tenant = t /\ flow[f].by \in Admins[t] /\ flow[f].approved /\ flow[f].spent

\* Five requests and two redirects apart: a token a tenant holds, or ever used,
\* was given for that tenant in a flow that one of its admins began
\* (github_oauth.py: "only a value minted here, after admin auth was already
\* checked in the connect-url endpoint, can verify"), and the record names that
\* admin.
ConnectionIsConsented ==
  /\ \A t \in Tenants : con[t] \in Connection =>
       Consented(t, con[t].flow) /\ con[t].by = flow[con[t].flow].by
  /\ \A t \in Tenants, f \in Flows : <<t, f>> \in used => Consented(t, f)

\* Reloading a callback's page, even after a disconnect, stores nothing again:
\* a consent makes one connection.
ReloadDoesNotReconnect ==
  [][\A f \in stored, t \in Tenants :
       con'[t] \in Connection /\ con'[t].flow = f => con'[t] = con[t]]_vars

\* Where requests did not meet on a tenant's file, and none was cut off, the
\* last line of the audit log is what the file says, and every file parses.
AuditTellsTheFiles ==
  \A t \in Tenants :
    /\ <<t, "con">> \notin Busy \union disturbed => con[t] = conLine[t]
    /\ <<t, "app">> \notin Busy \union disturbed => app[t] = appLine[t]

\* A token that was shown to somebody has its record until that very user is
\* told it is revoked, whatever other tokens and users do meanwhile.
ShownTokenLasts ==
  \A p \in Pats : shownTo[p] # None => pat[p] = shownTo[p] \/ <<shownTo[p], p>> \in dropped
=============================================================================
