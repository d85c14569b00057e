--------------------------- MODULE CredentialsProofs ---------------------------
(***************************************************************************)
(* What holds of GitHub apps, connections and personal access tokens for   *)
(* any number of tenants, users, consent flows, tokens and request         *)
(* threads, cut off or not.  The invariant has a part for each store:      *)
(* what a callback carries about the flow it serves, what the files of     *)
(* connections hold, what the records of personal access tokens say, and   *)
(* how the last line of the audit log relates to a file that one request   *)
(* at a time has touched.                                                  *)
(***************************************************************************)
EXTENDS Credentials, TLAPS

Callbacks == {"readApp", "exchange", "askUser", "openCon", "writeCon", "logCon"}
Exchanged == {"askUser", "openCon", "writeCon", "logCon"}
Storing == {"askUser", "openCon", "writeCon"}
Disconnects == {"unlinkCon", "logGone"}
AppEdits == {"openApp", "writeApp", "logApp", "unlinkApp", "logNoApp"}
PatEdits == {"openPat", "writePat", "showPat", "unlinkPat"}

\* The label of a thread tells what request it serves.
LEMMA Kinds ==
  ASSUME NEW r \in Requests \union {NoRequest}
  PROVE  /\ r.pc \in Callbacks <=> r \in CallbackRequest
         /\ r.pc \in Disconnects <=> r \in DisconnectRequest
         /\ r.pc \in AppEdits <=> r \in AppRequest
         /\ r.pc \in PatEdits <=> r \in PatRequest
         /\ r.pc = "idle" <=> r = NoRequest
         /\ r.pc \in Callbacks \union Disconnects \union AppEdits \union PatEdits \union {"idle"}
  <1> USE DEF Callbacks, Disconnects, AppEdits, PatEdits
  <1>1. CASE r \in CallbackRequest
    BY <1>1 DEF CallbackRequest, DisconnectRequest, AppRequest, PatRequest, NoRequest
  <1>2. CASE r \in DisconnectRequest
    BY <1>2 DEF CallbackRequest, DisconnectRequest, AppRequest, PatRequest, NoRequest
  <1>3. CASE r \in AppRequest
    BY <1>3 DEF CallbackRequest, DisconnectRequest, AppRequest, PatRequest, NoRequest
  <1>4. CASE r \in PatRequest
    BY <1>4 DEF CallbackRequest, DisconnectRequest, AppRequest, PatRequest, NoRequest
  <1>5. CASE r = NoRequest
    BY <1>5 DEF CallbackRequest, DisconnectRequest, AppRequest, PatRequest, NoRequest
  <1>6. QED
    BY <1>1, <1>2, <1>3, <1>4, <1>5 DEF Requests

LEMMA Labels ==
  /\ \A r \in CallbackRequest : r.flow \in Flows /\ r.client \in Apps \union {None}
  /\ \A r \in DisconnectRequest : r.tenant \in Tenants
  /\ \A r \in AppRequest : r.tenant \in Tenants /\ r.app \in Apps \union {None}
  /\ \A r \in PatRequest : r.user \in Users /\ r.pat \in Pats
  BY DEF CallbackRequest, DisconnectRequest, AppRequest, PatRequest

\* A request that goes on is of the same kind, about the same things.
LEMMA Relabelled ==
  /\ \A r \in CallbackRequest, l \in Callbacks :
       LET s == [r EXCEPT !.pc = l] IN
       s \in CallbackRequest /\ s.pc = l /\ s.flow = r.flow /\ s.client = r.client
  /\ \A r \in DisconnectRequest, l \in Disconnects :
       LET s == [r EXCEPT !.pc = l] IN s \in DisconnectRequest /\ s.pc = l /\ s.tenant = r.tenant
  /\ \A r \in AppRequest, l \in AppEdits :
       LET s == [r EXCEPT !.pc = l] IN
       s \in AppRequest /\ s.pc = l /\ s.tenant = r.tenant /\ s.app = r.app
  /\ \A r \in PatRequest, l \in PatEdits :
       LET s == [r EXCEPT !.pc = l] IN
       s \in PatRequest /\ s.pc = l /\ s.user = r.user /\ s.pat = r.pat
  <1>1. ASSUME NEW r \in CallbackRequest, NEW l \in Callbacks
        PROVE  LET s == [r EXCEPT !.pc = l] IN
               s \in CallbackRequest /\ s.pc = l /\ s.flow = r.flow /\ s.client = r.client
    BY DEF CallbackRequest, Callbacks
  <1>2. ASSUME NEW r \in DisconnectRequest, NEW l \in Disconnects
        PROVE  LET s == [r EXCEPT !.pc = l] IN
               s \in DisconnectRequest /\ s.pc = l /\ s.tenant = r.tenant
    BY DEF DisconnectRequest, Disconnects
  <1>3. ASSUME NEW r \in AppRequest, NEW l \in AppEdits
        PROVE  LET s == [r EXCEPT !.pc = l] IN
               s \in AppRequest /\ s.pc = l /\ s.tenant = r.tenant /\ s.app = r.app
    BY DEF AppRequest, AppEdits
  <1>4. ASSUME NEW r \in PatRequest, NEW l \in PatEdits
        PROVE  LET s == [r EXCEPT !.pc = l] IN
               s \in PatRequest /\ s.pc = l /\ s.user = r.user /\ s.pat = r.pat
    BY DEF PatRequest, PatEdits
  <1>5. QED
    BY <1>1, <1>2, <1>3, <1>4

ReqTyped == req \in [Threads -> Requests \union {NoRequest}]

\* What a thread that goes on to another request, or to none, leaves alone.
LEMMA SetFacts ==
  ASSUME ReqTyped, NEW th \in Threads,
         NEW r \in Requests \union {NoRequest}, Set(th, r)
  PROVE  /\ ReqTyped'
         /\ req'[th] = r
         /\ \A o \in Threads \ {th} : req'[o] = req[o]
  BY DEF Set, ReqTyped

LEMMA GotoFacts ==
  ASSUME ReqTyped, NEW th \in Threads, NEW l, Goto(th, l)
  PROVE  /\ \A o \in Threads \ {th} : req'[o] = req[o]
         /\ req[th] \in CallbackRequest /\ l \in Callbacks =>
              /\ ReqTyped'
              /\ req'[th] \in CallbackRequest /\ req'[th].pc = l
              /\ req'[th].flow = req[th].flow /\ req'[th].client = req[th].client
         /\ req[th] \in DisconnectRequest /\ l \in Disconnects =>
              /\ ReqTyped'
              /\ req'[th] \in DisconnectRequest /\ req'[th].pc = l
              /\ req'[th].tenant = req[th].tenant
         /\ req[th] \in AppRequest /\ l \in AppEdits =>
              /\ ReqTyped'
              /\ req'[th] \in AppRequest /\ req'[th].pc = l
              /\ req'[th].tenant = req[th].tenant /\ req'[th].app = req[th].app
         /\ req[th] \in PatRequest /\ l \in PatEdits =>
              /\ ReqTyped'
              /\ req'[th] \in PatRequest /\ req'[th].pc = l
              /\ req'[th].user = req[th].user /\ req'[th].pat = req[th].pat
  <1> DEFINE r == [req[th] EXCEPT !.pc = l]
  <1>1. req' = [req EXCEPT ![th] = r]
    BY DEF Goto, Set
  <1>2. req'[th] = r /\ \A o \in Threads \ {th} : req'[o] = req[o]
    BY <1>1 DEF ReqTyped
  <1>3. r \in Requests => ReqTyped'
    BY <1>1 DEF ReqTyped
  <1>4. CallbackRequest \subseteq Requests /\ DisconnectRequest \subseteq Requests
        /\ AppRequest \subseteq Requests /\ PatRequest \subseteq Requests
    BY DEF Requests
  <1>5. QED
    BY <1>2, <1>3, <1>4, Relabelled

LEMMA FinishFacts ==
  ASSUME ReqTyped, NEW th \in Threads, Finish(th)
  PROVE  /\ ReqTyped'
         /\ req'[th] = NoRequest /\ req'[th].pc = "idle"
         /\ \A o \in Threads \ {th} : req'[o] = req[o]
  BY SetFacts DEF Finish, NoRequest, ReqTyped

-----------------------------------------------------------------------------
\* What a step of a thread is about: its app, its tokens, or its connection.
AppStep(th) ==
  \/ \E b \in Bearers, t \in Tenants : DeleteApp(th, b, t) \/ \E a \in Apps : PutApp(th, b, t, a)
  \/ OpenApp(th) \/ WriteApp(th) \/ LogApp(th) \/ UnlinkApp(th) \/ LogNoApp(th)

PatStep(th) ==
  \/ \E b \in Bearers, p \in Pats : CreatePat(th, b, p) \/ RevokePat(th, b, p)
  \/ OpenPat(th) \/ WritePat(th) \/ ShowPat(th) \/ UnlinkPat(th)

ConStep(th) ==
  \/ \E f \in Flows : Callback(th, f)
  \/ \E b \in Bearers, t \in Tenants : Disconnect(th, b, t)
  \/ ReadApp(th) \/ Exchange(th) \/ AskUser(th)
  \/ OpenConnection(th) \/ WriteConnection(th) \/ LogConnection(th)
  \/ UnlinkConnection(th) \/ LogDisconnect(th)

Elsewhere ==
  \/ \E b \in Bearers, t \in Tenants : ListRepos(b, t) \/ \E f \in Flows : ConnectUrl(b, t, f)
  \/ \E f \in Flows : Approve(f)
  \/ \E x \in Flows \union Pats : Expire(x)

LEMMA NextSteps ==
  ASSUME Next
  PROVE  Elsewhere \/ \E th \in Threads : AppStep(th) \/ PatStep(th) \/ ConStep(th) \/ CutOff(th)
  <1>1. ASSUME NEW th \in Threads, Begin(th) PROVE AppStep(th) \/ PatStep(th) \/ ConStep(th)
    BY <1>1 DEF Begin, AppStep, PatStep, ConStep
  <1>2. ASSUME NEW th \in Threads, Step(th) PROVE AppStep(th) \/ PatStep(th) \/ ConStep(th)
    BY <1>2 DEF Step, AppStep, PatStep, ConStep
  <1>3. QED
    BY <1>1, <1>2 DEF Next, Elsewhere

Kind(th, labels) ==
  /\ ReqTyped'
  /\ \A o \in Threads \ {th} : req'[o] = req[o]
  /\ req[th].pc \in labels \union {"idle"} /\ req'[th].pc \in labels \union {"idle"}

LEMMA GotoKind ==
  ASSUME ReqTyped, NEW th \in Threads, NEW l, Goto(th, l)
  PROVE  /\ req[th].pc \in Callbacks /\ l \in Callbacks => Kind(th, Callbacks)
         /\ req[th].pc \in Disconnects /\ l \in Disconnects => Kind(th, Disconnects)
         /\ req[th].pc \in AppEdits /\ l \in AppEdits => Kind(th, AppEdits)
         /\ req[th].pc \in PatEdits /\ l \in PatEdits => Kind(th, PatEdits)
  <1>1. req[th] \in Requests \union {NoRequest}
    BY DEF ReqTyped
  <1>2. QED
    BY <1>1, Kinds, GotoFacts DEF ReqTyped, Kind

LEMMA FinishKind ==
  ASSUME ReqTyped, NEW th \in Threads, NEW labels, req[th].pc \in labels, Finish(th)
  PROVE  Kind(th, labels)
  BY FinishFacts DEF ReqTyped, Kind

LEMMA AcceptKind ==
  ASSUME ReqTyped, NEW th \in Threads, NEW labels, NEW r \in Requests, r.pc \in labels, Accept(th, r)
  PROVE  Kind(th, labels) /\ req'[th] = r /\ req[th].pc = "idle"
  BY SetFacts DEF ReqTyped, Kind, Accept, At

\* A thread's step changes the thread's own request, and what that is about.
LEMMA AppStepDoes ==
  ASSUME ReqTyped, NEW th \in Threads, AppStep(th)
  PROVE  /\ Kind(th, AppEdits)
         /\ UNCHANGED <<con, pat, flow, late, conLine, shownTo, dropped, stored, used>>
  <1>1. ASSUME NEW b \in Bearers, NEW t \in Tenants, NEW a \in Apps \union {None}, NEW l \in AppEdits,
               Accept(th, [pc |-> l, tenant |-> t, app |-> a])
        PROVE  Kind(th, AppEdits)
    <2> DEFINE r == [pc |-> l, tenant |-> t, app |-> a]
    <2>1. r \in Requests /\ r.pc \in AppEdits
      BY DEF Requests, AppRequest, AppEdits
    <2> HIDE DEF r
    <2>2. QED
      BY <1>1, <2>1, AcceptKind DEF r
  <1> USE DEF AppEdits, files, github, lines, ghosts
  <1>2. CASE \E b \in Bearers, t \in Tenants : DeleteApp(th, b, t)
    BY <1>1, <1>2 DEF DeleteApp
  <1>3. CASE \E b \in Bearers, t \in Tenants, a \in Apps : PutApp(th, b, t, a)
    BY <1>1, <1>3 DEF PutApp
  <1>4. CASE OpenApp(th)
    BY <1>4, GotoKind DEF OpenApp, At
  <1>5. CASE WriteApp(th)
    BY <1>5, GotoKind DEF WriteApp, At
  <1>6. CASE LogApp(th)
    BY <1>6, FinishKind DEF LogApp, At
  <1>7. CASE UnlinkApp(th)
    BY <1>7, GotoKind, FinishKind DEF UnlinkApp, At
  <1>8. CASE LogNoApp(th)
    BY <1>8, FinishKind DEF LogNoApp, At
  <1>9. QED
    BY <1>2, <1>3, <1>4, <1>5, <1>6, <1>7, <1>8 DEF AppStep

LEMMA SubjectTyped ==
  ASSUME NEW b \in Bearers, Admitted(b)
  PROVE  Subject(b) \in Users
  BY CredentialsAssumption DEF Admitted, Subject

LEMMA PatStepDoes ==
  ASSUME ReqTyped, NEW th \in Threads, PatStep(th)
  PROVE  /\ Kind(th, PatEdits)
         /\ UNCHANGED <<app, con, flow, late, conLine, appLine, stored, used>>
  <1>1. ASSUME NEW u \in Users, NEW p \in Pats, NEW l \in PatEdits,
               Accept(th, [pc |-> l, user |-> u, pat |-> p])
        PROVE  Kind(th, PatEdits)
    <2> DEFINE r == [pc |-> l, user |-> u, pat |-> p]
    <2>1. r \in Requests /\ r.pc \in PatEdits
      BY DEF Requests, PatRequest, PatEdits
    <2> HIDE DEF r
    <2>2. QED
      BY <1>1, <2>1, AcceptKind DEF r
  <1> USE DEF PatEdits, files, github, lines, ghosts
  <1>2. CASE \E b \in Bearers, p \in Pats : CreatePat(th, b, p)
    BY <1>1, <1>2, SubjectTyped DEF CreatePat
  <1>3. CASE \E b \in Bearers, p \in Pats : RevokePat(th, b, p)
    BY <1>1, <1>3, SubjectTyped DEF RevokePat
  <1>4. CASE OpenPat(th)
    BY <1>4, GotoKind DEF OpenPat, At
  <1>5. CASE WritePat(th)
    BY <1>5, GotoKind DEF WritePat, At
  <1>6. CASE ShowPat(th)
    BY <1>6, FinishKind DEF ShowPat, At
  <1>7. CASE UnlinkPat(th)
    BY <1>7, FinishKind DEF UnlinkPat, At
  <1>8. QED
    BY <1>2, <1>3, <1>4, <1>5, <1>6, <1>7 DEF PatStep

LEMMA KindWidens ==
  ASSUME NEW th \in Threads, NEW labels, NEW more, labels \subseteq more, Kind(th, labels)
  PROVE  Kind(th, more)
  BY DEF Kind

LEMMA ConStepDoes ==
  ASSUME ReqTyped, con \in [Tenants -> Connection \union {None, Torn}],
         NEW th \in Threads, ConStep(th)
  PROVE  /\ Kind(th, Callbacks \union Disconnects)
         /\ UNCHANGED <<app, pat, late, appLine, shownTo, dropped, used>>
  <1> DEFINE labels == Callbacks \union Disconnects
  <1> USE DEF files, github, lines, ghosts
  <1>1. CASE \E f \in Flows : Callback(th, f)
    <2>1. PICK f \in Flows : Callback(th, f)
      BY <1>1
    <2> DEFINE r == [pc |-> "readApp", flow |-> f, client |-> None]
    <2>2. r \in Requests /\ r.pc \in labels
      BY DEF Requests, CallbackRequest, Callbacks
    <2>3. Accept(th, r)
      BY <2>1 DEF Callback
    <2> HIDE DEF r, labels
    <2>4. Kind(th, labels)
      BY <2>2, <2>3, AcceptKind
    <2>5. QED
      BY <2>1, <2>4 DEF Callback, labels
  <1>2. CASE \E b \in Bearers, t \in Tenants : Disconnect(th, b, t)
    <2>1. PICK b \in Bearers, t \in Tenants : Disconnect(th, b, t)
      BY <1>2
    <2> DEFINE r == [pc |-> "unlinkCon", tenant |-> t, saw |-> con[t]]
    <2>2. r \in Requests /\ r.pc \in labels
      BY <2>1 DEF Requests, DisconnectRequest, Disconnects, Disconnect
    <2>3. Accept(th, r)
      BY <2>1 DEF Disconnect
    <2> HIDE DEF r, labels
    <2>4. Kind(th, labels)
      BY <2>2, <2>3, AcceptKind
    <2>5. QED
      BY <2>1, <2>4 DEF Disconnect, labels
  <1>3. CASE ReadApp(th)
    <2>1. CASE \E a \in Apps : Set(th, [req[th] EXCEPT !.pc = "exchange", !.client = a])
      <3>1. PICK a \in Apps : Set(th, [req[th] EXCEPT !.pc = "exchange", !.client = a])
        BY <2>1
      <3> DEFINE r == [req[th] EXCEPT !.pc = "exchange", !.client = a]
      <3>2. req[th] \in CallbackRequest
        BY <1>3, Kinds DEF ReadApp, At, ReqTyped, Callbacks
      <3>3. r \in Requests /\ r.pc = "exchange"
        BY <3>2 DEF Requests, CallbackRequest
      <3>4. Set(th, r)
        BY <3>1
      <3> HIDE DEF r
      <3>5. Kind(th, labels)
        BY <1>3, <3>3, <3>4, SetFacts DEF Kind, ReadApp, At, ReqTyped, Callbacks
      <3>6. QED
        BY <1>3, <3>5 DEF ReadApp
    <2>2. CASE Finish(th)
      BY <1>3, <2>2, FinishKind DEF ReadApp, At, Callbacks
    <2>3. QED
      BY <1>3, <2>1, <2>2 DEF ReadApp
  <1>4. CASE Exchange(th)
    BY <1>4, GotoKind, FinishKind, KindWidens DEF Exchange, At, Callbacks
  <1>5. CASE AskUser(th)
    BY <1>5, GotoKind, FinishKind, KindWidens DEF AskUser, At, Callbacks
  <1>6. CASE OpenConnection(th)
    BY <1>6, GotoKind, KindWidens DEF OpenConnection, At, Callbacks
  <1>7. CASE WriteConnection(th)
    BY <1>7, GotoKind, KindWidens DEF WriteConnection, At, Callbacks
  <1>8. CASE LogConnection(th)
    BY <1>8, FinishKind DEF LogConnection, At, Callbacks
  <1>9. CASE UnlinkConnection(th)
    BY <1>9, GotoKind, FinishKind, KindWidens DEF UnlinkConnection, At, Disconnects
  <1>10. CASE LogDisconnect(th)
    BY <1>10, FinishKind DEF LogDisconnect, At, Disconnects
  <1>11. QED
    BY <1>1, <1>2, <1>3, <1>4, <1>5, <1>6, <1>7, <1>8, <1>9, <1>10 DEF ConStep

LEMMA CutOffDoes ==
  ASSUME ReqTyped, NEW th \in Threads, CutOff(th)
  PROVE  /\ ReqTyped' /\ req'[th] = NoRequest /\ req'[th].pc = "idle"
         /\ \A o \in Threads \ {th} : req'[o] = req[o]
         /\ UNCHANGED <<app, con, pat, flow, late, conLine, appLine, shownTo, dropped, stored, used>>
  BY FinishFacts DEF CutOff, ReqTyped, files, github, lines, ghosts

-----------------------------------------------------------------------------
\* Every flow was begun by an admin; a callback is for one that was approved,
\* and past the exchange its code is spent.
AdminsBegin == \A f \in Flows : flow[f] # None => flow[f].by \in Admins[flow[f].tenant]

FlowInv ==
  /\ AdminsBegin
  /\ \A th \in Threads : req[th].pc \in Callbacks =>
       flow[req[th].flow] # None /\ flow[req[th].flow].approved
  /\ \A th \in Threads : req[th].pc \in Exchanged => flow[req[th].flow].spent

\* What is known of a flow stays true of it.
Grows(f) ==
  flow[f] # None =>
    /\ flow'[f] # None /\ flow'[f].tenant = flow[f].tenant /\ flow'[f].by = flow[f].by
    /\ (flow[f].approved => flow'[f].approved) /\ (flow[f].spent => flow'[f].spent)

FlowStep == flow' \in [Flows -> Flow \union {None}] /\ \A f \in Flows : Grows(f)

LEMMA FlowFacts ==
  ASSUME TypeOK, NEW f \in Flows, flow[f] # None
  PROVE  /\ flow[f] \in Flow /\ flow[f].tenant \in Tenants /\ flow[f].by \in Users
         /\ flow[f].approved \in BOOLEAN /\ flow[f].spent \in BOOLEAN
  BY DEF TypeOK, Flow

LEMMA SpentTyped ==
  ASSUME NEW r \in Flow
  PROVE  LET s == [r EXCEPT !.spent = TRUE] IN
         s \in Flow /\ s.tenant = r.tenant /\ s.by = r.by /\ s.approved = r.approved /\ s.spent
  BY DEF Flow

LEMMA ApprovedTyped ==
  ASSUME NEW r \in Flow
  PROVE  LET s == [r EXCEPT !.approved = TRUE] IN
         s \in Flow /\ s.tenant = r.tenant /\ s.by = r.by /\ s.spent = r.spent /\ s.approved
  BY DEF Flow

LEMMA ExchangeDoes ==
  ASSUME TypeOK, FlowInv, NEW th \in Threads, Exchange(th)
  PROVE  /\ flow' \in [Flows -> Flow \union {None}]
         /\ \A f \in Flows : Grows(f)
         /\ UNCHANGED <<files, late, lines, ghosts>>
         /\ \/ /\ UNCHANGED flow /\ req'[th].pc = "idle"
            \/ /\ ~flow[req[th].flow].spent /\ flow'[req[th].flow].spent
               /\ req'[th].pc = "askUser" /\ req'[th].flow = req[th].flow
               /\ \A f \in Flows : f # req[th].flow => flow'[f] = flow[f]
            \/ req'[th].pc = "idle" /\ \A f \in Flows : f # req[th].flow => flow'[f] = flow[f]
  <1> DEFINE f == req[th].flow
             s == [flow[f] EXCEPT !.spent = TRUE]
  <1>1. req[th] \in CallbackRequest /\ f \in Flows /\ req[th].pc = "exchange" /\ ReqTyped
    BY Kinds, Labels DEF TypeOK, Exchange, At, Callbacks, ReqTyped
  <1>2. flow[f] # None /\ flow[f] \in Flow
    BY <1>1, FlowFacts DEF FlowInv, Callbacks
  <1>3. s \in Flow /\ s.tenant = flow[f].tenant /\ s.by = flow[f].by
        /\ s.approved = flow[f].approved /\ s.spent /\ s # None
    BY <1>2, SpentTyped, RecordsAssumption
  <1>4. UNCHANGED <<files, late, lines, ghosts>>
    BY DEF Exchange
  <1>5. CASE UNCHANGED flow /\ Finish(th)
    BY <1>1, <1>4, <1>5, FinishFacts DEF TypeOK, Grows, ReqTyped
  <1>6. CASE ~flow[f].spent /\ flow' = [flow EXCEPT ![f] = s] /\ (Goto(th, "askUser") \/ Finish(th))
    <2>1. flow' \in [Flows -> Flow \union {None}] /\ flow'[f] = s
          /\ \A g \in Flows : g # f => flow'[g] = flow[g]
      BY <1>1, <1>3, <1>6 DEF TypeOK
    <2> HIDE DEF s
    <2>2. \A g \in Flows : Grows(g)
      BY <1>3, <2>1 DEF Grows
    <2>3. CASE Goto(th, "askUser")
      <3>1. req'[th].pc = "askUser" /\ req'[th].flow = req[th].flow
        BY <1>1, <2>3, GotoFacts DEF Callbacks, ReqTyped
      <3>2. QED
        BY <1>3, <1>4, <1>6, <2>1, <2>2, <3>1
    <2>4. CASE Finish(th)
      <3>1. req'[th].pc = "idle"
        BY <1>1, <2>4, FinishFacts DEF ReqTyped
      <3>2. QED
        BY <1>4, <2>1, <2>2, <3>1
    <2>5. QED
      BY <1>6, <2>3, <2>4
  <1>7. QED
    BY <1>5, <1>6 DEF Exchange

\* The other steps of a connection leave the flows as they are.
LEMMA ConStepFlow ==
  ASSUME NEW th \in Threads, ConStep(th), ~Exchange(th)
  PROVE  UNCHANGED flow
  BY DEF ConStep, Callback, Disconnect, ReadApp, AskUser, OpenConnection, WriteConnection,
         LogConnection, UnlinkConnection, LogDisconnect, github

\* A flow that begins is an admin's, one that is approved stays whose it was.
LEMMA ElsewhereFlow ==
  ASSUME TypeOK, FlowInv, Elsewhere
  PROVE  FlowStep /\ AdminsBegin'
  <1>1. ASSUME NEW b \in Bearers, NEW t \in Tenants, NEW f \in Flows, ConnectUrl(b, t, f)
        PROVE  FlowStep /\ AdminsBegin'
    <2> DEFINE r == [tenant |-> t, by |-> Caller(b), app |-> app[t], approved |-> FALSE, spent |-> FALSE]
    <2>1. Caller(b) \in Admins[t] /\ app[t] \in Apps /\ flow[f] = None /\ flow' = [flow EXCEPT ![f] = r]
      BY <1>1 DEF ConnectUrl, ActsAsAdmin
    <2>2. Caller(b) \in Users
      BY <2>1, CredentialsAssumption
    <2>3. r \in Flow /\ r.by \in Admins[r.tenant]
      BY <2>1, <2>2 DEF Flow
    <2> HIDE DEF r
    <2>4. flow' \in [Flows -> Flow \union {None}] /\ flow'[f] = r
          /\ \A g \in Flows : g # f => flow'[g] = flow[g]
      BY <2>1, <2>3 DEF TypeOK
    <2>5. QED
      BY <2>1, <2>3, <2>4 DEF FlowStep, Grows, FlowInv, AdminsBegin
  <1>2. ASSUME NEW f \in Flows, Approve(f) PROVE FlowStep /\ AdminsBegin'
    <2> DEFINE r == [flow[f] EXCEPT !.approved = TRUE]
    <2>1. flow[f] \in Flow /\ flow[f] # None /\ flow' = [flow EXCEPT ![f] = r]
      BY <1>2, FlowFacts DEF Approve
    <2>2. r \in Flow /\ r.tenant = flow[f].tenant /\ r.by = flow[f].by /\ r.spent = flow[f].spent
          /\ r.approved /\ r # None
      BY <2>1, ApprovedTyped, RecordsAssumption
    <2> HIDE DEF r
    <2>3. flow' \in [Flows -> Flow \union {None}] /\ flow'[f] = r
          /\ \A g \in Flows : g # f => flow'[g] = flow[g]
      BY <2>1, <2>2 DEF TypeOK
    <2>4. QED
      BY <2>1, <2>2, <2>3 DEF FlowStep, Grows, FlowInv, AdminsBegin
  <1>3. ASSUME UNCHANGED flow PROVE FlowStep /\ AdminsBegin'
    BY <1>3 DEF TypeOK, FlowInv, FlowStep, Grows, AdminsBegin
  <1>4. QED
    BY <1>1, <1>2, <1>3 DEF Elsewhere, ListRepos, Expire, github

LEMMA ElsewhereDoes ==
  ASSUME Elsewhere
  PROVE  /\ UNCHANGED <<files, req, lines, shownTo, dropped, stored, disturbed, requests>>
         /\ late \subseteq Flows \union Pats => late' \subseteq Flows \union Pats
         /\ \/ UNCHANGED used
            \/ \E t \in Tenants : con[t] \in Connection /\ used' = used \union {<<t, con[t].flow>>}
  BY DEF Elsewhere, ListRepos, ConnectUrl, Approve, Expire, github, ghosts, Continue

LEMMA StepGrows ==
  ASSUME TypeOK, FlowInv, [Next]_vars
  PROVE  FlowStep
  <1>1. ASSUME UNCHANGED flow PROVE FlowStep
    BY <1>1 DEF TypeOK, FlowStep, Grows
  <1>2. ASSUME NEW th \in Threads, AppStep(th) \/ PatStep(th) \/ CutOff(th) PROVE UNCHANGED flow
    BY <1>2, AppStepDoes, PatStepDoes, CutOffDoes DEF ReqTyped, TypeOK
  <1>3. ASSUME NEW th \in Threads, ConStep(th) PROVE FlowStep
    <2>1. CASE Exchange(th)
      BY <2>1, ExchangeDoes DEF FlowStep
    <2>2. CASE ~Exchange(th)
      BY <1>1, <1>3, <2>2, ConStepFlow
    <2>3. QED
      BY <2>1, <2>2
  <1>4. CASE Elsewhere
    BY <1>4, ElsewhereFlow
  <1>5. CASE UNCHANGED vars
    BY <1>1, <1>5 DEF vars
  <1>6. QED
    BY <1>1, <1>2, <1>3, <1>4, <1>5, NextSteps

\* A connection's callbacks go through their labels in order, each with the flow
\* it began with, and pass the exchange with a code that was not spent.
Begins(th) ==
  /\ req[th].pc = "idle" /\ req'[th].pc = "readApp" /\ req'[th].flow \in Flows
  /\ flow[req'[th].flow] # None /\ flow[req'[th].flow].approved

GoesOn(th) ==
  /\ req[th].pc \in Callbacks /\ req'[th].flow = req[th].flow
  /\ req'[th].pc \in Exchanged /\ req[th].pc \notin Exchanged =>
       /\ req'[th].pc = "askUser" /\ req[th].pc = "exchange"
       /\ ~flow[req[th].flow].spent /\ flow'[req[th].flow].spent
  /\ req'[th].pc \in Storing => req[th].pc \in Storing \/ req[th].pc = "exchange"

LEMMA CallbackOrder ==
  ASSUME TypeOK, FlowInv, NEW th \in Threads, ConStep(th), req'[th].pc \in Callbacks
  PROVE  Begins(th) \/ GoesOn(th)
  <1> USE DEF Callbacks, Exchanged, Storing, Begins, GoesOn
  <1>0. ReqTyped
    BY DEF TypeOK, ReqTyped
  <1>1. ASSUME NEW f \in Flows, Callback(th, f) PROVE Begins(th)
    <2> DEFINE r == [pc |-> "readApp", flow |-> f, client |-> None]
    <2>1. r \in Requests /\ r.pc \in Callbacks /\ r.flow = f /\ r.pc = "readApp"
      BY DEF Requests, CallbackRequest
    <2>2. Accept(th, r)
      BY <1>1 DEF Callback
    <2> HIDE DEF r
    <2>3. req'[th] = r /\ req[th].pc = "idle"
      BY <1>0, <2>1, <2>2, AcceptKind
    <2>4. QED
      BY <1>1, <2>1, <2>3 DEF Callback
  <1>2. ASSUME NEW b \in Bearers, NEW t \in Tenants, Disconnect(th, b, t) PROVE FALSE
    <2> DEFINE r == [pc |-> "unlinkCon", tenant |-> t, saw |-> con[t]]
    <2>1. r \in Requests /\ r.pc = "unlinkCon"
      BY <1>2 DEF Requests, DisconnectRequest, Disconnect, TypeOK
    <2>2. Accept(th, r)
      BY <1>2 DEF Disconnect
    <2> HIDE DEF r
    <2>3. req'[th] = r
      BY <1>0, <2>1, <2>2, AcceptKind
    <2>4. QED
      BY <2>1, <2>3
  <1>3. CASE ReadApp(th)
    <2>1. ~Finish(th)
      BY <1>0, FinishFacts
    <2>2. PICK a \in Apps : Set(th, [req[th] EXCEPT !.pc = "exchange", !.client = a])
      BY <1>3, <2>1 DEF ReadApp
    <2> DEFINE r == [req[th] EXCEPT !.pc = "exchange", !.client = a]
    <2>3. req[th] \in CallbackRequest /\ req[th].pc = "readApp"
      BY <1>0, <1>3, Kinds DEF ReadApp, At, ReqTyped
    <2>4. r \in Requests /\ r.pc = "exchange" /\ r.flow = req[th].flow
      BY <2>3 DEF Requests, CallbackRequest
    <2> HIDE DEF r
    <2>5. req'[th] = r
      BY <1>0, <2>2, <2>4, SetFacts DEF r, ReqTyped
    <2>6. QED
      BY <2>3, <2>4, <2>5
  <1>4. CASE Exchange(th)
    BY <1>4, ExchangeDoes DEF Exchange, At
  <1>5. CASE AskUser(th)
    BY <1>0, <1>5, GotoFacts, FinishFacts, Kinds DEF AskUser, At, ReqTyped
  <1>6. CASE OpenConnection(th)
    BY <1>0, <1>6, GotoFacts, Kinds DEF OpenConnection, At, ReqTyped
  <1>7. CASE WriteConnection(th)
    BY <1>0, <1>7, GotoFacts, Kinds DEF WriteConnection, At, ReqTyped
  <1>8. CASE LogConnection(th)
    BY <1>0, <1>8, FinishFacts DEF LogConnection
  <1>9. CASE UnlinkConnection(th)
    BY <1>0, <1>9, GotoFacts, FinishFacts, Kinds DEF UnlinkConnection, At, ReqTyped, Disconnects
  <1>10. CASE LogDisconnect(th)
    BY <1>0, <1>10, FinishFacts DEF LogDisconnect
  <1>11. QED
    BY <1>1, <1>2, <1>3, <1>4, <1>5, <1>6, <1>7, <1>8, <1>9, <1>10 DEF ConStep

LEMMA FlowOf ==
  ASSUME TypeOK, NEW th \in Threads, req[th].pc \in Callbacks
  PROVE  req[th] \in CallbackRequest /\ req[th].flow \in Flows
  BY Kinds, Labels DEF TypeOK

LEMMA FlowInvStep ==
  ASSUME TypeOK, FlowInv, [Next]_vars
  PROVE  FlowInv'
  <1>0. FlowStep /\ ReqTyped
    BY StepGrows DEF TypeOK, ReqTyped
  <1>1. AdminsBegin'
    <2>1. CASE Elsewhere
      BY <2>1, ElsewhereFlow
    <2>2. CASE ~Elsewhere
      <3>1. \A f \in Flows : flow'[f] # None => flow[f] # None
        <4>1. ASSUME NEW th \in Threads, Exchange(th), NEW f \in Flows, flow[f] = None
              PROVE  flow'[f] = None
          <5>1. req[th].flow # f
            BY <4>1, FlowOf DEF FlowInv, Exchange, At, Callbacks
          <5>2. QED
            BY <4>1, <5>1, ExchangeDoes
        <4>2. ASSUME NEW th \in Threads, AppStep(th) \/ PatStep(th) \/ CutOff(th) PROVE UNCHANGED flow
          BY <1>0, <4>2, AppStepDoes, PatStepDoes, CutOffDoes
        <4>3. ASSUME UNCHANGED vars PROVE UNCHANGED flow
          BY <4>3 DEF vars
        <4>4. QED
          BY <2>2, <4>1, <4>2, <4>3, ConStepFlow, NextSteps
      <3>2. QED
        BY <1>0, <3>1 DEF FlowInv, AdminsBegin, FlowStep, Grows
    <2>3. QED
      BY <2>1, <2>2
  <1>2. ASSUME NEW th \in Threads, req[th].pc \in Callbacks, req'[th] = req[th]
        PROVE  /\ flow'[req'[th].flow] # None /\ flow'[req'[th].flow].approved
               /\ req'[th].pc \in Exchanged => flow'[req'[th].flow].spent
    BY <1>0, <1>2, FlowOf DEF FlowInv, FlowStep, Grows
  <1>3. ASSUME NEW th \in Threads, req'[th].pc \in Callbacks, req'[th] # req[th]
        PROVE  /\ flow'[req'[th].flow] # None /\ flow'[req'[th].flow].approved
               /\ req'[th].pc \in Exchanged => flow'[req'[th].flow].spent
    <2>1. ConStep(th)
      <3>1. ASSUME NEW o \in Threads, AppStep(o) \/ PatStep(o) \/ CutOff(o) PROVE FALSE
        BY <1>0, <1>3, <3>1, AppStepDoes, PatStepDoes, CutOffDoes
           DEF Kind, Callbacks, AppEdits, PatEdits
      <3>2. ASSUME NEW o \in Threads, ConStep(o) PROVE o = th
        BY <1>0, <1>3, <3>2, ConStepDoes DEF Kind, TypeOK
      <3>3. Next
        BY <1>3 DEF vars
      <3>4. ~Elsewhere
        BY <1>3, ElsewhereDoes
      <3>5. QED
        BY <3>1, <3>2, <3>3, <3>4, NextSteps
    <2>2. CASE Begins(th)
      BY <1>0, <2>2 DEF Begins, FlowStep, Grows, Exchanged
    <2>3. CASE GoesOn(th)
      <3>1. req[th].flow \in Flows /\ flow[req[th].flow] # None /\ flow[req[th].flow].approved
        BY <2>3, FlowOf DEF GoesOn, FlowInv
      <3>2. req'[th].pc \in Exchanged => flow'[req[th].flow].spent
        BY <1>0, <2>3, <3>1 DEF GoesOn, FlowInv, FlowStep, Grows
      <3>3. QED
        BY <1>0, <2>3, <3>1, <3>2 DEF GoesOn, FlowStep, Grows
    <2>4. QED
      BY <1>3, <2>1, <2>2, <2>3, CallbackOrder
  <1>4. Exchanged \subseteq Callbacks
    BY DEF Exchanged, Callbacks
  <1>5. ASSUME NEW th \in Threads, req'[th].pc \in Callbacks
        PROVE  /\ flow'[req'[th].flow] # None /\ flow'[req'[th].flow].approved
               /\ req'[th].pc \in Exchanged => flow'[req'[th].flow].spent
    BY <1>2, <1>3, <1>5
  <1>6. QED
    BY <1>1, <1>4, <1>5 DEF FlowInv

-----------------------------------------------------------------------------
LEMMA TargetTyped ==
  ASSUME TypeOK, NEW r \in Requests \union {NoRequest},
         r \in CallbackRequest => flow[r.flow] # None
  PROVE  Target(r) \subseteq Tenants \X {"con", "app"}
  <1>1. CASE r \in CallbackRequest
    BY <1>1, Labels, FlowFacts DEF Target
  <1>2. CASE r \in DisconnectRequest /\ r \notin CallbackRequest
    BY <1>2, Labels DEF Target
  <1>3. CASE r \in AppRequest /\ r \notin CallbackRequest /\ r \notin DisconnectRequest
    BY <1>3, Labels DEF Target
  <1>4. QED
    BY <1>1, <1>2, <1>3 DEF Target

LEMMA AcceptTyped ==
  ASSUME TypeOK, NEW th \in Threads, NEW r \in Requests,
         r \in CallbackRequest => flow[r.flow] # None, Accept(th, r)
  PROVE  disturbed' \subseteq Tenants \X {"con", "app"} /\ requests' \in 0..MaxRequests
  <1>1. disturbed' \subseteq Tenants \X {"con", "app"}
    BY TargetTyped DEF Accept, TypeOK
  <1>2. requests' \in 0..MaxRequests
    BY CredentialsAssumption DEF Accept, TypeOK
  <1>3. QED
    BY <1>1, <1>2

AppTyped ==
  app \in [Tenants -> Apps \union {None, Torn}] /\ appLine \in [Tenants -> Apps \union {None}]

PatTyped ==
  /\ pat \in [Pats -> Users \union {None, Torn}] /\ shownTo \in [Pats -> Users \union {None}]
  /\ dropped \subseteq Users \X Pats

ConTyped ==
  /\ con \in [Tenants -> Connection \union {None, Torn}]
  /\ conLine \in [Tenants -> Connection \union {None}]
  /\ stored \subseteq Flows /\ used \subseteq Tenants \X Flows

BooksTyped == disturbed \subseteq Tenants \X {"con", "app"} /\ requests \in 0..MaxRequests

\* Requests are about tenants, users and tokens that there are.
LEMMA RequestOf ==
  ASSUME TypeOK, NEW th \in Threads
  PROVE  /\ req[th].pc \in AppEdits => /\ req[th] \in AppRequest /\ req[th].tenant \in Tenants
                                      /\ req[th].app \in Apps \union {None}
         /\ req[th].pc \in PatEdits => /\ req[th] \in PatRequest
                                      /\ req[th].user \in Users /\ req[th].pat \in Pats
         /\ req[th].pc \in Disconnects => /\ req[th] \in DisconnectRequest
                                         /\ req[th].tenant \in Tenants
  BY Kinds, Labels DEF TypeOK

LEMMA AppStepTyped ==
  ASSUME TypeOK, FlowInv, NEW th \in Threads, AppStep(th)
  PROVE  AppTyped' /\ BooksTyped'
  <1>1. AppTyped /\ BooksTyped
    BY DEF TypeOK, AppTyped, BooksTyped
  <1>2. ASSUME NEW t \in Tenants, NEW a \in Apps \union {None}, NEW l \in {"openApp", "unlinkApp"},
               Accept(th, [pc |-> l, tenant |-> t, app |-> a]), UNCHANGED <<app, appLine>>
        PROVE  AppTyped' /\ BooksTyped'
    <2> DEFINE r == [pc |-> l, tenant |-> t, app |-> a]
    <2>1. r \in Requests /\ r.pc = l
      BY DEF Requests, AppRequest
    <2>2. r \notin CallbackRequest
      BY <2>1, Kinds DEF Callbacks
    <2> HIDE DEF r
    <2>3. BooksTyped'
      BY <1>2, <2>1, <2>2, AcceptTyped DEF BooksTyped, r
    <2>4. QED
      BY <1>1, <1>2, <2>3 DEF AppTyped
  <1> USE DEF AppEdits, files, lines, Continue
  <1>3. CASE \E b \in Bearers, t \in Tenants : DeleteApp(th, b, t) \/ \E a \in Apps : PutApp(th, b, t, a)
    BY <1>2, <1>3 DEF DeleteApp, PutApp
  <1>4. CASE OpenApp(th)
    BY <1>1, <1>4, RequestOf DEF OpenApp, At, AppTyped, BooksTyped
  <1>5. CASE WriteApp(th)
    <2>1. req[th].tenant \in Tenants /\ req[th].app \in Apps \union {None}
      BY <1>5, RequestOf DEF WriteApp, At
    <2>2. PICK text \in Filled(app[req[th].tenant], req[th].app, <<req[th].tenant, "app">>) :
            app' = [app EXCEPT ![req[th].tenant] = text]
      BY <1>5 DEF WriteApp
    <2>3. text \in Apps \union {None, Torn}
      BY <1>1, <2>1, <2>2 DEF Filled, AppTyped
    <2>4. QED
      BY <1>1, <1>5, <2>1, <2>2, <2>3 DEF WriteApp, AppTyped, BooksTyped
  <1>6. CASE LogApp(th)
    BY <1>1, <1>6, RequestOf DEF LogApp, At, AppTyped, BooksTyped
  <1>7. CASE UnlinkApp(th)
    BY <1>1, <1>7, RequestOf DEF UnlinkApp, At, AppTyped, BooksTyped
  <1>8. CASE LogNoApp(th)
    BY <1>1, <1>8, RequestOf DEF LogNoApp, At, AppTyped, BooksTyped
  <1>9. QED
    BY <1>3, <1>4, <1>5, <1>6, <1>7, <1>8 DEF AppStep

LEMMA PatStepTyped ==
  ASSUME TypeOK, FlowInv, NEW th \in Threads, PatStep(th)
  PROVE  PatTyped' /\ BooksTyped'
  <1>1. PatTyped /\ BooksTyped
    BY DEF TypeOK, PatTyped, BooksTyped
  <1>2. ASSUME NEW u \in Users, NEW p \in Pats, NEW l \in {"openPat", "unlinkPat"},
               Accept(th, [pc |-> l, user |-> u, pat |-> p]), UNCHANGED <<pat, shownTo, dropped>>
        PROVE  PatTyped' /\ BooksTyped'
    <2> DEFINE r == [pc |-> l, user |-> u, pat |-> p]
    <2>1. r \in Requests /\ r.pc = l
      BY DEF Requests, PatRequest
    <2>2. r \notin CallbackRequest
      BY <2>1, Kinds DEF Callbacks
    <2> HIDE DEF r
    <2>3. BooksTyped'
      BY <1>2, <2>1, <2>2, AcceptTyped DEF BooksTyped, r
    <2>4. QED
      BY <1>1, <1>2, <2>3 DEF PatTyped
  <1> USE DEF PatEdits, files, ghosts, Continue
  <1>3. CASE \E b \in Bearers, p \in Pats : CreatePat(th, b, p) \/ RevokePat(th, b, p)
    BY <1>2, <1>3, SubjectTyped DEF CreatePat, RevokePat
  <1>4. CASE OpenPat(th)
    BY <1>1, <1>4, RequestOf DEF OpenPat, At, PatTyped, BooksTyped
  <1>5. CASE WritePat(th)
    BY <1>1, <1>5, RequestOf DEF WritePat, At, PatTyped, BooksTyped
  <1>6. CASE ShowPat(th)
    BY <1>1, <1>6, RequestOf DEF ShowPat, At, PatTyped, BooksTyped
  <1>7. CASE UnlinkPat(th)
    BY <1>1, <1>7, RequestOf DEF UnlinkPat, At, PatTyped, BooksTyped
  <1>8. QED
    BY <1>3, <1>4, <1>5, <1>6, <1>7 DEF PatStep

\* What a callback is about to store.
Grant(f) == [flow |-> f, by |-> flow[f].by]

LEMMA GrantTyped ==
  ASSUME TypeOK, FlowInv, NEW th \in Threads, req[th].pc \in Callbacks
  PROVE  /\ req[th].flow \in Flows /\ flow[req[th].flow] # None
         /\ flow[req[th].flow].tenant \in Tenants
         /\ Grant(req[th].flow) \in Connection
  BY FlowOf, FlowFacts DEF FlowInv, Grant, Connection

LEMMA ConStepTyped ==
  ASSUME TypeOK, FlowInv, NEW th \in Threads, ConStep(th)
  PROVE  ConTyped' /\ BooksTyped'
  <1>1. ConTyped /\ BooksTyped
    BY DEF TypeOK, ConTyped, BooksTyped
  <1> USE DEF Callbacks, Disconnects, files, lines, ghosts, github, Continue
  <1>2. ASSUME NEW f \in Flows, Callback(th, f) PROVE ConTyped' /\ BooksTyped'
    <2> DEFINE r == [pc |-> "readApp", flow |-> f, client |-> None]
    <2>1. r \in Requests /\ r.flow = f
      BY DEF Requests, CallbackRequest
    <2>2. Accept(th, r) /\ flow[f] # None /\ UNCHANGED <<con, conLine, stored, used>>
      BY <1>2 DEF Callback
    <2> HIDE DEF r
    <2>3. BooksTyped'
      BY <2>1, <2>2, AcceptTyped DEF BooksTyped
    <2>4. QED
      BY <1>1, <2>2, <2>3 DEF ConTyped
  <1>3. ASSUME NEW b \in Bearers, NEW t \in Tenants, Disconnect(th, b, t)
        PROVE  ConTyped' /\ BooksTyped'
    <2> DEFINE r == [pc |-> "unlinkCon", tenant |-> t, saw |-> con[t]]
    <2>1. r \in Requests /\ r.pc = "unlinkCon"
      BY <1>1, <1>3 DEF Requests, DisconnectRequest, Disconnect, ConTyped
    <2>2. r \notin CallbackRequest
      BY <2>1, Kinds
    <2>3. Accept(th, r) /\ UNCHANGED <<con, conLine, stored, used>>
      BY <1>3 DEF Disconnect
    <2> HIDE DEF r
    <2>4. BooksTyped'
      BY <2>1, <2>2, <2>3, AcceptTyped DEF BooksTyped
    <2>5. QED
      BY <1>1, <2>3, <2>4 DEF ConTyped
  <1>4. CASE ReadApp(th) \/ Exchange(th) \/ AskUser(th)
    BY <1>1, <1>4 DEF ReadApp, Exchange, AskUser, ConTyped, BooksTyped
  <1>5. CASE OpenConnection(th)
    BY <1>1, <1>5, GrantTyped DEF OpenConnection, At, ConTyped, BooksTyped
  <1>6. CASE WriteConnection(th)
    <2> DEFINE f == req[th].flow
               t == flow[f].tenant
    <2>1. f \in Flows /\ t \in Tenants /\ Grant(f) \in Connection
      BY <1>6, GrantTyped DEF WriteConnection, At
    <2>2. PICK text \in Filled(con[t], Grant(f), <<t, "con">>) : con' = [con EXCEPT ![t] = text]
      BY <1>6 DEF WriteConnection, Grant
    <2>3. text \in Connection \union {None, Torn}
      BY <1>1, <2>1, <2>2 DEF Filled, ConTyped
    <2>4. con' \in [Tenants -> Connection \union {None, Torn}]
      BY <1>1, <2>1, <2>2, <2>3 DEF ConTyped
    <2>5. QED
      BY <1>1, <1>6, <2>1, <2>4 DEF WriteConnection, ConTyped, BooksTyped
  <1>7. CASE LogConnection(th)
    <2>1. req[th].flow \in Flows /\ Grant(req[th].flow) \in Connection
          /\ conLine' = [conLine EXCEPT ![flow[req[th].flow].tenant] = Grant(req[th].flow)]
      BY <1>7, GrantTyped DEF LogConnection, At, Grant
    <2>2. QED
      BY <1>1, <1>7, <2>1 DEF LogConnection, ConTyped, BooksTyped
  <1>8. CASE UnlinkConnection(th)
    BY <1>1, <1>8, RequestOf DEF UnlinkConnection, At, ConTyped, BooksTyped
  <1>9. CASE LogDisconnect(th)
    BY <1>1, <1>9, RequestOf DEF LogDisconnect, At, ConTyped, BooksTyped
  <1>10. QED
    BY <1>2, <1>3, <1>4, <1>5, <1>6, <1>7, <1>8, <1>9 DEF ConStep

RestTyped ==
  /\ ReqTyped /\ late \subseteq Flows \union Pats
  /\ AppTyped /\ PatTyped /\ ConTyped /\ BooksTyped

LEMMA TypeOKStep ==
  ASSUME TypeOK, FlowInv, [Next]_vars
  PROVE  TypeOK'
  <1>1. FlowStep
    BY StepGrows
  <1>2. RestTyped
    BY DEF TypeOK, RestTyped, ReqTyped, AppTyped, PatTyped, ConTyped, BooksTyped
  <1>3. SUFFICES RestTyped'
    BY <1>1 DEF TypeOK, FlowStep, RestTyped, ReqTyped, AppTyped, PatTyped, ConTyped, BooksTyped
  <1> USE DEF RestTyped
  <1>4. ASSUME NEW th \in Threads, AppStep(th) PROVE RestTyped'
    BY <1>2, <1>4, AppStepDoes, AppStepTyped DEF Kind, PatTyped, ConTyped
  <1>5. ASSUME NEW th \in Threads, PatStep(th) PROVE RestTyped'
    BY <1>2, <1>5, PatStepDoes, PatStepTyped DEF Kind, AppTyped, ConTyped
  <1>6. ASSUME NEW th \in Threads, ConStep(th) PROVE RestTyped'
    BY <1>2, <1>6, ConStepDoes, ConStepTyped DEF Kind, AppTyped, PatTyped, ConTyped
  <1>7. ASSUME NEW th \in Threads, CutOff(th) PROVE RestTyped'
    <2>1. BooksTyped'
      <3>1. req[th] \in CallbackRequest => flow[req[th].flow] # None
        BY Kinds DEF FlowInv, TypeOK
      <3>2. Target(req[th]) \subseteq Tenants \X {"con", "app"}
        BY <3>1, TargetTyped DEF TypeOK
      <3>3. QED
        BY <1>2, <1>7, <3>2 DEF CutOff, BooksTyped
    <2>2. QED
      BY <1>2, <1>7, <2>1, CutOffDoes DEF AppTyped, PatTyped, ConTyped
  <1>8. CASE Elsewhere
    <2>1. used' \subseteq Tenants \X Flows
      BY <1>2, <1>8, ElsewhereDoes DEF ConTyped, Connection
    <2>2. QED
      BY <1>2, <1>8, <2>1, ElsewhereDoes
         DEF files, lines, AppTyped, PatTyped, ConTyped, BooksTyped, ReqTyped
  <1>9. CASE UNCHANGED vars
    BY <1>2, <1>9 DEF vars, AppTyped, PatTyped, ConTyped, BooksTyped, ReqTyped
  <1>10. QED
    BY <1>4, <1>5, <1>6, <1>7, <1>8, <1>9, NextSteps

-----------------------------------------------------------------------------
\* A flow whose token was stored is spent, and no other callback holds it.
StoreInv ==
  /\ \A f \in stored : flow[f] # None /\ flow[f].spent
  /\ \A th \in Threads : req[th].pc \in Storing => req[th].flow \notin stored
  /\ \A th, o \in Threads :
       req[th].pc \in Storing /\ req[o].pc \in Storing /\ req[th].flow = req[o].flow => th = o

\* Who passes the exchange is alone with the flow, which was not stored.
LEMMA StoreInvStep ==
  ASSUME TypeOK, FlowInv, StoreInv, [Next]_vars
  PROVE  StoreInv'
  <1>0. FlowStep /\ ReqTyped /\ stored \subseteq Flows
    BY StepGrows DEF TypeOK, ReqTyped
  <1>1. ASSUME NEW f \in Flows, flow[f] # None, flow[f].spent PROVE flow'[f] # None /\ flow'[f].spent
    BY <1>0, <1>1 DEF FlowStep, Grows
  <1>2. ASSUME UNCHANGED stored, \A th \in Threads : req'[th].pc \in Storing => req'[th] = req[th]
        PROVE  StoreInv'
    BY <1>0, <1>1, <1>2 DEF StoreInv
  <1>3. ASSUME NEW th \in Threads, AppStep(th) \/ PatStep(th) \/ CutOff(th) PROVE StoreInv'
    BY <1>0, <1>2, <1>3, AppStepDoes, PatStepDoes, CutOffDoes
       DEF Kind, AppEdits, PatEdits, Storing
  <1>4. ASSUME NEW th \in Threads, ConStep(th), ~WriteConnection(th) PROVE StoreInv'
    <2>1. UNCHANGED stored /\ \A o \in Threads \ {th} : req'[o] = req[o]
      BY <1>0, <1>4, ConStepDoes DEF Kind, ConStep, Callback, Disconnect, ReadApp, Exchange, AskUser,
         OpenConnection, LogConnection, UnlinkConnection, LogDisconnect, ghosts, TypeOK
    <2>2. CASE req'[th].pc \notin Storing
      BY <1>2, <2>1, <2>2
    <2>3. CASE req'[th].pc \in Storing
      <3>1. GoesOn(th)
        BY <1>4, <2>3, CallbackOrder DEF Begins, Storing, Callbacks
      <3>2. CASE req[th].pc \in Storing
        BY <1>0, <1>1, <2>1, <3>1, <3>2 DEF GoesOn, StoreInv
      <3>3. CASE req[th].pc = "exchange"
        <4>1. ~flow[req[th].flow].spent /\ req'[th].flow = req[th].flow
          BY <2>3, <3>1, <3>3 DEF GoesOn, Exchanged, Storing
        <4>2. req[th].flow \notin stored
          BY <4>1 DEF StoreInv
        <4>3. \A o \in Threads : req[o].pc \in Storing => req[o].flow # req[th].flow
          BY <4>1 DEF FlowInv, Storing, Exchanged
        <4>4. QED
          BY <1>0, <1>1, <2>1, <4>1, <4>2, <4>3 DEF StoreInv
      <3>4. QED
        BY <2>3, <3>1, <3>2, <3>3 DEF GoesOn
    <2>4. QED
      BY <2>2, <2>3
  <1>5. ASSUME NEW th \in Threads, WriteConnection(th) PROVE StoreInv'
    <2>1. req[th].pc = "writeCon" /\ req[th] \in CallbackRequest /\ req[th].flow \in Flows
      BY <1>5, FlowOf DEF WriteConnection, At, Callbacks
    <2>2. req'[th].pc = "logCon" /\ stored' = stored \union {req[th].flow}
          /\ \A o \in Threads \ {th} : req'[o] = req[o]
      BY <1>0, <1>5, <2>1, GotoFacts DEF WriteConnection, Callbacks
    <2>3. flow[req[th].flow] # None /\ flow[req[th].flow].spent
      BY <2>1 DEF FlowInv, Callbacks, Exchanged
    <2>4. \A o \in Threads \ {th} : req[o].pc \in Storing => req[o].flow # req[th].flow
      BY <2>1 DEF StoreInv, Storing
    <2>5. QED
      BY <1>0, <1>1, <2>1, <2>2, <2>3, <2>4 DEF StoreInv, Storing
  <1>6. CASE Elsewhere
    BY <1>2, <1>6, ElsewhereDoes
  <1>7. CASE UNCHANGED vars
    BY <1>2, <1>7 DEF vars
  <1>8. QED
    BY <1>3, <1>4, <1>5, <1>6, <1>7, NextSteps

-----------------------------------------------------------------------------
\* A file of a connection changes in three ways: it is opened, unlinked, or filled
\* with what one callback was granted.
ConWritten(th) ==
  /\ WriteConnection(th)
  /\ req[th].flow \in Flows /\ req[th].flow \notin stored
  /\ Consented(flow[req[th].flow].tenant, req[th].flow)
  /\ \A t \in Tenants :
       \/ con'[t] \in {con[t], Torn, None}
       \/ t = flow[req[th].flow].tenant /\ con'[t] = Grant(req[th].flow)

LEMMA ConChanges ==
  ASSUME TypeOK, FlowInv, StoreInv, [Next]_vars
  PROVE  \/ \A t \in Tenants : con'[t] \in {con[t], Torn, None}
         \/ \E th \in Threads : ConWritten(th)
  <1>0. ReqTyped /\ con \in [Tenants -> Connection \union {None, Torn}]
    BY DEF TypeOK, ReqTyped
  <1>1. ASSUME UNCHANGED con PROVE \A t \in Tenants : con'[t] \in {con[t], Torn, None}
    BY <1>1
  <1>2. ASSUME NEW th \in Threads, AppStep(th) \/ PatStep(th) \/ CutOff(th) PROVE UNCHANGED con
    BY <1>0, <1>2, AppStepDoes, PatStepDoes, CutOffDoes
  <1>3. ASSUME NEW th \in Threads, OpenConnection(th) \/ UnlinkConnection(th)
        PROVE  \A t \in Tenants : con'[t] \in {con[t], Torn, None}
    BY <1>0, <1>3 DEF OpenConnection, UnlinkConnection
  <1>4. ASSUME NEW th \in Threads, WriteConnection(th) PROVE ConWritten(th)
    <2> DEFINE f == req[th].flow
               t == flow[f].tenant
    <2>1. req[th].pc = "writeCon" /\ f \in Flows /\ t \in Tenants /\ Grant(f) \in Connection
      BY <1>4, GrantTyped DEF WriteConnection, At, Callbacks
    <2>2. Consented(t, f) /\ f \notin stored
      BY <2>1 DEF FlowInv, AdminsBegin, StoreInv, Consented, Callbacks, Exchanged, Storing
    <2>3. PICK text \in Filled(con[t], Grant(f), <<t, "con">>) : con' = [con EXCEPT ![t] = text]
      BY <1>4 DEF WriteConnection, Grant
    <2>4. text \in {con[t], Torn, None, Grant(f)}
      BY <2>3 DEF Filled
    <2>5. \A u \in Tenants : con'[u] = IF u = t THEN text ELSE con[u]
      BY <1>0, <2>1, <2>3
    <2>6. QED
      BY <1>4, <2>1, <2>2, <2>4, <2>5 DEF ConWritten
  <1>5. ASSUME NEW th \in Threads, ConStep(th), ~OpenConnection(th), ~UnlinkConnection(th),
               ~WriteConnection(th)
        PROVE  UNCHANGED con
    BY <1>5 DEF ConStep, Callback, Disconnect, ReadApp, Exchange, AskUser, LogConnection,
                LogDisconnect, files
  <1>6. CASE Elsewhere
    BY <1>1, <1>6, ElsewhereDoes DEF files
  <1>7. CASE UNCHANGED vars
    BY <1>1, <1>7 DEF vars
  <1>8. QED
    BY <1>1, <1>2, <1>3, <1>4, <1>5, <1>6, <1>7, NextSteps

LEMMA ConsentLasts ==
  ASSUME TypeOK, FlowInv, [Next]_vars, NEW t \in Tenants, NEW f \in Flows, Consented(t, f)
  PROVE  Consented(t, f)' /\ flow'[f].by = flow[f].by
  BY StepGrows DEF FlowStep, Grows, Consented

LEMMA ConsentedStep ==
  ASSUME TypeOK, FlowInv, StoreInv, ConnectionIsConsented, [Next]_vars
  PROVE  ConnectionIsConsented'
  <1>0. con \in [Tenants -> Connection \union {None, Torn}] /\ None \notin Connection
        /\ Torn \notin Connection
    BY RecordsAssumption DEF TypeOK
  <1>1. ASSUME NEW t \in Tenants, NEW c \in Connection, c = con'[t]
        PROVE  Consented(t, c.flow)' /\ c.by = flow'[c.flow].by
    <2>1. c.flow \in Flows
      BY DEF Connection
    <2>2. CASE con'[t] = con[t]
      <3>1. Consented(t, c.flow) /\ c.by = flow[c.flow].by
        BY <1>1, <2>2 DEF ConnectionIsConsented
      <3>2. QED
        BY <2>1, <3>1, ConsentLasts
    <2>3. CASE con'[t] # con[t]
      <3>1. PICK th \in Threads : ConWritten(th)
        BY <1>0, <1>1, <2>3, ConChanges
      <3>2. t = flow[req[th].flow].tenant /\ c = Grant(req[th].flow)
        BY <1>0, <1>1, <2>3, <3>1 DEF ConWritten
      <3>3. c.flow = req[th].flow /\ c.by = flow[c.flow].by
        BY <3>2 DEF Grant
      <3>4. Consented(t, c.flow)
        BY <3>1, <3>2, <3>3 DEF ConWritten
      <3>5. QED
        BY <2>1, <3>3, <3>4, ConsentLasts
    <2>4. QED
      BY <2>2, <2>3
  <1>2. ASSUME NEW t \in Tenants, NEW f \in Flows, <<t, f>> \in used'
        PROVE  Consented(t, f)'
    <2>1. Consented(t, f)
      <3>1. CASE <<t, f>> \in used
        BY <3>1 DEF ConnectionIsConsented
      <3>2. CASE <<t, f>> \notin used
        <4>1. Elsewhere
          <5>1. ASSUME NEW th \in Threads, AppStep(th) \/ PatStep(th) \/ ConStep(th) \/ CutOff(th)
                PROVE  UNCHANGED used
            BY <5>1, <1>0, AppStepDoes, PatStepDoes, ConStepDoes, CutOffDoes DEF TypeOK, ReqTyped
          <5>2. QED
            BY <1>2, <3>2, <5>1, NextSteps DEF vars
        <4>2. PICK s \in Tenants : con[s] \in Connection /\ used' = used \union {<<s, con[s].flow>>}
          BY <1>2, <3>2, <4>1, ElsewhereDoes
        <4>3. s = t /\ con[t].flow = f
          BY <1>2, <3>2, <4>2
        <4>4. QED
          BY <4>2, <4>3 DEF ConnectionIsConsented
      <3>3. QED
        BY <3>1, <3>2
    <2>2. QED
      BY <2>1, ConsentLasts
  <1>3. QED
    BY <1>1, <1>2 DEF ConnectionIsConsented, Consented

\* A flow that was stored is not stored again.
LEMMA StoredOnce ==
  ASSUME TypeOK, FlowInv, StoreInv, [Next]_vars, NEW f \in stored, NEW t \in Tenants,
         con'[t] \in Connection, con'[t].flow = f
  PROVE  con'[t] = con[t]
  <1> SUFFICES ASSUME con'[t] # con[t] PROVE FALSE
    OBVIOUS
  <1>1. None \notin Connection /\ Torn \notin Connection
    BY RecordsAssumption
  <1>2. PICK th \in Threads : ConWritten(th)
    BY <1>1, ConChanges
  <1>3. con'[t] = Grant(req[th].flow) /\ req[th].flow \notin stored
    BY <1>1, <1>2 DEF ConWritten
  <1>4. QED
    BY <1>3 DEF Grant

-----------------------------------------------------------------------------
\* Requests about one token: who makes it has it alone until it is written, and
\* afterwards all of them are its owner's.
PatRequestInv(th) ==
  LET u == req[th].user
      p == req[th].pat
  IN
  /\ req[th].pc = "openPat" => pat[p] = None /\ shownTo[p] = None
  /\ req[th].pc = "writePat" => pat[p] = Torn /\ shownTo[p] = None
  /\ req[th].pc = "showPat" => /\ pat[p] \in {u, None} /\ shownTo[p] = None
                               /\ pat[p] = u \/ <<u, p>> \in dropped
  /\ req[th].pc = "unlinkPat" => pat[p] \in {u, None} /\ shownTo[p] \in {u, None}

SamePat(th, o) ==
  req[th].pc \in PatEdits /\ req[o].pc \in PatEdits /\ req[th].pat = req[o].pat

PatInv ==
  /\ \A th \in Threads : PatRequestInv(th)
  /\ \A th, o \in Threads : SamePat(th, o) /\ th # o =>
       req[th].user = req[o].user /\ "unlinkPat" \in {req[th].pc, req[o].pc}
         /\ {req[th].pc, req[o].pc} \subseteq {"showPat", "unlinkPat"}
  /\ \A p \in Pats : shownTo[p] # None =>
       /\ pat[p] \in {shownTo[p], None}
       /\ pat[p] = shownTo[p] \/ <<shownTo[p], p>> \in dropped

\* A thread that has nothing to do with tokens leaves them alone.
LEMMA PatsUntouched ==
  ASSUME PatInv, UNCHANGED <<pat, shownTo, dropped>>,
         \A th \in Threads : req'[th].pc \in PatEdits => req'[th] = req[th]
  PROVE  PatInv'
  BY DEF PatInv, PatRequestInv, SamePat, PatEdits

LEMMA PatAccepted ==
  ASSUME TypeOK, PatInv, NEW th \in Threads, NEW u \in Users, NEW p \in Pats,
         NEW l \in {"openPat", "unlinkPat"}, Accept(th, [pc |-> l, user |-> u, pat |-> p])
  PROVE  /\ req[th].pc = "idle" /\ req'[th].pc = l /\ req'[th].user = u /\ req'[th].pat = p
         /\ \A o \in Threads \ {th} : req'[o] = req[o]
  <1> DEFINE r == [pc |-> l, user |-> u, pat |-> p]
  <1>1. r \in Requests /\ r.pc = l /\ r.user = u /\ r.pat = p
    BY DEF Requests, PatRequest
  <1>2. Accept(th, r)
    OBVIOUS
  <1> HIDE DEF r
  <1>3. QED
    BY <1>1, <1>2, SetFacts DEF Accept, At, TypeOK, ReqTyped

\* A request about a token that goes on: what it does to the token, and where it is then.
PatEdited(th) == OpenPat(th) \/ WritePat(th) \/ ShowPat(th) \/ UnlinkPat(th)

PatDone(th) ==
  LET u == req[th].user
      p == req[th].pat
  IN
  /\ u \in Users /\ p \in Pats
  /\ \A o \in Threads \ {th} : req'[o] = req[o]
  /\ req'[th].pc \in PatEdits => req'[th].user = u /\ req'[th].pat = p
  /\ \A q \in Pats : q # p => pat'[q] = pat[q] /\ shownTo'[q] = shownTo[q]
  /\ \/ /\ req[th].pc = "openPat" /\ req'[th].pc = "writePat"
        /\ pat'[p] = Torn /\ UNCHANGED <<shownTo, dropped>>
     \/ /\ req[th].pc = "writePat" /\ req'[th].pc = "showPat"
        /\ pat'[p] = u /\ UNCHANGED <<shownTo, dropped>>
     \/ /\ req[th].pc = "showPat" /\ req'[th].pc = "idle"
        /\ shownTo'[p] = u /\ UNCHANGED <<pat, dropped>>
     \/ /\ req[th].pc = "unlinkPat" /\ req'[th].pc = "idle"
        /\ pat'[p] = None /\ dropped' = dropped \union {<<u, p>>} /\ UNCHANGED shownTo

LEMMA PatEditDoes ==
  ASSUME TypeOK, NEW th \in Threads, PatEdited(th)
  PROVE  PatDone(th)
  <1>1. /\ ReqTyped /\ pat \in [Pats -> Users \union {None, Torn}]
        /\ shownTo \in [Pats -> Users \union {None}]
    BY DEF TypeOK, ReqTyped
  <1> USE DEF files, ghosts, PatEdits, PatDone
  <1>2. CASE OpenPat(th)
    <2>1. req[th] \in PatRequest /\ req[th].user \in Users /\ req[th].pat \in Pats
      BY <1>2, RequestOf DEF OpenPat, At
    <2>2. QED
      BY <1>1, <1>2, <2>1, GotoFacts DEF OpenPat, At
  <1>3. CASE WritePat(th)
    <2>1. req[th] \in PatRequest /\ req[th].user \in Users /\ req[th].pat \in Pats
      BY <1>3, RequestOf DEF WritePat, At
    <2>2. QED
      BY <1>1, <1>3, <2>1, GotoFacts DEF WritePat, At
  <1>4. CASE ShowPat(th)
    <2>1. req[th] \in PatRequest /\ req[th].user \in Users /\ req[th].pat \in Pats
      BY <1>4, RequestOf DEF ShowPat, At
    <2>2. QED
      BY <1>1, <1>4, <2>1, FinishFacts DEF ShowPat, At
  <1>5. CASE UnlinkPat(th)
    <2>1. req[th] \in PatRequest /\ req[th].user \in Users /\ req[th].pat \in Pats
      BY <1>5, RequestOf DEF UnlinkPat, At
    <2>2. QED
      BY <1>1, <1>5, <2>1, FinishFacts DEF UnlinkPat, At
  <1>6. QED
    BY <1>2, <1>3, <1>4, <1>5 DEF PatEdited

LEMMA PatDoneKeeps ==
  ASSUME TypeOK, PatInv, NEW th \in Threads, PatDone(th)
  PROVE  PatInv'
  <1> DEFINE u == req[th].user
             p == req[th].pat
  <1>1. /\ u \in Users /\ p \in Pats /\ u # None /\ u # Torn /\ None # Torn
        /\ \A o \in Threads \ {th} : req'[o] = req[o]
        /\ req[th].pc \in PatEdits
        /\ req'[th].pc \in PatEdits => req'[th].user = u /\ req'[th].pat = p
        /\ \A q \in Pats : q # p => pat'[q] = pat[q] /\ shownTo'[q] = shownTo[q]
        /\ dropped \subseteq dropped'
    BY CredentialsAssumption DEF PatDone, PatEdits
  <1>2. ASSUME NEW o \in Threads, o # th, req[o].pc \in PatEdits
        PROVE  /\ req[o].pat \in Pats
               /\ req[o].pat = p =>
                    /\ req[o].user = u /\ {req[th].pc, req[o].pc} \subseteq {"showPat", "unlinkPat"}
                    /\ "unlinkPat" \in {req[th].pc, req[o].pc}
    BY <1>1, <1>2, RequestOf DEF PatInv, SamePat
  <1>3. PatRequestInv(th) /\ \A o \in Threads : PatRequestInv(o)
    BY DEF PatInv
  <1>4. PatRequestInv(th)'
    BY <1>1, <1>3 DEF PatDone, PatRequestInv, PatEdits
  <1>5. ASSUME NEW o \in Threads, o # th PROVE PatRequestInv(o)'
    <2>1. CASE req[o].pc \notin PatEdits
      BY <1>1, <1>5, <2>1 DEF PatRequestInv, PatEdits
    <2>2. CASE req[o].pc \in PatEdits /\ req[o].pat # p
      BY <1>1, <1>2, <1>3, <1>5, <2>2 DEF PatRequestInv
    <2>3. CASE req[o].pc \in PatEdits /\ req[o].pat = p
      BY <1>1, <1>2, <1>3, <1>5, <2>3 DEF PatRequestInv, PatDone
    <2>4. QED
      BY <2>1, <2>2, <2>3
  <1>6. ASSUME NEW o \in Threads, NEW q \in Threads, SamePat(o, q)', o # q
        PROVE  req'[o].user = req'[q].user /\ "unlinkPat" \in {req'[o].pc, req'[q].pc}
                 /\ {req'[o].pc, req'[q].pc} \subseteq {"showPat", "unlinkPat"}
    <2>1. CASE o # th /\ q # th
      BY <1>1, <1>6, <2>1 DEF SamePat, PatInv
    <2>2. CASE o = th \/ q = th
      BY <1>1, <1>2, <1>6, <2>2 DEF SamePat, PatDone, PatEdits
    <2>3. QED
      BY <2>1, <2>2
  <1>7. ASSUME NEW q \in Pats, shownTo'[q] # None
        PROVE  /\ pat'[q] \in {shownTo'[q], None}
               /\ pat'[q] = shownTo'[q] \/ <<shownTo'[q], q>> \in dropped'
    <2>1. CASE q # p
      BY <1>1, <1>7, <2>1 DEF PatInv
    <2>2. CASE q = p
      BY <1>1, <1>3, <1>7, <2>2 DEF PatInv, PatDone, PatRequestInv
    <2>3. QED
      BY <2>1, <2>2
  <1>8. QED
    BY <1>4, <1>5, <1>6, <1>7 DEF PatInv

LEMMA PatInvStep ==
  ASSUME TypeOK, PatInv, [Next]_vars
  PROVE  PatInv'
  <1>0. ReqTyped /\ con \in [Tenants -> Connection \union {None, Torn}]
        /\ pat \in [Pats -> Users \union {None, Torn}] /\ shownTo \in [Pats -> Users \union {None}]
        /\ None # Torn /\ None \notin Users /\ Torn \notin Users
    BY CredentialsAssumption DEF TypeOK, ReqTyped
  <1>1. ASSUME NEW th \in Threads, AppStep(th) \/ ConStep(th) \/ CutOff(th) PROVE PatInv'
    BY <1>0, <1>1, AppStepDoes, ConStepDoes, CutOffDoes, PatsUntouched
       DEF Kind, AppEdits, PatEdits, Callbacks, Disconnects
  <1>2. CASE Elsewhere
    BY <1>2, ElsewhereDoes, PatsUntouched DEF files
  <1>3. CASE UNCHANGED vars
    BY <1>3, PatsUntouched DEF vars
  <1>4. ASSUME NEW th \in Threads, NEW b \in Bearers, NEW p \in Pats, CreatePat(th, b, p)
        PROVE  PatInv'
    <2>1. Subject(b) \in Users /\ UNCHANGED <<pat, shownTo, dropped>> /\ pat[p] = None /\ shownTo[p] = None
      BY <1>4, SubjectTyped DEF CreatePat, files, ghosts
    <2>2. /\ req[th].pc = "idle" /\ req'[th].pc = "openPat" /\ req'[th].pat = p
          /\ \A o \in Threads \ {th} : req'[o] = req[o]
      BY <1>4, <2>1, PatAccepted DEF CreatePat
    <2>3. \A o \in Threads : req[o].pc \in PatEdits => req[o].pat # p
      BY <1>4, RequestOf DEF CreatePat
    <2>4. QED
      BY <2>1, <2>2, <2>3 DEF PatInv, PatRequestInv, SamePat, PatEdits
  <1>5. ASSUME NEW th \in Threads, NEW b \in Bearers, NEW p \in Pats, RevokePat(th, b, p)
        PROVE  PatInv'
    <2> DEFINE u == Subject(b)
    <2>1. u \in Users /\ UNCHANGED <<pat, shownTo, dropped>> /\ pat[p] = u
      BY <1>5, SubjectTyped DEF RevokePat, files, ghosts
    <2>2. /\ req[th].pc = "idle" /\ req'[th].pc = "unlinkPat" /\ req'[th].pat = p /\ req'[th].user = u
          /\ \A o \in Threads \ {th} : req'[o] = req[o]
      BY <1>5, <2>1, PatAccepted DEF RevokePat
    <2> HIDE DEF u
    <2>3. ASSUME NEW o \in Threads, req[o].pc \in PatEdits, req[o].pat = p
          PROVE  req[o].user = u /\ req[o].pc \in {"showPat", "unlinkPat"}
      <3>1. u # None /\ u # Torn
        BY <1>0, <2>1
      <3>2. PatRequestInv(o)
        BY DEF PatInv
      <3>3. req[o].pc \notin {"openPat", "writePat"}
        BY <2>1, <2>3, <3>1, <3>2 DEF PatRequestInv
      <3>4. req[o].pc \in {"showPat", "unlinkPat"}
        BY <2>3, <3>3 DEF PatEdits
      <3>5. QED
        BY <2>1, <2>3, <3>1, <3>2, <3>4 DEF PatRequestInv
    <2>4. shownTo[p] \in {u, None}
      BY <1>0, <2>1 DEF PatInv
    <2>5. PatRequestInv(th)'
      BY <1>0, <2>1, <2>2, <2>4 DEF PatRequestInv
    <2>6. \A o \in Threads \ {th} : PatRequestInv(o)'
      BY <2>1, <2>2 DEF PatInv, PatRequestInv
    <2>7. ASSUME NEW o \in Threads, SamePat(th, o)' \/ SamePat(o, th)', o # th
          PROVE  req'[o].user = u /\ req'[o].pc \in {"showPat", "unlinkPat"}
      BY <2>2, <2>3, <2>7 DEF SamePat
    <2>8. QED
      BY <2>1, <2>2, <2>5, <2>6, <2>7 DEF PatInv, SamePat
  <1>6. ASSUME NEW th \in Threads, PatEdited(th) PROVE PatInv'
    BY <1>6, PatEditDoes, PatDoneKeeps
  <1>9. QED
    BY <1>1, <1>2, <1>3, <1>4, <1>5, <1>6, NextSteps DEF PatStep, PatEdited

-----------------------------------------------------------------------------
\* The threads that are about a tenant's connection, and where each may find it
\* while nobody else is: as the audit log has it, or as it is about to log it.
OnCon(th, t) ==
  \/ req[th].pc \in Callbacks /\ flow[req[th].flow].tenant = t
  \/ req[th].pc \in Disconnects /\ req[th].tenant = t

Before == {"readApp", "exchange", "askUser", "openCon", "unlinkCon"}

ConStage(th, t) ==
  /\ req[th].pc \in Before => con[t] = conLine[t]
  /\ req[th].pc = "logCon" => con[t] = Grant(req[th].flow)
  /\ req[th].pc = "logGone" => con[t] = None

ConAudited(t) ==
  /\ \A th, o \in Threads : OnCon(th, t) /\ OnCon(o, t) => th = o
  /\ \A th \in Threads : OnCon(th, t) => ConStage(th, t)
  /\ (\A th \in Threads : ~OnCon(th, t)) => con[t] = conLine[t]

\* The same of its OAuth App.
OnApp(th, t) == req[th].pc \in AppEdits /\ req[th].tenant = t

AppStage(th, t) ==
  /\ req[th].pc \in {"openApp", "unlinkApp"} => app[t] = appLine[t]
  /\ req[th].pc = "logApp" => app[t] = req[th].app
  /\ req[th].pc = "logNoApp" => app[t] = None

AppAudited(t) ==
  /\ \A th, o \in Threads : OnApp(th, t) /\ OnApp(o, t) => th = o
  /\ \A th \in Threads : OnApp(th, t) => AppStage(th, t)
  /\ (\A th \in Threads : ~OnApp(th, t)) => app[t] = appLine[t]

AuditInv ==
  \A t \in Tenants :
    /\ <<t, "con">> \notin disturbed => ConAudited(t)
    /\ <<t, "app">> \notin disturbed => AppAudited(t)

\* What a request is about to write is what its thread is on.
LEMMA TargetIs ==
  ASSUME TypeOK, NEW th \in Threads, NEW t \in Tenants
  PROVE  /\ <<t, "con">> \in Target(req[th]) <=> OnCon(th, t)
         /\ <<t, "app">> \in Target(req[th]) <=> OnApp(th, t)
  <1>1. req[th] \in Requests \union {NoRequest}
    BY DEF TypeOK
  <1> USE DEF Target, OnCon, OnApp
  <1>2. CASE req[th] \in CallbackRequest
    <2>1. Target(req[th]) = {<<flow[req[th].flow].tenant, "con">>}
      BY <1>2
    <2>2. req[th].pc \in Callbacks /\ req[th].pc \notin Disconnects /\ req[th].pc \notin AppEdits
      BY <1>1, <1>2, Kinds DEF Callbacks, Disconnects, AppEdits
    <2>3. QED
      BY <2>1, <2>2
  <1>3. CASE req[th] \in DisconnectRequest
    <2>1. req[th].pc \in Disconnects /\ req[th].pc \notin Callbacks /\ req[th].pc \notin AppEdits
      BY <1>1, <1>3, Kinds DEF Callbacks, Disconnects, AppEdits
    <2>2. req[th] \notin CallbackRequest
      BY <1>1, <2>1, Kinds
    <2>3. Target(req[th]) = {<<req[th].tenant, "con">>}
      BY <1>3, <2>2
    <2>4. QED
      BY <2>1, <2>3
  <1>4. CASE req[th] \in AppRequest
    <2>1. req[th].pc \in AppEdits /\ req[th].pc \notin Callbacks /\ req[th].pc \notin Disconnects
      BY <1>1, <1>4, Kinds DEF Callbacks, Disconnects, AppEdits
    <2>2. req[th] \notin CallbackRequest /\ req[th] \notin DisconnectRequest
      BY <1>1, <2>1, Kinds
    <2>3. Target(req[th]) = {<<req[th].tenant, "app">>}
      BY <1>4, <2>2
    <2>4. QED
      BY <2>1, <2>3
  <1>5. CASE req[th] \notin CallbackRequest /\ req[th] \notin DisconnectRequest /\ req[th] \notin AppRequest
    BY <1>1, <1>5, Kinds
  <1>6. QED
    BY <1>2, <1>3, <1>4, <1>5

LEMMA BusyIs ==
  ASSUME TypeOK, NEW t \in Tenants
  PROVE  /\ <<t, "con">> \in Busy <=> \E th \in Threads : OnCon(th, t)
         /\ <<t, "app">> \in Busy <=> \E th \in Threads : OnApp(th, t)
  BY TargetIs DEF Busy

\* How a thread's step leaves a tenant's connection: out of it before and after;
\* beginning with it, when nobody else is on it; or going on with it, to the next
\* stage or to where the log says what the file says.
ConMoved(th, t) ==
  \/ /\ ~OnCon(th, t) /\ ~OnCon(th, t)'
     /\ con'[t] = con[t] /\ conLine'[t] = conLine[t]
  \/ /\ \A o \in Threads : ~OnCon(o, t)
     /\ OnCon(th, t)' /\ req'[th].pc \in Before
     /\ con'[t] = con[t] /\ conLine'[t] = conLine[t]
  \/ /\ OnCon(th, t)
     /\ OnCon(th, t)' => ConStage(th, t)'
     /\ ~OnCon(th, t)' => con'[t] = conLine'[t]

AppMoved(th, t) ==
  \/ /\ ~OnApp(th, t) /\ ~OnApp(th, t)'
     /\ app'[t] = app[t] /\ appLine'[t] = appLine[t]
  \/ /\ \A o \in Threads : ~OnApp(o, t)
     /\ OnApp(th, t)' /\ req'[th].pc \in {"openApp", "unlinkApp"}
     /\ app'[t] = app[t] /\ appLine'[t] = appLine[t]
  \/ /\ OnApp(th, t)
     /\ OnApp(th, t)' => AppStage(th, t)'
     /\ ~OnApp(th, t)' => app'[t] = appLine'[t]

\* A request is accepted without disturbing a tenant's file only where nobody is on it.
LEMMA AcceptDisturbs ==
  ASSUME TypeOK, NEW th \in Threads, NEW r, Accept(th, r), NEW t \in Tenants
  PROVE  /\ <<t, "con">> \notin disturbed' /\ <<t, "con">> \in Target(r) =>
              \A o \in Threads : ~OnCon(o, t)
         /\ <<t, "app">> \notin disturbed' /\ <<t, "app">> \in Target(r) =>
              \A o \in Threads : ~OnApp(o, t)
  BY BusyIs DEF Accept

LEMMA AppMoves ==
  ASSUME TypeOK, AuditInv, NEW th \in Threads, AppStep(th), NEW t \in Tenants,
         <<t, "app">> \notin disturbed'
  PROVE  AppMoved(th, t)
  <1>1. /\ ReqTyped /\ app \in [Tenants -> Apps \union {None, Torn}]
        /\ appLine \in [Tenants -> Apps \union {None}]
    BY DEF TypeOK, ReqTyped
  <1>2. OnApp(th, t) /\ <<t, "app">> \notin disturbed => AppStage(th, t)
    BY DEF AuditInv, AppAudited
  <1>3. ASSUME NEW s \in Tenants, NEW a \in Apps \union {None}, NEW l \in {"openApp", "unlinkApp"},
               Accept(th, [pc |-> l, tenant |-> s, app |-> a]), UNCHANGED <<app, appLine>>
        PROVE  AppMoved(th, t)
    <2> DEFINE r == [pc |-> l, tenant |-> s, app |-> a]
    <2>1. r \in Requests /\ r \in AppRequest /\ r.pc = l /\ r.tenant = s /\ r.pc \in AppEdits
      BY DEF Requests, AppRequest, AppEdits
    <2>2. r \notin CallbackRequest /\ r \notin DisconnectRequest
      BY <2>1, Kinds DEF Callbacks, Disconnects
    <2>3. Target(r) = {<<r.tenant, "app">>}
      BY <2>1, <2>2 DEF Target
    <2>4. Accept(th, r)
      BY <1>3
    <2> HIDE DEF r
    <2>5. req'[th] = r /\ req[th].pc = "idle"
      BY <1>1, <2>1, <2>4, AcceptKind
    <2>6. ~OnApp(th, t) /\ (OnApp(th, t)' <=> s = t)
      BY <2>1, <2>5 DEF OnApp, AppEdits
    <2>7. s = t => \A o \in Threads : ~OnApp(o, t)
      BY <2>1, <2>3, <2>4, AcceptDisturbs
    <2>8. QED
      BY <1>3, <2>1, <2>5, <2>6, <2>7 DEF AppMoved
  <1> USE DEF files, lines, Continue, AppEdits, AppMoved, OnApp, AppStage
  <1>4. CASE \E b \in Bearers, s \in Tenants : DeleteApp(th, b, s) \/ \E a \in Apps : PutApp(th, b, s, a)
    BY <1>3, <1>4 DEF DeleteApp, PutApp
  <1>5. CASE OpenApp(th)
    <2>1. req[th] \in AppRequest /\ req[th].tenant \in Tenants
      BY <1>5, RequestOf DEF OpenApp, At
    <2>2. req'[th].pc = "writeApp" /\ req'[th].tenant = req[th].tenant
      BY <1>1, <1>5, <2>1, GotoFacts DEF OpenApp
    <2>3. QED
      BY <1>1, <1>5, <2>1, <2>2 DEF OpenApp, At
  <1>6. CASE WriteApp(th)
    <2>1. req[th] \in AppRequest /\ req[th].tenant \in Tenants
      BY <1>6, RequestOf DEF WriteApp, At
    <2>2. /\ req'[th].pc = "logApp" /\ req'[th].tenant = req[th].tenant
          /\ req'[th].app = req[th].app
      BY <1>1, <1>6, <2>1, GotoFacts DEF WriteApp
    <2>3. req[th].tenant = t => app'[t] = req[th].app
      BY <1>1, <1>6 DEF WriteApp, Filled
    <2>4. QED
      BY <1>1, <1>6, <2>1, <2>2, <2>3 DEF WriteApp, At
  <1>7. CASE LogApp(th)
    <2>1. req[th].tenant \in Tenants /\ req'[th].pc = "idle"
      BY <1>1, <1>7, RequestOf, FinishFacts DEF LogApp, At
    <2>2. QED
      BY <1>1, <1>2, <1>7, <2>1 DEF LogApp, At
  <1>8. CASE UnlinkApp(th)
    <2>1. req[th] \in AppRequest /\ req[th].tenant \in Tenants /\ req[th].pc = "unlinkApp"
      BY <1>8, RequestOf DEF UnlinkApp, At
    <2>2. CASE app[req[th].tenant] = None /\ Finish(th)
      <3>1. req'[th].pc = "idle"
        BY <1>1, <2>2, FinishFacts
      <3>2. QED
        BY <1>1, <1>2, <1>8, <2>1, <2>2, <3>1 DEF UnlinkApp
    <2>3. CASE Goto(th, "logNoApp")
      <3>1. req'[th].pc = "logNoApp" /\ req'[th].tenant = req[th].tenant
        BY <1>1, <2>1, <2>3, GotoFacts
      <3>2. QED
        BY <1>1, <1>8, <2>1, <3>1 DEF UnlinkApp
    <2>4. QED
      BY <1>8, <2>2, <2>3 DEF UnlinkApp
  <1>9. CASE LogNoApp(th)
    <2>1. req[th].tenant \in Tenants /\ req'[th].pc = "idle"
      BY <1>1, <1>9, RequestOf, FinishFacts DEF LogNoApp, At
    <2>2. QED
      BY <1>1, <1>2, <1>9, <2>1 DEF LogNoApp, At
  <1>10. QED
    BY <1>4, <1>5, <1>6, <1>7, <1>8, <1>9 DEF AppStep

\* Whose connection a thread is on stays the same while it has its request.
LEMMA OnConLasts ==
  ASSUME TypeOK, FlowInv, FlowStep, NEW th \in Threads, NEW t \in Tenants,
         req'[th].pc \in Callbacks => req[th].pc \in Callbacks /\ req'[th].flow = req[th].flow,
         req'[th].pc \in Disconnects => req[th].pc \in Disconnects /\ req'[th].tenant = req[th].tenant,
         req[th].pc \in Callbacks => req'[th].pc \in Callbacks,
         req[th].pc \in Disconnects => req'[th].pc \in Disconnects
  PROVE  /\ OnCon(th, t)' <=> OnCon(th, t)
         /\ req'[th].pc \in Callbacks => Grant(req[th].flow)' = Grant(req[th].flow)
  <1>1. req[th].pc \in Callbacks => req[th].flow \in Flows /\ flow[req[th].flow] # None
    BY FlowOf DEF FlowInv
  <1>2. req[th].pc \in Callbacks =>
          flow'[req[th].flow].tenant = flow[req[th].flow].tenant
          /\ flow'[req[th].flow].by = flow[req[th].flow].by
    BY <1>1 DEF FlowStep, Grows
  <1>3. QED
    BY <1>2 DEF OnCon, Grant

LEMMA ConMoves ==
  ASSUME TypeOK, FlowInv, FlowStep, AuditInv, NEW th \in Threads, ConStep(th), NEW t \in Tenants,
         <<t, "con">> \notin disturbed'
  PROVE  ConMoved(th, t)
  <1>1. /\ ReqTyped /\ con \in [Tenants -> Connection \union {None, Torn}]
        /\ conLine \in [Tenants -> Connection \union {None}]
    BY DEF TypeOK, ReqTyped
  <1>2. OnCon(th, t) /\ <<t, "con">> \notin disturbed => ConStage(th, t)
    BY DEF AuditInv, ConAudited
  <1> USE DEF files, lines, github, ghosts, Continue, Callbacks, Disconnects
  <1>3. ASSUME NEW f \in Flows, Callback(th, f) PROVE ConMoved(th, t)
    <2> DEFINE r == [pc |-> "readApp", flow |-> f, client |-> None]
    <2>1. r \in Requests /\ r \in CallbackRequest /\ r.pc = "readApp" /\ r.flow = f
      BY DEF Requests, CallbackRequest
    <2>2. Target(r) = {<<flow[r.flow].tenant, "con">>}
      BY <2>1 DEF Target
    <2>3. Accept(th, r) /\ UNCHANGED <<con, conLine, flow>>
      BY <1>3 DEF Callback
    <2> HIDE DEF r
    <2>4. req'[th] = r /\ req[th].pc = "idle"
      BY <1>1, <2>1, <2>3, AcceptKind
    <2>5. ~OnCon(th, t) /\ (OnCon(th, t)' <=> flow[f].tenant = t)
      BY <2>1, <2>3, <2>4 DEF OnCon
    <2>6. flow[f].tenant = t => \A o \in Threads : ~OnCon(o, t)
      BY <2>1, <2>2, <2>3, AcceptDisturbs
    <2>7. QED
      BY <2>1, <2>3, <2>4, <2>5, <2>6 DEF ConMoved, Before
  <1>4. ASSUME NEW b \in Bearers, NEW s \in Tenants, Disconnect(th, b, s) PROVE ConMoved(th, t)
    <2> DEFINE r == [pc |-> "unlinkCon", tenant |-> s, saw |-> con[s]]
    <2>1. r \in Requests /\ r \in DisconnectRequest /\ r.pc = "unlinkCon" /\ r.tenant = s
      BY <1>1, <1>4 DEF Requests, DisconnectRequest, Disconnect
    <2>2. r \notin CallbackRequest
      BY <2>1, Kinds
    <2>3. Target(r) = {<<r.tenant, "con">>}
      BY <2>1, <2>2 DEF Target
    <2>4. Accept(th, r) /\ UNCHANGED <<con, conLine>>
      BY <1>4 DEF Disconnect
    <2> HIDE DEF r
    <2>5. req'[th] = r /\ req[th].pc = "idle"
      BY <1>1, <2>1, <2>4, AcceptKind
    <2>6. ~OnCon(th, t) /\ (OnCon(th, t)' <=> s = t)
      BY <2>1, <2>5 DEF OnCon
    <2>7. s = t => \A o \in Threads : ~OnCon(o, t)
      BY <2>1, <2>3, <2>4, AcceptDisturbs
    <2>8. QED
      BY <2>1, <2>4, <2>5, <2>6, <2>7 DEF ConMoved, Before
  \* A callback that leaves the file for later, or gives up.
  <1>5. ASSUME req[th].pc \in {"readApp", "exchange", "askUser"}, UNCHANGED <<con, conLine, disturbed>>,
               req'[th].pc \in {"exchange", "askUser", "openCon", "idle"}
        PROVE  ConMoved(th, t)
    <2>1. CASE req'[th].pc = "idle"
      BY <1>2, <1>5, <2>1 DEF ConMoved, OnCon, ConStage, Before
    <2>2. CASE req'[th].pc # "idle"
      <3>1. req'[th].flow = req[th].flow
        BY <1>5, <2>2, CallbackOrder DEF Begins, GoesOn
      <3>2. OnCon(th, t)' <=> OnCon(th, t)
        BY <1>5, <2>2, <3>1, OnConLasts
      <3>3. QED
        BY <1>2, <1>5, <2>2, <3>2 DEF ConMoved, ConStage, Before
    <2>3. QED
      BY <2>1, <2>2
  <1>6. CASE ReadApp(th)
    <2>1. req'[th].pc \in {"exchange", "idle"}
      <3>1. CASE Finish(th)
        BY <1>1, <3>1, FinishFacts
      <3>2. ASSUME NEW a \in Apps, Set(th, [req[th] EXCEPT !.pc = "exchange", !.client = a])
            PROVE  req'[th].pc = "exchange"
        <4> DEFINE r == [req[th] EXCEPT !.pc = "exchange", !.client = a]
        <4>1. req[th] \in CallbackRequest
          BY <1>6, FlowOf DEF ReadApp, At
        <4>2. r \in Requests /\ r.pc = "exchange"
          BY <4>1 DEF Requests, CallbackRequest
        <4>3. Set(th, r)
          BY <3>2
        <4> HIDE DEF r
        <4>4. QED
          BY <1>1, <4>2, <4>3, SetFacts
      <3>3. QED
        BY <1>6, <3>1, <3>2 DEF ReadApp
    <2>2. QED
      BY <1>5, <1>6, <2>1 DEF ReadApp, At
  <1>7. CASE Exchange(th)
    <2>1. req'[th].pc \in {"askUser", "idle"} /\ UNCHANGED <<con, conLine>>
      BY <1>7, ExchangeDoes
    <2>2. QED
      BY <1>5, <1>7, <2>1 DEF Exchange, At
  <1>8. CASE AskUser(th)
    <2>1. req'[th].pc \in {"openCon", "idle"}
      BY <1>1, <1>8, FlowOf, GotoFacts, FinishFacts DEF AskUser, At
    <2>2. QED
      BY <1>5, <1>8, <2>1 DEF AskUser, At
  <1>9. CASE OpenConnection(th)
    <2>1. req[th].pc = "openCon" /\ flow[req[th].flow].tenant \in Tenants
          /\ req[th] \in CallbackRequest
      BY <1>9, FlowOf, GrantTyped DEF OpenConnection, At
    <2>2. req'[th].pc = "writeCon" /\ req'[th].flow = req[th].flow
      BY <1>1, <1>9, <2>1, GotoFacts DEF OpenConnection
    <2>3. OnCon(th, t)' <=> OnCon(th, t)
      BY <2>1, <2>2, OnConLasts
    <2>4. flow[req[th].flow].tenant # t => con'[t] = con[t]
      BY <1>1, <1>9, <2>1 DEF OpenConnection
    <2>5. OnCon(th, t) <=> flow[req[th].flow].tenant = t
      BY <2>1 DEF OnCon
    <2>6. QED
      BY <1>9, <2>2, <2>3, <2>4, <2>5 DEF ConMoved, ConStage, Before, OpenConnection
  <1>10. CASE WriteConnection(th)
    <2>1. req[th].pc = "writeCon" /\ flow[req[th].flow].tenant \in Tenants
          /\ req[th] \in CallbackRequest
      BY <1>10, FlowOf, GrantTyped DEF WriteConnection, At
    <2>2. req'[th].pc = "logCon" /\ req'[th].flow = req[th].flow
      BY <1>1, <1>10, <2>1, GotoFacts DEF WriteConnection
    <2>3. (OnCon(th, t)' <=> OnCon(th, t)) /\ Grant(req[th].flow)' = Grant(req[th].flow)
      BY <2>1, <2>2, OnConLasts
    <2>4. OnCon(th, t) <=> flow[req[th].flow].tenant = t
      BY <2>1 DEF OnCon
    <2>5. /\ flow[req[th].flow].tenant # t => con'[t] = con[t]
          /\ flow[req[th].flow].tenant = t => con'[t] = Grant(req[th].flow)
      BY <1>1, <1>10, <2>1 DEF WriteConnection, Filled, Grant
    <2>6. QED
      BY <1>10, <2>2, <2>3, <2>4, <2>5 DEF ConMoved, ConStage, Before, WriteConnection
  <1>11. CASE LogConnection(th)
    <2>1. req[th].pc = "logCon" /\ flow[req[th].flow].tenant \in Tenants
      BY <1>11, GrantTyped DEF LogConnection, At
    <2>2. req'[th].pc = "idle"
      BY <1>1, <1>11, FinishFacts DEF LogConnection
    <2>3. (OnCon(th, t) <=> flow[req[th].flow].tenant = t) /\ ~OnCon(th, t)'
      BY <2>1, <2>2 DEF OnCon
    <2>4. conLine' = [conLine EXCEPT ![flow[req[th].flow].tenant] = Grant(req[th].flow)]
          /\ UNCHANGED <<con, disturbed>>
      BY <1>11 DEF LogConnection, Grant
    <2>5. QED
      BY <1>1, <1>2, <2>1, <2>3, <2>4 DEF ConMoved, ConStage
  <1>12. CASE UnlinkConnection(th)
    <2>1. req[th].pc = "unlinkCon" /\ req[th].tenant \in Tenants /\ req[th] \in DisconnectRequest
      BY <1>12, RequestOf DEF UnlinkConnection, At
    <2>2. (OnCon(th, t) <=> req[th].tenant = t)
          /\ con' = [con EXCEPT ![req[th].tenant] = None] /\ UNCHANGED <<conLine, disturbed>>
      BY <1>12, <2>1 DEF OnCon, UnlinkConnection
    <2>3. CASE con[req[th].tenant] = None /\ Finish(th)
      <3>1. req'[th].pc = "idle"
        BY <1>1, <2>3, FinishFacts
      <3>2. ~OnCon(th, t)'
        BY <3>1 DEF OnCon
      <3>3. QED
        BY <1>1, <1>2, <2>1, <2>2, <2>3, <3>2 DEF ConMoved, ConStage, Before
    <2>4. CASE Goto(th, "logGone")
      <3>1. req'[th].pc = "logGone" /\ req'[th].tenant = req[th].tenant
        BY <1>1, <2>1, <2>4, GotoFacts
      <3>2. OnCon(th, t)' <=> OnCon(th, t)
        BY <2>1, <3>1 DEF OnCon
      <3>3. QED
        BY <1>1, <2>1, <2>2, <3>1, <3>2 DEF ConMoved, ConStage, Before
    <2>5. QED
      BY <1>12, <2>3, <2>4 DEF UnlinkConnection
  <1>13. CASE LogDisconnect(th)
    <2>1. req[th].pc = "logGone" /\ req[th].tenant \in Tenants
      BY <1>13, RequestOf DEF LogDisconnect, At
    <2>2. req'[th].pc = "idle"
      BY <1>1, <1>13, FinishFacts DEF LogDisconnect
    <2>3. (OnCon(th, t) <=> req[th].tenant = t) /\ ~OnCon(th, t)'
      BY <2>1, <2>2 DEF OnCon
    <2>4. conLine' = [conLine EXCEPT ![req[th].tenant] = None] /\ UNCHANGED <<con, disturbed>>
      BY <1>13 DEF LogDisconnect
    <2>5. QED
      BY <1>1, <1>2, <2>1, <2>3, <2>4 DEF ConMoved, ConStage
  <1>14. QED
    BY <1>3, <1>4, <1>6, <1>7, <1>8, <1>9, <1>10, <1>11, <1>12, <1>13 DEF ConStep

\* While the other threads have the requests they had, a thread's move leaves the
\* connection audited.
LEMMA ConMovedKeeps ==
  ASSUME TypeOK, FlowInv, FlowStep, NEW th \in Threads, NEW t \in Tenants,
         \A o \in Threads \ {th} : req'[o] = req[o],
         ConAudited(t), ConMoved(th, t)
  PROVE  ConAudited(t)'
  <1>1. ASSUME NEW o \in Threads, o # th
        PROVE  /\ OnCon(o, t)' <=> OnCon(o, t)
               /\ con'[t] = con[t] /\ conLine'[t] = conLine[t] /\ OnCon(o, t) /\ ConStage(o, t) =>
                    ConStage(o, t)'
    <2>1. req'[o] = req[o]
      BY <1>1
    <2>2. /\ OnCon(o, t)' <=> OnCon(o, t)
          /\ req[o].pc \in Callbacks => Grant(req[o].flow)' = Grant(req[o].flow)
      BY <2>1, OnConLasts
    <2>3. QED
      BY <2>1, <2>2 DEF ConStage, Callbacks
  <1>2. ASSUME NEW o \in Threads, OnCon(o, t) PROVE ConStage(o, t)
    BY <1>2 DEF ConAudited
  <1>3. CASE /\ ~OnCon(th, t) /\ ~OnCon(th, t)'
             /\ con'[t] = con[t] /\ conLine'[t] = conLine[t]
    BY <1>1, <1>2, <1>3 DEF ConAudited
  <1>4. CASE /\ \A o \in Threads : ~OnCon(o, t)
             /\ OnCon(th, t)' /\ req'[th].pc \in Before
             /\ con'[t] = con[t] /\ conLine'[t] = conLine[t]
    <2>1. con'[t] = conLine'[t]
      BY <1>4 DEF ConAudited
    <2>2. ConStage(th, t)'
      BY <1>4, <2>1 DEF ConStage, Before
    <2>3. QED
      BY <1>1, <1>4, <2>1, <2>2 DEF ConAudited
  <1>5. CASE /\ OnCon(th, t)
             /\ OnCon(th, t)' => ConStage(th, t)'
             /\ ~OnCon(th, t)' => con'[t] = conLine'[t]
    <2>1. \A o \in Threads \ {th} : ~OnCon(o, t)
      BY <1>5 DEF ConAudited
    <2>2. QED
      BY <1>1, <1>5, <2>1 DEF ConAudited
  <1>6. QED
    BY <1>3, <1>4, <1>5 DEF ConMoved

LEMMA AppMovedKeeps ==
  ASSUME NEW th \in Threads, NEW t \in Tenants,
         \A o \in Threads \ {th} : req'[o] = req[o],
         AppAudited(t), AppMoved(th, t)
  PROVE  AppAudited(t)'
  <1>1. ASSUME NEW o \in Threads, o # th
        PROVE  /\ OnApp(o, t)' <=> OnApp(o, t)
               /\ app'[t] = app[t] /\ appLine'[t] = appLine[t] /\ AppStage(o, t) => AppStage(o, t)'
    BY <1>1 DEF OnApp, AppStage
  <1>2. ASSUME NEW o \in Threads, OnApp(o, t) PROVE AppStage(o, t)
    BY <1>2 DEF AppAudited
  <1>3. CASE /\ ~OnApp(th, t) /\ ~OnApp(th, t)'
             /\ app'[t] = app[t] /\ appLine'[t] = appLine[t]
    BY <1>1, <1>2, <1>3 DEF AppAudited
  <1>4. CASE /\ \A o \in Threads : ~OnApp(o, t)
             /\ OnApp(th, t)' /\ req'[th].pc \in {"openApp", "unlinkApp"}
             /\ app'[t] = app[t] /\ appLine'[t] = appLine[t]
    <2>1. app'[t] = appLine'[t]
      BY <1>4 DEF AppAudited
    <2>2. AppStage(th, t)'
      BY <1>4, <2>1 DEF AppStage
    <2>3. QED
      BY <1>1, <1>4, <2>1, <2>2 DEF AppAudited
  <1>5. CASE /\ OnApp(th, t)
             /\ OnApp(th, t)' => AppStage(th, t)'
             /\ ~OnApp(th, t)' => app'[t] = appLine'[t]
    <2>1. \A o \in Threads \ {th} : ~OnApp(o, t)
      BY <1>5 DEF AppAudited
    <2>2. QED
      BY <1>1, <1>5, <2>1 DEF AppAudited
  <1>6. QED
    BY <1>3, <1>4, <1>5 DEF AppMoved

\* A step moves one thread at most, and what it disturbs stays disturbed.
ThreadMoved(th) ==
  /\ \A o \in Threads \ {th} : req'[o] = req[o]
  /\ \A t \in Tenants :
       /\ <<t, "con">> \notin disturbed' => ConMoved(th, t)
       /\ <<t, "app">> \notin disturbed' => AppMoved(th, t)

LEMMA AuditMoves ==
  ASSUME TypeOK, FlowInv, FlowStep, AuditInv, NEW th \in Threads,
         AppStep(th) \/ PatStep(th) \/ ConStep(th) \/ CutOff(th)
  PROVE  ThreadMoved(th)
  <1>1. ReqTyped /\ con \in [Tenants -> Connection \union {None, Torn}]
    BY DEF TypeOK, ReqTyped
  <1> USE DEF Callbacks, Disconnects, AppEdits, PatEdits
  <1>2. ASSUME NEW t \in Tenants, req[th].pc \notin Callbacks \union Disconnects,
               req'[th].pc \notin Callbacks \union Disconnects, UNCHANGED <<con, conLine>>
        PROVE  ConMoved(th, t)
    BY <1>2 DEF ConMoved, OnCon
  <1>3. ASSUME NEW t \in Tenants, req[th].pc \notin AppEdits, req'[th].pc \notin AppEdits,
               UNCHANGED <<app, appLine>>
        PROVE  AppMoved(th, t)
    BY <1>3 DEF AppMoved, OnApp
  <1>4. CASE AppStep(th)
    <2>1. Kind(th, AppEdits) /\ UNCHANGED <<con, conLine>>
      BY <1>1, <1>4, AppStepDoes
    <2>2. req[th].pc \notin Callbacks \union Disconnects /\ req'[th].pc \notin Callbacks \union Disconnects
      BY <2>1 DEF Kind
    <2>3. \A t \in Tenants : ConMoved(th, t)
      BY <1>2, <2>1, <2>2
    <2>4. QED
      BY <1>4, <2>1, <2>3, AppMoves DEF ThreadMoved, Kind
  <1>5. CASE PatStep(th)
    <2>1. Kind(th, PatEdits) /\ UNCHANGED <<app, appLine, con, conLine>>
      BY <1>1, <1>5, PatStepDoes
    <2>2. /\ req[th].pc \notin Callbacks \union Disconnects
          /\ req'[th].pc \notin Callbacks \union Disconnects
          /\ req[th].pc \notin AppEdits /\ req'[th].pc \notin AppEdits
      BY <2>1 DEF Kind
    <2>3. \A t \in Tenants : ConMoved(th, t) /\ AppMoved(th, t)
      BY <1>2, <1>3, <2>1, <2>2
    <2>4. QED
      BY <2>1, <2>3 DEF ThreadMoved, Kind
  <1>6. CASE ConStep(th)
    <2>1. Kind(th, Callbacks \union Disconnects) /\ UNCHANGED <<app, appLine>>
      BY <1>1, <1>6, ConStepDoes
    <2>2. req[th].pc \notin AppEdits /\ req'[th].pc \notin AppEdits
      BY <2>1 DEF Kind
    <2>3. \A t \in Tenants : AppMoved(th, t)
      BY <1>3, <2>1, <2>2
    <2>4. QED
      BY <1>6, <2>1, <2>3, ConMoves DEF ThreadMoved, Kind
  <1>7. CASE CutOff(th)
    <2>1. /\ \A o \in Threads \ {th} : req'[o] = req[o]
          /\ req'[th].pc = "idle" /\ UNCHANGED <<app, appLine, con, conLine>>
      BY <1>1, <1>7, CutOffDoes
    <2>2. ASSUME NEW t \in Tenants, <<t, "con">> \notin disturbed' PROVE ConMoved(th, t)
      <3>1. ~OnCon(th, t)
        BY <1>7, <2>2, TargetIs DEF CutOff
      <3>2. QED
        BY <2>1, <3>1 DEF ConMoved, OnCon
    <2>3. ASSUME NEW t \in Tenants, <<t, "app">> \notin disturbed' PROVE AppMoved(th, t)
      <3>1. ~OnApp(th, t)
        BY <1>7, <2>3, TargetIs DEF CutOff
      <3>2. QED
        BY <2>1, <3>1 DEF AppMoved, OnApp
    <2>4. QED
      BY <2>1, <2>2, <2>3 DEF ThreadMoved
  <1>8. QED
    BY <1>4, <1>5, <1>6, <1>7

LEMMA DisturbedGrows ==
  ASSUME [Next]_vars
  PROVE  disturbed \subseteq disturbed'
  <1> USE DEF Continue
  <1>1. ASSUME NEW th \in Threads, AppStep(th) PROVE disturbed \subseteq disturbed'
    BY <1>1 DEF AppStep, DeleteApp, PutApp, Accept, OpenApp, WriteApp, LogApp, UnlinkApp, LogNoApp
  <1>2. ASSUME NEW th \in Threads, PatStep(th) PROVE disturbed \subseteq disturbed'
    BY <1>2 DEF PatStep, CreatePat, RevokePat, Accept, OpenPat, WritePat, ShowPat, UnlinkPat
  <1>3. ASSUME NEW th \in Threads, ConStep(th) PROVE disturbed \subseteq disturbed'
    BY <1>3 DEF ConStep, Callback, Disconnect, Accept, ReadApp, Exchange, AskUser, OpenConnection,
                WriteConnection, LogConnection, UnlinkConnection, LogDisconnect
  <1>4. ASSUME NEW th \in Threads, CutOff(th) PROVE disturbed \subseteq disturbed'
    BY <1>4 DEF CutOff
  <1>5. CASE Elsewhere
    BY <1>5, ElsewhereDoes
  <1>6. CASE UNCHANGED vars
    BY <1>6 DEF vars
  <1>7. QED
    BY <1>1, <1>2, <1>3, <1>4, <1>5, <1>6, NextSteps

LEMMA AuditInvStep ==
  ASSUME TypeOK, FlowInv, AuditInv, [Next]_vars
  PROVE  AuditInv'
  <1>1. FlowStep /\ disturbed \subseteq disturbed'
    BY StepGrows, DisturbedGrows
  <1>2. ASSUME NEW th \in Threads, ThreadMoved(th) PROVE AuditInv'
    <2>1. ASSUME NEW t \in Tenants, <<t, "con">> \notin disturbed' PROVE ConAudited(t)'
      BY <1>1, <1>2, <2>1, ConMovedKeeps DEF AuditInv, ThreadMoved
    <2>2. ASSUME NEW t \in Tenants, <<t, "app">> \notin disturbed' PROVE AppAudited(t)'
      BY <1>1, <1>2, <2>2, AppMovedKeeps DEF AuditInv, ThreadMoved
    <2>3. QED
      BY <2>1, <2>2 DEF AuditInv
  <1>3. ASSUME UNCHANGED <<app, con, req, conLine, appLine>> PROVE AuditInv'
    <2>1. ASSUME NEW t \in Tenants, <<t, "con">> \notin disturbed' PROVE ConAudited(t)'
      <3>1. ConAudited(t)
        BY <1>1, <2>1 DEF AuditInv
      <3>2. ASSUME NEW o \in Threads
            PROVE  /\ OnCon(o, t)' <=> OnCon(o, t)
                   /\ req[o].pc \in Callbacks => Grant(req[o].flow)' = Grant(req[o].flow)
        BY <1>1, <1>3, OnConLasts
      <3>3. ASSUME NEW o \in Threads, ConStage(o, t) PROVE ConStage(o, t)'
        BY <1>3, <3>2, <3>3 DEF ConStage, Callbacks
      <3>4. QED
        BY <1>3, <3>1, <3>2, <3>3 DEF ConAudited
    <2>2. ASSUME NEW t \in Tenants, <<t, "app">> \notin disturbed' PROVE AppAudited(t)'
      <3>1. AppAudited(t)
        BY <1>1, <2>2 DEF AuditInv
      <3>2. ASSUME NEW o \in Threads
            PROVE  (OnApp(o, t)' <=> OnApp(o, t)) /\ (AppStage(o, t) => AppStage(o, t)')
        BY <1>3 DEF OnApp, AppStage
      <3>3. app'[t] = app[t] /\ appLine'[t] = appLine[t]
        BY <1>3
      <3>4. QED
        BY <3>1, <3>2, <3>3 DEF AppAudited
    <2>3. QED
      BY <2>1, <2>2 DEF AuditInv
  <1>4. QED
    BY <1>1, <1>2, <1>3, AuditMoves, NextSteps, ElsewhereDoes DEF vars, files, lines

-----------------------------------------------------------------------------
\* What the properties rest on: callbacks carry flows that admins began and whose
\* code is spent once exchanged; a code is stored once; a token's requests are its
\* owner's; and every file nobody disturbed is where its request left it.
CredentialsInv ==
  /\ TypeOK /\ FlowInv /\ StoreInv /\ ConnectionIsConsented /\ PatInv /\ AuditInv

LEMMA CredentialsInit ==
  ASSUME Init
  PROVE  CredentialsInv
  <1>1. TypeOK
    BY CredentialsAssumption DEF Init, TypeOK
  <1>2. \A th \in Threads : req[th].pc = "idle"
    BY DEF Init, NoRequest
  <1> USE DEF Callbacks, Exchanged, Storing, Disconnects, AppEdits, PatEdits
  <1>3. FlowInv /\ StoreInv
    BY <1>2 DEF Init, FlowInv, AdminsBegin, StoreInv
  <1>4. ConnectionIsConsented
    BY RecordsAssumption DEF Init, ConnectionIsConsented
  <1>5. PatInv
    BY <1>2 DEF Init, PatInv, PatRequestInv, SamePat
  <1>6. AuditInv
    BY <1>2 DEF Init, AuditInv, ConAudited, AppAudited, OnCon, OnApp
  <1>7. QED
    BY <1>1, <1>3, <1>4, <1>5, <1>6 DEF CredentialsInv

\* Every step of the handlers of tokens, apps and connections keeps all of it.
THEOREM CredentialsInvariant == Spec => []CredentialsInv
  <1>1. CredentialsInv /\ [Next]_vars => CredentialsInv'
    BY TypeOKStep, FlowInvStep, StoreInvStep, ConsentedStep, PatInvStep, AuditInvStep
       DEF CredentialsInv
  <1>2. QED
    BY CredentialsInit, <1>1, PTL DEF Spec

\* The three files, the flows GitHub knows and the log only ever hold what they may.
THEOREM CredentialsTyped == Spec => []TypeOK
  <1>1. CredentialsInv => TypeOK
    BY DEF CredentialsInv
  <1>2. QED
    BY CredentialsInvariant, <1>1, PTL

\* The token a tenant holds, and every token GitHub was called with for it
\* (github_callback, list_github_repos), comes from a consent that one of that
\* tenant's admins began, however redirects, reloads and replaced apps interleave.
THEOREM TokensAreConsented == Spec => []ConnectionIsConsented
  <1>1. CredentialsInv => ConnectionIsConsented
    BY DEF CredentialsInv
  <1>2. QED
    BY CredentialsInvariant, <1>1, PTL

\* A token that create_pat showed is on file until its owner revokes it.
THEOREM ShownTokensLast == Spec => []ShownTokenLasts
  <1>1. CredentialsInv => ShownTokenLasts
    BY DEF CredentialsInv, PatInv, ShownTokenLasts
  <1>2. QED
    BY CredentialsInvariant, <1>1, PTL

\* Where requests did not meet on a tenant's file and none was cut off, the audit
\* log's last line about it is what the file says.
THEOREM AuditHolds == Spec => []AuditTellsTheFiles
  <1>1. CredentialsInv => AuditTellsTheFiles
    BY BusyIs DEF CredentialsInv, AuditInv, ConAudited, AppAudited, AuditTellsTheFiles
  <1>2. QED
    BY CredentialsInvariant, <1>1, PTL

\* github_callback stores the token of a flow once: no step writes it again.
THEOREM ReloadsDoNotReconnect == Spec => ReloadDoesNotReconnect
  <1>1. CredentialsInv /\ [Next]_vars =>
          [\A f \in stored, t \in Tenants :
             con'[t] \in Connection /\ con'[t].flow = f => con'[t] = con[t]]_vars
    BY StoredOnce DEF CredentialsInv
  <1>2. QED
    BY CredentialsInvariant, <1>1, PTL DEF Spec, ReloadDoesNotReconnect
===============================================================================
