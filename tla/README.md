# A formal model of the JAAS skill registry

This directory is the specification kept beside `src/jaas_registry`: TLA+ modules
translated from the code, TLC configurations that check them on small instances, and
TLAPS proofs of what holds for every size. Paths below are relative to
`src/src/jaas_registry/` of the repository. `PROJECT.json` maps every definition to
the lines it stands for.

## The system

The registry stores *skills*: packages with a manifest, published once per id and
version. It is a FastAPI process (or several replicas) over an object store (local
directory or S3) and a policy directory of small JSON files. There is no database and,
with one exception (the usage counter), no lock. Handlers are synchronous functions that
the framework runs in a thread pool, so any two requests interleave between any two
file, store or HTTP accesses. `jaasctl` is another process on the same store.

| Component | State | Operations | Interacts with |
|---|---|---|---|
| Publish pipeline (`artifact/publish.py`) | none of its own | validate, scan, sign, put blob, put tag, audit | object store, audit log, guardrails service |
| Object stores (`storage/`) | blobs, tags, sidecars | conditional creation, overwrite, list, read | every replica, `jaasctl` |
| Index (`index/store.py`, `bootstrap.py`, `reconciliation.py`, `background_sync.py`) | entries in memory per replica, a cached id list | put, get, resolve, list, rebuild, repair | handlers put; the periodic task repairs from the store |
| Yank and governance (`artifact/yank.py`, `governance.py`) | a JSON sidecar per version, per skill | write, overlay on an entry | index, bootstrap, reconciliation |
| Drafts and Git mirror (`drafts/`, `api/draft_routes.py`) | draft directories and metadata | create, connect, save, delete, move, publish | GitHub (branch, commit, pull request, merge, release), publish pipeline |
| Accounts and tenants (`authn/service.py`, `users.py`, `tenants.py`, `invites.py`) | one JSON file per user, tenant, membership, invitation | sign in, refresh, create tenant, invite | each other's files |
| Search and visibility (`index/query.py`, `sharing/`) | grant files | search, view, share, revoke | index |
| CI releases (`api/release_routes.py`, `authn/repo_links.py`, `ci_credentials.py`) | link files per tenant and skill id | create, change, delete a link; authorise a release | publish pipeline, index |
| Custom rules (`guardrails/custom_rules.py`, `custom_rule_drafts.py`) | current-pointer, version and draft files | put, publish, delete, draft, edit, discard | guardrails service, audit log |
| Policy, scan, certification (`guardrails/policy.py`, `skill_config.py`, `certification.py`) | a policy file per tenant | put, resolve, scan, certify | guardrails service, publish pipeline |
| Access tokens, OAuth apps and connections (`authn/pat.py`, `api/account_routes.py`, `api/github_routes.py`) | one JSON file per token, per tenant's app, per tenant's connection | create, use, revoke; set, connect, callback, disconnect | GitHub (consent, code, token), audit log |
| Signing and trust (`artifact/signing.py`, `trust.py`, `verify.py`) | the deployment's key and the registered key | load or make, register, sign, verify, recheck | every publication |
| Event bus (`index/events.py`, `consumer.py`) | pending events; per consumer what it applied and set aside | announce, drain, apply, retry, dead-letter | publish pipeline, index |
| Downloads (`artifact/tokens.py`, `index/usage.py`, `cli.py`) | tokens and counts in memory, one counts file, the client's directory | issue, redeem, flush, unpack | index, store, signing |
| Package validation, observability, configuration | none | pure checks, logging, metrics | not modelled: see the end |

What is hard: writes of several files without a transaction; files that are emptied
before they are filled; check-then-act between threads; state read before a GitHub or
HTTP call and used after it; replicas that learn of each other only from a periodic
repair; processes that die anywhere; background tasks that one exception ends; retries of
CI, reloads of a browser page and second deliveries of events.
What makes each component correct is listed with its module; the hazards, each at its
line, are in `PROJECT.json`.

## Modules

`AppendOnlyCatalog` is the abstract promise of the registry: a release is published at
most once and stays as it is. `Publish` implements it. Each other
module is one component; each has an `MC...` module with the instance TLC checks.
Operators marked *Mutant* or *Variant* are no part of a specification: each is one
definition with a plausible mistake, and the property it is paired with must catch it.

**Publish** — `publish_skill` step by step (`job`), for a draft publish or `jaasctl`
("publish": the error is passed on) and a CI release ("release": a duplicate is read
back and answered with success). A put on S3 is one step; on the local store it creates the file (`PutBlob`, `PutTag`)
and fills it (`FillBlob`, `FillTag`), and anyone can look in between. `Abort` is a death
or an exception at any step; `abandoned` is the history of the files it left unfilled,
which a local store keeps. Everything before the first put writes nothing, so it is the
choice whether a request begins.

**ReplicaIndex** — several replicas, each an index and a reconciliation task, over one
store of tags and sidecars. Actions are single accesses to store or index:
`BindTag`/`PutBase` (a publication and its index put, the retry included),
`JaasctlPublish`, `WriteStatus`/`PutStatus` (yank with the entry read before),
`WriteGovernance` … `PutEntry` (the loop over versions), `ListTags`,
`ReadTagAndStatus`, `ReadGovernance` (bootstrap and reconciliation build a snapshot),
`BeginRepair`/`RepairEntry`/`FinishRepair` (and put it), `TaskEnds` (an exception ends the
repair loop), `Restart` (which empties the index). Binding a tag is one step here, and so is a read; torn
tags are `Publish`'s business. A sidecar may be written by a request that then raises, or by
the other of two writers, who share one temporary file on the local store (`WriteStatus`).

**Drafts** — drafts on disk, the directory of the repository each was given, the working
branch, the pull request, the target branch, the repository's releases and the registry.
Connecting a draft covers the bootstrap of an empty repository (`boot`), the branch, its
seeding and the metadata; a *legacy* draft, connected before skills had directories, can
be moved to one. Every exchange with GitHub may fail, or succeed and lose its answer; a
merge is three-way against the commit the branch was made of and may conflict; a person
may settle an open pull request. History variables: `behind` (files whose latest save is
not known to be on the branch), `stray` (files an unanswered move has put into a
directory), `homes` (directories a draft has ever had), `merges` (how often its branch was
merged). Which skill and version a manifest names when it is published is open. `oneAtATime`
says whether owners wait for one request on a draft before the next; both are initial
states. A publication reads the files twice: `BeginPublish` takes skill and version from
them for GitHub, `PublishSkill` packages what they are then, under the skill and version
they name then, which are others only if another request has changed a file (`edited`).
Each of these readings of a draft's few files is one step.

**Accounts** — sign-in file by file (user, personal tenant, membership, invitations
listed, read, unlinked, then memberships, then tokens), refresh, tenant creation and
invitation, with a crash anywhere. The routes let in `Callers`: whoever has signed in, and
bearers of personal access tokens, whom `_require_caller` resolves to nobody (`NoUser`, the
`""` that `create_tenant` stores). `disturbed` collects users whose sign-ins overlapped
or were cut off.

**Search** — one search, from the listing of ids (with its cache) to the answer,
against puts, yanks and grants; `Viewable` is what the metadata endpoint answers. It
covers constraint resolution with yanked versions and prereleases, and the two ways
grants are looked up.

**RepoLinks** — links of one skill id, a file per tenant, and the authorisation of a
release by them for a workflow (`"ci"`, two reads) and for the bearer of a session token
(`"pat"`, one read). A workflow's repository is known by owner/name and matches every linked
URL that ends in it, on whatever host (`NameOf`); a token holder's URL must be the linked
one. `alike` are links of other ids that `find_any`'s glob matches as well; they change as
links do. `during`, `around`, `basis` and `stale` are history variables.

**RuleLibrary** — pointer and snapshot files of a tenant's rules, drafts, and requests
that validate, put, publish and delete them. `Passing` are the bodies that come back from
the service without an error: the valid ones, and those refused without a text
(`Unexplained`). `contested` collects rules two writers were at, or one left half written.

**Certification** — the policy file, the two fetches of the catalog in a publication
(one in a validation), the resolution of the ids a skill applies, the scan, and
`compute_certification`, while the service is redeployed. The service is external: it is
modelled as running what it is asked of its catalog, its mandatory checks, and the rules
sent along.

**Credentials** — the files of personal access tokens, OAuth apps and connections, each
emptied (`Torn`) and then filled; the chain of redirects of a connect flow (a state signed
by the registry, the user's consent and the code at GitHub, the callback that reads the
app, exchanges the code, asks who the user is and stores the connection), its reloads, and
disconnects; tokens created, used as bearers, listed and revoked. A bearer needs the scope
(`Writers`), and a token is made only for a user with an account (`Known`). `conLine` and `appLine`
are the last lines of the audit log about a file; `shownTo`, `dropped`, `stored`, `used`
and `disturbed` are history.

**Signing**, **IndexEvents**, **UsageCounts** — three components without a run of their
own: the two key files and the publications that make, register and use them (`clash`:
two publications both made a file; the demo seed goes on from package to package with the
keys it loaded once, `GoOn`); the bus and its consumers; the counters, the flush task and the
shared file. The bus of the repository is in-process, no route passes one and nothing builds
a consumer: `IndexEvents` models what `events.py` and `consumer.py` do if they are used, and
a restart (`Bootstrap`) may take what is on the bus with it.

**Delivery** — the composition of these three (one `INSTANCE` each) with the client: a
release is signed, published and perhaps announced; a replica resolves it, issues a token,
which is counted; whichever replica the next request reaches redeems it (a restart forgets
tokens, an hour expires them); the client unpacks what it is sent and writes file after file
into a directory that may hold an earlier release. The client verifies nothing: the digest
and the signature are compared by the server, and only with the optional recheck.
`partial` are releases whose archive somebody was cut off from filling on the local store
(`Publish`'s `abandoned`), which later publications find there and tag; what of such an
archive unpacks, and whether unpacking raises, is open. `jaasctl install` writes files, `pull` of the
SDK stops before. `left` is what remains of a scenario's budget of environment steps.

## Runs

| Run | Instance | Shows |
|---|---|---|
| `Publish` | 2 workers, 3 packages, 2 of them rivals for a tag, both stores | tags bound once, to archives that are there and, but for what is being filled or was abandoned on the local store, whole; audit and retry truthful; refines the catalogue |
| `ReplicaSafety` | 2 replicas, 2 threads, 2 rival packages, 3 requests, 1 restart, all operations | indexes serve only what is published and keep what they confirmed |
| `ReplicaConverges` | 1 replica, 2 threads, 2 versions of one skill, 3 requests, 2 faults (a restart or a task that ends), fair | overlapping yanks and governance loops over two versions included, the index ends equal to the store while the task runs; a dead replica serves again |
| `Drafts` | 2 drafts (one may be legacy) of 2 skills in one repository, 1 version, 2 files, both there from the start, 4 requests, owners who wait and owners who do not (up to 3 requests then) | no work is lost; the registry runs ahead of GitHub only where another request changed the draft; the branch mirrors the draft of an owner who waits |
| `Accounts` | 2 users and nobody, 2 organizations, 2 threads, 5 requests, crashes | records are backed and organizations have an admin, callers who are nobody included; sessions are in tenants of their user; invitations kept |
| `Search` | 1 search, 1 writer, 2 skills of 2 versions, callers of 2 tenants or none, 4 changes | a search agrees with the metadata endpoint and discloses nothing unshared |
| `RuleLibrary` | 3 slugs, limit 1, a valid body, one refused without a text and a blank one, 2 threads, 4 requests, crashes | only bodies answered without an error are stored; history and audit match; how far the limit can be overrun |
| `RepoLinks` | 2 tenants, 2 repositories of one name on two hosts and 1 of another, 1 branch, links of other ids, 2 threads, 4 requests | a release goes only to a tenant that had linked the id, and the repository's name (with a token, its URL); a second claim needs a stale write |
| `Certification` | 2 checks on 1 or 2 of 4 levels, 1 rule, 3 catalogs, 2 threads, 3 requests | a certified level was run and found clean; policy and skill can only add checks |
| `Credentials` | 1 tenant with an admin, a member and a member without an account, 2 apps, 2 flows, 2 tokens, 2 threads, 4 requests, crashes | a stored token was consented to by an admin's flow; a reload never reconnects; audit and files agree; nobody loses another's token |
| `Delivery` | 2 publications, 2 replicas, 2 releases, 2 files, 2 attempts per event, 1 second delivery, 3 tokens; five scenarios | signatures verify; no event is lost; counts are honest; an install is the whole release that was resolved, save from an incomplete archive without the recheck |
| `ReplicaRetry` | 1 replica, 4 requests | *violated*: a retried release un-yanks the version in the index |

**Bounds.** Every hazard is a race of two or three actors over one item, so two threads,
two rivals and one item that both want are the smallest instances that have it; the
bounds on requests (`MaxRequests`, `MaxChanges`) leave room for one more request than
the longest scenario listed as a hazard. `MaxRestarts`, `MaxDeploys` and `MaxIds` bound
faults of replicas, redeployments and the ids of one request; `MaxRetries` is the
consumer's own parameter, `MaxRedeliveries` bounds second deliveries and `MaxIssued` the
tokens counted. Multiplying four components would be out of reach, so `Delivery` starts
with one of the `Budgets` of `MCDelivery`: `FirstPublications` (three publications make and
register keys, one is cut off), `Announcements` (two releases announced, up to four failed
attempts, a put behind the bus, a restart), `Downloads` (three tokens, a restart),
`Installs` (two commands, two cut off, with a restart) and `Incomplete` (an archive left
incomplete before it is tagged and installed). Inside a scenario everything
interleaves. Every property's mutant is found within its run's bounds, so the interesting
states are reached. Symmetry is used over model values that appear in no expression by
name, and never with liveness. Where the check for deadlock is off, the bound on requests
ends the behaviour. In `RuleLibrary` a valid body and an unexplained one are exchanged by
the symmetry, which the module allows since it speaks of both only as `Passing`.
`ReplicaIndex` is checked twice, since two replicas with two versions are out of reach: two
replicas and rivals for one version for safety, one replica with two versions and two threads
for convergence. Properties that are proved for every instance and that
the runs would only repeat (`TypeOK` of `Publish`, `ReplicaIndex` and `RepoLinks`,
`TagHasItsBlob`, `TagsAreImmutable`) are left to the proofs.
Where owners do not wait (`oneAtATime` false in `Drafts`), the branch may end without what
the draft has and a release with other files than the registry; the code does nothing to
prevent that, and `BranchMirrorsDraft` and the files of `ReleaseMatchesPublication` speak
only of owners who wait. `MaxOverlapping` bounds the requests of the others: a publication
that another request overtakes, and a third.

**Fairness.** Only `FairSpec` of `ReplicaIndex` has any: weak fairness of each handler
thread (once begun, a handler runs to its end; requests are not obliged to arrive) and of
each replica's own task (the bootstrap runs before the process serves; the repair is on
by default, `common/config.py`, every 300 s). `jaasctl`, users and restarts are not
fair. One exception ends the loop of `background_sync.py` for good; `TaskEnds` is that
step, and `Converges` speaks of the replicas whose task goes on. No other run assumes
fairness: nothing in the code forces a client, GitHub or a cut-off request to go on.

## Findings

- **A retry forgets a yank** (`ReplicaRetry`). `release_routes.py:310` indexes the bare
  tag of a version that exists, without the status sidecar, so a yanked version becomes
  resolvable again in that replica until the next repair.

Behaviours met while modelling that no run is spent on:

*Publishing and serving.* The retry's digest is computed over all uploaded files while
the published one covers only packaged files (`release_routes.py:309`). A version published
after the governance record was set is served without it until the next repair
(`release_routes.py:318`, `draft_routes.py:818`). A repair that read before a yank and
writes after it undoes the yank in the index until the next repair. The repair loop ends
on any exception, the benign race in `all_ids` included, which copies a cache a `put` may
have dropped (`store.py:57-62`, `background_sync.py:42`); `get_resolved` iterates over a
dictionary another thread may grow. `store.py:59` stores the id list it sorted even if a
`put` has cleared the cache in between, so searches miss the new skill until another put.
A second yank has the first one's event id and would be dropped by a consumer, and a bus
that is drained is drained for every replica; no caller passes a bus yet. An archive that
a publication was cut off from filling on the local store is tagged by the next one of the
same content (`local_filesystem.py:43-46`) and reaches clients, which extract it unverified
(`cli.py:541`).

*Signing and downloads.* Two first publications can both make the key, after which the
registered key and the key on file differ for good (`signing.py:47-65`, `trust.py:52-58`).
`jaasctl serve` passes no trust policy to `create_app` (`cli.py:795-803`), so with
`high_assurance_signature_recheck` every download of a locally signed release is refused.
A torn `usage_counts.json` ends the flush task, a crash leaves it torn, and a restart
forgets what was not flushed (`index/usage.py:78-99`). An install into a directory that
exists leaves the files of an older version that the new one lacks.

*Identity.* The routes that resolve a caller without the token store
(`release_routes.py:121`, `tenant_routes.py:69`, `draft_routes.py:89`,
`github_routes.py:63`, several of `routes.py`) take the bearer of a personal access token
for anonymous, although `release_routes.py:112` speaks of one. Such a caller can create a
tenant, which is then administered by the membership of `""` (`tenant_routes.py:101-103`;
`:123` says "membership always created for a real user"): every caller that resolves to
nobody passes `_require_admin` of it, and its creator, signed in, is no member. A torn app or connection
file makes the callback fail with an error although it "Always ends in a redirect" and
blocks a disconnect; a torn token file breaks the list of tokens; a disconnect that
overlaps a callback may leave the connection. Of two overlapping sign-ins, one can lose
invitations it has already removed (`invites.py:67-73`). Two concurrent creations can both
link one skill id (`repo_links.py:79-95`). A workflow's repository is compared with the
linked URL by its end (`ci_credentials.py:94-101`), so the repository of one owner/name on
another host matches too; `find_any` looks for `*__<id>.json` (`repo_links.py:59`), which the
link of `X__<id>` matches; and the branches and the owner are then read from another file,
or from a link made anew, although `ci_credentials.py:107-111` says that it is the link's
repository that is checked. The assertion that the link exists
(`release_routes.py:97-110`) can fail.

*Drafts and rules.* All drafts that start from the starter manifest are given one
directory (`drafts/store.py:34-51`, `git_sync.py:50`), where their branches and releases
mix files. Two skills of one repository at the same version cannot both be released: the
release is named `v<version>` (`git_sync.py:249`). A publication repeated after one that
merged and failed later does not bring deletions and reversions to the target branch (a
squash merge leaves the old common ancestor). A move whose answer was lost leaves files in
the directory that a retry does not remove, although `draft_routes.py:476-481` calls it
safe to retry. A failed bootstrap leaves the repository half initialized. Two forks of one
rule version overwrite each other's snapshot (`custom_rules.py:149-159`); an edit saved
during the publication of a rule draft is lost. A save of the manifest during a publication
can publish a skill or a version that GitHub has no release of: the files are read again
after the release was made (`draft_routes.py:771-792`). A rule that the service refuses
without an error text counts as valid (`guardrails/client.py:217`).

## Proofs

Eight modules prove, for every number of workers, replicas, threads, packages, tags,
skills, drafts, files, people, organizations, tenants, repositories, rules, catalogs,
tokens and publications and under any failures, what the table lists. The assumptions are
those named in the modules (the `...Assumption`s): the constants have their types; there
are a tenant, a user and a repository where links are concerned; the values for "none" and
"torn" are not data; and there are finitely many replicas (a sum of their counts is
spoken of) and versions (a newest one is). Nothing else is assumed; what holds only of owners
who wait for each answer says so itself (`oneAtATime => ...`).

Two modules prove two components each, those that meet in the system: `CatalogProofs`
what is published and what a search of it may say, `RepositoryProofs` the drafts and the
links of a skill to its repository. That is why `Search` and `Drafts` name their
definitions `SearchSpec`, `DraftsSpec` and so on.

| Theorem | Property |
|---|---|
| `CatalogProofs!TypeCorrect`, `TagsPointAtBlobs`, `Immutability` | `TypeOK`, `TagHasItsBlob`, `TagsAreImmutable` of `Publish` |
| `CatalogProofs!WholeArchives`, `OneWinnerPerTag`, `AuditTruth`, `RetriesSucceed`, `Refinement` | the five properties of the run `Publish` |
| `CatalogProofs!SearchInvariant`, `SearchTyped`, `SearchesAreExact`, `ResultsShared` | the inductive invariant and the three properties of `Search` |
| `ReplicaIndexProofs!TypeCorrect`, `BackedByTags`, `ConfirmedPublications` | `TypeOK` and the two properties of `ReplicaSafety` |
| `RepositoryProofs!DraftsTyped`, `SharedInvariant`, `ReleasesMatch`, `DraftsKept` | `DraftsTypeOK`, an inductive invariant for owners who wait or not, and two properties of `Drafts` |
| `RepositoryProofs!DraftsInvariant`, `MirrorsHold` | the inductive invariant for owners who wait, and `BranchMirrorsDraft` |
| `RepositoryProofs!TypeCorrect`, `ReleasesWereLinked`, `ClaimsAreUnique`, `ClaimsKept` | `TypeOK` and the three properties of `RepoLinks` |
| `AccountsProofs!TypeCorrect`, `NothingDangles`, `SessionsBacked`, `InvitationsKept` | the four properties of `Accounts` |
| `RuleLibraryProofs!TypeCorrect`, `OnlyValidatedRules`, `LimitOverrunBounded`, `HistoriesAgree` | the four properties of `RuleLibrary` |
| `CertificationProofs!TypeCorrect`, `CertificatesAreEarned`, `ScansCoverBaseline` | the three properties of `Certification` |
| `CredentialsProofs!CredentialsInvariant`, `CredentialsTyped`, `TokensAreConsented`, `ShownTokensLast`, `AuditHolds`, `ReloadsDoNotReconnect` | the inductive invariant and the five properties of `Credentials` |
| `DeliveryProofs!SigningInvariant`, `SigningSafe` | the inductive invariant and the safety of `Signing` |
| `DeliveryProofs!EventsAccountedAlone`, `CountsAreHonestAlone` | the property of `IndexEvents` and of `UsageCounts`, each by itself |
| `DeliveryProofs!DeliverySigns`, `DeliverySpreads`, `DeliveryCountsUsage` | `Delivery` implements `Signing`, `IndexEvents` and `UsageCounts` |
| `DeliveryProofs!DeliverySignaturesHold` | `SignaturesHold` of the whole |
| `DeliveryProofs!DeliveryInvariant`, `DeliveryTyped`, `NoAnnouncementIsLost`, `UsageCountsAreHonest`, `InstalledIsWhatWasResolved` | the inductive invariant and the other four properties of `Delivery` |

*Publish.* `OneWinner` is not inductive: one must know who may still fill a torn tag.
`IInv` adds `Exclusive` (of two workers that created a tag file, the tags differ),
`Claims` (the file a worker created is torn or its own) and `BlobFirst` (from the
blob step on the archive exists). `Excused` is a second invariant, relative to `IInv`: a
file that is not whole is a local one somebody has created and is filling or has died
over, and stays so until it is filled; on S3 there is none. Immutability and refinement are step arguments over `IInv`: only `FillTag` and
the S3 branch of `PutTag` change what a reader can see, and they start from nothing.

*Search.* `Good` says of a search under way what it has read and what it will make of it:
nothing has been found of the skills still ahead (`Unfound`); the version being judged is
what its skill resolves to (`Judged`); what is visible or found was shared during the
search or needs no share (`Shared`); the skills it takes for visible are those that the
grants it has read still share (`Visible`); and what it has found is what the metadata
endpoint would show (`Found`). Where a skill that changed meanwhile (`touched`) would break
a claim, none is made; and a change is about one skill (`ChangedOnly`), so that it leaves
what is said of the others.

*ReplicaIndex.* `IndexIsBackedByTags` has to follow entries through everything they
travel in: `HeldBacked` (what a handler carries between two accesses), `FreshBacked`
(what a bootstrap or repair has read, and which tags it still has to read) and
`TagsNameThemselves`. That tags are never rebound keeps a stale snapshot correct.
`ConfirmedStaysVisible` uses a further invariant, `Visible`, on top of `IInv`: confirmed
releases are tagged, and whatever a bootstrap under way has not read it will.

*Drafts.* Two invariants hold whether owners wait or not. `TypeInv`: a draft has a directory
exactly when it is connected, and a branch then (`Connected`), and what a request relies on
nobody takes away again (`Relies`). `SharedInv`: a draft that is being created has one
creator (`OneFounder`) and is not connected until that is done (`Founded`), so a failed
creation takes away nothing else; a publication that comes to the registry has the release of
the skill and version GitHub was told of, and one that cleans up is in the registry
(`Vouched`); so what is published has its release, unless the draft's files were no longer
those GitHub was told of (`Backed`), and keeps it: releases and publications are made once
and never changed. `DraftsInv` is for one request
at a time. `Working` says what a request has made sure of at its label: a draft
being connected is as it was created, and the target branch and its own have what the
bootstrap has made so far (`Connecting`, with `Rest`); a commit and a move carry what is
on the disk (`Saving`, `Moving`); from the merge on the target branch, then the release,
then the registry have the draft (`Publishing`). `HistoryOf` keeps a draft's branch inside
the directories it was given, and those of the target branch as they were when the branch
was made until the branch is merged: that makes the merge put there what the branch has.
`MirrorOf` suspends the mirror between the commit of a move and its record, and says what
an unanswered move may have left behind. `Published` is `ReleaseMatchesPublication` and
that the branch was merged, since a later merge ends what the property says. The proof of
an action shows that it concerns one draft (`Beside`), which its thread has for itself
(`Takes`); `DraftStep` then gives the rest.

*RepoLinks.* The handlers act on what they read some steps earlier, so the invariant says
what each request carries from its reads: `Grants` (a CI release that has found a link
came upon one of its repository's name, of this id or one taken for it, `NameLinked`; a
granted one has also been shown one of this very id that gives the owner and allows its
branch) and `Bases` (a creator read that nobody had linked the id, an updater its own
tenant's link, whose repository and creator it writes back). `Single` then is inductive: a
write that is not noted as stale still finds the links it read.

*Accounts.* `MembershipsAreBacked` has two halves. `Warrant` says what a request has made sure of by the stage it is at (the
account exists before the tenant is owned, an invitation in hand is to a tenant that
exists, a session's tenant has its user as a member), and is kept because accounts, tenants
and memberships are never taken away (`Grows`). `RefreshBacked` (a token holder has an
account and a membership) is why a refresh needs no fallback. That an organization with
anybody in it has an admin needs a second invariant, `Ruled`: one of its admins, nobody
perhaps, is not about to be made a plain member by a request under way, since whoever would
do that had looked for a membership and found none. Two properties hold only of
undisturbed users, and for those `InPeace` is inductive: one sign-in at a time; the
personal membership is there unless that sign-in is about to make it; invitations it has
listed are where it saw them; a promised one is a membership, a file, or in its hands. A
step of any other request leaves all that alone (`Aside`).

*RuleLibrary.* `AllCarried` says what each request carries at its stage: a body the
service has accepted, a version, a place. The limit is proved by counting, `PlacesHold`:
the rules listed and the threads past the check (`Taken`) are never more than the limit and
the threads but one. `AllOrderly` says of an uncontested slug that it has one writer at
most, how far its files are while that writer is half done, and that they agree with
history and audit trail otherwise.

*Certification.* `CertificationIsEarned` follows a publication from the catalog it fetched
to the levels it computed. The running maximum of `HighestUpTo` is a recursive function
over the four levels, so it is unfolded four times (`LoopUnfolds`) rather than by induction.

*Credentials.* `FlowInv`: flows are begun by admins, a callback is for an approved one,
and past the exchange its code is spent. Hence `StoreInv`: a code is stored once, by one
callback, which is why a reload cannot store it again. `PatInv`: whoever makes a token has
it alone until it is written, and then only requests of its owner touch it. `AuditInv` says
of a file that no two requests met on, and none was cut off on, that it is as the last line
of the audit log has it, or as its one request is about to log it.

*Signing and Delivery.* `Consistent` is inductive until two publications make one file:
`KeysAgree` (registered key, key on file and signatures), `Knows` (what a publication has
seen of the files), `OneFills` (only one fills a file). `clash` never falls back
(`ClashStays`). `Delivery` implements `Signing` under the identity mapping: its steps are
steps of `Signing` or leave its variables alone, so `SigningSafe` carries over. It
implements `UsageCounts` in the same way, and `IndexEvents` under its own invariant: that
module lets a replica start again with any set of tags that has every announced release,
and that the tags of `Delivery` do is what `EventsInv` knows. The counts
need a sum over the replicas, a fold: `MapThenSumSet` is unfolded over the finite set of
replicas (`Adds`), which gives how the sum moves when one replica's count does
(`Shifted`). `UsageInv` then balances what was issued against the file, the counts in
memory and the flush under way. `BusInv` accounts for every announcement within
`IndexEvents`; `EventsInv` adds that what is announced or in an index is published;
`ClientInv` follows token, command and directory of the
client, whose files are all there where the archive was or was rechecked (`Complete`), and `CommandsAreCounted` ties its success to a token of its own.

Only model-checked is liveness, `Converges` of `ReplicaIndex`: fairness is out of the
prover's reach. `ReplicaRetry` is a counterexample and has nothing to prove.

## Not modelled

Package validation (checks of one upload without state; the dependency cycle check of
`validation/graph.py` is called by no route with a graph to check against), cryptography
(a key stands for whoever made it, a Sigstore bundle for a signer of its own), logging,
metrics, alerts and configuration, the schemas. Within modelled components: text scoring,
filters and paging of search; who may manage sharing; display names and the expiry of
session tokens; inline rules of a skill; `jaasctl` validate, search, import and the
guardrails commands, which keep no state; the examples the demo seed passes over. In
`Accounts`, `RepoLinks`, `RuleLibrary` and `Certification` a write of a small JSON file is
one step: a reader that meets a half-written one fails with an error and changes nothing,
except where `Credentials`, `Signing` and `UsageCounts` model it.

## Plan

Done, in this order: `AppendOnlyCatalog`, `Publish`, `ReplicaIndex`, their proofs, `Drafts`,
`Accounts`, `Search`, `RuleLibrary`, `RepoLinks`, `Certification`, the proofs of `RepoLinks`;
then `Credentials`, `Signing`, `IndexEvents`, `UsageCounts`, `Delivery`, the directories and
the bootstrap of `Drafts`, tasks that end in `ReplicaIndex`, and the proofs of `Signing`,
`Delivery`, `Certification`, `RuleLibrary` and `Accounts`; then the proofs of `Credentials`,
`Search`, `Drafts` and of the rest of `Delivery`; then what holds of drafts whose owners do
not wait, of archives on the local store, and that `Delivery` implements `IndexEvents`
and `UsageCounts`; then publications of drafts that change under them, callers that are
nobody, repositories matched by name, and incomplete archives at the client. Every safety and action property of the passing runs has its theorem.

Open: a composition of `Drafts` with `Publish` in place of its one-step publication; the
dependency graph's cycle check against a reference definition.
