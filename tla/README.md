# dockyards-backend in TLA+

dockyards-backend serves the API of a platform that gives organizations Kubernetes
clusters. It keeps no database: users, organizations, invitations, members, clusters, node
pools and workloads are objects of the Kubernetes API server, and everything the process does
is to read and write them. This directory holds TLA+ modules translated from the Go source,
the TLC configurations that check them on small instances, and proofs that TLAPS checks.

## 1. The system

One Deployment with one replica runs the HTTP servers, the admission webhooks and the
controllers (`main.go`). The HTTP servers start before the manager; there is no leader
election, so two processes exist only while one replaces the other.

Three facts shape every component:

* **Reads are late, writes are not.** Handlers, webhooks and controllers share
  `mgr.GetClient()`. A `Get` or `List` is answered from an informer's copy, one per kind,
  which a watch keeps up to date after any delay; `Create`, `Patch` and `Delete` go to the API
  server. Watches of different kinds are independent, so one copy may show an effect whose
  cause another copy does not show yet.
* **There are no transactions and no locks.** A handler that writes three objects may stop
  after each. Patches are merge patches computed from the copy, without a resource version;
  a list (of conditions, say) is replaced as a whole.
* **Controllers are level-triggered.** A key is put in a work queue by events, by errors
  (retry) and by the periodic resync; one worker handles one key at a time.

### Components

| Component | State it keeps | Operations | What makes it correct |
|---|---|---|---|
| Accounts (`handlers/users.go`, `passwords.go`, `verify.go`, `login.go`, `sso.go`, `user_controller.go`) | `User` (e-mail, password hash, conditions Ready and UserAuthorizationReady), `VerificationRequest` (code, duration, owner, Verified), a cluster role and binding per user | sign-up, verification by code, password reset, change of password, login, OIDC callback, reconciliation | no Ready user and no token without verification; a code is used once; a verified user becomes Ready; RBAC before the condition that reports it |
| Users' admission (`user_webhook.go`) | none | validate on create and update | one user per e-mail |
| Invitations and members (`invitations.go`, `members.go`, both controllers and webhooks) | `Invitation` (e-mail, role, duration), `Member` (user, role) in the organization's namespace | invite, accept, decline, remove, expire | an invitation is accepted at most once; a member has the role it was invited with; a removed member has no rights |
| Authorization (`pkg/authorization`) | cluster roles, roles, role bindings | reconciled by the user, organization, member and cluster controllers | bindings follow roles, up and down |
| Organizations (`orgs.go`, `organization_controller.go`, `organization_webhook.go`) | `Organization`, its namespace, its voucher, a finalizer | create (five writes), update, delete, expire | a creation that stops half way leaves nothing unusable; a namespace is not deleted under clusters |
| Clusters and node pools (`clusters.go`, `node_pools.go`, `cluster_controller.go`, webhooks) | `Cluster` with its upgrades and DNS zones, `NodePool` | create with pools, update, delete, expire, report upgrades and zones | a cluster that is answered has its node pools; pools go with their cluster; what expired goes |
| Workloads (`workloads.go`, `workload_controller.go`) | `Workload`, its template's worktree | create, update, delete, reconcile | a workload refers to a template that exists |
| HTTP pipeline (`handlers.go`, `create.go`, `get.go`, `list.go`, `update.go`, `delete.go`, middleware) | none | authentication, access review, lookup, the operation, conversion | no write without an allowed review; each error has its status |
| JWT keys (`pkg/util/jwt`) | a `Secret`, a `ConfigMap` with the public key | get or generate at start | all processes sign with the stored keys, and the published one verifies |
| Configuration (`api/config`), metrics (`internal/metrics`) | a `ConfigMap`'s values; gauges | reload; collect | readers see a whole configuration; a scrape sees plausible gauges |

They interact through objects: a handler writes, an event reaches the controller's copy, the
controller writes. The user controller is woken by verification requests through a mapping
(`verificationReqeuestsToUsers`); the organization controller by clusters it owns; the API
server calls the webhooks, when `--enable-webhooks` is set, inside a write; the garbage
collector follows owner references.

### What is hard here

Interleavings of a handler's steps with a controller's; decisions on a copy that is several
versions old; a name that is used again for another object (`sign-up-<user>`); a stop between
two writes; a missing wake-up, which delays an effect until the ten-hour resync or forever.
`PROJECT.json` lists these hazards one by one with the line where each bites.

## 2. Plan

Most important behaviour first; each module is written so that it can be proved about
(no recursive operators, named assumptions, one action per operation).

1. **Accounts** with **Informer** and the abstract **OneTimeCode**; proofs in
   **AccountsProofs**, of the refinement in **PasswordResetProofs**. *Done.*
2. **Membership**: **Invitations** and **Members**, each composed with Informer; proofs in
   **InvitationsProofs** and **MembersProofs**. *Done.*
3. **Organizations**: creation step by step with failures, the finalizer, deletion in the
   foreground while clusters exist, expiry with the clock read twice, and the cluster roles
   of an organization with their bindings, whose subjects follow the members; proofs in
   **OrganizationsProofs**. *Done.*
4. **Startup**, **Routes** and **Gateway**: processes that start at once and generate keys,
   the checks and answers of every generic handler, and a request that passes through them
   in one of the processes; proofs in **GatewayProofs** and **RequestProofs**. *Done.*
5. **Clusters**: creation with node pools, expiry, the choice of upgrades, DNS zones; proofs
   in **ClustersProofs**. *Done.*

Left: the workload's controller, which repeats the shape of the cluster's, and theorems beyond
the properties of the runs, such as how far a late copy may mislead the controller of an
organization.

## 3. Modules

### Informer

External code (client-go) modelled from its use. An instance has a `store` (the API server),
a `cache` (what reads return) and a `watch` (versions not yet delivered, in order). `Write`
adds a version unless the patch changed nothing, `Deliver` shows the oldest, `Relist` is the
list a starting process makes. `MaxLag` bounds the undelivered versions.

### Accounts

| State | Code |
|---|---|
| `users`, `userCache`, `userWatch` | User objects and their informer; a record has a phase (free name, live, gone), e-mail, password and the two conditions |
| `requests`, `requestCache`, `requestWatch` | VerificationRequest objects, identified by their code |
| `rbac` | users whose cluster role and binding exist |
| `expired` | codes older than their duration |
| `provided` | users whose identity provider, and the namespace it is in, the controller finds |
| `queue`, `ctl` | the controller's work queue; the step of the reconciliation in progress and the conditions it carries |
| `call` | handlers of several steps (verification, reset) |
| `sessions`, `used` | history: who was given tokens, how many passwords a code set |

A request is identified by its code and not by its name, because codes are random and names
of sign-up requests are not: `Named(c)` is the live request a write by the name of `c`
reaches, which may be another one by then. `Admits` is the webhook, answered from the copy.

A reconciliation (`user_controller.go:47-145`) is the sequence `StartReconcile` -
`MarkNotReady` - `ReconcileVerification` - `Promote` - `Cleanup` - `ReconcileAuthorization` -
`ReportAuthorized`, entered at the step `FirstStep` finds from the copy. For a user of an
identity provider `LookUpProvider` comes first, on every pass, and `MarkVerified` then takes
the place of the verification. Providers come and go (`ConfigureProvider`), also for the
controller alone: sign-on has a default for the public namespace, the controller has none. Each API write is a step; `ControllerError` fails any of them and `Retry` puts the key
back. Handlers that list and then write are split at the writes: `VerifyList`, `VerifyPatch`;
`ResetList`, `ResetDelete`, `ResetCheck`, `ResetPatch`. Handlers with one write are one step.

### OneTimeCode

The abstract specification of a code: issued, claimed, and spent or void. `Accounts`
implements it for reset codes under the mapping `ResetCodeState`.

### Invitations

| State | Code |
|---|---|
| `invites`, `inviteCache`, `inviteWatch` | Invitation objects: phase (free name, live, deleting, gone), the user addressed, whether a duration was given, whether the expiration is in the status |
| `members` | users with a Member object in the organization |
| `expired` | invitations older than their duration; `Expire` may happen at any time |
| `queue`, `timers`, `ctl` | the controller's queue, its delayed keys, the reconciliation in progress |
| `call` | acceptances between their steps |
| `accepted`, `withdrawn` | history: why an invitation went |

An address stands for the user that has it. `Admits` is the webhook of creations and updates;
its search for members goes through `spec.memberRefs`, a deprecated field nothing sets, and
never refuses. `UpdateGlobalInvitation` is split at its writes: `AcceptList`, `AcceptMember`,
`AcceptDelete`. A reconciliation (`invitation_controller.go:36-73`) is `StartReconcile` -
`DeleteExpired` - `Requeue`: the clock is read in the first and in the last, and `Requeue`
starts a timer only if the second reading is before the expiration. `Collect` is the garbage
collector, whose update is admitted or refused like any other.

### Members

| State | Code |
|---|---|
| `members`, `memberCache`, `memberWatch` | Member objects by user: UID, role, the condition MemberAuthorizationReady with the error it names, whether the e-mail was copied |
| `bindings`, `bindingCache`, `bindingWatch` | the owner's UID of the role `:self` and of the bindings `:self`, `:reader`, `:user`, `:super-user`, in the order they are written |
| `registered` | users whose User object exists |
| `queue`, `ctl` | the work queue; the reconciliation with the copy it works from |
| `held` | history: the roles each member has had |

A member has its user's name, so one that joins again is another object under an old name:
UIDs tell them apart. `Bind` is one `CreateOrPatch` of `ReconcileMemberAuthorization`
(`authorization.go:479-698`), whose choice between creation, patch and nothing is made from
the copy; `NextLevel` is the early return at the member's role. `Conclude` is
`reconcileAuthorization`, which turns an error into a condition and forgets it. The patch
helper then writes conditions (`PatchConditions`, which refuses a copy that is not the
latest) and the rest of the status (`PatchStatus`). The Role and the bindings share one
informer here; the User is read where its e-mail is written, which commutes with every step
in between.

### Organizations

| State | Code |
|---|---|
| `orgs`, `clusters`, `members`, `rbac`, each with copy and watch | Organization objects; which organizations have a cluster; roles of members; the cluster roles and bindings of an organization with their subjects |
| `namespaces`, `creation` | the namespace, and the step of the call that creates (`CreateNamespace` - `CreateOrganization` - `OwnNamespace` - `CreateMember`) |
| `elapsed`, `timers`, `queue`, `ctl` | age on a coarse clock; delayed keys, the work queue and the reconciliation in progress |
| `autoAssign` | the feature that the webhook asks for |
| `promoted`, `older`, `undone` | history: who has been a super user; which organizations have a cluster that was there when their deletion began; which were taken back from deletion in the foreground |

A reconciliation (`organization_controller.go:50-168`) is `StartReconcile` with the copy it
works from, then `DeleteExpired`, or `AddFinalizer` - `BindPart` (three times) -
`PatchConditions` - `PatchStatus`, or `ListClusters` - `RemoveFinalizer`. `CollectOrganization`
is the garbage collector, whose updates pass the webhook like any other.

### Startup, Routes, Gateway

`Startup` is `main` and `GetOrGenerateKeys`: each process reads the secret, merges in a key
it lacks, writes the result, publishes the public key, serves, writes four cluster roles one
by one and manages; it may end anywhere and start again. `CreateOrPatch` is a read and a write
with anything in between. Keys are numbers that are never generated twice.

`Routes` gives each generic handler of API v1 and v2 a row: its checks in the order of the
code, the answer to each outcome of its operation, and where it departs from the others. That
is data, read off the handlers line by line; `Gateway` interprets it. `Arrive` picks any
handler and any process that serves, and the checks then run one step each - `Authenticate`,
`Validate`, `FindOrganization`, `Review`, `FindType`, `FindCluster`, `ReadBody`, `Operate` -
while `Deliver` and `Regrant` change what the copies show and what the subject may do, and
processes come and go. `Operate` ends in any outcome: what operations do is the subject of the
other modules. The request notes which answers to its review were possible (`seen`), and
whether anything failed (`regular`).

### Clusters

| State | Code |
|---|---|
| `clusters`, `copies` | Cluster objects by name, with a UID that tells those of one name apart; what the informer shows. A copy jumps to the present: versions in between are not told apart |
| `pools` | NodePool objects by name: the owner's UID, whether its deletion waits for them, replicas (0, or 1 for 1 to 9) |
| `requests` | the last call of `CreateOrganizationCluster` for a name: `FindTemplate` - `CreatePool` (once per node pool) - `AnswerCreate`, and the node pools it asked for |
| `queue`, `timers`, `aged` | the controller's queue, its delayed keys, clusters whose duration has passed |
| `zones`, `world`, `outdated` | DNS zones; the default template and release and the feature; clusters not looked at since the latter changed |

A reconciliation is one step, `DeleteExpired` or `Reconcile`: it reads one copy at its start
and writes one object at its end. `Remove` and `Collect` are the garbage collector: deletion
in the foreground waits for node pools with `blockOwnerDeletion`, which those made by
`CreateClusterNodePool` lack. Node pools are named `<cluster>-<option>`, so that "a" with
"b-c" and "a-b" with "c" ask for one name: `x` in the instance.

### Runs

| Run | Instance | Question |
|---|---|---|
| `accounts_safety` | 1 user, 1 sign-up and 1 reset code, 2 calls, lag 1, 1 fault | Ready, tokens and the authorization condition never run ahead; Ready is not lost but to the oldest copy; a reset code is claimed once; refinement of OneTimeCode |
| `accounts_live` | 1 address, of a dockyards user or an OIDC user whose provider comes and goes, 2 codes, 1 call, webhooks on, lag 1, 1 failed call or restart, fairness | verified users become Ready, requests are cleaned up, new users get a code; OIDC users become Ready without a code, and authorized, once their provider is found for good |
| `invitations_safety` | 2 invitations, 1 address, 2 calls, webhooks on, lag 2, 1 fault | no invitation is lost, none is accepted and kept; an expired one stays in deletion |
| `invitations_live` | 2 invitations, webhooks off, lag 2, 2 faults, fairness | expired invitations are removed: by the timer if nothing fails, by the resync whatever fails |
| `members_safety` | 1 user, roles Reader and User, 2 memberships, lag 1 | bindings stay within the roles of the member that owns them; a wrong report of readiness is about to be corrected |
| `members_live` | 1 user created late, role Reader, 2 memberships, lag 1, 1 fault, fairness with resync | a member gets its bindings or leaves, also on joining again |
| `members_info` | 1 user created late, 1 membership, lag 1, no resync, fairness | *violated*: the e-mail arrives without a resync |
| `members_role` | 1 user, roles User and SuperUser, lag 1 | *violated*: a downgrade leaves the binding of super users |
| `organizations_safety` | 1 organization, 1 user, webhooks on, no duration, lag 1, 2 events of any kind | bindings are made under the finalizer, as reported and for super users only; an organization goes before a cluster that was there when its deletion began only where its deletion in the foreground was taken back |
| `organizations_live` | the same with a duration, 1 event (a change of the organization, a cluster, a member, a failure, a restart), fairness | what is deleted or expires goes, by the timer alone if nothing fails; rights follow the members |
| `gateway` | 2 processes, secrets with both keys, one or none, 6 keys, 1 crash, every handler, 1 change around a request | processes agree on keys; no operation without the right; nothing told to who lacks it; no valid token turned away |
| `clusters` | 2 names, a shared and a separate node pool, 2 clusters ever, 4 versions; two of: edits, deletions, durations that end, changes of a node pool, restarts; or one of: failure, change of a zone, of the world; fairness | a cluster that is answered is whole, reports are right or about to be; what expired and what lost its owner goes |

**Bounds.** Two sign-up codes are what a deletion and re-creation under the same name needs;
two calls race for one code or one invitation; one fault (a failed call, a restart or the
deletion of a user in `Removable`, which only `accounts_safety` has) hits any step, and two let a
restart follow a failed call. With a lag of
one the controller already acts on a copy older than the one a later step of it reads, which
is older than the store; Invitations is small enough for two. Two invitations of one address
are what the handlers' "exactly one" needs to fail, and two memberships under one name are
what makes an old binding or an old report land on a new member. Two clusters may have one name
after the other, or share the name of a node pool. Two processes start at once; a third meets
a secret that is there. A user that signs up and one of a provider share no object but the
controller, so that `accounts_live` gives the only address to one of them. Users of one organization
do not share objects, so one is enough there; a member takes each role at most once. More
codes, calls or members repeat the same encounters, and the proved properties do not depend
on the bounds.

**Fairness.** Weak fairness of the controller's steps (a worker does not stop in the middle
of a key) and of the watches; strong fairness of starting each key, because the work queue is
first in, first out and one key's retries do not starve another. Nothing is assumed of
callers, of the clock or of failures; of providers, that they are found from some moment on
(`OIDCUserAuthorized`). The properties of Accounts and the first halves of `ExpiredDeleted` and
`ExpiredRemoved` do not rest on the resync, and `members_info` asks its question without it. The
others do: the informers of controller-runtime put every object in the queue again about every
ten hours, which `main.go` does not turn off. Without it TLC finds that an invitation, an organization or a cluster stays
when a restart comes between the two readings of the clock; that a deleted organization stays
when the list of its clusters was stale; and that rights do not follow members. The Kubernetes
garbage collector is one process that is fair to its work as a whole: strongly where objects
that come again could keep it from the others (bindings), weakly elsewhere. `Gateway` is
checked for safety only.

### Findings

* `members_role`: lowering a role leaves the bindings of the higher one, against
  `authorization_test.go:951`, which expects that a user cannot delete members.
* `members_info`: `reconcileInfo` asks to be called again in a minute because the "User has not
  been created yet" (`member_controller.go:108`), and `Reconcile` answers with an empty result
  (`:73`): the e-mail waits for the resync.

Met while modelling, without a run that is kept for them:

* Upgrades go up to and including patch 0 of the minor after the next
  (`cluster_controller.go:172`), where `cluster_controller_test.go:299` and `:381` expect the
  next minor only; no version of their release has patch 0. `Suits`, which
  `WrongReportPending` uses, is the bound of the code.
* The user webhook looks for an e-mail in the informer's copy. Two users created before the
  watch delivers the first are both admitted, which `passwords.go:154` says "should not be
  possible"; neither can log in or reset afterwards. The invitation webhook does the same with
  addresses, against `invitation_webhook_test.go:179`.
* `ResetPassword` finds requests by code alone, sign-up requests included, and deletes by name
  without a precondition on the UID. The controller creates `sign-up-<user>` again after the
  first deletion, so a second call that had listed the old request deletes the new one and uses
  the same code again, against the comment at `passwords.go:96`.
* A creation of an organization that fails half way, also for a voucher that is refused, leaves
  its namespace; one that got its object but not its member has nobody who may delete it.
* `AddFinalizer` writes the whole list of finalizers from its copy and can take the server's
  finalizer for deletion in the foreground away (`undone` in Organizations): the organization
  then goes before its clusters. So it does for clusters created after its deletion began,
  which the handler never looks for (`clusters.go:211-323`). With webhooks, a disabled feature
  blocks the removal of finalizers and with it every deletion.
* A secret with one key missing lets two processes that start at once keep different keys
  (`whole` in Startup). A process answers 500, and 401 to some lists, before its informers run.
* `CreateClusterResource` looks into the result of its operation, and `CreateClusterNodePool`
  returns none, nor an error, to a request without a name (`node_pools.go:313`): the
  connection is lost. A cluster for which there is no default template is created without the
  node pools that the request lists, and answered in the same way (`clusters.go:346`).
* Deletions by the cluster's controller go by name and carry no precondition: from a late copy
  they meet a cluster that was given more time, or another one of its name.
* A user of an identity provider that sign-on finds in the default namespace is not made Ready
  while the configuration names no public namespace (`sso.go:40`, `user_controller.go:152`).
* Nothing deletes password reset requests that expired; a sign-up request that expired is not
  renewed; an invitation that expired is accepted as long as it is listed.
* A node pool is found by its name alone, also one of another cluster. Its quantity has no
  lower bound, a patch of a node pool without resources writes to a nil map
  (`node_pools.go:233`), and node pools are counted by label in all namespaces
  (`clusters.go:474`).
* The configuration keeps the last values when its ConfigMap is deleted, and has none before
  the first reconciliation (`config.go:87`).
* `parseClaimValidationRules` takes the required value for the expression as well, and
  `parseExtraMapping`, `toExtraMapping` and `toUserValidationRules` go through their empty
  result instead of their argument. They translate between formats and are not modelled.

One more disagreement holds as a property, since no document speaks of it:
`ExpiredInvitationKept`. The controller deletes expired invitations in the foreground; the
update that would end the deletion is validated by the invitation webhook, which finds the
invitation itself and answers "address already invited".

## 4. Proofs

Every invariant and action property of a passing run is proved, for all values of the
constants, as a theorem about `Spec`, and the refinement of OneTimeCode with it. Liveness is
model-checked only. The inductive invariants were model-checked on the instances of the runs
before they were proved.

Most properties are about an actor that decides from an old copy, so most invariants speak of
every version there is: the store, the copy and those on their way. They do it in one of two
forms. A set of versions that only grows (`Past...`, `Granted`, `Within`, `VerifiedStores`) says
what no version, however old, can show; waiting then makes no version wrong. Where it matters
that what was shown once is never taken back, an order on the versions (`UidOrder`,
`ShownOrder`) is added.

| Module | Assumptions | Theorems |
|---|---|---|
| `AccountsProofs` | `AccountsAssumption`: disjoint users and codes, non-empty data, users that may be deleted are users, natural bounds | `AccountsTyped`, `ResetCodesUsedOnce`, `ReadyUsersVerified`, `TokensOnlyForVerified`, `AuthorizationIsThere`, `ReadyKept` |
| `PasswordResetProofs` | the same | `ResetImplementsOneTimeCode` |
| `InvitationsProofs` | `InvitationsAssumption`: there are invitations and users, natural bounds | `InvitationsTyped`, `NoInvitationLost`, `AcceptedAreConsumed`, `ExpiredStays` |
| `MembersProofs` | `MembersAssumption`: there are users and roles, the roles are those of the code, natural bounds | `MembersTyped`, `RolesBoundRights`, `ReportsArePending` |
| `OrganizationsProofs` | `OrganizationsAssumption`: there are organizations and users, durations are positive, events are of the module's kinds, natural bounds | `OrganizationsTyped`, `ClustersKeepTheirs`, `FinalizerComesFirst`, `ReportedIsThere`, `SubjectsWereSupers` |
| `ClustersProofs` | `ClustersAssumption`, `BodiesAssumption`: node pools come in lists, versions are pairs of numbers with a default among them, natural bounds, a price for each kind of event | `ClustersTyped`, `ReportsArePending`, `AnswersAreWhole` |
| `GatewayProofs` | `StartupAssumption`: natural bounds; keys 1 and 2 exist | `ProcessesAgree` |
| `RequestProofs` | the same and `GatewayAssumption`: a natural bound | `RequestsTyped`, `RightComesFirst`, `AnswersAlike`, `TokensAreGood` |

### Accounts

* `AccountsTyped`: lemmas `UserWrite`, `RequestWrite`, `UserRead`, `RequestRead` say that an
  informer stays inside every set its written versions are in; with them each action is a few
  lines. The other modules follow the same pattern.
* `ResetCodesUsedOnce`: the property is not inductive, since a password is set from step
  `patch`. `ResetInv` adds that at most one call holds a code after its deletion, that the
  request is gone by then, and that a held code is unused. It rests on names of reset requests
  never being given again (`ResetNames`), which is exactly what fails for sign-up codes.
* `ReadyUsersVerified`, `TokensOnlyForVerified`: `VerifiedInv` says of every version that it
  shows nothing that did not happen. `PastRequests` is the set of stores of requests that the
  present one extends, `VerifiedStores` the stores of users in which only verified users are
  Ready, and `SnapshotVerified` says the same of the conditions the controller carries.
* `AuthorizationIsThere`: the condition travels with patches of the *other* condition, which
  are computed from a copy. `RightsInv` therefore says of every version, and of the snapshot
  the controller carries, that a user reported as authorized has its role and binding
  (`AuthorizedStores`).
* `ReadyKept`: a patch writes the Ready condition the reconciliation read, unless it sets it.
  `CarriesReady` says which conditions the snapshot may hold at which step; with it every
  other writer is seen to keep a True.
* `ResetImplementsOneTimeCode`: initial states map to initial states, and under `ResetInv`
  every step maps to one of OneTimeCode or to a stutter. The deletion that succeeds is the
  claim, the patch that follows spends it, and a failure or a restart between them voids it.

### Invitations

* `NoInvitationLost`, `AcceptedAreConsumed`: `ConsumedInv`. An acceptance names an invitation
  it saw in a copy, so no version, old or new, shows an invitation that was not created
  (`KnownBy(Created)`); a call about to delete has made a member of its invitation; what is in
  deletion was withdrawn.
* `ExpiredStays`: `KeptInv`. The webhook decides from the copy, so it must be shown that the
  copy has the invitation whose finalizer is to go. Only the controller puts an invitation in
  deletion, from a copy that shows it; versions keep the order of creation (`ShownOrder`), so
  what was shown stays shown; and no version has another address for it (`Past`).

### Members

* `MembersTyped` needs `WithinDepth`: the level never passes the depth of the role that was
  read, which is what keeps it a level.
* `RolesBoundRights`: the controller writes what the copy it started from asks for. `RolesInv`
  says that every version of the members shows roles that member has had (`Granted`), that
  every version of the bindings is explained by them (`Within`), and the same of the
  controller's copy. `held` only grows (`HeldGrows`), and with it both sets.
* `ReportsArePending`: a member and an earlier one of its name share bindings and reports.
  `OwnerInv` says who has them: once the controller has met the present member, no copy shows
  an earlier one any more (`CopyKnown`, from `UidOrder`), so its bindings are not taken over
  (`BindingKnown`) and a copy that shows one is right (`Kept`). `Progress` follows the bindings
  that a reconciliation has made, and `CopySeen` says that a reconciliation whose key is not to
  come again works from the present copy and leaves nothing to write. A reconciliation can then
  end without its key in the queue only if the report it leaves is right (`Ends`).

### Organizations

* `ClustersKeepTheirs`: `OrgInv` says of every version what it may show of the phase and the
  finalizers of the present organization (`PastOrgs`: it is not back from deletion, and where
  it lacks the finalizer that waits for clusters, those that are older than the deletion are
  gone, or the deletion was taken back), and the same of the copy the controller works from.
* `FinalizerComesFirst`: `RoleInv` is the property said of each organization. It is inductive
  beside `OrgInv`, whose `CopyInv` says that the controller binds only from a copy with the
  finalizer, and which follows that finalizer until it is taken off, in deletion only.
* `ReportedIsThere`: `ReportInv` follows the parts that a reconciliation has made so far, says
  that the condition True (stored, or about to be) means that all are there, and that no version
  of the roles shows a part that an organization not in deletion has lost.
* `SubjectsWereSupers`: `SuperInv` says that every version of the members has super users that
  were promoted; `promoted` only grows.

### Clusters

* `ClustersTyped`: `TypeInv` adds that a request that creates node pools has created its
  cluster, hence that a node pool has an owner.
* `ReportsArePending`: `UIDInv` (no UID is used before it is given, and no two names share one)
  tells clusters of one name apart; `ReportInv` says that a cluster that is not queued, and whose
  copy has its UID and does not expire, was `Reported`: what the copy reports is right, or the
  store differs from the copy already, or the cluster is outdated.
* `AnswersAreWhole`: `ProgressInv`: each node pool that was asked for is left to be made, or is
  there with the request's cluster as its owner, as long as that cluster stays. Nothing
  else takes a name: a second cluster's request for the same node pool fails.

### Keys and requests

* `ProcessesAgree`: the property says nothing of processes that do not serve yet, so `KeysInv`
  follows them from the read on. A process that found the secret carries its keys; one that did
  not carries keys of its own, and its creation fails if the secret is there by then
  (`ProcessInv`). Hence the secret is written once (`SecretWrittenOnce`), nothing but its key is
  ever published (`StoredInv`), and no process disturbs another (`OthersInv`). All this needs
  `whole`: with a secret that lacks a key it fails, which is the exception `KeysAgree` names.
* `RightComesFirst`, `AnswersAlike`: `RequestInv` says what a request on its way has passed:
  nothing was answered yet, what it was granted was so at some time (`seen`), and the checks it
  has left still contain the review if it has not been granted anything (`Guarded`). That the
  rows of the table have this shape is `HandlersOK`, a lemma about each handler; the rest of
  the proof does not look at rows.
* `TokensAreGood`: `TokenInv` and `TurnInv` say that a token carries the key that is stored and
  that the process that answers serves, so that `ProcessesAgree` applies; a refusal then is
  due to the outcome of the operation.

### Model-checked only

Liveness (`VerifiedLeadsToReady`, `ReadyLeadsToCleanup`, `UnverifiedGetsRequest`,
`OIDCUserAuthorized`, `ExpiredRemoved`, `MemberAuthorized`, `DeletedGo`, `ExpiredDeleted`,
`RightsFollowMembers`, `PoolsCollected`, `ExpiredGo`): it rests on fairness and on when actions
are enabled, which the prover does not reason about. The violations `members_role` and
`members_info` are counterexamples on their instances. The bounds on failures, lag and versions
are parameters of the theorems, but the model has them: a theorem says nothing of an informer
without a bound on its lag, only of every bound.

## 5. Not modelled

Token contents and bcrypt (a password is a model value), the OIDC exchange before the user is
looked up, the domain check of the user webhook (it reads only the request and a flag), log
lines and metrics. Updating a user changes only the display name; no route deletes one, so a
deletion is an administrator's. Handlers that only read, and the labels of members. That an
invitation is accepted after its duration is modelled as it is: the handler does not look. The
expiry of users: nothing in this repository reads a user's duration.

Of organizations: display data, the reference to a credential and provider IDs. Of the pipeline:
several requests at once in one process
(their operations meet in the other modules), `UnprotectedResource`, which no route uses, the
contents of schemas, and `/v1/refresh`, which repeats login with the other key. Of clusters:
the fields a request carries that no decision looks at (subnets, plugins, authentication,
resources), features that node pools need, node pools and zones seen too late, and the
handlers that only read. A conflict of names in the copy of the node pools is the same error
as one of the server.

Components of section 1 without a module are listed in `PROJECT.json` with their reason:
workloads, credentials, configuration and metrics are single reads and writes that no two
actors race for.
