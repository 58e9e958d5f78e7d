# MailShield in TLA+

TLA+ modules, TLC configurations and TLAPS proofs for MailShield, an SMTP
after-queue content filter: a gateway between an upstream and a downstream MTA,
and an API server that releases the mail the gateway holds and edits what the
gateway runs. The source is in `src/`; file names below are relative to
`src/services/`.

## The system

| Part | State it keeps | Operations | Interacts by |
|---|---|---|---|
| smtp-gateway: handler (`smtp-gateway/cmd/server/main.go`, `internal/smtp`) | one goroutine per mail, archive goroutines, sessions | the steps of `HandleMail`, `archiveAsync`, orderly stop | SMTP both ways, database, object store |
| smtp-gateway: evaluation (`internal/router`, `pipeline`, `policy`) | the mail's facts | choose a route, inspect (parallel), transform (serial), evaluate the policy | calls of the handler |
| smtp-gateway: configuration (`internal/dbconfig`, `pollConfig`, `reloadPolicies`) | pointer to the routes it runs | start, poll, rebuild, swap; reload policy files | database, files, HTTP from the api-server |
| smtp-gateway: workers, notify, events, rulestats | none, counters | content checks, mails, webhooks | calls, HTTP |
| api-server: delayed mail (`api-server/internal/delay`, `handler/delay.go`) | `delayed_releases` | release loop, send-now, cancel | database, SMTP |
| api-server: approvals (`internal/approval`, `handler/approval.go`) | `approval_requests` | decide, bulk decide, expire | database, SMTP |
| api-server: approval notifications (`internal/approval/service.go`) | `approval_notifications` | announce to approvers, tell the sender | database, SMTP |
| api-server: quarantine (`handler/quarantine.go`) | `mail_messages.status` | release, delete, both in bulk | database, SMTP |
| api-server: configuration (`configsnap`, `configseed`, `handler/config_*.go`) | tables of four kinds of entity, versions, active pointer | edit, import, seed, publish | database, bundle files |
| api-server: policy files (`policyfile`, `handler/policy.go`) | a file per route and its history | update, roll back, restore | files, the gateway's HTTP |
| api-server: accounts (`auth`, `pwreset`, `middleware`, `handler/auth.go`, `users.go`, `apikeys.go`) | users, sessions, OIDC states, reset tokens, keys | set up, log in, reset, administer | database, Redis or MariaDB |
| api-server: attachments (`otp`, `handler/attachments.go`) | codes, attempts, visits, the file's row | send and verify a code, download, disable, delete | the same stores |
| api-server: directory (`directory`, `handler/mailboxes.go`) | users, mailboxes, assignments | synchronise, log in through LDAP, edit | LDAP, database |
| messages, statistics, audit log, web UI, schema, Lua workers | – | – | – |

The two services share a MariaDB database and an object store and do not call
each other to process mail: what the gateway has written is all the api-server
knows of a mail. The only durable queue is the upstream MTA's.

What is hard about this system: several replicas and users change the same rows;
an operation is a sequence of calls that are seldom in one transaction, and each
may fail, or take effect although its answer is lost; a hand-over to the
downstream MTA cannot be undone, and may have happened although an error is
reported; processes end anywhere; undoing a failed operation takes further calls,
which fail too; the background loops have no deadline, so a peer that stays silent
stops them; the upstream MTA repeats what was not answered; what was read
(a list of due rows, a search of the directory, a snapshot of the tables, the
role of a session) is old when it is used.

What makes each part correct:

- *gateway*: an accepted mail is with the downstream MTA or safely held; a bounced
  one is nowhere, as far as the gateway could know; only transformed mail goes out; a repetition delivers twice only
  if it could not be avoided; the route and the decision are the first that match,
  and a failing worker hides nothing.
- *delayed mail, approvals*: one process at a time works on a held mail; a decision
  stands; a mail is delivered at most once as far as the sender can know; none is
  stranded silently; the status shown is true.
- *quarantine*: the same, though the code has no claim here.
- *notifications*: nobody is left out, nobody is written to twice without a cause.
- *configuration*: an activated version was valid and, unless somebody raced, is
  what the tables hold; the gateway comes to run the active version; a refused
  policy leaves no trace.
- *directory*: only what the directory no longer grants is taken away, the role, mailboxes
  and assignments an administrator made are left alone, and in the end both agree.
- *accounts, downloads*: a secret is good once, guesses are limited however requests
  overlap, a session says of its user what the table says until the row changes.

## The modules

| Module | What it is |
|---|---|
| `HeldMail` | abstract: what the release of held mail promises. An item is held, taken by one actor, delivered, given back after a failure, dropped or stranded; copies appear only while it is taken |
| `DelayedRelease` | `delay/service.go`, `handler/delay.go` and the statements they run; implements `HeldMail` |
| `Approval` | `handler/approval.go`, the expiry worker of `approval/service.go`; implements `HeldMail` |
| `Quarantine` | `handler/quarantine.go`; implements `HeldMail` as long as nobody disturbs a release (`Undisturbed`) |
| `Notifications` | the notification loops of `approval/service.go` and their rows, beside decisions as `Approval` makes them |
| `HandleMail` | `cmd/server/main.go`, `smtp/server.go` of the gateway, the upstream MTA around it, the process's stop and restart |
| `Conditions` | the language of conditions: tokens, the recursive descent that evaluates while it parses, and beside it the grammar of the guide as a definition over spans of tokens. Pure operators; parser and grammar are recursive functions, so that theorems can speak of them |
| `Evaluation` | what the gateway decides about one mail: `router.go`, `dbconfig/routes.go`, `manager.go`, `pipeline`, `policy/engine.go`; extends `Conditions`. `MailAfter` tells the policy once more, over sets of rules, as what the decision is compared with |
| `Configuration` | edits, imports and seeding of the entities, and `configsnap.Publish` that turns them into the active version |
| `RouteReload` | how a gateway comes to run a version or the policy files: start, poller, `/reload`, `policyfile`, the policy handler and its restoration. The active version is moved as by `Configuration` |
| `Directory` | `directory/sync`, `directory/ldap`, logins through LDAP and OIDC, mailboxes and assignments in `mariadb/repository.go` |
| `Accounts` | set-up, logins, sessions, OIDC states, password resets, keys, administration of users |
| `Downloads` | extends `Accounts` by the detached file and its one-time codes; the specification of both |
| `...Proofs` | theorems about `DelayedRelease`, `Approval`, `Notifications`, `HandleMail`, `Configuration`, `Downloads` (with `Accounts`); `MailboxProofs` about `Quarantine` and `Directory`, `RoutingProofs` about `RouteReload`, `Conditions` and `Evaluation`, two specifications each that are proved about apart |
| `DelayedReleaseLive`, `NotificationsLive`, `DirectoryLive` | the same three with peers that never answer, and what they promise in the long run. The runs check these; each behaviour of theirs is one of the module they extend (`LiveIs...`, proved), so its theorems hold of them |
| `MC...` | small instances for TLC |

**State and actions.** A process is a goroutine: a worker loop of a replica, or a
request. Its program counter (`at`) names the *next call* to the database, the store,
a file, the directory or an MTA; an action is that call together with what the code
does with its result up to the next call, so processes interleave exactly between
calls. What a process has read is in its record (`cur`, `todo`, `job`). Rows are
functions from identifiers to their columns. `X`, `XFails`, `XLost` are the outcomes
of one call; where a call that reports an error may still have been applied, `XFails`
has both outcomes. Log, metric, event and audit output is left out. In `HandleMail` a
message is a pair of a mail and the number of its transmission, as each transmission
gets a new UUID. `Accounts` and `Downloads` have one action for a command of Redis and
for a statement of MariaDB and fix the kind of store at the start: the first counts,
compares and deletes a code in four commands, the second in one transaction, but selects
and deletes a token in two statements.

**History variables** only record what happened; no guard reads them, except that
`copies` bounds unclear hand-overs. `lost` and `misled` (held mail) are set by exactly
those steps (crash, failed rollback, a claim without an answer, a failed status update)
that the code answers with a log line, so a property "... unless lost" says that nothing
*else* goes wrong. `calm`, `clean`, `settled`, `seeded` (`Configuration`) mark publishes
and seedings that nobody interfered with. `raced` (`Accounts`) marks tokens and states that two requests had both selected (MariaDB),
`spared` codes that two had both compared or whose delete failed (Redis), `guesses` counts comparisons with a code, `fresh` says that the
row's role and activity have not changed since they were read, `sure` and `here` (`Directory`) what the
directory granted through one group, and whom it listed, at every moment since a search, `edited` whom an administrator set,
`mailed`, `again`, `excused`, `late`, `told`, `undecided` (`Notifications`) who was
written to, and why again or why not.

**Abstractions.** Permission checks of held mail are parameters (`MayAct`,
`MayDecide`, `MayRelease`). A failing read is the same as a refused request where both
only return. Periods are not modelled; a deadline passes at any time, once; lifetimes in
the stores end by a fault. In `HandleMail` the handler's expired context is one of the
reasons a call fails, and all attempts of `archiveAsync` are one step with three
outcomes. In `Configuration` a row is its id and its spec (time stamps change a
snapshot's checksum, not what it says), the name of an alias is not changed by an update,
the catch-all routing (which no handler creates) is absent, `SaveConfigVersion` and
`SetActiveConfigVersion` are one step (a version nobody points to is not seen), and the
release of the seed lock belongs to the end of the publish, where it may release nothing.
`RouteReload` lets policy files be edited only in file mode. `Notifications` has one
request and counts attempts up to the limit; a decision that is taken back counts as a
fault. `Directory` has one role of an assignment, `deactivate_missing_users` on, and
skips entries without an address; display names, which every login and round writes whoever
made the row (`repository.go:486`), are left out. `Accounts` has no rows made by the directory,
which is beside it in `Directory`. `Downloads` has one file and one recipient; an opened
visit lasts; opening, disabling and deleting the file are modelled with their guards, as
steps between those of the codes, and carry no property of their own. `Conditions` treats a line as tokens, a fact as a set of words or a number,
and the text operators (contains, matches, domain) as membership. In `Evaluation` the
rank of a routing stands for the order of names (which several may share: the sort is
stable, so they stay as they were read), a worker is its result, and the expansion of
variables is left out. A routing binds an alias at most once (the code would run a second
binding too and add its score), what its transform workers do to a mail is one value,
`known` includes that the factory accepts the worker's settings, a missing policy is one rule
that delivers, and an attachment that cannot be parsed is like one that does not match.
The tokens of a line are those of `tokenizeCondition` on both sides of
`ConditionsMeanTheGrammar`, so it compares the parser with the grammar, not the tokenizer.
In the modules with silent peers the database is taken to release what a connection held
that nobody uses (no transaction spans a call to the MTA, the store or the directory).

## What the runs check

| Run | Instance | States | Question |
|---|---|---|---|
| `delayed` | 1 row, 2 replicas, 1 user, 2 copies, 1 crash, 2 that hang | 239 716 | claims exclude each other, no mail is stranded silently, the original never follows a processed copy, statuses are true, a decision is final, `HeldMail` is implemented, every row is settled unless its holder or every worker hangs, or it is refused for ever |
| `approval` | 1 request, 2 approvers, 2 expiry workers, 2 copies, 1 crash | 19 992 | the same for approvals; the mail list agrees with the requests; nothing is pending for ever |
| `quarantine` | 1 mail, 3 requests, 2 copies, 1 crash | 36 874 | without a claim, overlapping requests are the *only* way to a double delivery or a wrong status; what nobody disturbs is released as `HeldMail` promises |
| `gateway` | 1 mail, 2 transmissions, 1 crash or stop | 268 560 | no accepted mail is lost, no bounced one is kept or sent but by an earlier transmission that ended unclear, no untransformed one is sent, duplicates have a cause, statuses are true, the gateway comes back after a stop |
| `configuration` | a variable, a worker, a policy and a routing, 1 client, 2 replicas (symmetric), 2 events | 449 560 | what is active was valid although a snapshot is four queries; it is what the tables hold once a publish was undisturbed; an undisturbed seeding makes the tables those of the files |
| `routes` | 3 versions (one cannot be built), 2 routes, 3 policies (one does not load), 2 editors, 3 events | 1 261 959 | the gateway comes to run the active version; edits one after the other leave the files and the running routes the same, accepted or refused |
| `notifications` | 2 approvers, 2 replicas, 2 attempts, 1 change of the approvers, 1 fault | 1 194 634 | a second mail has a cause, a request does not count as announced before all listed were tried, approvers and sender get to know though a replica hangs |
| `directory` | 2 people (one a fixed user), 2 groups, 1 mailbox, 1 replica, 1 login, 2 events, 1 fault | 359 832 | a failed or old search takes away nothing that is granted, only leavers are deactivated, sources of higher rank are not overwritten, in the end all agrees with the directory unless the replica hangs |
| `access` | 2 people, 1 password, 2 clients, 4 requests, 1 fault, 1 attempt, both kinds of store | 777 694 | a session says of its user what the table says until its role changes, a secret is spent once but for two named races, guesses are limited however requests overlap |
| `evaluation` | families of conditions, policies, bindings, transformations and routings, 2 mails | 81 096 | the condition parser agrees with the grammar of the guide, the first matching route and rule decide, a worker that fails, panics or is late hides nothing that another found |

Two more runs show where a document promises more than the code keeps; each has one
property and a counterexample:

| Run | Property | Document | Code |
|---|---|---|---|
| `quarantine_double` | `NoDoubleRelease` | `docs/specs/mail-processing-flow.md:125`, `quarantine.go:189`: a second request gets 404 | `GetQuarantine` and `UpdateMessageStatus` are two statements and the UPDATE does not look at the status: two requests that read before either wrote both deliver |
| `directory_edit` | `EditStands` | `docs/specs/api-authentication.md:113`: what was edited by hand ranks above the directory | `UpdateUserRole` leaves `provisioned_by`, so the next synchronisation or login overwrites the role |

**Bounds.** Every module names its bounds as constants. Rows of held mail never influence
each other except through a worker's list, and every property speaks of one row, so one row
and all its possible competitors are the interesting instance; two replicas, or two
approvers, and a request suffice for every pairwise race, three requests for a check, an
update and a rollback of three parties. `MaxCopies = 2` bounds hand-overs that end
unclear: the second copy is the one that matters. `MaxCrashes = 1` loses what a process
held; with one row a second crash finds nothing new to lose.
`MaxSilent = 2` lets both workers hang, or one and the request. `MaxAttempts = 2` in
`gateway` is the first duplicate. `MaxEvents` in `configuration` counts edits, imports and
failures together: two are enough for an edit between two queries of a snapshot and a
failure beside it; one key of each kind has every kind of reference. In `routes` three
events are an activation before, during and after a reload, or two edits and an
activation; in file mode two routes are what a partial reload needs. In `notifications`
two attempts are one below the limit and one at it; the change of the approvers takes one
away or adds one; no step tells the two apart, so the start leaves out that only the second
is an approver. A call that never returns is one of the faults, and so is the restart that
ends it (`WithinBounds`). In `directory` the start has everybody listed and in both groups, and
two events reach every directory and let a hand edit meet a change; one fault is one
failing search or statement, or one call that never returns, which is the case the code must survive
without harm; two replicas are beyond the run, the
safety theorems hold for any number of replicas and logins. In
`access` one attempt is the limit, so that two overlapping guesses exceed it; four
requests are a set-up, a login and a race of two. `evaluation` enumerates all conditions
up to 4 tokens over 8 kinds of token, up to 2 over 13, and selected shapes up to 7; two
rules around a last one, in both orders of priority; every outcome of every worker.

Deadlock is checked except in `delayed` and `directory`, where everybody may hang, and in
`gateway`, `configuration`, `routes`, `access` and `evaluation`, where the system rests when
mails are settled or requests used up.

**Fairness.** Weak fairness of time passing, and of the steps of a process whose call
returned: a ticker ticks and a goroutine goes on. No fairness says that a call returns where
the code sets no deadline. The background loops run under `context.WithCancel`
(`api-server/cmd/server/main.go:142`), `reinject.Send` arms its connection only from a
deadline of its context (`reinject.go:32`), `sendMail` not at all (`approval/service.go:315`),
nor does `ldap.Dial` (`conn.go:54`; the time limit of a search is kept by the server). So in
`DelayedReleaseLive`, `NotificationsLive` and `DirectoryLive` any call may fall silent for
ever, until its process is restarted, which nobody promises; nor is it assumed that a peer
which refuses ever accepts. What they promise is what is left then:

- `EventuallySettled`: a delayed mail is handed over, cancelled or lost on record, or who
  claimed it hangs, or all workers hang, or peers refuse it, and it is tried, again and again.
- `EverybodyKnows`: approvers and sender get to know, or all notifiers hang, or the outcome
  is tried again and again.
- `EventuallyInSync`: rows and directory agree, or all replicas hang; a login that hangs
  hinders nobody.

In `Approval` nothing is assumed of approvers, whose hand-over may hang in the same way; a
request in their hands is not pending. Only the expiry workers go on, which talk to the
database alone: weak fairness of their steps, strong fairness of the expiry. `RouteReload`
has weak fairness of the poller and strong fairness of a reload. These two assume of the
database, and only of it, that it answers and that an outage ends. `HandleMail`
assumes that the upstream MTA transmits, that the handler's calls return (its context has a
deadline, `smtp/server.go`) and that the supervisor (`restart: unless-stopped`) starts the
process again, `RouteReload` that the gateway is started. There is no fairness of user
requests, crashes, or changes of the directory, and faults are bounded in number. The
liveness of delayed mail is stated up to `lost`: the code has no recovery for a row that a
crash left `released`. The other modules state safety only: a request that is given up is
nobody's loss.

## What is proved

For every value of the constants that the named assumption of the module allows
(`DelayAssumption`, `ApprovalAssumption`, `QuarantineAssumption`, `GatewayAssumption`,
`NotificationsAssumption`, `ConfigurationAssumption`, `RouteReloadAssumption`,
`AccountsAssumption`, `DownloadsAssumption`, `DirectoryAssumption`: sets that are disjoint,
sentinels that are no members, bounds that are naturals; clients and approvers are finite;
`EvaluationAssumption`: setups are sequences of routings as `snapshot.go` and `engine.go`
declare them; instances, mails and lists are anything). `PROJECT.json`
lists the theorems with the properties of the runs they state.

| Module | Proved | Inductive invariant, and why it is needed |
|---|---|---|
| `DelayedReleaseProofs` | types, the four safety invariants, `SettledIsFinal`, refinement of `HeldMail`; `DelayedReleaseLive` implements `DelayedRelease` | `IInv`: a process past `idle` and `cycle` works on a release; `ClaimIsExclusive`: a row in hand is `released`, so no other claim (which needs `pending`) succeeds, and only the holder confirms or gives back; `Justified`: who is about to record a delivery has a confirmed hand-over of it |
| `ApprovalProofs` | types, `OneDecision`, `NoSilentLoss`, `MailStatusAgrees`, `DecisionStands`, refinement of `HeldMail` | `Control`, `Claims`, `Statuses`: the same exclusion for approvers, and beside it `ListIsExpired` (what an expiry worker has still to write was committed as expired) and `ShownWhenMarked` (who hands over has first marked the mail), without which the mail's status could not be related to the request |
| `MailboxProofs`: `Quarantine` | types, `OneAtATimeIsSafe`, `HeldAsPromised`, `ReleaseIsNotDisturbed` (which no run checks) | unless two requests overlapped, `Alone`: one request has the mail, knows what it read, writes before it sends; nobody takes it after a confirmed hand-over. Under it every undisturbed step is a step of `HeldMail` |
| `MailboxProofs`: `Directory` | types, `OnlyLapsedAreRemoved`, `OnlyLeaversAreDeactivated`, `AuthorityIsKept`; `DirectoryLive` implements `Directory` | `Rounds`: what a round carries from step to step. Its entries and groups are old, but whatever has been granted ever since is among them (`Knows`, `HasRead`), also where a search failed; `SureIsGranted`: what counts as granted ever since is granted now; `HandledExist`: a round handles only users with a row |
| `NotificationsProofs` | types, `SecondMailHasCause`, `NobodyForgotten`; `NotificationsLive` implements `Notifications` | `Causes`: every second copy has a recorded cause from the moment it is *possible* (a replica that listed a recipient who was meanwhile served), not when it is sent; `CountedIsTried`: what a replica that is about to announce has seen was tried |
| `HandleMailProofs` | types, the five safety invariants | `Sound`: what the handler of a message has done when it comes to each step (`UnderWay`), and what an answer means ever after (`Settled`), from which `BouncedIsGone` follows for all transmissions of a mail together; a message nobody has sent has left no trace (`Untouched`) |
| `ConfigurationProofs` | types with unique ids and names, `ActiveIsValid`, `ActiveIsCurrent`, `FilesAreTruth` | `Checked`: who is about to activate holds a snapshot that was validated, so that later edits do not matter; `CalmReads`: what an undisturbed publish has read so far is what the tables hold. `FilesInv` for the seeding: whoever seeds, with the lock or having lost it, writes only towards the files, so what a clean seeding has dealt with stays as the files say; what it has listed and not dealt with is what the tables hold; a seeder without the lock that has still to write has ended every clean seeding |
| `RoutingProofs`: `RouteReload` | types (no engine of a policy that does not load, no version that cannot be built is run), `FilesAreRun` | `Alone`: without overlap at most one request is active; `Sound`: at each of its steps, which of the file, the backup and the routes is the old policy and which the new |
| `RoutingProofs`: `Conditions` | `ConditionsAreRead`: for *every* line, facts and lists the parser gives a value exactly where the grammar does, the same, and what was accepted when it was loaded fails on no mail but for a list that is not defined | no states: see below |
| `RoutingProofs`: `Evaluation` | types, `ConditionsMeanTheGrammar`, `RouteIsFirstMatch`, `DecisionIsFirstMatch`, `DetectionIsHeeded` | `PolicyInv`: the facts are those of the mail as it is and of all results, the mail is what the first `next - 1` rules in order make of it, and none of them ended the evaluation; `HeedInv`: what was found is in the results, and only a failed transformation decides before the rules; `InOrderEnumerates`: the stable sort lists each member of a finite set once, in order |
| `DownloadsProofs` | types, `SessionsTellTheTruth`, `GuessesAreLimited`, `SpentOnce` | `JobsTellTheTruth`: a login under way holds what the table said while it is `fresh`; guesses compared plus guesses counted and not yet compared are at most the tries counted; a secret that is spent is gone, or somebody selected or compared it before it was gone, or failed to delete it (which of these depends on the store), and a number is given only once |

*The refinement.* `DelayedRelease` and `Approval` implement `HeldMail` under `heldState`:
a claim takes, an accepted hand-over delivers, a failed one fails, the rollback gives
back, a cancellation, rejection or expiry drops; a crash of the holder, a failed rollback
and a claim without an answer strand. `StepMaps` shows it action by action. `Quarantine`
has no claim and does not implement `HeldMail`; `HeldAsPromised` says which two things are
to blame and that nothing else is: every step before and after which no mail is in two
hands, and none is rejected under the hands of a release, is a step of `HeldMail`.

*The parser and the grammar.* The parser reads from the left and sees an operand and what
remains; the grammar speaks of spans and divides them at any operator. Both are functions
that are defined by recursion, and the library's induction theorems cannot be used here,
so `LeastNumber` (a set of numbers has a least one) takes their place: `Recursion` builds
the function that an equation over a well-founded order defines, stage by stage,
`SameFunction` shows it is the only one, `ParserSteps`, `GrammarSteps` and `MailAfterSteps`
turn the three definitions into equations. A chain of operands under one operator is
then the same read from the left (`ChainExtended`) and divided in the middle
(`ChainsJoined`, `Conjunctions`, `Disjunctions`), because the operator is associative.
`FindingIsMeant` (what the parser finds, the grammar gives) goes by what is left of the
line, `MeaningIsRead` (what the grammar gives, the parser finds, and nothing else) by the
width of the span; `AcceptedAgain` compares two runs of the parser, one that only
validates leaves and one that evaluates them.

*What the attempts showed about the model.* `OnlyLapsedAreRemoved` was at first stated of
who is granted a mailbox at every moment, through whichever group; TLC refuted it with
three events: the entry is read once and the groups later, so who moves from one group to
another in between may be taken for a member of neither. It now speaks of one group.
`HeldAsPromised` needs the second conjunct of `Undisturbed`: a bulk deletion rejects a
mail that a release has looked at, and the release writes over the rejection. The order of
routings was not total: names are not unique, and the sort is stable (`snapshot.go:134`).

*Only model-checked.* Liveness (`EventuallySettled`, `EventuallyDecided`,
`EventuallyServing`, `EverybodyKnows`, `GatewayCatchesUp`, `EventuallyInSync`), which the
provers cannot do; and the absence of deadlocks. Every safety invariant and every action
property of the passing runs is proved. The type invariants of the modules are proved and
not run.

## Disagreements seen while modelling

Beside the two above, the modules follow the code where a comment or document says
something else; these have no run of their own:

- One-time secrets are good twice in two races. `mariadb_session.go:91` says of an OIDC state
  "取得して即座に削除する（ワンタイム）" (read and deleted at once, one time),
  `pwreset/store.go:49` of a token "トークンは取得後即座に削除される（ワンタイム）", and
  `otp/store.go:67` of a code "コードは検証後に削除される（ワンタイム）". But `ConsumeState`
  (`mariadb_session.go:104-123`) and `ConsumeToken` (`pwreset/mariadb_store.go:50-68`) select
  and then delete without looking at the rows affected, so two requests that both select
  before either deletes both use the secret; and `Verify` in Redis compares and deletes in
  two commands and drops the error of the second (`otp/store.go:81-94`). `SpentOnce` names
  these as its only exceptions: without the first disjunct TLC refutes it with two
  callbacks of one state in MariaDB, without the second with a code in Redis whose delete
  failed. Redis
  spends a token or state once (GETDEL), MariaDB a code (one transaction).
- An OIDC login writes the role of its claims into a row OIDC made (`repository.go:490`,
  documented), and sessions the user has keep the role they were opened with. `fresh` ends
  there.
- A mail whose first transmission was delivered without the gateway knowing it, and whose
  repetition is rejected, is bounced although the downstream MTA has it. `BouncedIsGone` names
  the exception; comments do not promise otherwise.
- Display names: every login and round overwrites that of a row made by hand
  (`repository.go:486`; `docs/specs/api-authentication.md:122` documents it).
- A listed user whose row could not be written is not among those present and is deactivated
  (`syncer.go:157`, `:221`). `failed` marks it in `OnlyLeaversAreDeactivated`.
- An error of `QUIT` after the accepted `DATA` is taken for a failed hand-over
  (`delay/service.go:98`), so a delayed mail may be delivered twice, although the claim is
  said to prevent that (schema `001_schema.sql:240`).
- A delayed mail that is due before the gateway has archived it (`main.go:775`) goes out as
  the original.
- Send-now answers 200 where it lost the claim and 409 is documented.
- The gateway answers 250 although an update of its record failed (`main.go:769`;
  `docs/setup/overview.md:24`).
- `strip_attachments` with a list of extensions clears the fact `has_attachment` though
  other attachments remain (`docs/guide/policy.md:123`).
- `not not X` in a condition compares with a fact named `not X`.
- Two routings of one name (there is no unique key) make seeding leave one of them.
- Overlapping edits of policy files may restore each other's text, and in file mode a
  gateway that restarts in between runs what it finds. `FilesAreRun` speaks of edits that
  do not overlap.
- A version that is activated between the initial load and the poller's first checksum is
  not seen (`main.go:1166`); a later one is. `missed` marks it in `GatewayCatchesUp`.

## Plan

1. Held mail: `HeldMail`, `DelayedRelease`, `Approval`, `Quarantine` with proofs – done.
2. The gateway: `HandleMail` with proofs, `Conditions`, `Evaluation` – done.
3. Configuration: `Configuration`, `RouteReload` with proofs – done.
4. `Notifications` with proofs, `Accounts` and `Downloads` with proofs – done.
5. `Directory`, `Evaluation`, `Conditions` and the seeding: proofs – done.
   Silent peers in the liveness of delayed mail, notifications and directory – done.
6. Left: the safety parts of the liveness properties as invariants (what must be true for
   the next round to make progress); a composition of `HandleMail` with the release
   modules over one message table; the rate limiter.

## Not modelled

The content side of the workers (MIME, Office files, virus and URL checks): parsing and
rewriting of data without shared state, also in Lua. Choice of the destination and the
single SMTP commands of a delivery. The connection checks of the SMTP server and the
records of inspection results. The web UI; lists, views and statistics, which change
nothing. Metrics, logs, webhooks, rule counters and the audit log, whose failure is only
logged and which nothing reads. The in-memory rate limiter, which only refuses requests.
Schema, deployment and example configuration: their constraints (foreign and unique keys,
ENUMs) are in the modules whose code relies on them. `PROJECT.json` lists every component
with its status and every hazard with the properties that cover it.
