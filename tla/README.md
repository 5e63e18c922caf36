# bootstash: specification

TLA+ models of bootstash, a small daemon (`bootstashd`) that gives each user a
directory on the server (a *cubby*) over HTTPS, with the model-checking runs and
the proofs that go with them. Every definition is translated from the Go source;
`PROJECT.json` names the lines each one stands for.

## The system

| Component | State | Operations | Talks to |
|---|---|---|---|
| store (`internal/store`) | `state/links.json`, `state/subjects.json`, `state/sessions-<id>.json`, `state/crypto.key`, `state/.lock` | create, get, link and rotate, delete, unlink, pin a subject | called by the web server's goroutines and by the CLI, on the same files |
| web login (`internal/web`: server, auth, home) | the oauth transaction table; cookies in the browsers; the configuration pointer | GET and POST `/login`, `/oidc/callback`, POST `/logout` | store, Google, the PAM helper |
| OpenVPN tickets (`internal/web`: server, files) | the ticket table | render the import page (mint), HEAD and GET `?token=` | store, cubby files |
| bind manager (`internal/bind`) | `m.current`, the listeners | `Sync`, `Close` | host interfaces and addresses; called by main, SIGHUP and `retryBinds` |
| bootstashd (`cmd/bootstashd`) | process phase | start, SIGHUP, SIGTERM, retry | everything above |
| cubby file service (`files.go`) and jail (`internal/jail`) | the files | GET, PUT, POST, DELETE, mkdir, list | the file system, which the cubby's owner changes too |
| cubby permissions (`auth.go`, `home.go`, `internal/osutil`) | owners and modes | repair on start, SIGHUP and read | the file system |
| configuration (`internal/config`, `configcheck`) | the operator file, the secrets, the certificate pair | load, merge, check | files that the operator, `provision-google` and the certbot hook replace |
| CLI (`cmd/bootstash`) | none | unlink, links, put, mkdir, provision-google | store, jail, secrets |
| packaging (`contrib/letsencrypt-deploy`, `debian`) | none | install key pairs, reload | configuration, systemd |
| oidcgoogle, pamauth, bootstash-pam | provider metadata; none | authorization URL, exchange; authenticate | Google; PAM |

What is hard here:

- Files shared by goroutines and by another process, with a lock that most but not
  all writers take, and updates that span several files.
- Handlers that read a session, wait (for Google, for PAM), and write it back.
- Sessions, transactions and tickets that outlive the configuration, the link or
  the login they came from.
- Listeners that two goroutines bring in line with a configuration and a host that
  both change.
- A tree of files that the daemon walks, writes and repairs while its owner, who is
  not trusted, renames, links and chmods in it.
- A configuration of several files, read one after the other and some of them twice,
  while others install new ones; signals that may coalesce or come too early.

For each component, what makes it correct:

- store: no lost update; unlink complete; sessions agree with links; an old session
  id is never upgraded and a revoked one never restored.
- login: access to `users/<u>` rests on a password of `u`; the allowlist lets in one
  subject per address; a flow belongs to one browser and gives one session.
- tickets: two GETs, nothing after revocation, bounded table.
- binds: listeners follow the configuration; reload does not lose what it cannot
  resolve; missing interfaces are bound when they come.
- jail and files: no path leaves the cubby; an upload replaces all or nothing.
- permissions: the repair changes only what is in the cubby, ends, converges, and
  costs the daemon no access; what `put` adds can be served at once.
- configuration: TLS never without a certificate; CLI and daemon mean the same
  cubbies; the last change on disk is what runs in the end.

## Modules

`SessionRights` is the abstract promise of the store: a session id gets its Unix
user when it is first written and can afterwards only lose it.

`Store` is the store at the grain of single file operations. `call[p]` holds the
local variables of the call process `p` is in (`pc` is the next file operation);
`lock` is mutex and flock together. One action is one file read or one
`writeStateFile`, which replaces by rename. `CreateSession`/`CreateSave` are
`CreateSession` and `putSession`; `GetSession`, `SaveLinkedSession`, `SetLink`,
`SaveRotated`, `RemoveOld` and then the scan are POST `/login` with a session;
`UnlinkPAM`, `DropLinks` and the scan are `bootstash unlink`; `ReadDir`, `Scan`,
`ScanMissing`, `Rewrite`, `ScanDone` are `clearMatchingSessionsLocked`;
`DeleteSession` and `GetExpired` are the removals that take no lock; `Fail` is a
failed write or a kill between any two steps of a locked call. It implements
`SessionRights` under the mapping `RightsMap`.

`Login` is the life of a session as browsers see it. Each browser has a jar with the
session and the oauth cookie; each tab is a handler in flight. Handlers are cut
where they wait or make a second store call: `Callback`, `GateIdentity`,
`CreateSession`; `LoginPost`, `AcceptNew`/`AcceptLinked`. A store call is atomic
here; `Store` shows what that hides. `Consent` is Google. `Age` is the 15 minutes
of transaction and signed state, which start together. `Reload` and `Restart` swap
the configuration under everything.

`Tickets` is the OpenVPN import: `Open`, `Page`, `Mint` for the browser, `Fetch`,
`Check`, `Take`, `Send` for Connect, with sessions ending, being unlinked, tickets
ageing, the opt-out file toggled and the configuration swapped in between.

`Binds` is `Manager.Sync` and its two callers. `ResolveNext` is one round of the
resolving loop, without lock; `Apply` is everything under `m.mu`; `Change` and
`Refuse` are the host.

`Jail` is `internal/jail` and the handlers of `/home/` over it, one system call at a
time. `kids` is the directory tree, `body` whether a file holds a complete body, and
`req[w]` the request a handler is in: `Openat` is one component of `walk`, `Follow`
the failed openat's look at a link and the next round of `resolve`. A GET resolves its
path twice (`Stat`, then `List` or `Serve`), an upload goes through `CreateTemp`,
`Copy`, `Rename` and `Chown`, mkdir through `Mkdir`, `KeepSetgid` and `Chown`, DELETE
through `Lstat` and `Unlink`. `Owner` is the cubby's owner in a shell, who moves or
exchanges anything but the cubby, files of others and temporary files; `Outside`
stands for any directory around the cubby where the owner may put things. `Kill` ends
the daemon. A removed object may come back as a new one; hard links are not modelled.

`Tree` is the kernel's directory tree and how a user rearranges it, shared by `Jail`
and `Access`. `Access` adds owners, groups and modes around one cubby: for each object
who owns it, whether its group is bootstash, and the mode bits that decide what the
daemon, the owner and root may do. It is external: the repository's code only meets it
through system calls.

`Repair` is how a cubby gets and keeps its attributes, one system call at a time.
`Begin` is a start or SIGHUP, a GET, a login or `bootstash mkdir`; `Mkdirat`,
`ChownCubby` and `ChmodCubby` are `MkdirOwner`'s; then come `fixCubbyFD` and the walk of
`prepareExistingCubby`, whose recursion is the field `stack`. `CallFails` is an `Fchown`
or `Fchmod` that fails, which `fixCubbyFD` only logs; `Block` is the openat of a FIFO,
which has no `O_NONBLOCK` and waits for a writer (`stuck`) until the process is killed.
The group is looked up once per repair, where the code does it in `MkdirOwner`'s caller
and again in `prepareExistingCubby`. `Put` is `bootstash put`
as a list of what is left to do (`copyDir` is depth first), one jail call at a time,
with the modes `Replace` and `Mkdir` leave. `Cubby` composes the two with the owner's
shell and kills; `since` and `goal` are history: what a repair or a put found when it
began, and whether anybody interfered.

`Config` is where the running configuration comes from. `operator`, `secrets` and `pem`
are the files; `ReadFiles`, `ReadSecrets`, `CheckPair`, `LoadCertificate` and
`SetConfig` are the reads of `Check` and `reload` (or of `main`) in their order;
`Notify` is `signal.Notify` after `READY=1`; `Sighup` is what a signal does at each
place (`hup` is the channel's one slot). systemd restarts a daemon that failed (`Start`)
until it has tried `StartLimit` times within the interval (`IntervalEnds`), and then
leaves it `off` (`GiveUp`). Beside them run the operator (`Edit`, `ReloadService`,
`StartService`), `provision-google` and the certbot hook. `dir` says who may enter the
directory of the secrets and the pair: `ProvisionDir` makes it 0750 before
`ProvisionWrite` gives it the group, and any later call may fail (`ProvisionFails`).
Values are kept to those that decide something; a size keeps its width.

`StoreProofs`, `LoginProofs`, `TicketsProofs`, `BindsProofs`, `ConfigProofs`,
`JailProofs` and `CubbyProofs` each extend the module they are about and hold its
theorems. `TreeProofs`, under the last two, states induction over the naturals with a set
of naturals in place of a predicate, the form in which the provers can use it, and that
`Reachable` is the least set closed under its steps.

`MCStore`, `MCLogin`, `MCTickets`, `MCBinds`, `MCJail`, `MCCubby` and `MCConfig` give
constants values and define symmetry. `MCJail` has two trees, restricts what happens on
each (`MCSpec`, see Bounds), and defines `Beneath`, the kernel's own resolution beneath a
directory (it keeps the directories it passed, where `resolve` starts again from the root
after each link), as the reference of `SameObject`; `calm` records during which requests
the tree did not change. Definitions whose comment
starts with "Mutant" are not part of a specification: each is a plausible bug that the
property it belongs to catches.

## Runs

| Run | Result | Question |
|---|---|---|
| `store` | holds | two processes, three ids, one subject, two users, one failure: all invariants and the refinement |
| `store_logout` | violated | is a logged-out session gone for good? |
| `store_remap` | violated | does a changed mapping revoke the subject's other sessions? |
| `login` | holds | two browsers, two tabs, two subjects with one address, one user: flows, pins, table, and passwords behind access |
| `login_email` | violated | does PAM=no need a verified address? |
| `binds` | holds | listeners at rest, kept on SIGHUP, recovery |
| `binds_retry` | violated | is a missing interface retried at start? |
| `tickets` | holds | two GETs, revocation, limit, no ticket lost |
| `jail` | holds | does a walk stay in the cubby, end, and find the right object, against an owner who moves directories and links; do uploads that meet, fail or are killed leave whole bodies under every name and no stray temporary file? |
| `cubby` | holds | does the repair change only what is in the cubby, end, converge and keep access; does `put` copy everything, never its own copies, and leave it servable? |
| `cubby_reads` | violated | does a GET repair only the path and the children it lists? |
| `config` | holds | a certificate with TLS, CLI and daemon of one mind, sizes, and the last change takes effect |

### What the violated runs show

- `store_logout`: unlink reads a session file, the user logs out (`DeleteSession`
  takes no lock), unlink writes the file back. The session is logged in again as an
  unlinked one. `SessionRights` still holds: it never gets its Unix user back.
- `store_remap`: a subject with two more sessions links to another user; while the
  scan runs, one of the session files is logged out, `ReadFile` fails, and the call
  ends with the link changed and the third session still on the old user.
- `login_email`: under `PAM=yes` an unverified address gets a session (it is only
  good for the password form); after SIGHUP with `PAM=no` the same session opens the
  cubby of that address.
- `binds_retry`: start with a unix socket and a missing interface: `Sync` is nil,
  `retryBinds` calls it once more, gets nil and ends. The interface comes; nothing
  listens on it until the next SIGHUP.
- `cubby_reads`: a GET of the cubby lists it and opens a directory in it;
  `fixCubbyDirChildren` calls itself for that one (`auth.go:428`) and repairs a file two
  levels down. `auth.go:374` says "its immediate children. Not a full-tree walk", and
  `DEVELOPERS.md:155` "Full-tree pass is start/SIGHUP only". `Converged` is therefore
  stated of start and SIGHUP alone.

### What the properties except, and other observations

Some properties hold only with an exception, which names what the code really does:

- `PinnedSubject`: it is about sessions that passed the pin check of `gateIdentity`, which
  is made only while an allowlist is in force. A session made under an empty
  `ALLOWED_EMAILS` or under `PAM=yes` has no pin, and after a SIGHUP to `PAM=no` with its
  address on the list `emailHomeID` (`home.go:94`) lets it into that address's cubby,
  whoever its subject is.
- `RepairLocal`: inside the cubby `fixCubbyFD` (`auth.go:443`) looks at no owner, so what
  another user has put there is changed like the rest; a repair during which the owner
  moves things finishes on the directories it has open, wherever they are by then.
- `RepairEnds`: a FIFO that nobody writes to holds the repair in its openat (`auth.go:422`,
  `home.go:185`), and with it a start, a SIGHUP or a request, until the process ends.
- `Converged`, `AccessKept`: a repair one of whose `Fchown` or `Fchmod` calls failed is
  left out; the code logs the error and goes on.
- `AccessKept`: a directory moved into a cubby with the owner's own group is set to
  2770 but its group is not changed (`home.go:125`, `auth.go:294`), so the daemon loses
  what it could read through `o+rx` before.
- `Converged`, `AccessKept`: when `UNIX_GROUP` cannot be looked up for a moment,
  `MkdirOwner` gives the cubby the user's own group; the next repair restores it.
- `Converged`: `bootstash mkdir` killed between `Mkdirat` and `Fchown` leaves a cubby
  of root's that neither the daemon nor `mkdir` takes up again.
- `PutServed`: a put into a cubby between `Fchown` and `Fchmod` of its first login
  makes directories without group and setgid, which stay unserved.
- `NoSelfCopy`, `PutCopies` (`OverParents`): `refuseSelfCopy` refuses a target below the
  source and not a source below the target. `bootstash put <cubby>/a/a` has the target
  `a`: it lists `a/a` while it adds to it.
- `NoSelfCopy`: `refuseSelfCopy` compares paths, so a link inside the cubby would
  defeat it.
- `Converged`, `AccessKept` (`since`): two repairs at a time disturb each other. One that
  ends between the `Fchown` and the `Fchmod` of another finds the daemon shut out of the
  cubby for that moment; neither property speaks of a repair during which another one
  has changed something.
- `PutCopies` (`ShutsOut`): the way to a target may lead through a directory of another
  user that is open to all. A repair sets it to 2770 and closes it to the cubby's owner,
  whose put then ends in an error or leaves its copy where he cannot reach it.
- `CertLoaded` (`raced`): when the hook replaces the pair, or `provision-google` closes its
  directory, between the two reads of it, `reload` goes on without a certificate, even if
  there was none before.
- `CliAgrees`: `DATA` in the secrets is seen by the daemon and not by `put`; SIGHUP
  with a new `DATA` moves the cubbies but not the store.
- `Settles` (`missed`): the hook asks `is-active` and does not signal a daemon that is
  starting and may have read the old pair. (place `off`): `READY=1` (`main.go:92`) comes
  before `signal.Notify` (`main.go:97`); a reload in between ends the process, and
  `Restart=on-failure` takes SIGHUP for a clean exit. A daemon that fails at start is
  restarted only up to systemd's start limit (the unit sets none, so 5 starts in 10
  seconds); after that putting the file right and reloading does nothing, since
  `systemctl reload` of a failed unit starts nothing. (`Accepted`): when the group is
  unknown to `provision-google`, the secrets stay closed to the daemon.
- `SizeBound`: a size that overflows wraps to another positive one or is refused; the
  limit that runs may then be smaller than what was written.

Met while modelling and not in a property: without a provider, an unlinked session of a
password login writes a row for the empty subject at its next password login
(`auth.go:130`), where `man/bootstash.5:403` says there is none.

Abstractions that a property does not see: a store call of `Login` is atomic and cannot
fail, so the partial failures of `SaveLinkedSession` and `UnlinkPAM` (`store.go:437`) are
in `Store` only; `Tickets.SessionOK` has no I/O error of `GetSession`, which drops the
ticket as a revoked session does; `Put` refuses every link and FIFO, as `copyInto` does
(`put.go:354`), but its jail also refuses the links on the way to a target that lead back
into the cubby, which the real one follows.

### Bounds

`store`: two processes are enough for every conflict over the lock, since a third could
only wait or take a lock-free step, which any process can; three ids let one subject
hold an old, a rotated and another session. Symmetry over processes, ids and users is
sound: no action or property names one, and the refinement is checked as safety
(`[][...]`). `MaxFailures` bounds failed writes and kills; the proofs need no such
bound. `login`: two sessions and two transactions, table limit one, so both the limit
and a second flow occur; two configurations with and one without a provider; one user,
linked and unlinked (`AccessIsProved` is proved for any number). `tickets`: a table for
one ticket, two ticket ids, two profiles per page. `binds`: one spec of each kind that
looks at the host, a socket, three lists; no symmetry, as a liveness property is
checked. `jail`: two names, a directory and a file besides the other user's. On the tree
with links (`../y`, `x`, which is also a link to itself when it is called `x`, and an
absolute one; a limit of three rounds in place of eight) one GET or DELETE walks at a time
and the owner moves anything (`OneWalk`): other requests move nothing that the owner does
not. On the tree without links two requests are in flight, at least one of them an upload
(`UploadBeside`), the owner moves only the directory, the first free temporary name and
file are taken (`FirstFree`) and the daemon is killed once (`OneKill`). `cubby`: a
directory, a file, a link, a FIFO, a file of another user and room for two new directories
and a file; five starting trees (in `users/` and `home/`, whole, by hand, and not there
yet); one repair at a time (the theorems are about any number), and one command of the
owner (`MaxMoves`, a put or a move or chmod), anywhere between the repair's steps.
`config`: two issued pairs, seven operator files and four secrets with each deciding key
and each kind of error, two changes (`MaxEdits`) from the state after installation, one
start before systemd gives up (`StartLimit`; with two the run takes twice as long and
holds too), sizes up to `MaxInt` = 7 (for `math.MaxInt64`) so that multiplication wraps.
Link targets have `..` only in front: `components` takes
`a/..` away without looking whether `a` is a link, where the kernel would go through it,
so the reference differs there by design. All runs explore their state space completely.

### Fairness

`Binds` has weak fairness of the steps of each `Sync` and of `RetryBinds`. The Go
scheduler runs a goroutine that can run, `m.mu` is held for a bounded time
(`Shutdown` has a five-second deadline), and the timer of `retryBinds` fires.
Nothing is assumed of SIGHUP, of the host or of systemd; `DeafRecovers` states what
it needs of the host (`HostReady`) itself. `Jail` has weak fairness of the steps that
need nothing from the client: an upload may stall in `Copy` for ever, and the owner may
go on moving links. `openat` is taken to return, which it does for files and
directories; a FIFO in the cubby would wait for its writer and is not modelled.
`Cubby` has weak fairness of the steps of a repair: `fchown`, `fchmod`, `getdents` and the
openat of files and directories return. The openat of a FIFO does not; a repair that
waits in one takes no step, and `RepairEnds` names it. Nothing is assumed of the owner but
that his moves ahead of the walk end some day, which `MaxMoves` makes so. `Config` has it
for the daemon's loop with systemd behind it, which either restarts a failed daemon or
gives it up, for `provision-google` and the hook once begun, and for the operator's reload
after a change or a `provision-google`, a failed one too; that somebody starts a service
that is off is not assumed, and edits, certificates and crashes need not come.

## Proofs

`StoreProofs` proves about `Store`, for any sets of processes, ids, subjects and
users and any `MaxFailures`, from `StoreAssumption` alone (the null values are not
members of the sets they stand beside):

- `TypeCorrect`, `NoLostUpdate`, `UnlinkIsComplete`, `SessionsFollowLinks`,
  `RotationIsFinal`: the invariants of the run `store`;
- `RightsRefinement`: `Spec` implements `SessionRights`.

None of the safety properties is inductive by itself. `Inv` adds:

- `LockInv`: a process is inside a locked call exactly when it holds the lock, so at
  most one is;
- `CallInv`: which operation each program counter belongs to, and that a link or
  unlink call carries a real user;
- `UsedInv`: ids of files, rotated ids and ids in the locals of a call were drawn;
- `RotatedInv`: no scan has a rotated id left to visit or to rewrite, because the
  removal and the scan belong to one locked call;
- `UnlinkInv`: once an unlink has written the rows none names its user, and the
  sessions that still do are ones its scan has yet to visit;
- `LinkedInv`: a `SaveLinkedSession` past its write has set the row to its user, and
  the fresh session names that user or nobody;
- `CoherentInv`: a session that disagrees with its link is one the call that changed
  the link has yet to revoke, unless a failed call left its subject `dirty`.

Each conjunct has a lemma with one step per action. `Inv` was checked with TLC before
it was proved.

`LoginProofs` proves the invariants of the run `login` for any sets of browsers,
requests, ids, transactions, subjects, users, addresses and configurations and any table
limit, from `LoginAssumption` (null values beside their sets, the shape of identities and
configurations): `LoginTypes`, `AccessIsProved`, `AddressesArePinned`, `FlowsAreBound`,
`FlowsEndOnce`, `TableIsBounded`. Its `Inv` adds what is in flight:

- `ReqOK`: a request carries a browser, after the callback a transaction, and in the
  PAM wait a user;
- `Access`: a session's user is the one its subject is linked to, and a row of
  `links.json` has an unrevoked password behind it;
- `Pinned`: requests past the allowlist are verified and pinned already, not only sessions;
- `Bound`: cookies and requests, like sessions, carry transactions of their browser;
- `Once`: a transaction is in the table, in one request, or spent, never in two of them;
- `Bounded`: the table is finite, which its cardinality needs.

`TicketsProofs` proves `TicketTypes`, `TwoGetsHold`, `RevokedGetNothing` and
`TicketsKeptHold` for any sessions, tickets, configurations, limits and number of uses,
from `TicketsAssumption` (null values; `"gone"`, for a removed session file, is no user).
Its `Inv` adds:

- `Table`: the table is finite and holds only ids that were minted;
- `Copies`: the copy of a ticket that a fetch works with names the same session and user as
  the table, if the table still has it;
- `Budget`: per ticket, profiles sent, uses taken and not yet sent, and uses left are
  together at most `Uses`. `TwoGets` counts only the first, which two fetches between
  `Take` and `Send` would let grow;
- `Late`: a fetch begun after a revocation has not got past the check.

`BindsProofs` proves `BindTypes`, `SettledHolds` and `HupKeepsHolds` for any specs,
targets and lists, from `BindsAssumption` (in particular: what a refused device bind falls
back to is no unix socket, as `EnumerateIface` gives addresses). `Settled` speaks of rest; `Inv` adds `Jobs`
(what a `Sync` wants or keeps comes from the list it was called with, and each spec it
has passed has a target or is kept) and `Main` (`main` works on the configuration that
runs).

`ConfigProofs` proves `ConfigTypes`, `CertLoadedHolds`, `SizeBoundHolds` and
`CliAgreesHolds` for any operator and secrets files and any
`MaxInt`, from `ConfigAssumption` (the built-in file has the keys the code relies on, and
each key has values of its kind). `Inv` adds `Drafts`: what `Check` has read so far equals
the files, unless one was changed since, and once it is accepted it is a valid
configuration on which CLI and daemon agree. `Lives` says this of the running
configuration; `Certs` that behind `Check` the pair on disk matches, unless the hook came
in between; `Disk` and `History` are types. `SizeWraps` is the lemma about `parseSize`: a
product that wraps around to a positive number is not larger than the product.

`JailProofs` proves `JailTypes`, `ConfinedHolds`, `WholeBodiesHold` and `NoLitterHolds`
for any tree, any links, any number of requests and any limit of rounds, from
`TreeAssumption` (directories, files and links are different objects) and
`JailAssumption` (at the start nothing leads to the cubby's root, and the file outside is
only outside). The heart of `Inv` is `Held`, which says what a request in flight holds: a
path of names without `..`, a directory for all but the last component, never the
directory or the file outside; an upload holds its own new file under its own temporary
name. `Tree0` says that the owner's moves keep the root where it is, `Bodies` that a file
which is not whole has only a temporary name. `ComponentsType` (for every path, what
`components` returns has no `..`) is proved by induction.

`CubbyProofs` proves, for any cubby, any start and any number of processes,
`CubbyTypes`, `RepairLocalHolds`, `ConvergedHolds`, `AccessKeptHolds`, `NoSelfCopyHolds`,
`PutCopiesHolds` and `PutServedHolds`, from `CubbyAssumption` (finitely many directories; each start is a
tree; no temporary names, since `Replace` is one step here), `PutAssumption` (a source is
an absolute path below one of `Tops`) and `RepairAssumption`. All of them rest on an
invariant `Inv` that follows each descriptor: `Entries`
(an entry leads to a movable object, and to each object at most one does), `Inodes` (new
inodes have no entry yet), `Repairers` (every descriptor of a repair is such an object,
and its stack holds directories) and `Putter` (what a put has left is a list of copies
and directories to make, with paths of names). `AtFifo` says where a repair waits, for
`CubbyTypes`.

`RepairLocal` is an action property of what a step of a repair changes. That it is never
a directory around the cubby or what only a link leads to follows from `Inv`. That only the
cubby itself changes its owner needs `Chowning` (the descriptor about to be chowned is
still the cubby's), which is inductive because only in `users/` a cubby is chowned and
there its owner cannot move it away. That an undisturbed repair changes nothing outside
the cubby follows from `Held`, below.

`Converged` and `AccessKept` speak of the last step of a repair and of everything in the
cubby. `Calm`, inductive together with `Inv`, says what holds half way, of each repair
that nobody has disturbed and that knows the group:

- `Whole` (the walk of start and SIGHUP): there is a set `D` of objects that are mended,
  the root among them, such that what the daemon can open from a directory of `D` is in
  `D` or still `Ahead`: named in a list on the stack, below the directory about to be
  listed, or the object in hand. `Agreed` says that a list still tells directories from
  files. When the walk ends nothing is ahead, so `D` is closed and contains `Reach`,
  which is the least such set (`ReachableLeast`).
- `Keeps`: what the daemon could reach when the repair began, it can reach now, if it is
  excused the rights on the one object between its `Fchown` and its `Fchmod`
  (`Excused`), or it lies below a directory of another group. Each step gives rights or
  moves the excuse; the `Fchmod` of such a foreign directory is the exception.
- `Held`: descriptors and stack are inside the cubby, and the `Fchown` of a file was
  made before its `Fchmod`.

`NoSelfCopy` needs to know where things are. `Leads(a, o)` says that the absolute path
`a` leads to `o` over entries, whoever may search them; as an object has one entry at
most, one path at most leads to it (`OnePath`). `Copying` says of a put that nobody
disturbed: each item copies from below the source to below the target or makes a
directory on the way there (`Fits`), and what was made is on the way to the target or
below it (`MadeAt`). Had it made a directory it is about to list, one path would be below
the source and comparable with the target, which `refuseSelfCopy` and `~OverParents`
exclude.

`PutCopies` says of the last step of a put what every step before it has done. `Filling`,
inductive on top of `Copying`, says half way, of each file that was below the source when
the put began: as long as an item writes at its place or above (`~Settled`), the file is where
it was, the owner can still read it, and it is below the source of that item; when none
does, its copy is at its place. Two facts make it inductive: no two items write to
comparable places (`Laid`), so what one item replaces is no other's copy; and what a step
replaces is below the target, so no path from the source changes (again unless
`OverParents`). When nothing is left to do, every place is settled.

`PutServed` asks the same of what a put made. `Serving`, inductive on top of `Filling`,
says of an undisturbed put into a cubby that was orderly when it began: every directory
of the cubby is still 2770 and of the daemon's group (`Orderly`), and everything made has
a path in the cubby that, for a file, the daemon may read and no item left writes to
(`ServedAt`). It needs facts that hold always (`Given`): the layout of the parent, that a
directory that does not exist yet is empty, and that a repair in home/ makes no cubby.
A new directory is orderly because its parent is and hands on group and setgid bit; a
file is replaced only at the place of an item, which no earlier file has. An orderly path
is one the daemon can follow (`LeadsReach`).

TLC finds each `Inv` to hold on the instances of the component's runs, too.

Induction over data is used with sets of naturals (`NatSets`): for the types of
`Components` and of the listing `ReadDir`, for `Reachable`, and for the prefixes of a path.
Only model-checked:

- liveness (`DeafRecovers`, `WalkEnds`, `RepairEnds`, `Settles`), which needs fairness
  and `ENABLED`;
- `SameObject`, whose reference is a RECURSIVE operator.

## Not modelled

- The syntax of a configuration line, of addresses, hosts and listen specs; several
  certificate directories: string processing without state.
- Hard links and devices in a cubby, and FIFOs in the way of a jail request (`Repair` has
  them); `jail.Create`, `SetLink` and `SaveSession`,
  which only tests call.
- Durability: a rename counts as done. `writeStateFile` does not fsync.
- Corrupt state files, file owners in `state/`, `crypto.key`.
- CSRF checks, pages, log lines, the text of OpenVPN profiles, what `links` prints.
- The PAM conversation and Google's answers: a wait that ends in acceptance or refusal;
  discovery of the provider.

## Plan

1. `ParseSpec`, `NormalizeEmail` and `parseSize` as operators against reference
   definitions over tokens.
2. `EnsureCryptoKey` and `reclaimState`, run by root and by the daemon on one directory.
