# outletbox in TLA+

outletbox publishes files and notes to people outside an organisation. An
administrator fills a *case*, issues *links* to it, and the people named on a
link open it with their e-mail address and a one-time code. The program is one
Node process (Express over `node:sqlite`) and a command line that opens the same
database.

## How the program runs, and what an atomic step is

`node:sqlite` is synchronous. What a handler does between two awaits is one
uninterrupted piece of the server, so requests interleave only at awaits: the
body parser of the admin panel, the mailer, the storage. Three things cut finer:

- the CLI is another process: its statements fall between the server's, unless
  they are inside `transaction()`;
- the process may die between two statements that are not in one transaction;
- the admin panel takes the session row before it awaits the body
  (`sessionMiddleware`, then `forms`), so its handlers act on an older snapshot.
  The recipient's side parses the body first and reads afterwards.

## Inventory

| Component | State | Operations | What is hard | What makes it correct |
|---|---|---|---|---|
| Recipient delivery (`services/access.ts`, `services/links.ts`, `http/deliver.ts`) | `links`, `link_recipients`, `challenges`, `access_sessions`, the access cookie | ask for a code, type it, start over, close, expiry, purge | people racing for the last opening, codes of several people and browsers, five statements without a transaction | one working code per person, limits kept, openings counted before anybody is inside, an ended session stays ended |
| Links and groups in the panel (`http/admin.ts`, `services/groups.ts`) | the same, `recipient_groups` | create, add, remove, revoke, reissue; edit groups | cascades, two statements per handler | codes and sessions belong to people on the link |
| Cases and items (`services/cases.ts`, `items.ts`) | `cases`, `items` | create, note, upload, delete, download | the row and the object change at different times | what is listed can be downloaded; nothing undeleted is lost |
| Storage and uploads (`storage/*`, `http/tus.ts`) | objects and tus sidecars | put, stat, delete, sweep | an upload finishing while it is being discarded | no object without a row for ever |
| Cleanup (`services/cleanup.ts`, `server.ts`, CLI `cleanup`) | none of its own: snapshots held across awaits | expire uploads, verify files, sweep orphans, purge | lists that are stale when used, two cleanups at once | uploads do end; nothing live is swept |
| Accounts, sign-in, second factor (`services/auth.ts`, `totp.ts`, `passkeys.ts`) | `admins`, `sessions`, `admin_recovery_codes`, `admin_passkeys` | password, TOTP, recovery codes, passkeys, confirmation | replays, lock-out counters, slow forms on old snapshots, CLI resets | a code works once, no session survives a credential change |
| Users, roles and case members (`services/users.ts`, `cases.ts`) | `admins.role`, `disabled_at`, `must_change_password`, `cases`, `case_members` | create, role, disable, enable, delete, reset; assign, unassign, open, close | forms judged by a role read at their headers, actors demoted or deleted meanwhile | there is always an active administrator; a session outlives nothing it rests on; who was taken off a case is out |
| Device-bound sessions (`services/sessions.ts`, `dbsc.ts`) | `session_bindings`, the browser's cookies and cached challenge | offer, register, refresh, check | two refreshes in flight, lost and late answers | an old cookie is worth nothing, a proof renews once, a browser with its key is never locked out |
| Address groups (`services/addresses.ts`, `groups.ts`, `public/admin.js`) | `recipient_groups`, the pages in the windows | parse, merge, format; create, change, delete, pick | a group that changes between the page and its form, with and without the script | nobody gets in unseen, nobody meant is left out |
| Migrations (`db.ts`) | `schema_migrations`, the copies in `backups/` | migrate, copy, prune | two processes at once, a crash or a full disk in between | each file runs once and in order; there is a way back |
| The server's life and its mailer (`server.ts`, `mail/*`) | the Graph token, the process | start, stop, send, refresh the token | late and failed answers, restarts, a rotated secret | the server comes up; a dead token is not used for ever |
| Views, i18n, configuration, logging, audit, brand, rate limits | none that a handler decides on | formatting, counting by IP | | |

Components interact through the database and the storage: links and items hang
on a case; closing a case ends its access sessions; the items a recipient sees
are the ready ones of the link's case; the cleanup walks every table.

## Modules

| Module | What it is |
|---|---|
| `Openings` | the abstract promise of a link: nobody is inside except by an opening that was counted in the same step |
| `Delivery` | the recipient's flow and the panel's operations on links; refines `Openings` |
| `Uploads` | items, the storage and the cleanup, one step per await |
| `SignIn` | one account of the panel: password, second factors, sessions |
| `Panel` | the accounts, their passwords and roles, who works on which case, and the forms that change both |
| `Bindings` | a session bound to a browser's key: the server, one browser and the network between them |
| `Migrations` | the schema, the copies taken before it changes, the processes that change it |
| `GraphMailer` | the cached Graph token under concurrent sends |
| `Service` | the life of the server: composes `Migrations` and `GraphMailer`, and implements `Migrations` |
| `Groups` | lists of people: reading, merging, groups, and the way into a link |
| `DeliveryProofs`, `AccessProofs` | theorems about `Delivery`: its codes; who may open a link, and the refinement of `Openings` |
| `UploadsProofs`, `SignInProofs`, `PanelProofs`, `BindingsProofs`, `ServiceProofs`, `GroupsProofs` | theorems about the module of that name |
| `MCDelivery`, `MCUploads`, `MCSignIn`, `MCPanel`, `MCBindings`, `MCService`, `MCGroups` | instances for TLC |

`Service` composes what acts on each other in one process: the start that
migrates, the mailer that is tried before the server listens, the end of both.
The others share no state that one of them decides on: a delivery reads the
items that are `ready`, a session of the panel gates the operations of the
rest, a group becomes a list of people before a link sees it. They are modelled
side by side.

### Delivery

Each variable is a table or a column: `links`, `challenges` and `sessions` are
sets of rows, `roster` and `opens` are `link_recipients` by link and address,
`caseOpen` is `cases.status`, `cookie` is what the browsers hold, `clock` is
`now()`. `granted` counts the audit rows `access.granted`. Two fields of a
session, `code` and `url`, are history: what the session was opened with. So is
`mailed`: every code ever mailed, whatever became of its row, and whether its
person has been on the link ever since.

Each handler is one action, with the middleware in front of it (`Seen`,
`Reachable`) and everything it calls. `Redeem`, `Revoke`, `Reissue`, `CloseCase`
and `Purge` take a parameter `done`: the last statement that commits. `Cut`
allows every prefix for the handlers in `CrashIn`, and only the whole otherwise.

Abstractions:

- a code is the name of its row, so two codes never collide (six digits may);
- the mail is not a message: any issued code may be typed at any time or never,
  which covers slow, lost, duplicated and rejected mail. The handler that sends
  changes no state after the send but the audit log;
- the URL a visitor holds is not tracked: whoever acts on a link may hold its
  newest URL. A visitor with an old URL, an unknown token or an address that is
  not on the link changes nothing but his expired session (`Visit`);
- sessions without a recipient, which only predate version 0.4.0, are left out;
- rate limits by IP address are an external library and only remove behaviours;
- an e-mail address removed and added again gets a new row in the program; the
  cascades have removed everything that referred to the old one, so the address
  serves as its name.

### Uploads

`status` and `kind` are columns of `items`, `object` and `sidecar` the files of
the local storage, `stale` and `cold` say that a row is older than
`INCOMPLETE_UPLOAD_TTL_HOURS` and that a file is older than the sweep's cutoff.
`writer`, `deleter` and `reader` are program counters of the requests that work
on an item, `pc`, `todo` and `held` the phase and the lists of each cleanup, from
the server's timer or the command line. Every await is a point where another
action may come in: a direct upload is `StartDirect`, `OpenObject`,
`PutReturns` or `PutThrows`, then `FinishDirect`, or `AbortDirect` and
`DiscardDirect`; a resumable upload is `StartTus` to `FinishTus` and `TidyTus`,
or `TerminateTus` and `RemoveTus`. A cleanup lists, then works through its list.

Abstractions: the storage is the local directory, where an unlinked open file
goes nowhere; the lock of the tus server is one program counter per item; its
store refuses a PATCH to an upload older than the TTL; a crash leaves a
resumable upload resumable. The cutoff is fixed when a sweep starts. One deleter
and one reader per item. `Overdue = FALSE` says that no upload outlives the TTL,
and the TTL is the configuration's for every cleanup: `cleanup --ttl-hours N` on
the command line, which judges by another, is not modelled. An object and its
sidecar are removed in one step (`Erase`), where the code awaits one removal
after the other (`services/cleanup.ts` 18-21, `storage/local.ts` 61-64); the
sweep takes either without the other.
`MaxFaults` bounds crashes and failing storage calls together. Multipart uploads
of the S3 driver are not modelled.

### SignIn

The account is a row of `admins` with its passkeys and recovery codes, `live`
and `row` are its `sessions`. `seen` are the requests in flight: what
`sessionMiddleware` read at their headers, which is what the guards
`requireAdmin`, `requireConfirmed` and those of the security page judge by,
while the handlers read the account again. `Arrive` takes the snapshot; any
action of another request may come before the form's own. `signing` is a sign-in
between `authenticate` and `createSession`: no handler of the server runs in
between, but the command line does.

Codes are records. A code of the app is named by its secret and time step, a
recovery code by its sheet and number, so "the same code again" means something;
whether a code is right is all the model knows of it. The last four fields of a
session row and the variables `used` and `misses` are history: `signed` is the
password a session started from, `born` the one the account had when its row was
inserted, which differ when the command line came in between.

Abstractions: confirmations, the lockout and sessions expire at any time
(`WindowCloses`, `LockExpires`, `Expire`), which covers every clock; only the time
step of the authenticator is counted. The deadline of a challenge, rate limits
and the sign counter of a passkey only remove behaviours. Ids are random, so a new session never
takes the id of a cookie still in a request. The command line is interleaved at
sign-in and inside its own two statements, not between the statements of the
other forms. The forms that disable the authenticator or issue new codes by a
code neither count a wrong one nor look at the lock, as in the code; their
misses are `Leave`. The gate that sends an account without a factor to the
security page, disabled accounts and temporary passwords are `Panel`'s.

### Panel

`state`, `role` and `temp` are columns of `admins`. Of an account's rows in
`sessions` there are two: `session` are the accounts with one from after their last
new password, `stale` those with one from before a password that another hand
replaced (`SignIn` has the rows one by one). `status` and `member` are the cases and
`case_members`. `seen` are again the forms in flight with the role and the flag
`must_change_password` read at their headers: `adminsOnly` and the gate for issued
passwords judge by that, the handlers look at the row of whom they change, and
`canAccessCase` takes the role from the snapshot and the assignment from the
table. `knows` says that the password the form holds is still the account's.

`signing` is a sign-in between `authenticate` and `createSession`, `resetting` the
accounts whose `reset-password` stands between its two statements (`CliUpdate`,
`CliDelete`). No handler of the server runs inside a sign-in, the command line
does, and the server does between the two statements of the command line.

Abstractions: a session whose sign-in was overtaken by a new password counts as one
from after it (what that means for the old password is the run `overtaken` of
`SignIn`); second factors and the recent confirmation of the accounts page are
`SignIn`'s; the command line does not come between the statements of the other
forms, in particular not inside `changeAdminPassword`, which checks the current
password, hashes and writes; what the pages list and offer is not modelled, and what
closing a case does to the links is `CloseCase` of `Delivery`.

### Bindings

The server's variables are the columns of `sessions` and `session_bindings`; a
cookie is its place in the list `minted`, a challenge its number. The browser is
external: `jar`, `offer`, `config` and `waiting` are what the routes and the tests
expect of one that implements the protocol. It renews when its bound cookie is
gone, one request at a time, and gives up after `Patience`. A request
(`SendRegister`, `SendRefresh`) stays in `net` until the server handles it, and
can be handled long after it was given up; an answer can be lost (`Lose`).
`checkBoundCookie` is `Accepts`, `refreshBinding` is `RefreshEnded`,
`RefreshAsks`, `RefreshRefused` and `RefreshRenews`.

Abstractions: a signature is made with the bound key or not (`LoseKey`); cookies
and challenges are never guessed; a session that waits for a second factor is not
offered a binding and is left to `SignIn`.

### Migrations, GraphMailer, Service

A migration file is a number in the order of the names; `release` is the last
file of the image that is deployed. `ran` is what has been executed on the
database, `rows` is `schema_migrations`, `copies` the files of `backups/` with the
schema in them. Each process has a program counter: `Start` reads the table,
`MakeCopy`, `Prune` and `Apply` follow, each a statement or a transaction of its
own, so the server and a command can interleave and die anywhere. `begun` is
history: the schemas that a start set out to change.

`GraphMailer` has one program counter per send (and one for `verify` at the
start): `Ask` or `UseCached`, `Cache`, `Post`, `Drop`. A request to Microsoft and
its decision there are one step, what the program does with the answer a later
one. `Revoke` is a rotated secret: every token there is stops working.

`Service` takes the steps of both: `Verify` and `ListenNow` between the migration
and the first request, `Begin` to `MailFails` while the server listens; a crash,
a failed check, a signal (`Die`) and a new image (`Replace`) end the mailer with
the server. What a file's SQL does to the data is left out: a file has run or not.

### Groups

`groups` is `recipient_groups`, `link` the people of one link, `page` what each
account has on the screen: the text area, the group chosen in the list, and the
members of the groups as the page was built with. A line is what `parseEntry`
makes of it. `Pick` is the script of `admin.js` (the members go into the text) or
the plain form (the choice is sent with it). `AddPeople`, `createGroup`,
`updateGroup`, `deleteGroup` are the routes, on whatever the group is by then.
`meant` is history: whom the reader of the page typed or chose.

A form is sent (`Send`) before it is handled: `sent` is the role that
`sessionMiddleware` read at its headers, and `editableGroup` judges by it, by the
group and by the creator that the group has when the body is in. In between
`SetUserRole` may change the role and `DeleteAccount` take the account; a deleted
account sends nothing more, but a form of its own that is in goes on: as an
administrator's it is accepted, a user's assignments and groups went with the
account, and a new group is refused by the foreign key of its creator. `could` is
history: the groups that the sender might change at some time since the headers.
`Leave` is every refusal and a body that never comes. A disabled account sends
nothing more either, and is not told apart from one that looks on.

## Runs

| Run | Instance | What it shows |
|---|---|---|
| `codes` | one link, two people, two browsers, three codes, two an hour, two tries, one hour of two ticks | one working code per person (`OneLiveCode`), no more mails an hour than allowed to a person who stays on the link, although the rows they are counted by are consumed and purged (`HourlyLimit`), no more tries than allowed (`GuessBudget`), rows of people who are on the link (`RosterBound`), nobody's request costs another a code (`IsolatedCodes`) |
| `openings` | the same people racing for one or two openings; crashes in redemption, revocation, reissue and purge | openings, per-person counters, sessions and audit rows stay in step (`OpensAccount`), a code opens one session (`RedeemedIsSpent`), the flow implements `Openings` (`PromiseKept`), and a session that stopped being served never comes back (`NoRevival`) |
| `files` | two items, one cleanup of the server, one fault, no overdue uploads | `ReadyIsWhole`, `ServedWhole`, `DecidedOnce`, `SweepSparesLive`, `PublishedIsKept` |
| `ends` | one item, cleanups of the server and the command line, two faults, overdue uploads | under fairness every upload ends, orphans go, missing files are flagged (`UploadsEnd`, `OrphansGo`, `MissingFlagged`) |
| `overdue` | an upload that outlives the TTL | violates `PublishedIsKept` |
| `factors_races` | two sessions, two forms in flight, a passkey, an authenticator, two sheets of codes, `disable-totp` | `CompleteIsProved`, `NoFreeUpgrade`, `ChallengeOnce`, `RecoveryNeedsFactor` |
| `factors_codes` | one form at a time, two clock steps, two secrets, a sheet of codes, two misses to the lock and to the end of a session, a crash while the authenticator is turned on, `reset-password` at any point | `NoReplay`, `MissesLock`, `PasswordEndsSessions` |
| `overtaken` | one session, `reset-password` at any point of a sign-in | violates `OldPasswordIsOut` |
| `panel` | two accounts, one case, two forms in flight, sign-ins, `create-admin` and `reset-password` for either account | there is an active administrator (`AlwaysAnAdmin`); who was taken off a case changes nothing of it (`RemovedIsOut`); no session outlives its account, nor, but between the two statements of `reset-password`, a password replaced by another hand (`SessionsInForce`); an issued password opens nothing before its owner replaces it (`IssuedPasswordGates`) |
| `bindings` | two sessions of one browser, three lives of a cookie, one lost or late message | a cookie opens nothing after its life and the grace (`AcceptedIsFresh`), a proof buys one cookie (`EachProofOneCookie`), the cookie a well-behaved browser holds is accepted (`JarAccepted`), and a browser with its key gets back in (`StaysIn`) |
| `service` | the server and a command, three releases, two copies kept, one crash or failed copy, one mail mishap | `InOrder`, `WayBack`, and under fairness `ComesUp` and `RevokedTokenGoes` |
| `groups` | an administrator and a user, either promoted, demoted or deleted with a form in flight; two people, two groups, two pages, lists of two | `NobodyUnseen`, `NobodyDropped`, `SavedAsShown`, `KeepersOnly` |

Type correctness is a theorem of every module, so the runs do not repeat it.

Constants leave something out of these instances where the code does not hold the
property with it; the theorems that depend on one have it as their hypothesis:

- `"close"` is not in `CrashIn` of `openings`: `updateCase` and
  `destroyAccessSessionsForCase` commit separately, and a crash in between lets a
  session come back when the case is reopened (`NoRevival`);
- `"enrol"` and `"passkey"` are not in `CrashIn` of `factors_races`: a crash before
  `destroyOtherSessions` leaves sessions complete that proved no factor
  (`CompleteIsProved`);
- `"password"` is not in `CrashIn` of `factors_codes`: a crash inside a change of
  password leaves the sessions of the old one (`PasswordEndsSessions`). The command
  line's reset is in `CliRuns`; a sign-in that it overtakes is the run `overtaken`;
- `CodeTtl` is not above `Hour` in `codes`, where the purge drops codes that can still
  be typed (`IsolatedCodes`).

In `openings` crashes may cut every redemption, so the last conjunct of
`OpensAccount`, that the audit rows match the openings, asks nothing there: it is
for the instances where none is cut. `factors_codes` may crash while the
authenticator is turned on, `factors_races` nowhere.

Bounds of `Delivery`. Three codes with a limit of two let the limit bite and the
window slide; two ticks per hour put a tick inside and one at the end of the window; two tries
make the first miss differ from the last; two people and two browsers
are the smallest numbers for which "another one's" means anything. A third of
any of them only repeats the argument of the second: no action relates more than
two. Links and cases do not meet but in a browser's cookie, and the runs have
one of each; the theorems are for any number. `MaxClock`, `MaxCodes` and `MaxUrls`
stop `Tick`, `RequestCode` and `Reissue`.

Bounds of `Uploads`. Actions relate one item to one cleanup's list, so two items
are one more than needed; two cleanups are the least that can be at odds. Two
faults let a crash follow a failed deletion.

Bounds of `SignIn`. Two sessions make "the others" mean something, two requests
are the least that can hold snapshots that contradict each other. One passkey
and one authenticator are the two kinds of factor; the limits are small so that
they bite: with two misses to the lock and two to the end of a session, a right code
between them makes either come first. A window of three steps around a clock that
moves once holds codes before, at and after the last accepted one. Two secrets make
an old one differ from the current. There is one sheet with one recovery code in
`factors_codes`: that a code of an earlier sheet is out, `NoReplayHolds` has for any
number of sheets; `factors_races` makes a second sheet. The races use limits of one,
no clock and no new passwords: counting, replay and the end of an old password are
the question of `factors_codes`. The violation has the least of each that its trace needs.
`RequireTotp` is `FALSE`, since `TRUE` only refuses forms; the theorems hold for both.

Bounds of `Panel`. Two accounts are the least that can act on each other, and two
forms the least that were let through by roles of different moments: each may take
from the other what it acts with, and the last administrator is one of two. A
password is one account's: the one issues it, the other holds it. `Resets` are the
accounts for which the command line is run.

Bounds of `Bindings`. A cookie lives one tick, a challenge two, the grace is one:
the order of the lifetimes in the code (10, 30 and 1 minutes), with the grace
short of nothing that a tick can tell. Three ticks are the life of a session, and
enough for the current, the previous and a forgotten cookie. One fault is a lost
answer, a lost request, or one given up that arrives after its successor.

Bounds of `Service`. Three releases have a start with one file to run, one with two,
and one that finds another's half done; with two copies kept, a third prunes.
`MaxFaults` is one, but `Replace` stops the server at any place without
counting, so crashes of the server are as many as releases. Seconds pass only where
a copy of the same second would refuse the next.

Bounds of `Groups`. Two people and lists of two make duplicates and a full list; a line
with another person in the display name, one with a language and one that cannot be
read are the three kinds of line. One line is typed at a time (`MaxText`), a group
adds its own; two pages let one be older than what it shows. Both accounts' roles
change (`RoleChanges`) and either is deleted while another administrator is left.

## Fairness

Nothing in the recipient's flow, at sign-in or in the panel has to happen, since
people may walk away: those modules state safety only.

- `Uploads`: uploads end, orphans go, missing files are flagged, whatever the
  clients do. `FairSpec` assumes weak fairness of a step that a started request
  or deletion has before it (socket timeouts end the awaits that depend on a
  client), of the server's cleanup (its timer starts it again and again) and of
  time passing. No client has to act, nobody has to run the command line's
  cleanup, and faults are finitely many; a storage that fails for ever keeps its
  orphans.
- `Bindings`: the browser renews a cookie that is gone (`SendRefresh`), takes the
  answer (`Receive`) or stops waiting (`TimeOut`), and the server handles what
  arrives. No page has to be loaded, the user need not come back.
- `Service`: each process goes on with its start (`Advance`; `docker-compose.yml`
  line 9 restarts the server whenever it stops), seconds pass, and a mail that is
  under way gets an answer. That mails keep being sent is the premise of
  `RevokedTokenGoes`, not an assumption of the specification.

## What is proved

The theorems hold for any number of links, people, items, cleanups, sessions,
requests, accounts, cookies, processes and releases and for any limits and
lifetimes, and for texts and groups of any length; they assume what the `ASSUME` of
each module says of its constants, which TLC evaluates in the runs. Most of that is
what a constant is. Four are more: the addresses of one installation are finitely
many (`IsFiniteSet(Email)`, so that sums over people exist), the browser's patience
is no longer than the grace for the previous cookie (`Patience <= Grace`), marks
such as "no language" are not languages, and the lists a group starts with name
nobody twice, as `createGroup` stores them.

- `DeliveryProofs`: `TypeCorrect`, then `OneLiveCodeHolds`, `GuessBudgetHolds` and
  `RedeemedIsSpentHolds` from one inductive invariant, `CodeInv`. "One working code
  per person" is not inductive alone: it needs that
  codes are told apart by ids that have been given out and are never given again, and
  that the same holds for the code a session remembers, also after the purge.
- `AccessProofs`, on top of that. `RosterBoundHolds` needs that a link that was never
  created has nobody on it (`RosterInv`). `HourlyLimitHolds` is about the history of
  mails, while the handler counts rows: `MailInv` says that every mail of the last
  hour to somebody still on the link has its row, spent or not, which the purge
  keeps for that hour and which goes only with the person. `IsolatedCodesHolds` assumes
  `CodeTtl <= Hour` and needs that a code ends `CodeTtl` after it was made; the purge
  is the step that would break it. `NoRevivalHolds` and `PromiseKeptHolds`, the
  refinement of `Openings`, assume that the process does not die inside the form that
  closes a case (`"close" \notin CrashIn`): with it every session hangs on an open case
  (`OpenCases`), so reopening one brings nobody back. The refinement maps the
  sessions that would be served to `inside` and goes through the handlers: one that
  redeems a code is `Enter`, or `Lose` when it is cut after the opening was counted,
  one that creates a link is `Offer`, and everything else is `Leave`.
  `OpensAccountHolds` sums a counter over people: that sum is the size of a pile of
  pairs (`SumIsPile`), and a pile grows by one where a counter does.
- `UploadsProofs`: `TypeCorrect`, `ReadyIsWholeHolds`, `ServedWholeHolds`,
  `DecidedOnceHolds`, `SweepSparesLiveHolds` and `PublishedIsKeptHolds`, from
  `UploadsInv`: where each request's program counter stands says what the row and
  the object are (`WriterInv`), what a cleanup still has to delete was neither
  uploading nor published (`SweepInv`), and a row it means to expire is old
  (`StaleInv`). The last theorem assumes `~Overdue`; the run `overdue` shows why.
- `SignInProofs`: `TypeCorrect`; `NoReplayHolds` from `ReplayInv`, by which an
  accepted code is of an older secret or at most at the last step, and a spent
  recovery code of an older sheet or gone; `MissesLockHolds`, since the stored
  counter never runs behind the misses; `RecoveryNeedsFactorHolds`, inductive as it
  is; `CompleteIsProvedHolds` and `NoFreeUpgradeHolds` from `SessionInv`, which adds
  that a sign-in under way knows of the factors there are, and that a snapshot that
  says "complete" is of a session that is verified or of an account without factors.
  Without the last part a form of a pending session could take the last factor
  away and complete its own session. These two theorems assume that the process does
  not die inside a form that adds a factor (`NoCrash`; the note on crashes under
  "Runs" says what happens when it does). Two lemmas, `QuietFactors` and
  `QuietSessions`, say once which steps leave the factors or the sessions alone, so
  that each proof treats only the others. `ChallengeOnceHolds` says of every way a row
  of a challenge may change that none brings an answered one back (`Edits`, `Fates`).
  `PasswordEndsSessionsHolds` assumes that the process does not die inside a form that
  changes the password (`"password" \notin CrashIn`) and needs no strengthening: a
  session is inserted under the password there is, and each way to replace it ends
  the others in the same step, the command line in its second.
- `PanelProofs`: `TypeCorrect`; `AlwaysAnAdminHolds`, where the three ways to take an
  administrator away each leave another one whatever the actor has become
  (`AdminStays`); `SessionsInForceHolds` from `SessionsInv`, by which a sign-in under way
  is of an active account, since no handler runs meanwhile and the command line
  disables nobody; `RemovedIsOutHolds`, an action property that follows from the guards
  of the case forms and from what each of them leaves alone; `IssuedPasswordGatesHolds`
  from `GateInv`: a form that holds the password of an account under an issued one has
  the gate in its snapshot, because a password that was issued after the headers is
  not the one the form holds (`NewWordKeeps`).
- `BindingsProofs`: `TypeCorrect`; `AcceptedIsFreshHolds` from `CookiesDated`: the two
  cookies of a binding are that session's and run out a lifetime after they were
  minted, also the previous one, whose deadline is copied and never extended;
  `EachProofOneCookieHolds` from `ChallengesApart`: the challenges that wait for an
  answer differ, and none has bought a cookie yet. `JarAcceptedHolds` from `JarInv`:
  the cookie of an answer, and the one in the jar while it lives, is the binding's
  current one, and no refresh on its way can replace it, because the challenge the row
  waits for is in none of them (`InHand`): challenges are numbered, and the browser
  learns the next one together with the cookie. The jar outlives the row by the
  browser's patience at most (`JarHolds`), which the grace covers.
- `ServiceProofs`: `ServiceMigrates`, that every behaviour of the composed server is
  one of `Migrations`, so what is proved of the latter holds of the service; then
  `TypeCorrect`, `InOrderHolds`, `WayBackHolds` and `MailTypeCorrect`. The order of the
  files is inductive with what a start knows (`Ordered`): the first so many files,
  perhaps fewer than have run by now. The way back needs `Copies`: a start that is
  about to change a schema finds it copied or enough newer copies, also after others
  have pruned; that pruning cannot break this is a lemma about cardinalities
  (`KeptPruned`).
- `GroupsProofs`: `GroupsTypes`, by which no list that is stored or picked names anybody
  twice and the script leaves no choice beside the text; from it `NobodyUnseenHolds`
  and `SavedAsShownHolds`, for which merging a list without
  duplicates and reading one that was formatted each give the list back (`MergeSame`,
  `FormatIs`). `NobodyDroppedHolds` needs `TextInv`: in every page of a case the first
  line of a person says the language that person is meant in, but for those the script
  took to be present (`Followed`). It is preserved by adding lines for people
  (`FollowedMore`; typing and picking are both of that kind) and by striking one out.
  `KeepersOnlyHolds` needs `KeepInv`: a group that the role of the headers or the present
  creator admits is one the history has noted. A group made while an administrator's
  form is in is none of that form's, since forms are of groups made before
  (`KeepOne`).

The loops over lists (`mergeRecipients`, `Within`) are folds of the community
modules, defined by a recursive function on sets that is *chosen*. That such a
function exists is proved first (`FoldExists`), then that the fold goes through the list
step by step (`WithinLoop`, `MergeLoop`); induction over numbers is stated for a set
(`NatInduct`), from the well-founded order of the finite sets `1..n`, so that it needs
no operator as a parameter. "The first element of a list that is in a set" (`Lead`) is
what the properties observe, and there is one lemma on what each loop does to it
(`WithinIs`, `MergeIs`, `ParseIs`).

## What is only model-checked

- Liveness under fairness, out of the prover's reach: `UploadsEnd`, `OrphansGo`,
  `MissingFlagged`, `StaysIn`, `ComesUp`, `RevokedTokenGoes`. Every invariant, action
  property and refinement of the runs is also a theorem.
- The counterexamples of `overdue` and `overtaken`.

## What the documents say and the code does not

Met while modelling. The first two are runs that TLC finds violated; the others
are readings of the code that the models follow, with no property stated against
them.

1. **An upload that completes while it is discarded loses its data** (run
   `overdue`). `runCleanup` lists stale uploads once, removes the data of each
   across an await, and only then asks whether the row is still `uploading`
   (`services/cleanup.ts` 36-38). An upload longer than
   `INCOMPLETE_UPLOAD_TTL_HOURS` that completes in between is published without
   its data. `docs/architecture.md` 94 and `docs/configuration.md` 25 speak of
   *unfinished* uploads. The next verification flags the file as missing
   (`MissingFlagged`).
2. **A sign-in that `reset-password` overtakes keeps the old password** (run
   `overtaken`). `authenticate` checks the password and `createSession` inserts the
   session without looking again (`services/auth.ts` 112, 135); the command in the
   other process may finish in between. "Existing sessions were revoked" (`cli.ts` 78)
   is true of the sessions there were (`PasswordEndsSessions`), but the new one
   rests on the old password.
3. **The hourly limit starts anew for a person who is put back on a link.**
   The limit counts the rows of `challenges` (`services/access.ts` 55),
   which go with the recipient by cascade (`services/links.ts` 111); the same address
   added again has no past. `docs/configuration.md` 19 speaks of the "Codes that may
   be requested per hour by one person on a link (anti mail-bombing)". Only whoever
   manages the link can do it.
4. **A crash while a factor is added leaves sessions that did not prove it.**
   The factor is committed before `destroyOtherSessions`
   (`http/admin.ts` 427, 484), which "ends every other session of the account"
   (`docs/security-model.md` 73); nothing makes up for it after the restart.
5. **A right code can be refused in a shared browser.** `createChallenge` promises
   that one recipient's request never invalidates another's code
   (`services/access.ts` 41-42), and no row is touched; but `verifyChallenge` takes
   only the newest pending challenge of the link and the browser (79), so a
   person who asked first in that browser has a code that counts as a miss of the
   other's.
6. **The purge drops codes that are still valid** when `ACCESS_CODE_TTL_MINUTES` is
   above 60: `purgeExpiredAccess` deletes by age (`services/access.ts` 144), while
   `docs/configuration.md` 16 has the lifetime free and the comment above (143)
   speaks of consumed and expired ones.
7. **A registration that does not check out keeps its challenge.** "Whatever the
   outcome, it is not reusable" (`services/passkeys.ts` 32), but `registerPasskey`
   takes it inside a transaction that the failure rolls back (50). A sign-in
   takes it outside one, and `ChallengeOnce` holds: no challenge is *answered* twice.
8. **Two forms can take the last two factors.** With `ADMIN_REQUIRE_TOTP` the forms
   that disable the authenticator (`http/admin.ts` 446) and remove a passkey (502)
   refuse the last factor (`locales/en.ts` 419), each judging by the session read at
   its headers. Sent together, each sees the other's factor.
9. **Administrators can be members.** "Administrators see every case and are never
   members" (`http/admin.ts` 903-904; `docs/security-model.md` 19: never listed). A
   user who is promoted keeps the assignments, and is listed.
10. **The previous bound cookie is good for one refresh, not until it runs out**
   (`services/sessions.ts` 135-136): a second refresh, for instance after a lost
   answer, overwrites it. The browser of the model renews only when its cookie has run out,
   so `JarAccepted` holds.
11. A lost answer to a registration leaves a session bound whose browser has no
   cookie and cannot get one: it must sign in again. An upgrade that stops half way
   and is started again copies the half-way schema each time, and the fifth copy
   prunes that of the schema before the upgrade (`WayBack` says so: as many newer
   ones are kept). With two
   processes a copy named `before-m` may have `m` in it already.
12. In the picker of `admin.js` an address inside a display name counts as present:
   that member of the group is left out without a word, with the script but not
   without (`NobodyDropped` names the exception). Without the script a group that is
   deleted before the form arrives adds nobody.
13. `admin-upload.js` counts an upload out in `settle` each time it is cancelled, and
    a second click counts it twice, so the page may reload while another upload
    runs, against its comment (line 53). The script is not modelled.

## Plan

Done, in this order: `Delivery` and `Openings`, `Uploads`, `SignIn`, `Panel`,
`Bindings`, `Migrations` with `GraphMailer` and `Service`, `Groups`, and the proofs of
each. Left for later:

1. The upload queue of `admin-upload.js` as a client of `Uploads`, and the
   multipart uploads of the S3 driver.
2. The window of `verifyTotp` and the encodings (`base32`, CBOR, ZIP) against
   reference definitions, on bounded inputs.

## What is not modelled

- Views, translations, configuration, logging and the audit log keep no state that
  a handler reads back. The 24 locales alone are 9862 of the 17142 lines of the
  implementation and are tables of sentences; the definitions stand for 2309
  lines, nearly a third of the rest.
- The signature checks of WebAuthn and of bound cookies, the arithmetic of TOTP and
  the mail protocols are bytes; the modules have their outcome.
- Rate limits by IP address are a library's and only remove behaviours.
- The SMTP and SES mailers keep no state; of the Graph mailer the token is modelled,
  the message is not.
- The S3 storage has the operations of the local one with whole objects only; its
  multipart uploads are not modelled.
- The order in which a clean stop drains requests: a stop is a stop at any place.
- Static analysis of file types, archives and names is formatting.
- What the SQL of a migration does to the rows.
