# Muistot backend: TLA+ specifications

This directory specifies the backend of *Muistotkartalla*, a server that collects
memories (stories) about sites (places) of projects. The specifications are
translated from the code (`src/muistot`, the SQL schemas under `database/` and
the mail thread), checked with TLC on small instances, and the central ones are
proved with TLAPS. Line numbers below refer to the repository.

    tlc -workers 2 -config <run>.cfg <module>      # the table under "Runs"
    tlapm SessionManagerProofs.tla                 # and the other *Proofs modules

## 1. The system

| Component | State | Operations | Code |
|---|---|---|---|
| sessions | Redis: `token_hash -> session` (with a lifetime), `user:<name> -> set of hashes` | start, get, end, clear of a user, clear of all, cull of stale links | `security/sessions.py` |
| login tokens | Redis: hash of the last mailed token, tries left (5 min each) | create, fetch (GET, DECR), clear | `login/logic/login.py` |
| login by email | table `users`; Redis: rate limits, `email:timeout`, tokens | `POST /auth/email`, `POST /auth/email/exchange` | `login/routes.py`, `login/logic/` |
| accounts | table `users`, sessions | change of email, of user name, of personal data; logout here and everywhere | `backend/api/me.py`, `backend/services/me.py` |
| session middleware | rights copied into a session at login | resolves the bearer token to a `User` | `middleware/session.py`, `security/` |
| mail queue | a deque, a daemon thread, an SMTP connection | `send_email`; the thread | `mailer/zoner.py` |
| status | flags computed per request from rows and session | `require_status`, `provide_status` | `backend/repos/status/` |
| projects | tables `projects`, `project_admins`, texts | create, modify, publish, admins, moderators | `backend/repos/project.py` |
| sites | table `sites`, texts, locations | create, modify, delete, publish, report | `backend/repos/site.py` |
| memories | table `memories` | create, modify, delete, publish, report | `backend/repos/memory.py` |
| publishing, reporting orders | the same tables, through other checks | `POST /admin/publish`, `POST /report` | `backend/api/publish.py` |
| report watchdog | `audit_sites`, `audit_memories` | a database event every 12 hours | `database/schemas/schema_data_audit.sql` |
| database provider | a pool of connections | one transaction per request | `database/connection.py` |
| files | directory of images, table `images`, a cache per worker process | store, read | `files/files.py`, `backend/api/files.py` |
| name generator | a separate HTTP service | a new user name | `namegen/` |
| localization | texts by language, a default language per project | which text is written and read | `middleware/language.py`, `backend/repos/` |
| models, config, errors, timing | none that requests change | | |

How they interact, and what makes them hard:

* **Two processes, one Redis.** The server runs as `uvicorn --workers 2`. The
  Redis client is synchronous: inside one process the code between two `await`s
  is not interrupted, but the *commands* of two processes interleave freely, and
  no command sequence is a Redis transaction. A command may raise in the middle
  of a sequence.
* **A transaction per request, committed after the response.** A route gets its
  connection from a `yield` dependency (`DatabaseProvider.__call__`): the commit
  follows the response, and an exception rolls back. Isolation is REPEATABLE READ,
  so a SELECT sees the table as of the request's first read, while INSERT and
  UPDATE meet the newest rows and wait for rows that another transaction holds.
* **Redis and the database are not one store.** What Redis is told is effective
  at once; what the database is told, at the commit, if there is one.
* **Rights are read twice.** The session has a copy of the user's projects and
  scopes from the login; the repos read the tables. `POST /admin/publish`
  and `POST /report` reach the same rows through checks of their own.
* **Check, await, write.** Rights are read with one statement and the write
  comes with a later one, which finds a site by its name only.
* **A row and a file.** The row of an image is rolled back with its request, its file is
  not; each worker process remembers what it found out about a file, also that there is none.
* **Row locks inside a request.** One statement shares a row that a later one writes, so that
  two requests of the same kind can wait for each other; texts are written by several statements.
* **A thread and coroutines** share the mail queue without a lock.

`PROJECT.json` lists each hazard at its line with the properties that cover it.

## 2. Modules

| Module | What it is | Extends / uses |
|---|---|---|
| `SessionRegistry` | abstract: login, logout, logout everywhere, each at one instant | |
| `SessionManager` | sessions, one action per Redis command of one process | implements `SessionRegistry` |
| `LoginToken` | login tokens, one action per Redis command | |
| `UserTable` | abstract: the table of users, one row and one key at a time, both keys unique | |
| `EmailLogin` | the two login endpoints, one action per stretch between awaits, and per Redis command before the first await | implements `UserTable` |
| `Accounts` | changes of an account against its sessions, one action per stretch between awaits and per Redis command of a session call | instantiates `SessionManager`; implements `UserTable` |
| `MailQueue` | abstract: mails are accepted, then settled once each, in order | |
| `ZonerMailer` | the deque and its thread | implements `MailQueue` |
| `Access` | status flags and `require_status`, as operators on sets | |
| `Sites` | projects, admins, sites, session copies, `/admin/publish` | `Access` |
| `Reports` | sites, memories, reports and the watchdog of one project | `Access` |
| `Images` | the row, the file and the caches of uploaded images | |
| `Contents` | texts, images and contacts of a project and its sites, one action per SQL statement, with row locks and failures | `Images` |
| `MC*` | symmetry for TLC | |
| `*Proofs` | theorems | TLAPS |

**Decomposition.** `SessionManager` and `LoginToken` look inside a call, at the
level of Redis commands of several processes. `Accounts` and `EmailLogin` look at requests.
`Accounts` makes its session calls through an instance of `SessionManager` (`Store`, a request
being a worker there), command by command. It cannot take such a call as one step:
`SessionManager` refines `SessionRegistry` only while calls about one user *name* do not overlap, and
a change of user name clears a name that is another person's, also when it is refused.
`EmailLogin` has its rate limit and its exchange of a token as single commands; it does not
look into the two SETs of a new token (`LoginToken` does), nor into the start of a session, of which
it only says that it comes. `EmailLogin` creates users and `Accounts` changes them; what
either may rely on of the other is `UserTable`, which both implement with the committed rows
(`UserRows`). An email may be NULL in the schema; nothing in the code writes such a row.

**Granularity.** A request in `EmailLogin` and `Accounts` is a program counter
`pc[r]`, one action per stretch of code between awaits or, where the statement
may wait for a row lock or the commit is separate, per statement. What two processes can
see of each other inside such a stretch is Redis. So in `Accounts` each command of a session
call is an action (`Command`; `cmd[r]` is where in the call a request is). In `EmailLogin` each
command before the first await is one: EXISTS and SET of `ratelimit`, GET and DEL of the
exchange. There `at[r]` is the process that such a request is running in, which lets no
other request in meanwhile; `servers` are the processes that run. In `Sites`
and `Reports` a request has two steps: its check (what its transaction reads)
and its write with the commit. A refused request changes nothing and takes no step.
`Contents` looks inside such a write: `Plan` is the list of its statements, each of
which takes its locks, and the commit applies them. Readings are operators on the state
(`Answer`, `Listed`): they are one SELECT after a check in the same snapshot.

**Abstraction.** Tokens, names, addresses, users, ids are model values. A token
of 64 random bytes is a value that nothing refers to yet (`Fresh`). Times to
live are actions that may remove a key at any moment; where the relative length
of two lifetimes matters it is in the guard (`LoginToken!ExpireLimit`: the
counter outlives the token it was set after; `EmailLogin!ExpireRate`: 6 s
against the length of a request, unless "slow"). In `Sites` and `Reports` texts,
titles, images and locations are one value, the user who wrote it. In `Contents` a text
is its language, an image the request that uploaded it (a file is named by a UUID), and
a field of a PATCH is left out, null or new. Locations and dates are written by the
same UPDATE as an image.

**Environments.** What may go wrong is an explicit parameter: constants
(`OneAtATime`), or a variable that `Init` chooses and no action
changes (`failing`, `overlap`, `faults`, `servers`). The constant `Environments` of `EmailLogin`
and `Accounts` lists the sets of faults that a run looks at; the proofs have it arbitrary.
A property that needs an environment says so in
its formula (`"commit" \notin faults => ...`), so that one run covers
all of them. What the code does not promise when two calls about a user name overlap, whoever makes
them, is put by a history variable: `raced` are the names for which that has happened, and a
property about sessions in `Accounts` excepts them (`raced = {}`, `who[r] \notin raced`).

**History variables** record what a property has to relate: `issued`, `must`, `lost`,
`due`, `raced`, `tries`, `uses`, `mailed`, `recent`, `caller`, `ever`, `used`, `reused`,
`accepted`, `delivered`, `shown`, `drawn`. No guard of the code's actions reads them, except that
`Fresh` and the bounds do, and that a client asks for an image by a name that it was
`shown` (names are UUIDs).

### Correspondence

`PROJECT.json` maps every definition to its lines. In short:

* `SessionManager`: `start_session` = `StartSession` (SMEMBERS of `clear_stale`),
  `ProbeLink` (EXISTS), `CullLink` (SREM), `DrawToken` (EXISTS), `LinkToken` (SADD),
  `StoreSession` (SET); `end_session` = `EndSession`, `DropSession`, `DetachToken`;
  `clear_sessions` = `ClearSessions`, `DropIndex`, `PurgeToken`;
  `clear_all_sessions` = `ClearAllSessions`. `Fail` is a command that raises, with
  `failing`; `lost` is what it leaves when it breaks off the loop of a clear.
* `LoginToken`: `create_login_token` = `CreateToken`, `SetLimit`;
  `complete_email_login` = `Exchange` (GET), `CountTry` (DECR and comparison), `ClearToken`.
* `EmailLogin`: `ratelimit` = the EXISTS of `AskLogin` or `Exchange`, then `LimitRate` (SET);
  `start_email_login` = `AskLogin`, `FetchUser`, `OfferName`
  and `InsertUser` (`try_create_user`), `CheckTimeout`, `SendMail`, `Commit`;
  `complete_email_login` = `Exchange`, `CheckToken`, `ClearToken`, `LookVerified`, `VerifyUser`,
  `StartSession`, `Commit`. `CommitFails` drops the transaction. `Waits` here and in
  `Accounts`: the write meets a row that another transaction has changed.
* `Accounts`: `change_email` and `change_username` = `Arrive`, `CheckEmail` or
  `CheckName`, `LogOut` for the clears before the UPDATE, `Update`, `LogOut` for those after it or
  after a refusal, `StartSession`, `Commit`; `update_personal_info` = `Arrive`, `Upsert`,
  `Commit`; `LogMeOut`, `LogMeOutAll`; `Login`. `left[r]` are the names still to be cleared
  (`Clear`, `ClearNext`). `LogOut`, `StartSession`, `LogMeOut` and `LogMeOutAll` begin a call of
  `SessionManager` with its first command, `Command` makes the others; `Expire` is its `Expire`.
* `ZonerMailer`: `send_email` = `SendEmail`; the loop of the thread = `PopFirst`,
  `Connect`, `HandleThreaded`, `PopNext`, `Wake`; what the loop does
  not catch = `ConnectRaises`, `QuitRaises`.
* `Sites`, `Reports`: `Check` = the check of the endpoint (`ScopeAllows` =
  `require_auth`; `RepoAllows` = `require_status` and what a repo reads before it
  writes; `OrderAllows` = `check_exists` and the session's projects), then one action
  per repo method. `HideMemories` and `HideSites` are the two UPDATEs of
  `hide_reported_things`. The foreign keys' cascades are part of `DeleteSite`.
  `Answer` = `one` and `Listed` = `all` of `SiteRepo` and `MemoryRepo`, for admins,
  authors, other users and the `Visitor`, who has no account (`query_anonymous`).
* `Images`, `Contents`: `Files.handle` = `OpenFile`, `WriteFile`; `Files.Images.get` =
  `GetImage`, with `Forget` for its `lru_cache`. `Arrive` = the checks before the first
  write; `Plan` and `Involves` = the statements of `create`, `modify` and `delete` and the
  conditions around them; `Wants` = the rows that a statement locks; `Execute` = a
  statement, `Wait` = the part of it before a row that is taken, `Refuse` = a
  duplicate key, `Victim` = the database's deadlock detection, `Fail` = an exception, a
  dead worker or a commit that is refused; `CommitCreate`, `CommitModify`,
  `CommitDelete` = the commit of what was written; `Read` = a reading that shows an image.

## 3. Runs

Each finishes within about three minutes on two workers.

| Run | Instance | Checks |
|---|---|---|
| `SessionSerial` | 3 workers, 2 users, 4 tokens, `OneAtATime`, commands raise or not | `Linked`, `LogoutAllIsComplete`, `ImplementsRegistry` |
| `SessionFaults` | 2 workers, 2 users, 2 tokens, free overlap, commands raise or not | `NoRevival`, `EndedByOwner`, `LoginCullsStale`, `CallsReturn` |
| `SessionRace` | the same | refutes `Linked` |
| `LoginToken` | 2 workers, 2 users, 2 tokens, 3 tries; no, some or any overlap | `TriesBounded`, `SingleUse`, `OnlyItsOwnUseClears` |
| `EmailLogin` | 2 requests for mail, 2 logins, 2 addresses, 2 names, 2 attempts, 1 or 2 server processes; slow requests or a failing commit | `MailsPerTimeout`, `SessionIsAddressees`, `LoggedInIsVerified`, `Unstuck`, `MailedUserExists`, `CreatedUsersAreMailed`, `ImplementsUserTable` |
| `Accounts` | 3 requests, 2 under way at a time (2 in all where those of a person overlap), 2 people, 3 names, 3 addresses; overlap or failing commits or neither | `SessionsNameTheirUser`, `Unstuck`, `ChangesOwnRow`, `LoggedOutEverywhere`, `ImplementsUserTable` |
| `AccountsRename` | 2 requests, 1 person | refutes `OldNameLoggedOut` |
| `Mailer` | 2 mails, 4 acceptances, each set of failures | `ImplementsMailQueue`, `Handled` |
| `Sites` | 3 requests, a user and a superuser, 2 projects (one for admins only, one with auto_publish), 1 site name | `OnlyAdminsPost`, `HiddenIsNotFound`, `ListedIsReadable`, `PublishedByAdmins`, `ChangedByOwners`, `AdminsAppointed` |
| `SitesStale` | 2 requests of the same | refutes `DoubleChecked` |
| `Reports` | 2 requests at a time, without end; 2 users, one an admin; 1 name, 1 id; hidden above 1 report | `NoOrphans`, `OwnWords`, `ListedIsReadable`, `HiddenForAReason`, `ReportedIsHidden` |
| `Contents` | 2 requests, 2 worker processes, a project and 1 site, 2 languages, 2 fields in a PATCH; any failure | `TypeOK`, `ShownIsServed`, `LeftoversOfFailures`, `ReadableAsMade`, `AllEnd` |

`SessionManager`, `LoginToken`, `EmailLogin`, `Accounts`, `ZonerMailer`, `Sites` and `Reports`
have a `TypeOK` too. It is proved for all values of the constants (section 5) and not run again.

Why the bounds are enough for the question asked:

* *Sessions.* A race needs two calls about one user; a third worker lets a call about
  another user come between. Four tokens give a user a stale link, a live session and
  one being started, and the other user one. `SessionFaults` needs two tokens, since
  its properties are about one token each.
* *Login tokens.* Two tokens of one user show an old token's use against a new one;
  three tries are those of the code. Tokens do not return, so a run is finite.
* *Email login.* Two requests for mail to one address or to two, and two logins,
  contain every pair that can meet: same address, same new name, same token.
  Two attempts at a name distinguish "try again" from "give up" (5 in the code).
  Two processes are those of the Dockerfile (line 23), one is a development server: there
  `MailsPerTimeout` allows one of the two mails. With two processes it allows both, and TLC
  finds that both go out (by asking for one only); that it is never more is the theorem.
  One commit may fail (`MaxFailing`, for TLC only), while the commits of the others succeed.
* *Accounts.* Two people for the conflicts of keys, three requests so that a login or a
  third party may come before, between or after the steps of a change; a third name is free.
  Two requests under way at a time (`AtOnce`) are the two processes with a request
  each; the third begins when one of them is over. Where requests of a person overlap there are two
  in all (`Overlapping`); with three the run takes three minutes and passes, too. Both bounds are
  for TLC only: the proofs leave them arbitrary, and so cover any number of suspended requests.
* *Sites.* Three requests: one appoints, one dismisses, one acts, or one deletes a
  site, one makes it again and one acts on it. Initial states are all published
  projects with at most one admin each, with or without sites.
* *Reports.* Two requests meet on one site and one memory; the id may be used once,
  the name again and again. Two users make two reports, which exceeds the bound of one.
* *Contents.* Two requests about the same or about different things are the pairs that share
  rows, and two transactions make every kind of deadlock that a plan allows; two PATCHes
  with two fields each reach the statement that shares a row and the one that writes it.
  Two languages are the default and another. Two workers show that what one remembers is
  not what the other found. Initial states have no project, a project, or a project and its site.

`EmailLogin`, `Accounts`, `Mailer` and `Sites` have a bounded number of requests
and stop when these are served, so these runs do not check deadlock. What
deadlock would mean there, requests that wait for each other's rows, is `Unstuck`.

### What the runs show

Holding: two processes that interleave on one user, with any command failing, never
bring an ended session back, nor end a stranger's, and a login always
culls the links that it found stale. A token meets at most three strings
however exchanges overlap. An address gets one mail per timeout and server process, no user is
created without a mail, none of the waits for rows is forever. An account changes
only by its holder while the holder's requests come one after the other and no two
session calls about one user name overlap. Sites are
published, changed and removed only by those who may or once might, also when the rights change
between the check and the write, with the exception of re-used names below. What
more than the bound have reported gets hidden in the end, also if admins insist. The
list of sites or memories and the single reading agree for every reader. An image
whose name was shown is served by every worker, files without a row come from requests
that failed, and nothing but those; what was made can be read in the language it
was made for; two PATCHes of a project may block each other, and the database's
detection of deadlocks is what ends that: without `Victim`, `AllEnd` fails.

Disagreements between the code and what the repository says, each with a run:

1. `SessionRace`: "The session manager maintains a linking to all user sessions so
   that it can clear them" (README.md:127). A clear between the SADD and the SET of a
   login in the other process leaves a live session in no set.
2. `AccountsRename`: "If successful (204) the user is logged out of __ALL__ sessions"
   (api/me.py:102). A login between the clear and the commit of a change of user
   name starts a session for the old name. It takes a second request of the same person, a
   commit that fails, or a call about the same user name that falls between two Redis commands
   of a login in the other process, which may be a stranger's: without these three the
   sentence is proved (`AlwaysOldNameGone`).
3. `SitesStale`: "The access control is double-checked" (README.md:213).
   `POST /admin/publish` goes by the session's copy, and so lets a dismissed admin publish.
   That is the only way around the tables (`OnlyPublishTrustsOldRights`).

Limits of the properties, found with TLC by lifting their conditions: with `overlap =
"any"` `TriesBounded` and `SingleUse` fail (what is left of them is proved: `TokensAlwaysApart`,
`UsesAlwaysBounded`), with "slow" requests `MailsPerTimeout`;
with failing commits `SessionIsAddressees`, `LoggedInIsVerified` and `MailedUserExists`;
with overlap or failing commits `SessionsNameTheirUser` and `ChangesOwnRow`; without
`raced = {}` both and `LoggedOutEverywhere`, even when each person's requests come one by one: the
login of p under the name n has made its SADD, q asks to change to the name n and
is refused, the `finally` of that request (services/me.py:63-65) clears n, then p's
session is stored (sessions.py:110) and is in no set, p changes to another name, which does not
find that session, and from then on it stands for whoever takes n (TLC finds the orphan in three requests; that p then
writes the data of that person takes two more); and
without the exception for names used again, `PublishedByAdmins` and `ChangedByOwners`,
because a request that was checked for one site writes to the next site of that name.
`ReadableAsMade` speaks of the default language that was in force when the maker's request
came: after a change of the default a site without a text in the new one is missing from the
lists and answers 406, which api/projects.py:77 foresees ("not enforced in the API").
Nothing removes the file that a failed request leaves, nor the row and file of an image that was replaced.
The watchdog runs only while `event_scheduler` is on, which `schema_utils.sql` sets with SET GLOBAL
and a restart of the database loses. `Linked` and `LogoutAllIsComplete` leave out the tokens
in `lost`: `clear_sessions` deletes the set first (sessions.py:137), so a call that raises in its
loop leaves sessions that no later call finds (`LostForGood`). That they are the only ones, while calls about a user do not
overlap, is what both say.

Other observations from the reading, which no run is about:

* A change to a user name in use is refused with 409 and logs the holder of that name out
  (`finally`, services/me.py:63-65), while backend/main.py:62 says that a session ends "only"
  through inactivity or a purge by the user or an admin.
* api/memories.py:103 calls the removal of a memory a soft delete, `MemoryRepo.delete` deletes
  the row; api/projects.py:74 says that only superusers create projects, `ProjectRepo.create`
  accepts every authenticated user; api/sites.py:96 says that other users "can only modify the
  description", the repo lets admins modify everything and others nothing.
* `admin_posting` is not looked at for memories; moderators are written and never read; a
  superuser who is no admin of an unpublished project gets 404 for its sites, except through
  `/admin/publish`.
* `ProjectRepo.all` joins `project_admins` without the project, so whoever is an admin of one
  project is listed unpublished projects that then answer 404 singly.
* `ModifiedProject.auto_publish` is accepted and ignored by `ProjectRepo.modify`; a PATCH of
  `starts` and `ends` is not compared as models/project.py:80 does for a new project; a PATCH
  of `{contact: ..., info: null}` changes the contact and answers 304, since `modified` is
  overwritten (project.py:316-318); `starts < CURDATE()` leaves out the starting day.
* `PATCH /me` with an empty body builds a statement with an empty column name
  (services/me.py:74), which the database refuses.
* `GET` of a site with `include_memories` by the creator of an unpublished site answers 404
  (`MemoryStatus`), although the site alone answers 200.

## 4. Fairness

* `SessionManager!FairSpec`: weak fairness of each worker's next command. The code
  between commands is a loop over a reply that has been read, without locks or waits;
  a silent Redis ends in an exception, which is `Fail`. Nothing is assumed of clients.
* `ZonerMailer!FairSpec`: weak fairness of the thread. Its sleep ends and its
  SMTP calls return or raise. `Handled` holds without assuming anything of the server
  in the runs where `faults` leaves it out, and names the failure otherwise.
* `Reports!Spec`: weak fairness of the two UPDATEs of the event, which the database's
  scheduler starts every 12 hours, as long as `event_scheduler` stays on (see above).
  Requests need none.
* `Contents!Spec`: weak fairness of each request's next step, `Proceed`. The coroutine runs
  when its statement returns; the database grants a lock that nobody holds and ends a
  deadlock at once (InnoDB's default). That a step is possible again and again but not
  always does not help a request, so a stream of others could starve it; with a
  bounded number of requests that does not come up. Nothing is assumed of `Arrive`, `Fail`,
  `Read`, `GetImage` and `Forget`.
* `EmailLogin` and `Accounts` state progress as an invariant (`Unstuck`): while requests
  are under way one can go on. As each has a bounded number of steps and the server runs
  what can run, every request ends. This needs no fairness among requests.

## 5. Proofs

Every proof is for all values of the constants.
`PROJECT.json` lists the results that say something of their own; type correctness of a module
is only listed there where a run checks it.

| Theorem | Says | Assumes |
|---|---|---|
| `SessionManagerProofs!TypeCorrect` | `[]TypeOK` | |
| `NeverRevived`, `EndsByOwner`, `LoginsCullStale` | an ended session does not return; sessions end by calls about their own user; a login culls what was stale | any overlap, any failure |
| `LostForGood` | a session that a broken-off clear left is in no set again | any overlap, any failure |
| `AlwaysForward` | each command of a call lowers a bound on what it has left, nothing raises it | finitely many tokens |
| `AlwaysLinked`, `LogoutAllCompletes` | `[]Linked`; `LogoutAllIsComplete` | `OneAtATime`; any failure |
| `RegistryImplemented` | `ImplementsRegistry`: `Registry!Spec` where no command raises | `OneAtATime` |
| `LoginTokenProofs!TriesAlwaysBounded`, `OnlyOwnUseClears` | at most `Tries` comparisons; a token waits until its own use or age | `overlap # "any"` |
| `LoginTokenTypeCorrect` | `[]TypeOK` | |
| `TokensAreSingleUse` | a token is accepted at most once | `overlap = "none"` |
| `TokensAlwaysApart` | a token is held, in Redis or by a request, for the user it was made for only | any overlap |
| `UsesAlwaysBounded` | a token is accepted no more often than it was compared, nor than there are server processes | any overlap; finitely many workers |
| `ZonerMailerProofs!MailerTypeCorrect`, `QueueImplemented` | `[]TypeOK`; `Spec => Queue!Spec` | |
| `DeliveredUnlessRefused` | a server that refuses nothing and keeps the connection gets all, in order, but one mail lost with the thread; only errors of connecting, login and QUIT end the thread | |
| `AlwaysForward` | each step of the thread brings it nearer to each mail in the deque | |
| `EmailLoginProofs!EmailLoginTypeCorrect`, `CreatedUsersAlwaysMailed` | `[]TypeOK`; `CreatedUsersAreMailed` | |
| `MailedUsersExist`, `SessionsAreAddressees`, `AlwaysVerified` | `[]MailedUserExists`; `[]SessionIsAddressees`; `[]LoggedInIsVerified` | commits succeed (in the formulas) |
| `AlwaysMailsPerTimeout` | `[]MailsPerTimeout`: as many mails per timeout as server processes, at most | requests quicker than the rate limit (in the formula) |
| `UserTableImplemented` | `ImplementsUserTable`: `EmailLogin` implements `UserTable` | any failure |
| `AlwaysOneUserPerAddress`, `UsersAlwaysKept` | an address has at most one user; a user keeps name and address | any failure |
| `NeverAllWait`, `AlwaysForward` | of the requests under way one waits for nobody; each has at most `MaxAttempts + 7` steps | any failure |
| `AccountsProofs!AccountsTypeCorrect` | `[]TypeOK` | |
| `AlwaysLoggedOutEverywhere` | `LoggedOutEverywhere` | no two calls about that user name overlapped (in the formula); otherwise any overlap, any failure |
| `UserTableImplemented` | `ImplementsUserTable`: `Accounts` implements `UserTable` | any overlap, any failure |
| `UsersStayUnique`, `NeverLosesUpdates` | no two accounts share a name or an email; a row that a request wrote is changed by no other before its commit | any overlap, any failure |
| `NeverAllWait`, `AlwaysForward` | of the requests under way one waits for nobody; each has at most 9 steps besides its Redis commands | any overlap, any failure |
| `SessionsAlwaysNameTheirUser`, `AlwaysChangesOwnRow` | `[]SessionsNameTheirUser`; `ChangesOwnRow` | a person's requests and the calls about a name do not overlap, commits succeed (in the formulas) |
| `AlwaysOldNameGone` | a committed change of user name leaves nobody a session for the old name | the same (in the formula) |
| `SitesProofs!SitesTypeCorrect` | `[]TypeOK` | |
| `OnlyAdminsAlwaysPost`, `AdminsAlwaysAppointed` | `[]OnlyAdminsPost`; `AdminsAppointed`: who makes a site of a project with `admin_posting`, or appoints an admin, is a superuser or is or has been an admin of the project | |
| `OwnersChange`, `AdminsPublish` | `ChangedByOwners`; `PublishedByAdmins`: by the same, or the creator or `auto_publish` | names that were not given again (in the formulas) |
| `OnlyPublishTrustsOldRights` | operations for admins are let in for who is in charge at that moment, but for `POST /admin/publish` | |
| `HiddenAlwaysNotFound`, `ListedAlwaysReadable` | `[]HiddenIsNotFound`; `[]ListedIsReadable` | |
| `ReportsProofs!ReportsTypeCorrect`, `NeverOrphans`, `AlwaysOwnWords`, `HiddenWithReason`, `ListedAlwaysReadable` | `[]TypeOK`; `[]NoOrphans`; `[]OwnWords`; `HiddenForAReason`; `[]ListedIsReadable` | |
| `HiddenMemoriesAlwaysNotFound` | a hidden memory answers others like one that never was, by either route | |
| `ShownByAdmins`, `IdsNameOneMemory` | what was hidden is shown by an admin's order only; an id never names a second memory | |
| `HidesWhatManyReported` | what many reported stays so, and each step of the watchdog leaves nothing of its table published that many reported | finitely many users |
| `ContentsProofs!ContentsTypeCorrect`, `ShownAlwaysServed`, `LeftoversAlwaysOfFailures`, `AlwaysReadableAsMade` | `[]TypeOK`; `[]ShownIsServed`; `[]LeftoversOfFailures`; `[]ReadableAsMade` | any failure at any statement |
| `LocksExclude`, `NeverLosesUpdates` | no row is held by two against each other, nor by a request that ended; a row locked for writing is changed by nobody else before the end of the transaction | any failure |
| `NamesMadeOnce` | a commit never makes a thing whose name is in use | any failure |
| `SomebodyMoves` | of the requests under way one can go on, or some are a deadlock that has a victim | finitely many requests |
| `AlwaysForward` | each step of a request lowers a bound on what it has left (13 at most), nothing raises it | |

Besides, each module assumes of its constants what it names in its `ASSUME`s: null values
are no members of their sort, subsets are subsets, bounds are numbers.

The arguments:

* *Sessions.* `Inv1` says of each worker what its program counter implies (the user of
  the call is known exactly while it runs, a drawn token was never stored), so
  `StoreSession` is the only step that makes a session and it uses a token not in
  `issued`: that is `NeverRevived`. `Culled`: a link that was stale at a login is in the set only
  while the cull is still to reach it, and nobody can draw its token again. `Inv2` adds, where calls about a user do not
  overlap, that a session is in its user's set or still to be
  purged, and that what a clear has promised is what it has left to do or had lost before, when commands raise. `Linked`
  alone is not inductive: `DropIndex` empties the set, and one must know that the reply
  still to be worked off had all of it. The refinement maps a clear to its first command: from
  then on its tokens count as closed (`Open`), so `ClearSessions` is `LogoutAll`,
  `StoreSession` is `Login`, a lapse or the DEL of a logout is `End`, every other
  command stutters.
* *Tokens.* `Ordered`: the counter's owner is `outlives[u]`, the tries made with that
  token and the tries left are together at most `Tries`, and a request under way
  holds no other token than this. The counter and the token are set by two commands, so the
  invariant names the worker in between. `Apart` adds that a used token is neither
  stored nor held, which is the induction for single use. With any overlap a newer token may be deleted by
  the use of an older one, and the counter be set after the newer token: neither invariant
  survives. What does is `HeldOK`, that a token is stored, read or being made for one user only, and
  `UsesOK`: who uses a token deletes it and lets go of it, so the uses and the
  requests that have already read it are together no more than the workers, and every use
  is a comparison of its own. The server has two processes (Dockerfile:23).
* *Login by email.* `Rows`: a row that is not committed yet clashes with no other, because the
  INSERT waited for the others and looked at the committed ones, so a commit never takes
  a user from another address. `KeptOK` follows the user of a mail from the check of the
  address on: its row is committed or its request still holds it. An exchange that
  comes before that commit finds the user not verified and waits with its UPDATE, and so
  `KeptOK` has the row at the session. `SpacedOK`: the requests for mail to an address that have
  found no rate limit key (`Going`) did so before any of them set it, so each is from a process of
  its own (`Apart`); between its rate limit and its mail nobody else enters, and so what has been
  mailed and what is past the check of the timeout (`Mailing`) are together no more than the
  processes. `MailsPerTimeout` alone is not inductive. Who is waited for has written its row and has
  only the mail or the session and the commit before it, so never all wait (`NeverAllWait`).
  `Rows` is also what the refinement of `UserTable` rests on: a commit is an `Insert`, any other
  step stutters.
* *Accounts.* The facts of `SessionManager` about one call (its `Inv1`) are cited for the instance.
  `TiesOK` is what its `Inv2` is there, name by name and for the names not in `raced`: one call at a
  time starts or clears sessions (`OneCall`), each session is in the set or about to be purged
  (`Found`), and what the next command of the call is to do fits the set (`Fits`).
  `MustOK`: the sessions that a request found stay on its user's name until they
  are gone, since only a request that has none yet starts one; `Past` is where a request has done
  its first clear of that name, command by command, and by `TiesOK` this took all of
  them. `NamesUnique`: the wait of the UPDATE keeps apart what is about to be committed, so
  a user name leads to one person. `OwnOK`: then the name that a request read on arrival is still
  its sender's at every later step, who is `Past` left no session for the old name, and a session
  for the new name exists only
  while the row that gets it is held by the request that started it. `Exclusive` adds emails and
  that a row has one writer at a time: a change checks before it writes and commits later, and
  it is `Blocked` that keeps two of them apart in between. So the
  commit of a change is a `Rename` or a `ChangeEmail` of `UserTable`, to a value that is free then
  and not only when it was checked. With `OwnOK`, and as a change that writes is to another
  name (`NewName`), its commit leaves no session for the old one.
* *Mailer.* `InOrder`: the deque holds the last positions of `accepted` in order, and the
  mail in hand is the one before. Hence `Settled` grows by one when a mail is dealt with,
  whether delivered, refused or lost with the thread. `LinkOpen`: with a sound server the thread
  sends on an open connection, so what it pops is delivered.
* *Sites.* `OrdersOK` says what the check of an order has established and no later step can
  take back (`CheckedProject`, `CheckedSite`): the user *was* in charge of the project, the
  name *was* in use, and the site that has the name now is the one that was checked, unless
  the name has been given again. `RightsOK` says that what sessions and tables grant was granted
  once. Together they carry a right from the check over an arbitrary number of
  other requests' steps to the write, which is all that the properties need.
* *Reports.* The same with `Checked`; here an id is never given again (`MemoriesOK`), so the
  author that the check of `modify` found is the author at the write. `ReportsStay`: only the
  step that removes a thing takes reports back. `HiddenRefused`: none
  of the statuses that an operation accepts holds of a hidden memory for a stranger, nor would one
  if privileges were left out of account (which is what the code makes a 403 of).
* *Readings.* `ListedIsReadable` follows from the types alone, by the cases of `Viewers`: an
  admin, an author, anybody for what is published. What needs care is that a flag of
  `Derived` stands for the column that the list's WHERE looks at.
* *Contents.* `Shape` and `Going` say of every plan that a request goes from `open` to
  `write` and from there never back. So (`FilesOK`) a request that has an image and is past
  `write` has its whole file, and its commit adds a row that has one; `NamesOK` says
  that things refer to committed rows and clients know names of such, so that no
  worker looks for a file before it is there. `ShownIsServed` alone is not inductive: one
  must know of the file before the name is shown. `TextsOK` (`drawn[x] \in texts[x]`) is what every
  create establishes (`MadeWithText`) and no other commit takes away.
* *Locks.* `LocksInv`: a request has the locks of the statements of its plan before the one it
  stands at, and asks for a row to itself only when nobody else has it. A PATCH shares the
  project's row first, so requests may wait in a circle; `SomebodyMoves` takes a smallest set
  of requests that all wait within it (well-founded on finite sets): that is what the
  database's detection calls a deadlock. `Left` counts what is left of a plan, two steps
  for the statement that locks two rows.

**Only model-checked.** Liveness: `CallsReturn`, `Handled`, `ReportedIsHidden`, `AllEnd`; and the
`ENABLED` parts of `Unstuck`. Both are beyond the prover. Their safety halves are proved: that
not all wait (`NeverAllWait`, `SomebodyMoves`), that every step is one towards the end
(`AlwaysForward`), that the watchdog hides what it should (`HidesWhatManyReported`). What is left
to TLC is that a step which nothing prevents is possible, and that fairness takes it.

## 6. Not modelled

* The list of projects with its dates, the profile of the caller, distances and the random
  image of a site: data of a SELECT that no writing operation depends on.
* Locations and dates: one more column in an UPDATE that is modelled. How a language header
  is read (`middleware/language.py:37-57`): a pure choice among the configured languages.
* In `Contents`: locks of rows of `users` and of gaps between keys, and the images of memories, which
  go through the same `handle`. A worker that dies is `Fail` of its requests and `Forget` of
  its cache.
* Moderators: rows that no code reads.
* Mailers other than the thread; templates; the name generator's word lists.
* Validation, error formatting, configuration, timing, logging, deployment, migrations.
* The pool of database connections and its timeout.

## 7. What could follow

1. Sliding lifetimes: `get_session` extends, then reads, against a clear or a lapse.
2. The list of projects, with the dates of a project, in `Sites`.
