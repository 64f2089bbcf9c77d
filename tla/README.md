# rekam in TLA+

rekam is a Go server that keeps *memories* -- small titled texts joined by
`[[wiki-links]]` -- in one SQLite file per person or team, with a registry
(one more SQLite file) of identities, teams, grants and sessions. Agents reach
it over MCP, browsers and other programs over HTTP. Several processes may serve
the same files when replication is configured: each file then has a write lease
in an S3 bucket.

This directory models the parts of rekam whose correctness depends on what runs
between what -- the pool of open files, a file's memories, links and history, the
write lease, the membership of teams over two databases, accounts and OAuth
consent, forwarded writes, message streams, rate limits, review cards and the
docs corpus -- and the reads, whose correctness is that of their algorithms.
TLC checks the models on small instances; TLAPS proves the main invariants for
every instance.

1. [The system](#the-system)
2. [The modules](#the-modules)
3. [The runs](#the-runs)
4. [The proofs](#the-proofs)
5. [What the code does otherwise than it says](#what-the-code-does-otherwise-than-it-says)
6. [What is not modelled](#what-is-not-modelled)
7. [The plan](#the-plan)

## The system

Paths are relative to `src/internal/` unless they say otherwise.

    HTTP handlers, MCP server          api/, mcp/
            |  one call each
    Engine                             engine/     resolves a credential, checks
            |                                      roles and scopes, sequences
            |                                      the transactions of a call
       +----+----------+
    Registry         Manager           db/registry.go, users.go, ...; db/manager.go
    one file         a handle per tenant file, leased to calls, reaped when idle
       |               |
       |            MemoryDB           db/memory.go, members.go, srs.go, ...
       |               |
       +---- Replication --------------db/replicate.go: one write lease per file,
                       |                the file shipped to and restored from S3
                    bucket

| component | state | operations | what makes it correct |
|---|---|---|---|
| Tenant handle manager, `db/manager.go` | per file: mutex, handle, reference count, last use; the set of files believed open | acquire and release a handle, evict the least recently used, reap idle ones, shut down | no leased handle is closed; counts are exact; the budget is overshot by no more than the requests in flight; nothing leaks and nobody waits for ever |
| Corpus, `db/memory.go`, `db/links.go`, the write calls of `engine/engine.go` | memories, revisions, tombstones, edges | write, update with an optional base version, restore, delete with or without force, rebuild edges | a complete history; deletion for good; no lost update; unique titles; edges that say what the contents say and keep their meaning |
| Write leases, `db/replicate.go` | per node and file: `tenantState` (remembered lease, `isPrimary`, last use); the lease object | activate, attempt a renewal or an acquisition, sweep, deactivate, close | one writer per file whose lease runs; the right is given up before it is taken; who is past his lease steps down; somebody gets it |
| Teams, `db/members.go`, `db/registry.go`, `engine/engine.go:820-1418` | `members` in the team's file, `teams`, `team_members`, `team_invites` in the registry | create, set and remove members, invite, accept, delete, set a plan | an Owner remains; the list agrees with the members; seats are passed by few; only Owners alter Owners |
| Accounts and sessions, `db/users.go`, `api/session.go`, `api/admin_handlers.go` | identities with confirmation and reset tokens, sessions | sign up, confirm, log in and out, forget, reset, make and delete accounts | only confirmed accounts are signed in; a spent token is dead |
| OAuth, `api/oauth_handlers.go`, `db/registry.go` | clients, tickets, codes, grants | register, authorize, choose a workspace, exchange a code, revoke | a ticket buys one code and a code one grant; what is granted was consented to; codes go where the client registered; a revoked grant is dead, and nothing else with it |
| Reads, `db/scope.go`, `graph.go`, `suggest.go`, the reading half of `memory.go` and `engine.go` | none | search, list, count, catalog, get, history, review deck, graph, edge health, suggest | the scope is respected whatever is written meanwhile; the answer is the one defined |
| Request forwarding, `api/forward.go` | none but the request in flight | replay a refused write at the lease's owner | one hop; the answer says what happened; there is an answer |
| MCP server, `mcp/server.go` | a table of streams, a channel each | open, post a message, answer, end | no handler waits for ever |
| Rate limits, `api/ratelimit.go` | a token bucket per address | spend, refill, sweep | no burst beyond the bucket |
| Spaced repetition, `db/srs.go` | a card per enrolled memory | enrol, remove, grade | the SM-2 schedule; no card out of nothing |
| Docs corpus, `docs/docs.go`, `api/public.go` | a corpus of its own | make it say what the files in the binary say, at every start | it does, whatever earlier starts left behind |

They meet in few places. An engine call takes a lease on a handle, checks the
caller's role in that file and the write lease of the file, and then runs one or
more transactions. `openDB` (`db/open.go`) allows one connection per file, so a
transaction, or a statement on its own, is atomic; everything between two of
them is not, and no lock spans two files. Background goroutines are the reaper of
the manager, one lease loop per active file, and the sweeper of Replication.

The hard behaviour is therefore: calls on one file interleaved between their
transactions; calls cut short between two files; handles and leases taken away
under a call; lost answers and crashes around the lease object; single-use tokens,
tickets and codes presented by several requests at once. `PROJECT.json`
lists each such hazard with its line and the properties that watch it.

## The modules

| module | models | lines it stands for |
|---|---|---|
| `HandleLease` | the promise of the manager: a handle with a lease is never closed | abstract |
| `TenantManager` | `db/manager.go`, implements `HandleLease` | the whole file, and `GetOrOpenMem` |
| `VersionedStore` | the promise of a corpus about one address: a history that only grows, then at most a deletion | abstract |
| `Corpus` | memories and their links; implements `VersionedStore` | the writing half of `db/memory.go`, `db/links.go`, the write calls of `engine.go` |
| `SingleWriter` | the promise of a write lease | abstract |
| `LeaseReplication` | the lease of one file; implements `SingleWriter` | `db/replicate.go`; the lease object is external |
| `Membership` | members, invites and teams over the two databases | `db/members.go`, the team tables of `db/registry.go`, `engine.go:820-1418` |
| `Accounts` | identities, sessions, confirmation and reset tokens | `db/users.go`, `api/session.go`, `api/admin_handlers.go`, the identities of `db/registry.go`, `bootstrapAdmin` |
| `Consent` | the OAuth flow, over `Accounts` | `api/oauth_handlers.go`, the clients, tickets, codes and grants of `db/registry.go`, `engine.go:1863-1913` |
| `Reads` | every read, statement by statement | `db/scope.go`, `db/graph.go`, `db/suggest.go`, the SELECTs of `db/memory.go`, the read calls of `engine.go`, their handlers |
| `Forwarding` | a write at a node that is not the primary | `api/forward.go`, the gates of `engine.go` |
| `McpSessions` | event streams and the messages posted to them | the SSE part of `mcp/server.go` |
| `RateLimit` | the token buckets | `api/ratelimit.go` |
| `Review` | review cards | `db/srs.go`, the review calls of `engine.go` |
| `DocsSync` | the docs corpus, over `Corpus` | `docs/docs.go`, its start in `main.go` |
| `MC...` | the instances of the runs | none |
| `...Proofs` | the theorems about each component | none |

A definition whose name ends in `_Something` beside one without (for example
`Closable_NoRefs` beside `Closable`) is a plausible wrong version of it, kept to
show that the property it is paired with in `PROJECT.json` notices the mistake.
`Spec` never uses it.

### TenantManager

`lock[p]`, `db[p]`, `refs[p]`, `age[p]` are `Instance.mu`, `.db`, `.refs` and the
time since `.lastUsed`; `open` is `Manager.open`. A request is a thread with a
program counter. Its steps end where another goroutine can see the difference:
taking or leaving the mutex of an Instance or of the Manager, or changing an
atomic counter. `Acquire` goes to the open handle (`AcquireOpen`) or leaves the
mutex to make room (`AcquireClosed`, `CheckBudget`, `CollectIdle`, `PickVictim`,
`Evict`, ...), takes it again, opens and registers. `ReleaseStamp` and
`ReleaseRef` are the two steps of a release, which takes no mutex. The reaper and
`Shutdown` share the steps of a sweep with different ages (`BgTTL`).
`BareDone` is `GetOrOpenMem`, which hands out a handle without a lease.

Time is the number of ticks since the last use, up to `MaxAge`. The file an
Instance opens, and what is in it, is elsewhere.

### Corpus

`mem`, `revs`, `tomb` and `edges` are the tables. A client calls `WriteMemory`,
`UpdateMemory`, `RestoreRevision`, `DeleteMemory` or `RebuildEdges`; a call of
several transactions is several steps (`FetchRevision` then `RestoreTx`,
`CountLinks` then `DeleteTx`), between which the others run. `seen` is what a
client has read before an update, and so the base version it may send.

A title is a name and a *form*: the ways it can be spelled so that SQL's
`lower(trim())`, Go's `ToLower(TrimSpace())` and `normalizeLink` agree or
disagree about it (`SqlKey`, `GoKey`, `LinkKey`). This is the only thing about
its characters the code's decisions depend on. A content is the set of links in
it; an edge is `Dangling`, or bound to an address.

### LeaseReplication

One file, because files share nothing but the sweeper. A `tenantState` is a model
value `<<node, number>>`: a node that deactivates and activates again has a new
one, while the attempt of the old one may still be under way. `phase` is its
life, `att` where its `attemptLease` is, `lease` the lease it remembers: only
whether the object is still the one it remembers matters, because the object is
changed by conditional puts alone (`current`, `stale`, `none`). Each call to the
bucket may fail before or after taking effect (`Put(s, answered)`,
`RenewFails`, `AcquireFails`). `Expire` is the passing of `ExpiresAt`. `Exit` is
a crash. The bucket is not part of the repository: it is modelled from how
`replicate.go` uses it.

Nothing in the code makes an attempt end before the lease it renews runs out, and
`RequirePrimary` does not look at `ExpiresAt`; so `Expire` may come at any moment. A
`tenantState` that *claims* the lease then (it is primary, or about to become so)
is `late` until its next attempt ends, whatever that brings. The properties
tell the two kinds of writers apart: `OnTime` is one whose lease runs, and of these
there is one; a late one goes on beside it, and steps down.

### Membership

`roster` is `members` in the team's own file and decides everything; `status`,
`creator`, `seats`, `index` and `invite` are the registry. A call is a record
with a program counter: resolve and check the caller (`SetMember`,
`RemoveMember`, `InviteMember`, `DeleteTeam`, `AcceptInvite`, `CreateTeam`), then
`ReadTarget`, `GuardLastOwner`, `CheckSeatLimit`, then the row in the file
(`PutMember`, `RemoveRow`), then the row in the registry (`IndexTeamMember`,
`UnindexTeamMember`, ...). Calls overlap freely, on one team and on one person.
`Abandon` ends a call between two steps: an error, or the end of the process.
Two errors end nothing: `SetMember` and `AcceptInvite` drop the error of reading
the target and go on as for a stranger (`engine.go:857`, `:1097`), and a look-up of
the team that fails lets a member in whatever the seats (`:1402`).

The code keeps nothing apart that overlaps, so little is true of a team without
exception. `marks` (history) remembers what happened to it and is excepted:

- `together`: two calls had counted the Owners and not yet written;
- `unguarded`: an Owner lost his role to a call that had not counted the Owners,
  since it had read another role, or none, or accepts an invite;
- `parted`: a call ended between its two databases, or a row was written while
  another call was between them with the same person (`Between`);
- `unseated`: a full team took a member because its row was not found.

Each is a step of the code and nothing wider; what is left of a team with other marks
is what each property says. `byOwner` and `sawOwner`
are what a call has learnt of the caller and of the target, each when it read it.

A team's status is `new` while its row is in the registry and its id has been
given to nobody. The membership check of `resolveTenant` and the second read of
`memberOf` are one step: the second decides, and only by what it reads.

### Accounts

`row[i]` is a row of `identities`, `session` the table of sessions. A handler is
a record with a program counter in `call`; its steps are its SQL statements. A
signup inserts the row and then stores the confirmation token
(`SetConfirmToken`); a login reads the password, then the confirmed flag, then
opens a session (`Login`, `IsConfirmed`, `CreateSession`); a forgotten password
draws a token and stores it; `ConfirmByToken` and `ResetPasswordByToken` select
the row by its token and update it by its id, in two steps. Between them other
handlers, `Delete`, expiries and a new process (`Migrate`, which runs the
backfill of `registry.go:296`) do as they please, and a handler may fail
(`Abandon`). `by` says who made a row and `redeemed` how often a token was spent.

A confirmation token is issued once per row and the row stands for it. Reset
tokens are values of their own, since a row may have several in turn.

### Consent

`Consent` extends `Accounts` with clients, tickets, codes, grants and `member`,
the membership of teams between calls of `Membership`. `flow` holds the requests:
`AuthorizeSubmit` (check the client's URI, then the password, then the confirmed
flag, then list the workspaces and store a ticket or go on), `Workspace` (take
the ticket, check the choice), both to `Recheck` and `StoreOAuthCode`; and
`TakeOAuthCode`, `ResolveOwner`, `AssertMemberOfTeam`, `MintDelegatedGrant`.
`MintGrant` is the older kind of grant with a hidden identity of its own.
`shown` remembers what the logins of confirmed users were offered, and a code and
a grant remember what they were bought with.

### Reads

`place` and `out` are the corpus as a reader sees it: where a memory or its
tombstone is, and its links. A reader makes one call (`HandleSearch`,
`HandleGraph`, ...) which is one to three `Statement`s; `Write` and `Delete` come
between them. A scope is prefixes whose contents may be read and prefixes whose
titles may be seen, and a read is as faithful to it as the code: `prefixMatch` in
Go, `clauseFor` in SQL, whose LIKE takes more (`Like`): which of the two a read asks
decides what it gives. `bodies`, `titles` and the rest of `answer` are what the
caller is told, `quotes` the memories whose links it tells of; `seen` (history) is
what it could have been shown at some moment of the read, in Go (`bodies`), in SQL
(`rows`), or as a title by either. The definitions the answers are compared with are
written without the algorithm: paths for the graph's walk, a count of a set for a
catalog.

Three things are told without regard to the scope, and are modelled so: the review
deck (`DueReviews`), the tombstone of a memory asked for by its id, and Search's
counts of the links to a row (`Backed`, `Superseded`), which also move it up or
down. `TopLimit` is the 15 at which `EdgeHealth` cuts its list.

### The services

`Forwarding`: a request is the handlers (`legs`) it has reached, each at the gate,
writing, or waiting for the node it forwarded to. `primary`, `owner` and `hint`
are what `LeaseReplication` shows of the lease; `LeaseMoves` and `Crash` change
them at any time. `McpSessions`: a stream, its channel and its entry in the
sessions map are separate, because `handleSSE` ends them one after the other while
handlers of messages go on. `RateLimit`: a request reads the clock (`ReadClock`)
before it waits for the mutex under which `Allow` runs, so the times of `Allow`
are not in order. `Review`: enrolling and grading are two steps each. `DocsSync`:
`Sync` is the transactions of `Corpus`, in the order of the code; the process may
die between any two and the next may be of another release.

## The runs

Each property of a passing run has a mutant under which TLC finds it violated.
All bounds are the CONSTANTs of the cfg.

| run | instance | states | shows |
|---|---|---|---|
| `handles_safety` | 3 files, 2 requests, budget 1 | 518,000 | no leased handle is closed, `refs` and the open map are exact, the overshoot of the budget is bounded, with the reaper and `Shutdown` at any moment |
| `handles_liveness` | 2 files, 2 requests, fairness | 119,000 | every handle nobody wants is closed, no mutex is kept for ever, and `HandleLease` is implemented |
| `corpus_links` | 1 client, 3 addresses, titles of 1 name in 4 spellings, contents with a link to it or none, 2 edits each | 1,563,000 | no title stands beside one that would be refused for it, edges mirror contents, links heal, links to the deleted keep their target, also where SQL and Go fold a title differently |
| `corpus_calls` | 2 clients (one confined to a branch), 1 address, 3 versions | 398,000 | a complete history, no lost update, deletion for good, `VersionedStore`, whatever two clients do between each other's transactions |
| `lease_primary` | 2 nodes, fairness, attempts that may hang past the lease | 254,000 | one writer at a time whose lease runs, the right given up before it is taken, a late writer steps down, and somebody gets the lease again |
| `members_safety` | 1 team, 2 calls that overlap, in three parts: roles of 3 people; 1 invite between 2 and the end of the team; 4 people and 2 seats | 513,000 | an Owner remains, the list agrees with the members person by person, seats are passed by fewer members than calls, and only Owners make, alter or remove Owners they see, wherever calls overlap, fail to read or are cut short, but for what `marks` names |
| `credentials` | 2 accounts and 2 handlers; or 2 consent requests of 1 client with 2 URIs, 1 team, 1 ticket, 2 codes, 2 grants around an account | 736,000 | sessions are of confirmed accounts, a spent token is dead, a ticket buys one code and a code one grant, of what was shown, to a registered URI; a revocation is exact |
| `reads` | every corpus of up to 3 rows on 3 branches, one under a name LIKE takes for another, with a link each, 4 scopes, 1 broken target listed, a write during a read of at most 2 rows | 1,781,000 | no read tells what its scope did not take, in Go or SQL as it asks, but for the three tellings above; the graph is the neighbourhood, catalogs add up, and reads of several statements agree with themselves when nothing is written |
| `services` | one at a time: 1 write over 3 nodes; 3 messages on a stream with room for 1; 2 peers with 2 requests waiting; 2 calls on 1 card; 4 releases of 2 documents | 267,000 | answers tell the truth and come; messages are answered; the limit holds; no card appears from nothing; the docs served are the files |
| `lease_idle` | 2 nodes | trace | a file in use is deactivated |
| `members_owner` | 2 people, 2 overlapping calls | trace | two calls leave a team without an Owner |
| `confirm_restart` | 2 accounts, 2 handlers | trace | a restart confirms an account that never followed its link |

Why the bounds are enough. *Handles*: three files and a budget of one make an
acquire evict one of two victims while the other request works on the third;
with two the victim is always the other's. A run with three threads and four
files, too long to keep, agrees. *Links*: three addresses are a source, a live
target and a rival for its title; the four spellings of one name are all the
ways in which SQL, Go and `normalizeLink` can agree or differ about it, and what
has another name is to none of them a rival; two versions are an edit and what
preceded it; base versions (`Read`) are left to `corpus_calls`. *Calls*: two
clients and three versions let a client read, be overtaken by an edit and a
restore, and write. *Lease*: the second node is the only rival the first can
see, since the object holds one owner; `ThreeStates` adds a deactivated
`tenantState` whose attempt is still under way, and is used in `lease_idle`.
*Members*: three people are the two Owners a guard counts and an Admin who
alters them; the fourth is the one by whom two calls pass two seats; teams share
nothing but the limit of teams a person may own. The three parts keep apart what
multiplies: in the first nobody is invited, everybody has an account and the
team stays; in the second only one call at a time is no acceptance; in the third
members are only added as Admins, or removed. And each behaviour goes on until a
second kind of event would be marked. *Credentials*: two accounts are the owner
of a token and a rival for its address; two handlers are two redeemers, or a
redeemer and whoever changes the account. The consent part has two requests, so
a ticket or a code can be presented twice at once, and two codes and grants, so
it can buy twice; its account exists already and may be confirmed or go.
*Reads*: three rows are a center, a bridge and what lies behind it; one of them
(`m1`) may lie under `other`, which LIKE takes for `work`; a scope gives
everything, one branch, a smaller one and the titles of the rest, or titles
alone; one place in the list of two broken targets cuts it. *Services*: a third
node lets a hint lead on instead of back; one place in the channel lets the
second message wait and the third come when the stream has ended; a window of
one and a wait of one let a stale request empty a bucket into the past, which a
sweep must not undo; a release may lose a document, turn their order round or
change a title's spelling. Its parts share no state, so one instance checks them
one at a time (`focus`); so do the two parts of `credentials`.

Symmetry is used in the safety runs only, over sets whose members no definition
tells apart.

Runs that set `CHECK_DEADLOCK FALSE` may really stop: a team is deleted and its
id and the invites are spent, all tokens and sessions have been used, the answer
is given, the clock is at its bound.

### Fairness

`TenantManager!FairSpec`: a goroutine that can run does. Steps that take a mutex
are strongly fair, because Go's mutexes are starvation free: a waiter is served
in the end. No request is ever made to arrive. `Shutdown` is left out: it stops
the reaper, and the process ends.

`LeaseReplication!FairSpec`: the clock runs; started attempts end; the ticker
goes on (weak fairness of the steps of one goroutine, which nothing disables for
ever but their own completion). `Acquire` with an answer is strongly fair: a call
that can succeed again and again is not lost every time. Crashes and
deactivations are not fair, and `LeaseReclaimed` is about a node that is spared
them for a while. `LateStepsDown` needs only that a started attempt ends, which
the S3 client's time limit sees to.

What is not promised: `enforceBudget` loops as long as it finds the budget
exhausted, and a thread that always loses its victim to a new acquire may do so
for ever (`manager.go:196`); no property says otherwise.

`ForwardFairness`: a handler goes on while its node is up, and a forward ends by
its ten seconds; nothing is assumed of the owner, the network or the lease.
`McpFairness`: a goroutine goes on when it can; a sender is served in its turn,
which is how Go's channels treat their waiters. A stream whose client neither
reads nor leaves is ended by TCP.

## The proofs

`tlapm` proves the following for all values of the constants that satisfy the
named ASSUMEs of the modules (finite sets, disjoint sentinels, numbers in `Nat`).

| theorem | statement |
|---|---|
| `TenantManagerProofs` `TypeCorrect`, `LeasesAreSafe`, `BookkeepingIsExact`, `OpenMapIsTrue`, `Implements` | types; no leased handle is closed; `refs` counts the leases; the open map agrees with the handles; `HandleLease` |
| `TenantManagerProofs` `OvershootIsBounded` | fewer handles are open than the budget and the number of threads together |
| `CorpusProofs` `TypeCorrect`, `HistoryIsKept`, `EdgesAreExact`, `DeletionIsFinal`, `TombstonesTellHistory`, `TombstonesKeepTheirLinks`, `Implements` | as named; `VersionedStore` |
| `CorpusProofs` `NoEditIsLost` | an edit with a base version replaces the text its writer read, for any number of clients |
| `CorpusProofs` `LinksResolve` | no two live titles are each refused for the other, and no link dangles that its query would resolve, for titles in every spelling |
| `LeaseReplicationProofs` `TypeCorrect`, `LeaseIsExclusive`, `Implements` | types; one writer at a time whose lease runs, however attempts hang; these writers implement `SingleWriter` |
| `MembershipProofs` `TypeCorrect`, `TeamKeepsOwner` | types; a listed team keeps an Owner, unless two calls passed the guard together or a call that never came to it took an Owner's role |
| `MembershipProofs` `ListIsRoster`, `OwnersAlterOwners` | the list agrees with the members but for people with whom a call is, was cut short or was crossed between the two; only calls and invites of Owners make Owners, and nobody else takes the role from an Owner he saw, unless from himself |
| `MembershipProofs` `SeatOvershootIsBounded` | a team passes the largest of its seat limits by fewer members than there are calls, unless its row was not found when it was full |
| `AccountsProofs` `TypeCorrect`, `SessionsAreConfirmed`, `SpentTokensAreDead` | types; a login or a confirmation opens sessions of confirmed accounts only; a reset token that set a password is on no row any more |
| `ConsentProofs` `ConsentTypeCorrect`, `TicketsAndCodesAreSpentOnce`, `CodesAndGrantsAreConsented`, `CodesLeaveForRegisteredUris`, `RevokingIsExact` | as named |
| `ConsentProofs` `AccountsStaySound` | the invariants of `Accounts` hold of it with `Consent`'s steps around it |
| `ReadsProofs` `ReadsStayInScope` | no read but the review deck tells of what its scope took at no moment of it, in Go or in SQL as the read asks, whatever LIKE takes and whatever is written between its statements |
| `ReadsProofs` `GraphIsNear` | the graph's walk finds the memories within the depth, for every corpus and depth, and draws no edge to others |
| `ReadsProofs` `CatalogIsWhole` | the entries of a catalog count each readable memory under its prefix once, and one that opens opens into as many, for every corpus, scope and prefix |
| `ReadsProofs` `QuietReadsAreOne` | a read of several statements that no write comes between agrees with itself: totals, pages, counts by relation and by target, the list of broken targets wherever it is cut, suggestions |
| `ServicesProofs` `ForwardTellsTheTruth` | applied at most once, and the answer says which, unless the answer to a forward was lost |
| `ServicesProofs` `DeckIsCoherent`, `NoCardReturns` | every card is of a live memory and coherent; cards come from enrolling and change by grades alone |
| `ServicesProofs` `RateTypeCorrect`, `LimitIsHeld` | types; *if buckets are kept for a window and twice the longest wait*, nobody gets more than a burst and burst per window |
| `ServicesProofs` `DocsAreTheBinarys` | *if titles have only the forms SQL and Go fold alike*, what is served is what the binary's files say, for every list of documents |

Two theorems have a condition, in italics, and need it. Of the rate limits, buckets
are kept for ten windows (`ratelimit.go:134`), which leaves a request more than four
to wait for a mutex; of the docs, the titles are those of the binary's own files, all of
them ASCII with single blanks.

**TenantManager.** `IInv` adds to the properties who holds which mutex at which
step (`MutexInv`) and that a thread between taking a reference and giving it
back, or just opening a file, sees it open (`LeaseInv`). The count needs no mutex:
`refs` changes together with the set of threads that hold a lease, and
`FiniteSetTheorems` turns that into arithmetic. The budget (`BudgetInv`) counts
what is open or listed together with the threads in `relock`, each of which may
open one handle more. A thread comes there in two ways: it has seen room, and what
is open without being listed then belongs to other threads about to list it; or it
has seen nothing idle, and then every handle listed is some other thread's lease.
Either way the other threads account for the whole excess, so it never adds up.

**Corpus.** All tables change by four kinds of steps: a row written with the
next version, a deletion, a rebuild, nothing (`StepKinds`). `TablesInv` holds
the shapes, the history, the edges and the tombstones together, for each leans
on the others: an edge's target exists because a deletion leaves a tombstone, a
tombstone counts versions because the history was complete. `LinksResolve` is
proved on top of it, for every spelling. Of two live titles the later one has
passed `HasTitleConflict` against the earlier, so not both keys can meet; and
what SQL folds, `normalizeLink` folds too (`SqlFoldsLess`), so that what heals
when a memory is written is no less than what the query of a link would find.
`NoEditIsLost` adds what a client knows (`SeenTells`): as long as the memory is
there, the version it read is not ahead, and if it is still the version then the
text is the one it read, since every change of a text is a new version and no id
comes back. Whatever happens in between, an update that names that version
therefore meets that text.

**LeaseReplication.** A `tenantState` *holds* the lease when it claims it and is not
late. `ClaimsBacked`: the object then names its node, has not expired, and nobody
else remembers a lease that still matches. No other conditional put and no deletion
can then succeed until the claim is given up or the lease runs out, which makes the
holder late; so two holders are one (`OnePerNode` for the two of one node). That
somebody late goes on as primary disturbs none of it: what it remembers does not
match the object, unless nobody has taken it.

**Membership.** `Guarded`: a call about to take an Owner's role has seen another
Owner, and what it saw still stands, because whatever could have changed it is
marked. `Unfounded`: a team without an Owner is otherwise one whose creator has not
been stored yet, and which nobody else can name. `InStep` speaks of one person at a
time: the two tables differ only where a call has written his row and is due to list
it, and every call between the two with him agrees on how. `Authorized` says of a
call past its checks what it had to be to pass them, and of an invite who sent it;
these are facts about the past, which no other call can undo.
`AllSeated` counts `Places`: the members and the targets of calls that are past their
checks. Once a team is there, a call makes a new place in two steps only. One is
`CheckSeatLimit`, where it has seen fewer members than seats; the other places are
then those of other calls, fewer than there are calls. The other is a read of a row,
which has its place already. No write makes a place that was not one (`Few`).

**Accounts.** A row only *ages* in one way: it is never made anew, a used
confirmation stays used, and a reset token it did not have is one just issued
(`RowAges`, proved of each statement). `TokensOnce` says where a token is: with one
handler on its way to one row, or on one row; once it has been redeemed it has
left both. `SpentTokensAreDead` follows although two redeemers may both be past
their SELECT: what each then writes clears the token. `Entered` says that a handler
about to open a session has read the flag of a row that is confirmed, and that no
statement takes the flag back.

**Consent.** `TicketsOnce` and `CodesOnce`: of a ticket that is gone at most one
request or code stems, because taking is one DELETE whose row count decides; the
same of a code and its grant. `ShownFor`: what a request, a ticket, a code or a
grant is for has been in `shown` since a login. `Apart`: a hidden identity has no
e-mail, so it never logs in and is in no other grant, which is what makes
deleting it with its grant harmless.

**Reads.** `RInv`: while a read is under way, what its scope shows has gone into
`seen`, and all that its statements have given it so far is in `seen` too.
Writes between statements only add to `seen`, and each statement gives what is
visible when it runs (`SelectsSeen`), so the invariant is one lemma for each
kind of statement. Whether a statement asks in Go or in SQL is kept apart
throughout, so nothing is assumed of LIKE but that it takes what `prefixMatch`
takes. The walk of `GraphIsNear` is a function on the numbers of hops, of which
there are at most four (`MaxGraphDepth`): it is unfolded hop by hop, and each
hop adds the ends of one more link of a path (`EgoGraphIsClose`). The catalog
and the counts are sums over sets of any size. Each sum is that of the sizes of
classes which part a set, and is shown to be the size of that set by the
smallest set for which it would not be: the library's `WFMin`, over strict
subsets of a finite set, takes the place of an induction. A list that is cut
short is part of the whole one, whose sum it cannot pass (`TopAddsUp`). `QInv`
then says that as long as nothing has been written, each result a read holds is
what its SELECT would give still, so that at the end all of them are about one
corpus.

**Forwarding.** A request has at most two legs, since what has been forwarded is not
forwarded again, and only the last writes (`LegsOK`): the first is waiting for it,
or has its answer, or has lost it, which is what `lost` says.

**Review.** A grade under way holds what it has read, which was a coherent card
(`DInv`) however the card has fared since, and its UPDATE writes where there is a
row. The schedule takes coherent cards to coherent ones, by the arithmetic of
`Stretched`.

**RateLimit.** Because time can go back, what a bucket holds *now* is no measure.
`RateInv` bounds what the observed peer has had, together with what its bucket
holds at the bucket's own time; a bucket that has been dropped would have been
full for every request still waiting (`SweptIsFull`), which is where ten windows
are needed. The arithmetic is that of one linear function, `Flow`.

**Docs.** `HalfWay`, of a boot that has come to its n-th document: every row was
listed at the start or is one of the documents done; a listed row has its old text
or that of its document; each document done has its row. It makes no assumption on
what earlier boots left, so it holds again after each crash. At the end the rows to
remove are those listed whose title is of no document, and the rest are the files.

**Only model-checked**: the liveness properties (`EveryRequestIsAnswered`,
`EveryMessageIsAnswered`, `MutexesAreReleased`, `UnwantedHandlesClose`,
`LeaseReclaimed`, `LateStepsDown`), which are beyond the prover, as is ENABLED.
No definition of these modules is a RECURSIVE operator.

## What the code does otherwise than it says

These have a run with a trace; `PROJECT.json` quotes the lines.

- **`lease_idle`**, `db/replicate.go:386`: only opening a handle resets the idle
  clock, so a file that stays open is deactivated while in use, and its writes
  fail until it is reopened. The registry is opened once.
- **`members_owner`**, `engine/engine.go:870`: `guardLastOwner` counts in one
  statement and the change is made in another.
- **`confirm_restart`**, `db/registry.go:333`: a process that dies between a
  signup's two statements leaves a row without a confirmation token, which the
  next start's backfill takes for an old one and confirms.

These were met while modelling and have no run in the present set. Where a
definition or a constant is named, TLC finds the behaviour when it is used; the
others were read from the source.

- `engine/engine.go:1701`: `GetOrOpenMem` releases the lease before it returns the
  handle (`manager.go:30` asks to hold it while using it). The step is `BareDone`;
  a user of the handle may find it closed by the reaper or an eviction.
- `db/replicate.go:336`: `RequirePrimary` does not compare `ExpiresAt` with the
  clock. A node whose renewal hangs past the lease goes on writing beside the new
  owner until the attempt ends (`late`); the S3 client's time limit equals the lease's.
- `db/memory.go:171`: the title check compares SQLite's `lower(trim(title))` with
  Go's `ToLower(TrimSpace())`. A stored title with a capital outside ASCII matches
  nothing, so it can be written twice, which `TitlesAreUnique` therefore does not
  deny; titles that differ in inner blanks are equal for links only.
- `db/memory.go:1402`: `RebuildEdges` drops all edges and with them the knowledge
  which links were bound to deleted memories; a later memory of the title gets them.
- `db/users.go:374`, `:337`: two requests that have both selected the row redeem
  one reset token twice, and the later password stands (`RedeemedOnce` in
  `Accounts` is violated; `spec/identity.md`, IDNT-13).
- `api/session.go:305`: a reset signs in an account that has never been confirmed,
  which login and authorize refuse.
- `main.go:822`: `bootstrapAdmin` announces a web login for the identity it adopts,
  but `SetCredentials` leaves it unconfirmed; the login is refused until the next
  start's backfill.
- `AcceptInvite` has no last-Owner guard: an Owner who accepts an older invite as
  a viewer demotes himself (`engine.go:1102`; the mark `unguarded`).
- `SetMember` and `AcceptInvite` drop the error of reading the target's row
  (`engine.go:857`, `:1097`). When that read fails, an Admin may overwrite an Owner,
  and the last Owner be demoted without the guard; the model does so too.
- `checkSeatLimit` lets the member in when the team's row cannot be read
  (`engine.go:1402`), which its comment admits: then nothing bounds the members.
- When calls overlap, the seat limit can be passed, by one member less than calls
  run together and no more (`SeatsOvershootBounded`). The limit of owned teams cannot:
  its count and insert are one statement. An Admin may also overwrite somebody
  who has just become an Owner, and calls that cross on one person may leave the
  list and the members different for good.
- A team whose member rows are all gone takes any caller for its Owner
  (`EffectiveMember`'s solo fallback).
- `RestoreRevision` checks the caller's scope on the memory's present branch, not
  on the branch the old revision puts it in (`engine.go:553`).
- `MemoryHistory` checks it on the present branch only as well (`engine.go:644`): a
  memory moved into a readable branch shows the revisions written before the move.
- Between `CountInboundLinks` and the deletion another client may add a link:
  an unforced deletion is then not refused. `CountLinks` and `DeleteTx` are two steps
  of `Corpus`, and no property says otherwise.
- A link to a title with two blanks between its words dangles when it is written
  after the title and heals when it is written before (`links.go:78`).
- SQL's LIKE in `clauseFor` takes `_` for any character and ignores case, where
  `prefixMatch` does neither, and `taxonomyRE` (`engine.go:1995`) allows both in a
  taxonomy: a scope of `w_rk` lists what is under `wark`, which `GetMemory` refuses.
- Search counts the links to a row, and whether it is superseded, over the links of
  every memory (`memory.go:914-921`), tells the caller and ranks by it, where the
  comment at `:934` says that what may not be read never shifts a rank.
- `EdgeHealth` quotes the broken links of memories whose titles alone may be seen, and
  so a part of their contents.
- `GetMemory` tells of the deletion of any id, whatever the scope; a graph may list an
  id both as a node and as a tombstone when it is deleted between its statements;
  `DueReviews` gives the contents of every card that is due, whatever the scope.
- A client may be told `not_primary` of a write that a forward has applied; the
  tool calls of MCP are never forwarded; an answer accepted with 202 is lost when
  the stream's client leaves.
- Two grades at the same time lose one of them (`srs.go:118`).
- A document whose title changes only in case stops `Sync` at every start, since
  the insert comes before the deletion and the title is taken (`docs.go:156`).
- `RebuildFTS` writes without asking for the lease (`engine.go:1774`).
- `Shutdown` skips handles that are leased and nothing closes them later
  (`manager.go:253`), `enforceBudget` may lose its victim for ever
  (`manager.go:196`), and main's deferred `Close` runs while requests are being
  drained (`main.go:329`).
- Concurrent writes pass the storage ceiling together (`engine.go:1309`).

## What is not modelled

Abstracted in the modules: formats, authors, time stamps and wording; the
full-text index; content sizes; the figures of the review deck; what a write
answers (conflicts, backlinks, the catalog in a refusal); scope grants inside a
team; renaming a team; the flags, names and memory paths of identities. Left out
with a reason in `PROJECT.json`: the file store, entitlements (nothing calls
them), the storage ceiling, export, metrics, email, the update check, the S3
wiring, the frontend, and of the HTTP and MCP front ends and the command line
what makes one call and keeps no state.

A write is not composed with its lease: `Corpus` assumes that the node may write,
`LeaseReplication` says who may, and `Forwarding` what the client is told when
the lease moves between the check and the write. What litestream does with a
demoted node's file, or with a path registered twice (`replicate.go:238`, `:423`),
is outside the repository.

`Membership` deletes no identity; `Consent` deletes identities but takes the roster
from `Membership` between its calls. What a deleted identity leaves behind in a
team (`engine.go:1992`) is therefore a hazard no property covers.

## The plan

Done, in this order: `TenantManager`, `Corpus`, `LeaseReplication`, `Membership`,
each with its abstract specification (where there is one), runs and proofs; then
`Accounts` and `Consent` with theirs, `Reads`, and the services. Every safety
property of a passing run has its proof.

Next, the most important first:

1. Identities that are deleted, in `Membership`: what becomes of their rows, invites and
   of a team whose last Owner goes; and the write lease of the two files beside its
   calls, whose checks (`engine.go:848`, `:887`) may come to differ.
2. The answers of writes, in `Reads`' terms: which memories a conflict, a refused
   deletion or a catalog in an error names to a caller with a scope.
3. Taxonomy templates and scope grants inside a team, in `Membership` and `Reads`.
