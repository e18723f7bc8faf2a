# TLA+ verification of the Bali property parser

The repository is a NestJS back end that crawls 23 real-estate sites into a
Postgres database, with a GraphQL interface for users, permissions, documents
and files around it, and a React table over the crawled properties.  This
directory holds TLA+ modules that model it, TLC configurations that check them
on small instances, and TLAPS proofs for every instance.  Paths below are
relative to the repository's root.

## 1. The system

| part | state | operations | talks to |
|---|---|---|---|
| crawl jobs (`src/parser/parser.service.ts`, `parser.controller.ts`) | none of its own: locals of the running promise | weekly cron `parseAll`, `POST /parse`, `POST /parse/:source`; no lock between them | source services |
| source services (`src/parser/services/*.service.ts`, 23) | locals: page, links, batch, rate, counters | `parse()`: list page, item pages one by one, `loadToDb`, next page | the sites (HTTP), `currency_rates`, `loadToDb` |
| `loadToDb` (`src/parser/parser.base.service.ts`) | tables `property`, `property_price` | look up known ids, `insertGraph` of the new ones, insert of prices for the known ones | Postgres, one connection per statement, no transaction |
| adverts (`checkIsValid`, `normalizeLocation`, `convertToUsd`, `parsePropertyTypeFromTitle`, each `parseItem`) | none | turn the fields of a page into a property | - |
| property mutation (`src/parser/property.resolver.ts`) | `property` | `updateProperty` | Postgres |
| currency (`src/currency`) | `currency_rates` | `GET /currency/update`: two requests, one insert | rate API |
| request context (`src/common/context.ts`, `base.service.ts`) | per service of a request: transaction, event buffer | `@Context` opens a transaction on a service that has none, flushes the buffer to the log database, commits | both databases |
| users, auth, cache (`src/user`, `src/auth`, `src/cache`) | `user`, Redis keys for recovery requests, phone codes, refresh tokens | create, update, recover and set a password, log in by password or phone code | Redis, e-mail, SMS |
| permissions, roles, documents, files, comments | their tables, an S3 bucket | create, update, remove; file upload, preview, resize | S3, converter |
| web (`web/src`) | a zustand store: rows, filters, aggregates | fetch with filters, update a row | GraphQL |

What makes it hard: jobs that overlap freely, read-then-write sequences across
awaits without a transaction, statements and requests that fail in the middle of a
page, sites that change between two pages, a process that dies mid-crawl, a
context that services of one request share or do not share, effects (mail, cache,
S3, the log database) that a rollback does not undo.  `PROJECT.json` lists each of
these hazards at its line, with the properties that watch it or the reason why
none does.

What makes each part correct:

* crawl jobs: every job ends; a failing source never keeps `parseAll` from the
  next one; a crawl that ended without an error loaded all that its loop is
  meant to reach, once.
* `loadToDb` and the tables: a price is stored once, belongs to a stored
  property of its own source and listing, and is never moved or lost; a listing
  gets a second row only for a known cause; a property has a price.
* currency: a crawl converts at one rate.
* request context: committed changes have their events, a failed call leaves
  nothing, a second call of a request does no harm.
* adverts: a stored row says what its page says, as far as the page is written
  in the way its reader expects, and does not go stale without a cause.
* users and auth: a recovery request or phone code works once, at most so many
  attempts, and only the newest.
* files: a row's object exists, and what nobody refers to has a cause.
* web: what is shown answers the filters that are set, and the rows that are
  edited.

## 2. Modules

| module | models |
|---|---|
| `Sources` | the crawl policy of each service, the dispatch of `parseInner`, the list of `parseAll` |
| `Crawl` | jobs, list and item loops, `loadToDb`, failures, crash, changing sites, new rates |
| `PriceHistory` | the abstract promise of the two tables: an append-only history of sightings per listing |
| `CrawlProps` | properties of `Crawl`, and the refinement of `PriceHistory` |
| `CrawlProofs` | the inductive invariant and the theorems |
| `PriceProofs` | one price per item, one rate per crawl, complete crawls, and the proof that `Crawl` implements `PriceHistory` |
| `MCCrawlRace`, `MCCrawlPolicies`, `MCCrawlSweep` | instances for TLC |
| `Methods` | every service method that is a field of the GraphQL schema, as the order of its statements, events and outer calls; which services have which injected |
| `Requests` | the `@Context` wrapper: transaction, event buffer, flush, commit, connection pool, failures, crash |
| `Ledger` | the abstract promise of the core and the log database: changes appear whole, after their events |
| `RequestProps` | properties of `Requests`, and the refinement of `Ledger` |
| `RequestProofs` | the inductive invariant, the theorems, the refinement proof |
| `MCRequestMethods`, `MCRequestPool` | instances for TLC |
| `Places` | the table of locations, of the parser and of the web filter, and `NormalizeLocation` |
| `Readers` | the ways a text of a page is read: numbers, prices, tenures, leases, and `checkIsValid` |
| `Adverts` | `parseItem` of each of the 23 services as a choice of readers, and the row it makes |
| `Listings` | the life of one advert and its row: edits, crawls, manual updates, years, rates |
| `ListingProps`, `MCListings` | properties of `Listings`, and the style the pages of each source are written in (`InStyle`); every source with its pages, for TLC |
| `ListingProofs` | what each reader makes of a text and each service of a page, the inductive invariant of a row, the theorems |
| `Accounts` | recovery requests, call by call of the cache, the mail service and the database |
| `Codes` | the login by phone, call by call of the cache and the SMS service |
| `Files` | bucket, table, previews, cached resizes, call by call |
| `AccountProofs`, `CodeProofs`, `FileProofs` | the inductive invariants and the theorems of the three |
| `MCAccounts`, `MCCodes`, `MCFiles` | instances for TLC |
| `PropertyTable`, `MCTable` | the web page: store, drawer, slider, form, requests; an instance for TLC |
| `TableProofs` | the inductive invariant of the page and its theorems |

`Crawl` and `Requests` share no state but Postgres, and no table: the crawler
writes `property`, `property_price` and `currency_rates` without the request
context, on a connection per statement.  `Crawl` says which rows there are and
when; `Listings` says what one of them holds, with a crawl of its page as one
step.  `Requests` runs any method of the users, files and log-ins as a sequence
of anonymous steps, under the transaction; `Accounts`, `Codes` and `Files` give
those steps their data, and take from `Requests` that a failing call leaves
nothing in Postgres and that whatever it did elsewhere stays.

### Crawl

The 23 services repeat one skeleton by hand.  `Sources` writes down what
differs: number of lists, one batch per page or one batch in all, a front page
apart, the test that ends a list, whether empty pages are retried, whether a
failing list or item request ends, skips or throws, whether links are
deduplicated, and whether an item needs the currency rate.  `Crawl` runs any
such policy.

A step is what the event loop runs between two awaits: one answered or failed
request or statement with the synchronous code behind it.  The control point
`pc[j]` of a job follows the code: `next` (the `for` of `parseAll`, or the call
from `parseInner`), `list`, `item`, then the statements of `loadToDb`: `read`,
`insert` (properties of `insertGraph`), `firstPrices` (its relation `prices`),
`append` (prices of known listings).

Data is reduced to what the properties tell apart.  An item page is the text it
gives as external id; `Stored` maps it to the text the table keeps, because
`BaseModel.$formatDatabaseJson` trims every string on its way to the database
while the lookup of `loadToDb` compares it as scraped.  A row is named by the
insert it came by and its place in it, a price carries the crawl, page and
position it was seen at and the number of the rate it was converted with.  Which
of several rows of one external id ends up in `existedRowsMap` is open, as the
query has no order.  `clean`, `complete`, `torn` and the field `readAt` of a row
are history variables: no guard reads them.

Faults: any request may fail, or be answered with a page that makes the loop throw
outside its `try` (`ListError`, `ItemError`, `SkipItem`), any statement may fail
(`DbError`), the process may die (`Crash`), a site may change its lists
(`ChangeSite`).  An item that makes `parseItem` throw is an `ItemError`; a missing
rate makes `currentRate.amount` throw.

### Requests

Services live as long as a GraphQL request (`Scope.REQUEST`), and each has a
context of its own (`holder`).  A `@Context` call that finds none on its service
(`context.ts:18`) opens a transaction and leaves its context there and, one after
the other, on the services injected into it that have none (`setupContext`,
`base.service.ts:55`), where it stays: nothing takes it off.  A later field of
one of these services therefore runs on that transaction, whether it is still open
or not; a field of any other service opens its own.  `Reach` says which services a
service hands its context to: `AuthService` to `UserService`, `DocumentService` to
`DocumentTemplateService`.  A log-in looks its user up through `UserService`, on
whatever context that has by then (`Lender`).  Only the call that opened a
transaction flushes the event buffer and ends the transaction.

| action | code |
|---|---|
| `Invoke` | the wrapper up to its first await (`context.ts:17-36`); fields of a mutation wait for the ones before them (`Before`), those of a query do not |
| `Open`, `OpenFails` | a connection from the pool and `BEGIN`, or the acquire timeout (`database.module.ts:35`); `setupContext` keeps a context that is there by now, on each service |
| `Statement`, `StatementFails`, `Refused` | a query on `this.ctx.trx`; a failing one aborts the transaction in Postgres; on a transaction that is over knex refuses it |
| `Emit`, `Other`, `Throws`, `Return` | the rest of the method |
| `Flush`, `TooLarge`, `LogInsert`, `LogFails` | `BaseService.flush`: the buffer is emptied first, then sizes are checked, then the events are inserted through the log connection |
| `Commit`, `CommitFails` | the end of `transaction(...)`: `COMMIT`, which Postgres turns into a rollback behind a failed statement |
| `Crash` | the process dies; Postgres rolls back what was open |

A failing insert of events and a failing `COMMIT` may each have happened all the
same with only their answer lost (`LogFails`, `CommitFails`).  An effect is the
pair of a call and the position of its step, so that each write and event is
known by where it came from.  `Methods` holds one set of paths per method,
written from the method's awaits in their order; branches that only depend on
data (a changed e-mail, a stored device) are alternatives.  A method may throw
at any point (`Throws`), which stands for every check and missing row.  In the
test configuration (`isTest`) events are not stored at all; the model is of the
other configurations.

### Places, Readers, Adverts, Listings

A page is a record of texts.  A text is the class that decides what a reader
makes of it and the number it shows: a size is plain digits, digits with a unit,
grouped, with a decimal point, words or absent; a lease is a number of years, a
year, a date or words, begins with the number or not, and may have another number
before it; a tenure says one word, both or neither, and may have "lease" in it by the
way, as "please" and "release" do.  A reader is a
function from classes to what comes out: the number, none, the empty text, NaN,
the text itself, a wrong number, an exception.  `parsePrice`, `parseNumeric` and
`parseSquare` (`src/helpers/common.helper.ts`) are such functions; what a
service does beyond them is an `EXCEPT` of one.

`Adverts` gives each service its record: which reader for the tenure, the lease,
both prices and both sizes, what `priceUsd` falls back on, which absent parts
make `parseItem` throw, whether the land is given in ares, which are stored as square
metres, and the slips the code has (the building's size read from
the land's text, bedrooms from the bathrooms' number).  `ReadItem` is the rest of
every `parseItem`, ending in `checkIsValid`; `Fits` says whether Postgres takes
the row, by the column types of the migrations.

`Listings` has one advert and its row.

| action | code |
|---|---|
| `CrawlStores` | `parseItem`, then `loadToDb` of a listing it does not know |
| `CrawlPrices` | the same of a known listing: only a price is inserted |
| `CrawlFails` | `parseItem` throws, or an insert does; `parseAll` logs it |
| `CrawlSkips` | `parseItem` returns `undefined` (`exotiqproperty`) |
| `Update` | `ParserService.update`: a patch with the input as it comes |
| `Edit`, `NewYear`, `NewRate` | the site, the calendar, the currency update |

`first` and `last` are history: what the crawl that stored the row, and the last
one that added a price, have met.

### Accounts, Codes, Files

Each models calls that overlap freely, one call of Redis, S3, the mail or SMS
service or the database per action, and `Fails(p)` at every point between two
of them, which also stands for a process that dies there.

* `Accounts`: a hash `{requestId, attempts}` per e-mail.  `GetFields` and `Count`
  are the two halves of `checkRecoveryHashInner`; the second decides by what the
  first has seen.  `Create` works on the e-mail in lower case up to the insert,
  which takes it as typed: `lower` is a constant, so that two writings of one
  address occur.  `Insert` and `Patch` wait for other writers of the row, as
  Postgres makes them.
* `Codes`: one phone; a call reads the whole record, decides, and writes the whole
  record.  `Resend` and `Lifetime` are the 60 seconds and 5 minutes, in units of
  `Tick`.
* `Files`: `PutObject`, then `Write`, then `Commit`, for an upload and for the
  preview that is made when a file is first looked at; `SetResized` and
  `SetExpiration` are the two calls of `getResize`.

The field `past` is history, which no guard reads.  It holds what the properties
need to say "unless": the hashes or records that changed between a call's read
and its write (`raced`), ids or keys that two calls had at once (`reused`,
`crossed`), what failed at which point (`failed`, `lost`, `unexpired`).  The
properties of these modules hold for everything else, and the mutants show that
these exceptions do not swallow a plain mistake.

### PropertyTable

The browser runs one handler at a time.  An action is a handler (a setter of the
store, `handleSelectGroup`, `handleApply`, `handleReset`, the slider's change and
blur, the form's `handleApply`) or an event of a request: `ServeFetch` and
`ServeUpdate` are the server's, `ReceiveFetch` and `ReceiveUpdate` the
continuation after the `await`, `Fails` the exception.  An update whose handler
has thrown may still be on its way to the server (`GivesUp`), which runs it at any
later time (`ServeLate`).  Requests are served and answered in any order.  `chips`
is the drawer's `selectedOptions`, a copy of the store's locations that it keeps
by itself.  `stats` is `maxValues` and `average`, which the slider and the
toolbar's figures are made of; averages are integers, and 0 stands for the
undefined average of no rows.

## 3. Runs

| run | instance | shows |
|---|---|---|
| `race` | two jobs on one source; a padded id, an item twice on a page; 2 rates; up to 3 pages | `TypeOK`, `DuplicateHasCause`, `PriceOnItsProperty`, `PricedUnlessTorn`, `OnePricePerItem`, `OneRatePerCrawl`, refinement `ImplementsHistory` |
| `policies` | each of the 23 services alone, sites of up to 5 items per list | `CompleteCrawlLoadedAll`, `JobsEnd` |
| `sweep` | `parseAll` over three sources with different policies, one site change | `CompleteCrawlLoadedAll`, `SweepReachesAll` |
| `methods` | a mutation with two fields, for every pair of paths of its methods, and so of one service, of two that share a context and of two that do not; one connection; 264 thousand states | `TypeOK`, `ChangesAreAudited`, `OkMeansDone`, `OneChangePerContext`, refinement `ImplementsLedger` |
| `pool` | a mutation with two fields and a query with two parallel fields on two connections | `NoLeakedConnection`, `CallsAnswered` |
| `listings` | each of the 23 sources, pages in its own style, every deviation of one part and the main ones of tenure and lease together; 2 crawls, 1 edit, 1 update, 2 years, 2 rates; 1.2 million states | `TypeOK`, `TenureReadRight`, `ExpiryReadRight`, `FiguresReadRight`, `StaleHasCause`, `HouseStyleIsListed` |
| `accounts` | 3 calls at once, 6 in all, 2 requests, 2 writings of one address, 2 attempts; 720 thousand states | `TypeOK`, `AttemptsKept`, `PasswordChangesOnce`, `UnspentRequestKept` |
| `codes` | 3 calls at once, 6 in all, 3 codes, 2 wrong answers, 4 moments; 530 thousand states | `AnswersCounted`, `NewestCodeKept`, `MessagesSpaced` |
| `files` | 3 calls at once, 6 in all, 4 keys; 36 thousand states | `RowsHaveObjects`, `LeftoversExplained`, `EntriesExpire` |
| `table` | 3 rows, 2 locations of a group, 2 changes, 3 requests; 543 thousand states | `TypeOK`, `HeadingMatchesRows`, `EditsShown`, `LocationsAsShown` |
| `price_range` | the same with a price that lies in the range | violates `PriceRangeRead` |
| `yearly_price` | the same rows as `table` | violates `YearlyPriceRead` |

Bounds.  `PageSize` is 2 (the code's pages hold ten or so), `EmptyRetries` 1
(15 in the code), so that five items already make two full pages and a short
one, and the counter passes its limit.  `MaxPage` is larger than any page these
sites lead to, except in `race`, where two pages are all a site has.  Two jobs
suffice for the race of `loadToDb`: `DuplicateHasCause` and
`PriceOnItsProperty` speak of two rows, and of one price and its row, and are
proved for any number of jobs.  `MaxSite` and `MaxRate` bound the changes of a
site and the currency updates.  For `Requests`, two fields meet in every order a
document has them, a mutation's in series and a query's in parallel; two
connections for up to three transactions make one wait.  That more documents,
calls or connections change nothing is what `RequestProofs` proves.

`Listings`: the properties relate the row to the crawl that stored it and to the
last one, so two crawls with an edit, a new year and a new rate between them, and
one manual update, are all that they can tell apart; no bound touches the pages,
of which every class of every text occurs with every source.  Two parts that
deviate together are left out except tenure and lease, the only ones that
`parseItem` reads into each other: it does so by asking whether the tenure came
out as leasehold, so that every tenure meets a term and a year, and every lease
both tenures.  Where the years are searched in a description, another number
stands before them, of one digit or of two; where the tenure is (`fazwaz`), the
description has "lease" in it besides.  A page of `fazwaz` that shows a lease has
that word, since both come from one text (`Coherent`).  Figures are small (800 in
rupiah, rates 2 and 4), since only their equality, their quotient and the limit
9999 of a year matter.  `Accounts`: a race has a call that reads, one that writes
in between and the one the property is about, which are the three calls at once;
two attempts leave one to be counted and one that deletes.  `Codes`: the lifetime
is two resend windows, so that a code can be old enough to be replaced and still
valid.  `Files`: two files with a preview each, or one that two calls
convert.  Processes, ids, codes and keys are interchangeable in these three
(nothing compares them, no property names one), which makes the symmetry sound;
the runs check no liveness.  `PropertyTable`: three requests make a fetch overtake
another, or an update meet a fetch; two changes are a filter and its range, or the
two fields of a form.

`TypeOK` of `Codes` and of `Files` is proved and not run.

Deadlock checking is off: when every job has ended, the system really rests
until the next request.

Fairness.  Weak fairness of `Step(j)` says that a running job goes on: each
request is answered or fails, each statement ends.  Node's event loop resumes
every settled promise; that promises settle is assumed, since axios is called
without a timeout.  Starting a job, crashes, site changes and currency updates
have no fairness.  In `Requests`, weak fairness of `Step(c)` says the same of a
call: its statements and outer calls settle, and waiting for a connection ends,
with one or with knex's acquire timeout of 30 s.  Invoking a call and crashes
have no fairness.  The other modules state safety only and assume none.

What the runs show is sometimes less than one would like; the properties say
exactly what holds:

* Two rows for one listing do occur.  `DuplicateHasCause` leaves three ways:
  the item twice in one batch, a lookup older than the other row's insert, an id
  the table trims.
* A property without a price occurs when `insertGraph` is torn between its two
  statements (`PricedUnlessTorn`).
* For `balicoconutliving` complete means what its loop reaches: pages with less
  than a full page of links end a list unread, and the second list starts at the
  page where the first one ended (`Reached`).
* A mutation is one transaction per context, not per document.  A second field of
  the same service, or of one injected into it, is refused or left without effect:
  `OneChangePerContext` says that it cannot change anything, `OkMeansDone` that it
  cannot report success without having done what it is for.  A second field of
  another service commits by itself, so that {`createDocument`, `uploadFile`} keeps
  the document when the upload fails, {`createDocumentTemplate`, `createDocument`}
  keeps both, and {`createDocument`, `createDocumentTemplate`} the document
  alone.  The log may hold events of a change that was rolled back (`Ledger` lets
  the trail run ahead), never the other way round.
* A tenure is stored as its opposite, or a wrong year as the end of a lease, for
  the texts that `TenureMisread` and `LeaseMisread` list source by source: among
  them a freehold of `fazwaz` whose description has "please" or "release" in it,
  and a number of two digits before the years of a description; the bedrooms of
  `baliexception`, the building of `balimoves` and three pools are not what the
  page says (`FiguresReadRight`).
* Some adverts never become valid rows however they are written (`NeverListed`):
  leasehold of the three services that read no year, prices in rupiah of
  `balirealty`, freehold of `balitreasureproperties`, freehold of `fazwaz` with
  "please" in its description, which becomes a leasehold without years.
* A row keeps the price and the validity of its first crawl, and a manual update
  does not check its validity again (`StaleHasCause`).
* A check of a recovery request that another call's write has crossed can lift the
  counter past the limit, which it is then never equal to, or leave a hash with
  a count and no request; an update can delete a request newer than the one it
  was made with; two updates at once set two passwords by one link.
* Two wrong answers at once are counted as one; a code that was sent and failed to
  be stored is never accepted.
* Objects of failed calls and of crossing conversions stay in the bucket, and a
  resized image whose expiry failed to be set is answered from for good.
* Once an older answer has come after a newer one, the table shows other rows than
  its heading says (`HeadingMatchesRows`); an edit that a fetch has crossed may be
  shown undone, and one that was given up on may be carried out later and not be
  shown at all (`EditsShown`); Reset leaves the locations of the drawer chosen
  (`LocationsAsShown`).

Two runs end in a violation and are listed as findings.  `price_range`: the query
asks for prices at most the lower thumb and at least the upper one, so a range
selects nothing.  `yearly_price`: `a || 0 / b / c * 100` divides the 0, so the
figure per are and year is the average price of a whole property.

## 4. Proofs

`CrawlProofs` proves for any jobs, sources, policies, listings, page size and
bounds that satisfy `CrawlAssumption`:

| theorem | property |
|---|---|
| `TypeCorrect` | `TypeOK` |
| `DuplicatesHaveACause` | `DuplicateHasCause` |
| `PricesOnTheirProperty` | `PriceOnItsProperty` |
| `UnpricedAreTorn` | `PricedUnlessTorn` |

The inductive invariant `IInv` adds to `TypeOK` what a job knows in the middle
of `loadToDb`:

* `JobInv`: a working job has a source, its positions point into its links, its
  lookup is not from the future;
* `RowInv`: rows are older than the clock and looked up before they were born;
* `KnownInv`: the rows of `existedRowsMap` are stored rows of the job's source;
* `CoverInv`: before the insert, a row of the batch that the map misses is
  younger than the lookup.  This is what makes a duplicate point at a stale
  lookup: without it nothing relates a job's map to the rows of another job;
* `FreshInv`: the rows a job is about to price are stored, with its source and
  the links of its batch.

Each property is then preserved by every step under `IInv` (`RowsStep` and
`PricesStep` single out the few actions that touch a table) and PTL combines the
steps.  The only assumptions are those of `CrawlAssumption`: policies are
well-formed and trimming is idempotent.

`PriceProofs` goes on from there, with `PlansAssumption` (the list of `parseAll`
names no source twice) and, for the last theorem, `PoliciesAssumption` (what the
end of a list means under a policy) as well; TLC evaluates the latter for the
policies of all 23 services.

| theorem | property |
|---|---|
| `OnePriceEach` | `OnePricePerItem` |
| `OneRateEach` | `OneRatePerCrawl` |
| `HistoryRefined` | `ImplementsHistory` |
| `CompleteCrawls` | `CompleteCrawlLoadedAll` |

The first two properties speak of prices that were stored long ago, so `PriceInv` says
where a job's prices can still be of a source that is not behind it (`AheadInv`):
only of the crawl that runs, at the rate it has read, and of an earlier page or,
between `firstPrices` and `append`, of an item of this page that got a new row.
`append` takes only the items that have no new row, so it repeats none of them.
That a source is crawled once by a job is `LeftOnce`; `RidOnce`, `KnownOnce` and
`FreshOnce` say that a row, a known row and a new row stand for one listing.  The
refinement rests on `RidOnce` and on `PriceOnItsProperty`: a price is filed under
the listing of its row (`FiledByKey`), so what a step adds to the table is added
to the histories and nothing there moves (`NewSighting`, `HistoryStep`).

`CompleteCrawls` compares what a crawl has loaded with what its loop is meant to
reach (`Reached`), for any site and any policy.  Nothing of this is known in the
middle of a crawl, so `WholeInv` says for each control point what is behind a job
whose crawl is clean and whose site still shows what it did at the start: the
links in hand are those of the page, and what is left to fetch with what is
fetched already is what the loop has chosen of them (`LinksInv`); where short
pages end a list, which pages it can be at (`PageInv`); that a counted empty page
really is one, and all that come after it are (`MissInv`); that every item on the
lists and pages passed has its price, and every price is of an item of these lists
(`HeldInv`); and in the middle of `loadToDb`, that the new rows of the page are
there or have theirs already (`NewInv`).  `Whole` keeps it true of a crawl that has
ended: its job does not come back to the source (`Ahead`).

### Requests

`RequestProofs` proves for any documents, services, injections, calls, methods,
order of calls and pool size that satisfy `RequestsAssumption`:

| theorem | statement |
|---|---|
| `RequestTypes` | `TypeOK` |
| `AuditTrail` | `ChangesAreAudited` |
| `SuccessIsHonest` | `OkMeansDone` |
| `OneChange` | `OneChangePerContext` |
| `ConnectionsReturn` | `NoLeakedConnection` |
| `LedgerRefined` | `Spec => ImplementsLedger`: every step is a step of `Ledger` or a stutter |

`RequestsAssumption` says that two calls of a document are ordered or are both
free of writes and events (mutations run in series, only queries in parallel),
that a method with an event also has a statement, that what is injected is
injected all the way down, and that only a service that has the users' injected
looks users up.  Without the first, two writers would share one buffer and one
transaction; without the second, a call on a finished transaction could succeed
with its event lost; without the last, it might look one up where there is no
context.

The inductive invariant says what each control point knows: which transactions are
alive (`TrxInv`), that a running call is behind those it waited for (`OrderInv`),
whose context a service has (`HolderInv`) and that a call with a context of its
own is of no service that an earlier one has handed its context to (`OwnInv`),
that only queries run beside or outside the context's transaction (`QueryInv`),
that a transaction holds exactly the writes done so far and the buffer exactly the
events (`PendingInv`, `BufferInv`), that they are stored before the commit
(`LogInv`), that a writer on a foreign transaction gets no statement through
(`RefusedInv`), and that only the context's own call ever commits writes
(`CommitInv`).  The lemma `Parallel` turns the order of the calls into the fact
all of this rests on: if two calls of a document are under way, neither
writes.  `Context` and `Lent` say whose transaction a call and its lookups run on,
`ContextStays` that all of this is so after every step that hands out no context,
and `FlushedBuffer` that the buffers are right after a flush.  `ThrowStep` treats
the seven ways to fail at once, `AdvanceStep` the steps of a method; then there is
one lemma per action, with one step per conjunct.

### Accounts, Codes, Files

These hold for any number of calls, addresses, ids, codes and keys, any limits,
and any way to lower an address; the assumptions are that the value for "none" is
no id and that the limit of attempts is positive.

| theorem | property |
|---|---|
| `AccountTypes`, `AttemptsBounded`, `OneChangePerRequest`, `NewestRequestKept` | `TypeOK`, `AttemptsKept`, `PasswordChangesOnce`, `UnspentRequestKept` |
| `CodeTypes`, `AnswersLimited`, `LastCodeCounts`, `MessagesAreSpaced` | `TypeOK`, `AnswersCounted`, `NewestCodeKept`, `MessagesSpaced` of `Codes` |
| `FileTypes`, `RowsAreBacked`, `NothingElseIsLeft`, `CacheIsBounded` | `TypeOK`, `RowsHaveObjects`, `LeftoversExplained`, `EntriesExpire` |

`AccountProofs`.  None of the three properties is inductive.  A check decides by
a copy, so `SeenInv` says that the copy is still the hash where nothing has raced.
That a link sets one password needs to know where a used request can still be:
in no hash and in no other update (`UsedInv`), which rests on an id being in one
pair of hands (`OneUpdateInv`).  That no newer request is deleted by an older
update needs that whoever works on an address has read its newest request unless
that one was made meanwhile (`CrossInv`), which rests on each request being kept
under one address only (`HomeInv`).  There is one lemma per action, with a step per
conjunct; the check's second half, which nearly every conjunct depends on, has
two lemmas of its own.

`CodeProofs`.  A sender's record is new and nobody else has its code
(`SenderInv`, `NewCodeInv`); a reader's copy is the record where nothing has raced
(`ReaderInv`); whether two messages are far enough apart is first stated of
those codes that are neither used nor lost (`SpacingInv`).

`FileProofs`.  `KeyInv` says where the key of a running call is: its own, in the
bucket once it is put, in no row; and that a row it is to patch is there and no
image.  `CrossInv` says that two calls that convert one file, or one that
converts a file with a preview by now, are known to have crossed.

### The web page

`TableProofs` proves, for any rows, columns, options, places, prices and number of
requests that satisfy `TableAssumption`:

| theorem | property |
|---|---|
| `HeadingTrue` | `HeadingMatchesRows` |
| `EditsReachTable` | `EditsShown` |
| `ChipsMatch` | `LocationsAsShown` |
| `TableTypes` | `TypeOK` |

Requests are numbered in the order they are sent (`NumberInv`).  `FetchInv` follows
the newest fetch: while it is under way it asks for the filters as they are, and
once it is answered they are those of the rows, until an older answer comes.
`EditInv` follows a row whose edits have met nothing: no fetch is under way beside
its update, and what every answer and the table have of it is what the server
has.  For a row that was crossed once to be settled again, the table must have
been fetched alone; that such a fetch brings the rows as they are is `AloneInv`.
An update that was given up on and runs late is still one that is under way, so no
fetch is alone beside it.
`ShapeInv` is the part of the types that the steps need.  There is one lemma per
group of handlers; sending and receiving, which nearly every conjunct depends
on, have lemmas of their own.

`TableTypes` (`TypeOK`) needs the types of everything an answer can bring, also
while it is under way: rows as they are stored (`StoreTypes`), the fields of the
form and their drafts (`FormTypes`), the requests with what they ask for and what
they answer (`FlightTypes`).  That the slider's end is a number rests on the maximum
of the rows' prices being one of them (`MaxExists`): among the finite sets without
a greatest member a least one would have no member, by the minimum principle of
well-founded relations that the library has proved (`WFMin`).

### Adverts and rows

`ListingProofs` proves, for all 23 services, any pages made of the texts that
`Readers` describes, any figures, rates and years of this century, any edits and
any updates that satisfy `ListingAssumption`, `PagesAssumption` and
`InputsAssumption`:

| theorem | property |
|---|---|
| `ListingTypes` | `TypeOK` |
| `RightTenures` | `TenureReadRight` |
| `RightExpiries` | `ExpiryReadRight` |
| `RightFigures` | `FiguresReadRight` |
| `StaleRowsExplained` | `StaleHasCause` |
| `HouseStyleListed` | `HouseStyleIsListed` |

Where TLC has one price, one term and one rate, the theorems have every one: that a
lease of any number of years ends in the year its text says, that any price is
divided by the rate of its crawl and no other, that any land given in ares is
stored as a hundred times as many square metres, that the advert of any price from a
dollar on is listed.

A property of the row alone is not inductive, since nothing in a row says what page
it came from.  `HistoryInv` says it of the two crawls that `first` and `last`
remember: the newest price is what `parseItem` makes of what `last` has met, and
as long as nobody has updated the row it is, column by column, what `parseItem`
made of what `first` has met.  Each theorem is then one about `parseItem`.  The
work is in the lemmas about it: which readers a service has for which parts
(`ServiceReaders`, one case per service), what each reader can make of any text
of its kind (`SizeNumber`, `Metres`, `IdrNumber`, `UsdNumber`, `TenureRead`,
`Sentence`, `LeaseRead`), and
that looking up the lists under the wrong text loses parts of a page but never
puts another in their place (`FoundKeeps`).  For `HouseStyleListed` each service is
shown to suit the style of its pages (`ServiceStyles`), and an advert in a style
that suits to be taken whole, priced and dated (`StyledTaken`, `StyledPrices`,
`StyledLease`, `StyledRow`).

`PagesAssumption` says that pages are made of texts of these kinds: a price that is
shown is not 0, a lease has less than 1000 years, a calendar year has four
digits.  `InputsAssumption` leaves negative figures out of the manual updates,
because the model writes the values that are no numbers (`NaN`, the empty text)
as negative ones.  TLC evaluates both for the pages and inputs of the run.

### What TLC alone shows

The liveness properties `JobsEnd`, `SweepReachesAll` and `CallsAnswered`: liveness
under fairness is beyond the prover.  And the two findings, which are violations.
All other properties of the runs are theorems.

## 5. What is left

1. The abstract promise behind `Accounts` and `Codes`, a secret that opens once,
   before it expires, after at most so many attempts, as a module both implement
   where nothing races.
2. Sorting and paging of the table's rows, and the other figures of the toolbar.

## 6. Not modelled

* `PubSub` publishes nothing: the call is commented out and the factory returns
  nothing.  `loadToSheets`, `createDocumentManagerialExecutionFile` and
  `MemoryCacheService` have no caller.
* JWT signing, bcrypt, the mailer, the SMS gateway, S3 and the converter are
  other people's; they are steps of `Methods` (`other`), `Accounts`, `Codes` and
  `Files` that settle or throw.
* Postgraphile's generated schema, NestJS wiring, configuration, migrations and
  the test scaffolding hold no logic of the repository's own.  What the models
  rely on from the schema, above all that no unique constraint covers a
  listing, and the types of the columns, is mapped to the migration that says
  it.
* `FsmService` only reads; no code performs a transition.
* Overlapping currency updates: both store a quotation of the same moment, and no
  code depends on which of the two is the newest; what a crawl makes of a new
  rate is `OneRatePerCrawl`.
* Names, photos and URLs of a listing and the columns of a profile are copied, not
  computed with.  The years left on a lease are computed by a function in SQL that
  a migration installs.
* The simulation switch of the SMS service and the websocket subscription of the
  Apollo client, which nothing subscribes with.
* The layout of the page, its sorting and its paging: they rearrange the rows
  that `nodes` holds and change no state another part reads.
