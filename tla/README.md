# lets_embed: a TLA+ verification project

lets_embed embeds images on a fleet of GPU workers, serves a similarity search over them, and meters
what its users view. This directory models the parts of it whose correctness depends on the order of
events: accounts, money, the shared work queue, the path of a metered request down to the model that
computes its embedding, and the pages that show the results. TLC checks the models on small instances
and TLAPS proves the main safety properties for every value of the constants.

- [The system](#the-system) - inventory: state, operations, interactions, what is hard
- [The models](#the-models) - which module stands for which code, and how
- [Runs](#runs) - what TLC checks, bounds, fairness
- [Findings](#findings) - where the code and what is said of it disagree
- [Proofs](#proofs) - what is proved and along which argument
- [What is left out](#what-is-left-out)
- [Plan](#plan)

`tlc -config AccountBilling.cfg MCAccountDO` runs one configuration; `tlapm Topup_proofs.tla` checks
one module of proofs.

## The system

Three planes that share little:

1. **Ingest.** `db` imports posts and image names into PostgreSQL; any number of `embed` processes
   claim rows of `images`, download, infer (WD tagger, DINOv3, SigLIP2) and write tags and embeddings
   back. `img2webp` prepares the files.
2. **Search.** `search_engine` queries PostgreSQL; `search` is a Leptos app with a server; `gateway`
   is an older pingora proxy in front of it.
3. **Users and money.** Two Cloudflare workers. `gateway_worker` checks the session cookie, charges
   the account for each media view and search, and proxies the rest. `user_worker` does sign-in
   (SIWE and SIWS), crypto top-ups, plans, likes and an admin panel. Points and plans live in one
   `UserAccount` Durable Object per user, everything else in D1 and KV.

| Component | State | Operations | Interacts with | What is hard | What makes it correct |
|---|---|---|---|---|---|
| User account, `user_worker/src/account_do.rs` | balance, plan, period end, usage window, seen maps per day, banned flag, credit markers, alarm | init, charge, credit, subscribe, unsubscribe, ban, state; alarm | called by both workers, by payments and by the admin panel | alarm against requests, window and day boundaries, rounding in long sequences of plan changes | no point appears or vanishes; no window overdrawn; a repeat is free; a plan ends |
| Top-ups, `payments.rs`, `solana.rs` | rows of `payments` | topup, list, rates; subscribe and unsubscribe pass-through | Ethereum and Solana RPC, D1, the account object | concurrent submissions, lost replies, failed writes, crashes, reorganisations | a transaction credits its sender once; no lock is lost; the history is true |
| Wallet linking, `solana_link.rs` | `users.solana_address`, challenge nonces in KV | challenge, link, unlink | read by top-ups, by sign-in | check-then-write across two handlers | a wallet is an account, or linked to one account, never both |
| Sign-in, `auth.rs`, `siwe.rs`, `session.rs` | `users`, nonces in KV, stateless cookies | nonce, verify, verify_solana, logout | account object (init), D1 mirrors | nonce read then deleted, ban read from a mirror | a message signs in once; a banned user does not |
| Admin, `admin.rs` | `users.banned` mirror | list, credit, ban, set plan | account object, then D1 | two writes in a row, two admins | the mirror agrees with the object |
| Likes, `likes.rs` | `likes` | like, unlike, status, list | like button, other windows of the account | keyset paging on equal timestamps; rows that come and go between two pages | every like is listed once |
| Rates, `rates.rs` | none | quotes, medians, points_for | price feeds | overflow, truncation | points never exceed the value |
| Gateway worker, `gateway_worker/src/lib.rs` | none | request -> verify cookie, charge, proxy | account object, media store, search origin | charged, then the proxy fails; missing form fields | nothing metered is served unpaid |
| Gateway, `gateway/src` | key set | request filter, key refresh once a day | access provider | a key newer than the set | only verified requests pass |
| Pipeline, `embed/src/cli.rs` | `images.status/attempt/claimed_at`, tags, embeddings; per process: permits, queues, writes | fetch_batch, convert_image, infer, record; drain, kill | PostgreSQL, storage; other workers only through rows | kills between statements, late workers, partial failures, retries | one worker per image; completed images are whole and stay; every image settles |
| Search engine, `search_engine/src/lib.rs` | embedding caches, lazily loaded model sessions | queries page by page, embeddings, reaper | PostgreSQL, onnxruntime | callers that share a computation and are dropped; reaper against use; streams that break | an embedding is computed once; a model is in memory once; everybody is answered |
| Results page, `search/app/.../results.rs` | URL, offset, has_more, loading, error, request id, columns | new search, next page, answer, resize | search server; search bar and pictures | superseded answers, effects of several signals, a table that grows | a page shows one search, in order, without holes, and comes to its end |
| Details page, `image_details.rs`, `viewer.rs`, `like_button.rs`, `lightbox.rs` | images of the post, viewer (index, animating, touch), button (state, pending) | open, slide, touch, like, leave | likes of the user worker, the browser's events | keys and touches at once, a transition that never ends, optimistic toggles that fail | the viewer stays alive; the button tells the truth |
| Search server, `search/server` | none | start-up, previews | search engine | nothing concurrent | - |
| Import, `db/src/lib.rs` | posts, authors, tags, images | upsert_metas | PostgreSQL | one large SQL statement | idempotent |
| img2webp | files | walk_convert | storage | write, then delete the origin | no image is lost |
| Model crates, telemetry, pages | - | numerical inference, metrics, HTML | - | - | - |

## The models

Conventions: a definition keeps the name of the function or column it stands for. Variables above the
ruler are state of the program, *history* variables exist for properties only and no guard reads them.
Definitions named `Bug...` are seeded faults, each a plausible mistake in the definition below it; they
are part of no specification, and show that each property fails when the code is wrong.

### AccountDO (and PrepaidAccount)

One `UserAccount` object and the clock. A Durable Object handles one event at a time, storage awaits
let in no other event, and the writes of a handler commit together: a handler is one action.

| Code | Model |
|---|---|
| storage keys `init`, `balance`, `plan`, `period_end`, `win_*`, `banned` | the variables of the same names |
| maps `seen:{day}` | `seen`, a set of records `[day, path, at]` |
| markers `credit:{key}` | `credited` |
| `init`, `credit`, `subscribe`, `unsubscribe`, `ban` | `InitAccount`, `Credit`, `Subscribe`, `Unsubscribe`, `Ban` |
| `charge` with `decide_charge` | `Charge`, one disjunct per outcome: banned, repeat, refused, paid by an unlimited plan, by the window, by the balance |
| `alarm()` | `AlarmRun`, one disjunct per branch |
| the runtime's delivery | `AlarmFires`: `alarm` is unset and `firing` set; a queued request may run before the handler. It may come early, as the handler expects |
| `now_secs()` | `now`, moved by `Tick` |

`PrepaidAccount` is what a user may rely on: the account is worth what came in less what was spent, and
only time takes value away (from a plan that runs), with one exception. Opening the account, once, gives
the free grant and may forfeit what was put in before: `ensure_init` *puts* the grant over a balance that
`credit` may already have raised (`account_do.rs:217-224`). `funded` counts those points all the same, so
the loss shows. The refinement mapping is `worth <- balance + Refund`, where `Refund` is what
`unsubscribe` would pay now, `opened <- init` and `Grant <- FREE_GRANT_POINTS`. Every handler but the one
that opens the account must map to a trade that conserves value exactly, or to a stutter.

Abstractions: `total_views` and `address` are left out, amounts are unbounded integers (the largest
product, `price * remaining`, is taken in i128 by the code), and every plan id a request may name is in
`PLANS` (an unknown one is answered 400 and changes nothing).

### Topup

Any number of invocations of `POST /user/api/topup`, the table `payments`, the markers of the accounts'
objects, wallet links, and the chains. Each await that reads or writes shared state is a step of its
own; between any two steps any other request, link, chain move or crash may happen.

| Code | Model |
|---|---|
| where an invocation is | `req[r].pc`: lookup, insert, verify, then reject, release or credit, then finalize |
| `INSERT INTO payments` and its 409 | `Insert` |
| `topup_ethereum`, `topup_erc20`, `verify_solana` | `EthNativeVerdict`, `EthTokenVerdict`, `SolanaVerdict`: the checks of each path in their order, over what the chain shows |
| `reject`, `delete_pending`, `finalize_credit` | `Reject`, `Release`, `CreditAccount` and `Finalize` |
| the object's `credit:tx:{hash}` marker | `marked`, pairs of account and transaction |
| D1 failures, which are logged and ignored | `Write`, and the second disjuncts of `Insert` |
| a cancelled invocation, a lost reply | `Crash`, the third disjunct of `CreditAccount` |
| (history) | `controls`: links that ever were; `abandoned`: transactions whose row a crash or a failed write left behind |
| a transaction's life with drops and reorganisations | `ChainMoves` (external) |

Abstractions: a transaction has one sender, the set of assets it pays to the deposit address, and a
value that is enough, dust, or depends on the price of the moment; USDT and USDC are one asset, so the
only wrong choice of asset is native for token or the reverse. The RPC reads of one verification happen
in one step, so a reorganisation between the receipt and the head is not seen; the six confirmations
are the state `confirmed`, which is final. Malformed requests, answered before the first write, are
left out.

Who may claim a transaction is said twice in the repository, and differently. `user_worker/README.md:172`
says that the first submitter owns the transaction and that its sender need not be the wallet one is
logged in with; `payments.rs:4` and the code answer 403 unless the sender is the claimant, or on Solana
the linked wallet. The model and `CreditsAreEarned` follow the code.

Of wallet links it assumes only that a wallet has one owner (`Wallets!OneOwner`), not that it has no
account of its own, which a race can break (`BothOnlyByRace`).

### Wallets

Requests to sign in, to link and unlink a wallet and to ban an account, each one invocation of its
handler that runs once. Every await on KV, D1 or an object is a step; at each the request may also end
(`Abort`): an error answered with 500, a signature found wrong, a client that left, or, after a write,
the lost reply of one that took effect.

| Code | Model |
|---|---|
| `users.address`, `users.solana_address`, `users.banned` | `users`, `solana_address`, `banned` |
| the accounts' objects: `init`, `banned` | `initialised`, `objBanned` (each handler of the object is one step, see AccountDO) |
| `nonce:{n}` in KV | `nonces`; read by `GetNonce`, deleted by `DeleteNonce`, two awaits as in the code |
| `verify`, `verify_solana` | `SignInStep`: nonce, (coexistence lookup for Solana), upsert, ban check, `do_init`, cookie |
| `link`, `unlink` | `LinkStep`: nonce, `Standalone`, `Existing`, `Update` under the UNIQUE column; `Unlink` |
| the admin's `ban` | `BanStep`: `Exists`, `ObjectBan`, `Mirror` |

Abstractions: KV is consistent (its replicas may answer late, which only widens the nonce window that
is in the model already); signatures are valid or end the request; a session does not expire, which
only allows more requests; the plan mirror is left out, as only the admin's list reads it.

### EmbedPipeline

The worker processes and the rows they share. A row carries `status`, `attempt` and `age` (time since
`claimed_at`); a worker carries its mode, the images it holds with their outcome, and the writes it has
spawned with the statement each will run next. Every SQL statement is a step.

| Code | Model |
|---|---|
| the claim query | `Claimable` and `Claim`; rows locked by another claim are skipped, so any non-empty part may be returned |
| download, decoding, inference | `Convert` with outcome `some` or `none` |
| `record`: coalescing and spawning | `StartWrite` for any set of finished images, at most `CONCURRENCY` at once |
| its three statements, then the permits | `WriteTags`, `WriteComplete`, `WriteReset`, `WriteDone` |
| a statement that fails | `WriteFails`: mode `failing`; the other writes go on, claims too until `run` hears of it |
| SIGINT, empty queue | `Stop`; the drain ends in `Exit` |
| kill, second SIGINT | `Kill`; restart is `Start` |

A worker may be late: hold an image longer than `--reclaim-after-secs`, although the option's help asks
for a value "well above the worst-case time an image spends claimed". Nothing then stops another worker
from claiming the image, nor the late one from writing it. The history variable `overtaken` has the
images claimed from a worker that was still at work on them, and the properties except exactly those:
`Exclusive`, `WritesAreDisjoint` and `CompletedStays` say what lateness alone can break, and that only
lateness breaks it. `CompletedIsWhole` and `AllSettle` have no exception. Two insert statements (tags, then their
association) are one step: both are idempotent upserts and no property tells them apart. The pacing
gate is a constant number of permits.

### Engine and Gateway

A metered request on its way: worker, account, pingora gateway, search server, embedding, model. `Engine`
is what happens in the search server's process; `Gateway` extends it with everything before. A caller of
the engine is the future of one HTTP request, which hyper drops when its client leaves.

| Code | Model |
|---|---|
| `gateway()` in `gateway_worker`: what is metered | `Receive`, `Metered`; the dedupe key of a request is its key |
| `charge_do` and its errors | `Charge`: granted, refused, or an error with the charge made or not |
| `UserAccount::charge` | `Deduct`: what `AccountDO` shows of it, a repeat within the window is free |
| `proxy`; the pingora gateway and `verify` | `Proxy`: `Fetched` for media, `Forwarded`, `Refused`, `Unreached` |
| `try_get_with` of the caches of CLIP and DINOv3 embeddings (external: moka) | `Enter`, `Place`, `Retry`, `Settle` |
| `LazyModel::session` with its mutex | `HandOut`, `Load`, `Loaded`; only a load keeps the mutex over an await |
| `spawn_blocking` of a load or an inference | they go on when the caller is dropped: `abandoned`, `AbandonedEnds` |
| `spawn_reaper` | `Reap`: by the time a session was handed out, in use or not |
| a dropped future | `Drop`: mutex released, waiters of its key look again |

Abstractions: sessions have numbers that are used again once free, so that the state is finite; a
cached embedding is never evicted; the account is an amount of points per user with a dedupe window
for each path, and one price.

### Results and Masonry

One browser tab on the results page, the search bar that leads to it, and the server that answers. An
action is one event and the synchronous code it runs; the effects that the event wakes run before the
next one (`Quiet`).

| Code | Model |
|---|---|
| the params effect | `ParamsEffect`: everything is reset, page 0 asked for |
| the sentinel effect (intersecting, loading, has_more) | `SentinelEffect` |
| `load_page` up to its await | `LoadPage`: the newest `req_id`; a search by picture without a picture ends at once |
| after the await | `Answer`, `Fail`, either of which does nothing when `Stale` |
| `place_post`, `place_image`, the width effect | `Masonry!Place`, `Relayout` |
| `Link`, `submit`, history; a picture picked or cropped | `Navigate`, `PickPicture` |
| `LIMIT ? OFFSET ?`; `random_ids` and the rows those ids have | `InOrder`; `Draws` and `Drawn` |
| rows skipped with a log line, a stream that breaks | `Failures` |
| images of the post a similarity search starts from; its listing fails | `LeftOut`; `Hidden` |
| the search server's `has_more` | `More`: rows counted before those of the same post are left out |
| `upsert_metas` while somebody pages | `AddRow` |

The order of a search is a sequence of rows; new rows may come anywhere in it. `base` remembers it as it
was when page 0 was read, and the properties speak of those rows. The rows there are at first are
numbered: `Start` is an order of 1 to their number, and a row that is added gets the next one.

A random search never runs out: at any offset `random_ids` draws as many ids as it is asked for, from the
seed and the ids there are. `Draw` gives, for a number of rows, the ids that are drawn, over and over; an
id may come twice within a page, and may be a gap that no row has. Only a gap or such a repeat makes a
page short, and only a short page ends the results, so where ids are dense a random search goes on for
ever, as it is meant to ("endless reshuffle", `results.rs:499`). `MaxPages` bounds the pages one scrolls
through (`Enough`); it bounds no search that has an order.

Abstraction: the height of an item is one number, where the code computes it anew for each width. It
decides only which column an item goes to, and the theorems hold for any heights.

### Likes, Viewer and DetailsPage

`Likes` has the table, the buttons of one window and the list; `Viewer` has the full screen viewer;
`DetailsPage` puts both on the page that opens and leaves them.

| Code | Model |
|---|---|
| `like`, `unlike`, `status` | `Serve`: one statement, `INSERT OR IGNORE`, `DELETE` or a read |
| `LikeButton`: the status resource, `toggle` | `Mount`, `Toggle`, `Hear` (`Heard` is the match on the answer) |
| the network | `Lose`, `ServeLate`: an answer lost, a request applied after its page was left |
| other windows | `Elsewhere` |
| `list`, `page_cursor` | `StartList`, `ListPage`, `Pages`, `Older`, `Last` |
| `slide`, the touch handlers, `track_style` | `Slide`, `TouchStart`, `TouchMove`, `TouchEnd`, `TouchCancel`, `Released` |
| `transitionend` and the browser | `TransitionEnd`; `moving` says whether the browser runs a transition |
| `on_up`, a click on a picture, the store effect | `Click`, `ClickPicture`, `ImagesArrive` |

`like` reads the clock before it awaits the INSERT (`likes.rs:108-111`), so a row may land later than its
`created_at` says. A POST carries `since`, the second it was sent, and `Write` stores any second between
that one and the moment it lands; for other windows, which may have sent theirs at any time, any second
so far. `backdated` has the targets whose row landed late while a listing was under way.

Abstractions: a pull is nothing, short of `SWIPE_RATIO` or beyond it, in either direction; D1 is one
statement at a time; time is in seconds, as in `created_at`.

## Runs

| Run | What it shows | States |
|---|---|---|
| `AccountBilling` | value is conserved (`WorthBacked`, `ImplementsPrepaid`), periods do not stack, a plan has its alarm and lapses | 0.4 M |
| `AccountCharging` | `QuotaRespected`, `ChargedOncePerWindow` over image, video and search charges under two plans | 1.4 M |
| `TopupEthereum` | the replay lock, earned credits, true history, settled rows, one credit, no pending row without an owner or a fault, under every fault | 3.1 M |
| `TopupSolana` | `CreditsOnce` of a wallet that is an account and is linked, unlinked and linked elsewhere, replies arriving; the lock is released (`LockReleased`) | 0.22 M |
| `EmbedClaims` | claims are exclusive, writes disjoint, completed images whole and final, but for images taken over from a late worker | 2.5 M |
| `EmbedLate` | `AllSettle` with one worker that may be killed or late for ever | 92 k |
| `WalletsRoles` | one owner per wallet, ready sessions, a true ban mirror, both roles only by a race | 0.44 M |
| `Metering` | nothing unpaid is forwarded, no embedding or model is made twice, everybody is answered, under errors, disconnections and idle unloading | 0.19 M |
| `SearchPage` | pages of one search in order, nothing skipped, a true end, layouts that lose nothing, and a scroll that never waits in vain | 0.56 M |
| `DetailsPage` | buttons that tell the truth, a list without doubles or holes, a viewer that is never stuck by itself | 1.9 M |
| `TopupLostReply`, `TopupWrongAsset` | counterexamples, see [Findings](#findings) | |

**Bounds, and why they are enough.**

- *Accounts.* Time is scaled down: a day is 3 units, the dedupe window a day, a usage window 2, a plan's
  period 4, the clock runs 4 to 5 units (`StartTime` to `MaxTime`). That keeps the order of the code's
  constants (window < day = dedupe < period), lets a plan be bought, renewed and lapse, a window roll
  twice, and a view and its repeat fall on every side of a day boundary. Two plans, one limited, one
  not, whose prices do not divide their period, so that rounding shows. A deduction larger than a
  balance is among the credits. Charges that depend on all kinds of media run without credits, to leave
  room for a third path.
- *Top-ups.* Two requests are the fewest that race; two accounts the fewest that can both be credited.
  Each transaction stands for a case the code tells apart: native with a borderline value, native with
  too little, a token transfer, a linked wallet's, a Solana principal's. Requests are symmetric where no
  liveness is checked. In `TopupSolana` the sender is an account itself
  and is linked by another at the same time, so that both may claim its transaction.
- *Wallets.* Four requests: the fewest that sign two accounts in and link one wallet to both. Two nonces
  serve them, because the nonce window lets two requests share one. Requests, nonces and Ethereum
  addresses are symmetric.
- *Pipeline.* Two workers and two images: enough to hold, lose, reclaim and write one image twice, and to
  merge a success and a failure in one write, and for a late worker to write what the other completed.
  Symmetry over images and workers in the safety run only. `MAX_ATTEMPT`
  is 1 there (an image can be claimed twice), 2 in the liveness run, against 5 in the code; the age is
  counted one past `RECLAIM_AFTER`, beyond which it decides nothing.

- *Metering.* Two clients of one user, so that both may be charged for the same view. One asks for an
  image and for `dog`, the other for `dog` and `cat`: a key that is shared and two keys that share a
  model. `IdleTimeout` and `Dedupe` are 1: a session or a view is fresh or old. One point: the second
  paid view is refused. `MaxAbandoned` is 1: one load or inference may have lost its caller; a second
  client cannot be dropped from one until it has ended.
- *Search page.* Four searches, one for each way of paging (by title with pages of one row; similar,
  by picture and random with pages of two), two pictures, two new searches after the first, so that
  answers of two superseded searches may be under way. Two rows at first, three in the end: a row may
  come before, between or after the pages read. One row has no cover, one belongs to the post a
  similarity search starts from, one is tall. One or two columns. `MaxPages` is 2: with two rows the
  second page of the random search is all gaps and ends it, with three rows it is full and draws ids
  again that the first one had.
- *Details page.* One button, next to other windows that write to any target; three targets over three
  seconds with pages of two, so that a page may end within a second or between two; one request of a
  page that was left; a post of two images. Three seconds let a page end, a like be removed, and the same
  target come back with an older second.

All runs check for deadlock but those of `Wallets`, where each request runs once and the system stops
when all have.

**Fairness, and what justifies it.**

- `AccountDO!FairSpec`: weak fairness of delivering a *due* alarm and of running its handler, the
  Durable Object contract of at-least-once alarms. Nothing is assumed of requests. The clock is bounded:
  `PlanLapses` speaks of plans whose end the clock has passed.
- `Topup!FairSpec`: weak fairness of each invocation's next step. An invocation may crash and its writes
  may fail all the same; `LockReleased` excepts the transactions that are then `abandoned`, whose pending
  row stays for ever, since nothing sweeps `payments`. `RepliesCanFail` is FALSE in `TopupSolana`, for the
  sake of `CreditsOnce`.
- `EmbedPipeline!FairSpec`: weak fairness of time and of the steps of the *reliable* worker only. Reads
  have a timeout (`--io-timeout-secs`), `record` starts a write whenever it has a slot, and a supervisor
  starts the process again. Writes may still fail any number of times: each failure costs an attempt,
  which is why `AllSettle` allows an image that has used them up.

- `Gateway!FairSpec`: weak fairness of each request's next step, that is of workers, tasks and threads,
  and strong fairness of handing out the mutex, as tokio's `Mutex` serves its waiters in turn. `Answered`
  has a premise: from some time on no client disconnects. A caller that waits for an embedding takes the
  computation over when its leader is dropped; it may wait as often as there are leaders that leave.
- `Results!FairSpec`: the browser runs the effects, and the newest request is answered or fails, in the
  end by the browser's own timeout. `ReachesEnd` has the premise that the sentinel stays in view; what
  it promises is a page at rest at its end or, of a random search, with more pages shown than the bound.

## Findings

Each is the counterexample of a run.

1. **A lost reply credits a transaction to two accounts** (`TopupLostReply`). `finalize_credit` deletes
   the pending row on any error of the object's call (`payments.rs:753`), also when the object applied
   the credit and only the reply was lost. The marker that makes a retry harmless belongs to the object
   of *one* account. A Solana wallet may meanwhile be unlinked and linked to another account, which then
   submits the same signature. `user_worker/README.md:87`: "each transaction credits exactly once". With
   replies that arrive it holds, for any number of accounts, requests and wallets
   (`CreditsOnceIfRepliesArrive`), and on Ethereum it holds always (`EthereumCreditsOnce`).
2. **The wrong token rejects a good transaction for ever** (`TopupWrongAsset`). A transfer of USDC
   submitted as `eth` has the token's contract as its recipient, so `topup_ethereum` rejects it
   (`payments.rs:509`), and the row then answers 409 to the right submission. `payments.rs:9`: "'rejected'
   only for tx-intrinsic failures (wrong recipient, dust, reverted) - invalid for any submitter". Which
   recipient is wrong depends on the token the request names.

Seen on the way, in the code and in the models, and not run:

- The sender of a transaction need not be the claimant, says `user_worker/README.md:172`; the code refuses
  every other sender (see Topup). The README is older than the check (it also calls USDC
  "not implemented"); `CreditsAreEarned` states what the code and `payments.rs:4` say.
- `ensure_init` *puts* the grant (`account_do.rs:220`) and `credit` does not call it. Sign-in writes the
  row of `users` before it initialises the object and answers 500 when that fails (`auth.rs:186`): what
  the admin panel credits in between is overwritten, the exception in `ImplementsPrepaid`.
- `verify_solana` looks for a link and inserts the row later, `link` looks for the row and writes the link
  later; both checks can pass before either write, though `solana_link.rs:124` says "EITHER a standalone
  SIWS account OR a linked wallet, never both". `BothOnlyByRace` proves that this overlap is the only way.
- Only the `seen` map of exactly two days before is dropped, by a day's first charge: idle days leave one
  behind in spite of the "bounded storage" of `account_do.rs:382`.
- An image stranded on its *last* attempt stays in `processing`, because the claim asks for `attempt <= 5`
  of stranded rows too, though `cli.rs:99` says any worker may claim it again (`AllSettle` allows an image
  to use up its attempts).
- A touch that the browser cancels before it pulled anything leaves the viewer waiting for a
  `transitionend` that will not come (`viewer.rs:163`): keys, buttons and touches are dead until it is
  closed. `StuckOnlyAfterCancel` is about every other way.
- The list of likes skips likes of the second in which a full page ended (`likes.rs:207`), the exception
  in `ListedOnce`.
- A like that is held up between the clock and the INSERT may land behind the cursor of a listing
  (`likes.rs:108-111`); of a target that was listed, unliked and so liked again, it makes a second entry,
  the exception in `ListedOnce`.
- A toggle is undone on the button when only its reply was lost (`like_button.rs:139`), the exception in
  `ButtonTellsTruth`.
- A row the search server cannot read, or a connection that breaks inside a page, shortens the page
  without an error, and a short page ends the results (`search_engine/src/lib.rs`, the streams of each
  query): the exception `lost` in `NothingSkipped` and `EndMeansEnd`.
- The search bar reads the selected tab after the await of `encode_file` (`search_bar.rs:77`), so a
  picture may be submitted as another mode; `PickPicture` allows any.
- `image_details.rs` fetches with a `OnceResource`, whose closure reads the id once, while a link from one
  details page to another stays on the same route.
- The lightbox shows 20 more pictures when its sentinel *comes* into view; when it is still in view after
  that, nothing fires again until the user scrolls (`lightbox.rs:24`). The results page keeps a signal for
  this (`ReachesEnd`).

Two more are exposures that nothing in the repository promises the contrary of, and exceptions of the
properties: a crash or a failed write between insert and outcome leaves a pending row that refuses the
transaction for ever (`abandoned` in `PendingIsOwned` and `LockReleased`); and a worker that is late may
reset an image another one completed (`overtaken` in `CompletedStays`), as the statement at `cli.rs:750`
asks neither for the row's status nor its owner.

## Proofs

For every value of the constants that meets the named assumption of its module (`ConfigAssumption`,
`TopupAssumption`, `WalletsAssumption`, `PipelineAssumption`, `EngineAssumption` and
`GatewayAssumption`, `ResultsAssumption`, `LikesAssumption`, `ViewerAssumption` and
`DetailsPageAssumption`). They say what type a constant has and which bounds are positive; `Callers` and
`Targets` are finite; the rows at first (`Start`) are numbered without gaps or doubles and within
`MaxRows`, whatever that bound is.

| Theorem | States | Rests on |
|---|---|---|
| `AccountDO_proofs!TypeCorrect` | `[]TypeOK`, the balance included: never negative | itself inductive |
| `ValueIsBacked`, `AccountImplementsPrepaid` | `[]WorthBacked`, `ImplementsPrepaid` | a step either conserves worth against funded and consumed, or opens the account, or only time passes and worth falls (`StepConserves`); the arithmetic of `ProratedRefund` is in five lemmas: it is between 0 and the price, full for a full period, and monotone |
| `PlanHasAlarm`, `PlanNeverStacks` | `[]AlarmArmed`, `[]NoStacking` | inductive over `TypeOK` |
| `QuotaNeverExceeded` | `[]QuotaRespected` | inductive over `TypeOK`; subscribe, lapse and cancellation all reset the window, hence a switch to a smaller plan keeps within it |
| `NeverChargedTwice` | `ChargedOncePerWindow` | the invariant `SeenCovers`: a path last charged within the dedupe window has an entry with that time in the map of the day it was charged. Dropping the map of the day before yesterday cannot lose one, as a window is at most a day |
| `Topup_proofs!TypeCorrect`, `LockIsExclusive` | `[]TypeOK`, `[]ReplayLock` | `ReplayLock` is inductive over `TypeOK`: a request past its insert owns the pending row, and no other one is past its insert |
| `SettledRowsStay` | `SettledForGood` | `ReplayLock`: only the owner of a *pending* row writes |
| `OnlyEarnedCredits`, `EthereumCreditsOnce` | `[]CreditsAreEarned`, `[]EthCreditsOnce` | `Earnings`: what a request that is about to credit has seen stays true - `confirmed` is final, and a wallet looked up was linked |
| `HistoryIsTrue` | `[]RowsTellTruth` | `Truths`: a request that finalizes has its marker |
| `CreditsOnceIfRepliesArrive` | `[]CreditsOnce`, assuming `RepliesCanFail = FALSE` | `Settles`: a marked transaction has a row that is not released any more |
| `PendingOwnedOrAbandoned` | `[]PendingIsOwned`, no assumption | whoever stops owning a row has, in the same step, made it something else than pending, or has abandoned it |
| `Wallets_proofs!TypeCorrect`, `WalletHasOneOwner` | `[]TypeOK`, `[]OneOwner` | only `Update` sets the column, under the UNIQUE constraint |
| `SessionsAreReady` | `[]SessionIsReady` | `SessionInv`: what a sign-in has written is still there when the cookie is set |
| `BothRolesOnlyByRace` | `[]BothOnlyByRace` | `RaceInv`: an account, or a sign-in past its check, and a link, or a request past its checks, of one wallet have met; whoever checks second records it |
| `MirrorIsTrue` | `[]MirrorAgrees` | `MirrorInv`: an account in no doubt has at most one ban between its two writes, which will write what the object says |
| `EmbedPipeline_proofs!TypeCorrect`, `CompletedImagesAreWhole` | `[]TypeOK`, `[]CompletedIsWhole`, workers late or not | `WholeInv`: a write that is about to complete its images has tagged them, and writes of a worker share no item |
| `ClaimsAreExclusive`, `WritesOverlapOnlyWhenLate`, `OnlyLateUndoCompletions` | `[]Exclusive`, `[]WritesAreDisjoint`, `CompletedStays`, no assumption | `LockInv`: an image that was not overtaken is at work in one pipeline (`Unique`), and its row is what that pipeline left it at (`RowIsMine`). A claim of an image that is at work overtakes it |
| `Gateway_proofs!TypeCorrect`, `NeverUnpaid` | `[]TypeOK`, `[]NothingUnpaid` | `Inv`: what was viewed within its window was bought (`RecentIsBought`), so a free repeat is a paid one; and a caller is at the engine only while its request is (`AtTheEngine`) |
| `AlwaysComputedOnce` | `[]ComputedOnce` | inductive over `Inv`: a caller that leaves a computation, by whatever step, releases everybody who waited for it |
| `SessionsBounded` | `[]LiveSessions` | `HeldByCallers`, `HeldByLeftovers`: a session that is in use was handed out to its user no later than it was last handed out at all, so a session that is reaped is as old for each user; a model that is loaded has no session |
| `Results_proofs!TypeCorrect`, `AlwaysOneSearch` | `[]TypeOK`, `[]PagesOfOneSearch` | the request with the newest id is unique, and asks for the page after the last one shown, with the picture of the first (`NewestFits`, `OffsetFits`, `PicturesFit`); while an effect waits none is merged (`EffectsWait`) |
| `Masonry_proofs!RelayoutKeepsAll` | a new layout holds every item as often as the old one, but posts without a cover | induction over the folds: see below |
| `LayoutAlwaysKeepsAll` | `[]LayoutKeepsAll` | `LayoutInv`: the columns hold each row as often as it was shown, none if it has no cover. `PlaceAllCounts` is the step of an answer, `RelayoutKeepsAll` that of a resize |
| `NothingEverSkipped`, `EndAlwaysMeansEnd` | `[]NothingSkipped`, `[]EndMeansEnd` | `PagingInv`: see below |
| `DetailsPage_proofs!TypeCorrect`, `ButtonsTellTruth` | `[]TypeOK`, `[]ButtonTellsTruth` | `Truthful`: while a toggle is under way the state before it is still the truth, until it is served |
| `AlwaysListedOnce` | `[]ListedOnce` | `Kept`: a target that was listed has no later row that is older, unless it is `backdated`; and a row that is still there is listed, on an edge, or older than the cursor |
| `ViewerStuckOnlyAfterCancel` | `[]StuckOnlyAfterCancel` | `Fine` of the viewer; and the store holds a post only where the image has a place in it |

**Why paging skips nothing.** `NothingSkipped` speaks of what is shown and is not inductive: it says
nothing of where the next page starts. The invariant relates the rows there were (`base`) to the order
there is now (`listing`). `BaseInv`: they are still in it, in the same order; rows are added between
them, so that each only moves up. `ReachedInv`: those that stand at or before the next offset were shown,
lost or left out. A row that is added moves some of them behind the offset, where they are read a second
time, but none before it (`AddRowPaging`): that is why `OFFSET` over a growing table repeats rows and
never skips one, and why it would skip some of a table that shrinks. The next page takes the rows from
the offset on (`SliceIs`), which restores `ReachedInv` at the new offset, and everything that comes
before one of its rows is then dealt with. A page that is short although no row was lost shows that the
offset has passed the last row (`ShortPage`), and that is `EndMeansEnd`. What the page asks for next is
known from the invariant of `AlwaysOneSearch`.

**Induction.** `Only`, the layout and the flattening of rows are folds of the community modules, that is
recursive functions over sequences of any length. The library's induction theorems cannot be used, so
`Masonry_proofs` derives induction for a *set* of numbers (`SetInduction`) from two of its other facts:
`Nat` is well founded, and a non-empty part of it has a least member. With it `FoldExists` shows that the
recursive function of a fold exists and what its steps are; `LeftSteps`, `OnlySteps`, `PlaceSteps` and
`FlattenSteps` say so of each fold, and the lemmas that count (`PlaceAllCounts`, `TimesOfFlatten`,
`ByRowsCounts`) are inductions over those steps. `Relayout` loses nothing because the positions of the
old columns and those of its rows are in bijection, as many rows being read as the longest column has.

Only model-checked: the liveness properties (`PlanLapses`, `LockReleased`, `AllSettle`, `Answered`,
`ReachesEnd`), which need fairness and ENABLED. Every invariant and every action property the runs check
is a theorem without further assumption, but `CreditsOnce`, whose theorem assumes what its run does: that
no reply is lost.

## What is left out

- Cryptography (signatures, HMAC cookies, JWT verification), TLS, HTML, layout, logging and metrics.
- The SQL of the search engine and the order a vector index returns: an order is a sequence that is the
  same for every page of a search. An approximate index need not keep that promise, and a row that is
  embedded or tagged again while somebody pages may move in it; in `Results` rows only appear.
- The refresh of the key set in `gateway/src/jwt.rs`: it decides which requests are refused, and the model
  lets any be refused.
- The parsers of `siwe.rs` and the arithmetic of `rates.rs`: pure functions over characters, 128-bit
  integers and floats, without state; what TLC could enumerate of them a unit test does better.
- `upsert_metas` (one transaction of SQL merges), `img2webp` (independent files), the numerical models.
- `GET` endpoints that read and format.

## Plan

Done: the money (`AccountDO`, `PrepaidAccount`, `Topup`, `Wallets`), the queue (`EmbedPipeline`), the path
of a metered request (`Gateway`, `Engine`), the pages (`Results`, `Masonry`, `Likes`, `Viewer`,
`DetailsPage`), each with its proofs. What would add most next:

1. `Gateway` over `AccountDO` itself by INSTANCE, instead of what it shows: quotas and plans would meet
   the retries of clients.
2. An order of a search in which rows move, and what paging then still promises.
3. The key refresh of the pingora gateway as a process of its own, once it does more than wait a day.
