# Essor: models, checks and proofs

Essor is a block editor. Pages and blocks are records in a SQLite store; every
record carries a Lamport version, and replicas are kept in step by exchanging
records over one websocket per client and keeping the newer version of each
(last-write-wins). A Node server stores the same records, relays them, and lets
agents write through MCP. This directory holds TLA+ models of that machinery,
the TLC configurations that check them, and TLAPS proofs.

    tlc -workers 2 -config MCWorkspace.cfg MCWorkspace     # a run
    tlapm WorkspaceProofs.tla                              # the proofs of a module (EditorProofs: 15 minutes)

## The system

| Component | Source | State | Operations |
| --- | --- | --- | --- |
| Client store | `src/workspace.rs` | SQLite `records` and `pages` (digests); in memory the counter, the dirty set, the stale digests, the undo history | `open`, `write_local`, `write_local_quiet`, `merge`, `purge_page`, `mark_page_dirty`, `take_outbound`, `digests`, queries |
| Server store | `server/src/workspace.ts` | the same without dirty set and history | constructor, `put`, `remove`, `merge`, `digests` |
| Page catalog | `src/library.rs` | active page, provisional page | create, delete, retitle, confirm or drop the provisional page, digests without it |
| Sync session | `src/session.rs` | none of its own | `hello`, `flush`, `handle` of one frame |
| Network worker | `src/net/` | channel, deferred frames, socket, backoff | connect and retry, replay, drain, read |
| Sync hub | `server/src/hub.ts` | connections, pong flags | accept, handle a frame, broadcast, publish, forget |
| Agents | `server/src/mcp/` | none | page and block tools, each some `put`/`remove` and a broadcast |
| Undo history | `src/history.rs`, `src/page.rs` | undo and redo stack per page | push, undo, redo, forget |
| Driver | `src/app.rs`, `src/main.rs` | the two widgets and the library it holds | editor actions, signals, sidebar actions, startup, shutdown |
| Sidebar, titles | `src/sidebar.rs`, `src/title.rs` | rows, active row, open question of a deletion | create, select, ask, delete, cancel; a title from the first line |
| Editor, text runs, positions | `src/editor*`, `src/runs.rs`, `server/src/mcp/fractional.ts` | layouts, selection, menus | edits as sequences of record writes |

The client's UI thread owns store, catalog, session and driver; it talks to the
worker thread through an unbounded channel and gets frames and the `Connected`
signal back through the window system's event queue. The server is one event
loop. So the only interleavings are those of the queues between client and
server, of crashes, and of the user's edits with incoming frames.

What is hard, and which properties answer it, is listed under `hazards` in
`PROJECT.json`: digests compared at different moments, stale cached digests, a
volatile counter, frames lost with a connection, the withheld first page, undo
against a peer's edits.

## Modules

| Module | Role |
| --- | --- |
| `Lww` | Record algebra: versions, merge, digests. No variables. |
| `LwwStore` | Abstract store: no counter, no cache. |
| `Workspace` | One store with its cache, counter, crashes; implements `LwwStore`. |
| `Sync` | Clients, server, connections. |
| `LinearUndo` | Abstract undo: a line of document states. |
| `History` | Undo and redo stacks over a store peers write to; implements `LinearUndo` on the blocks peers leave alone. |
| `FrameQueue` | Abstract queue: frames in order, some lost when a connection breaks. |
| `NetWorker` | The worker thread between channel and socket; implements `FrameQueue`. |
| `Fractional` | Order keys: after, before and between keys. No variables. |
| `Positions` | Editor and agent order the blocks of a page with them. |
| `Runs` | A block's runs and the splices on them. No variables. |
| `Editor` | The editor widget over one page that also changes under it. |
| `App` | The driver between library, sidebar and editor, with clicks and frames. |
| `WorkspaceProofs`, `SyncProofs`, `NetWorkerProofs`, `HistoryProofs`, `PositionsProofs`, `RunsProofs`, `EditorProofs`, `AppProofs` | Theorems about the module of that name; `PositionsProofs` also those about `Fractional`. |
| `MCWorkspace`, `MCSync`, `MCHistory`, `MCNetWorker`, `MCPositions`, `MCEditor`, `MCApp` | Small instances for TLC. |

Operators whose comment begins with "Mutated" are not used by any
specification: each is a plausible mistake in one definition, and putting it in
that definition's place breaks a property. They show that the property depends
on the code it is about.

### Workspace

One action per method. `records` and `table` are the SQLite tables; `counter`,
`dirty` and `pending` are the `Cell`s lost in a crash; `open` tells whether the
process runs. The rest of the world is `shared`: everything that ever left the
store (`TakeOutbound`, `SendPage`) or that a peer wrote (`PeerWrite`). `Merge`
takes any batch from it, at any time and repeatedly, which covers lost,
duplicated and reordered frames, echoes of own records and restarts of peers.
A peer never writes two contents under one version, and writes only ids it
created or was sent. Digests are sets of tuples, that is, SHA-256 is taken to be
injective. `PurgePage` has the precondition its comment states, that nobody was
sent the page; whether the callers keep to it is a question for `Sync` (they do
not, see the findings).

A crash falls between two calls. The SQL statements of one method are covered
all the same: a merge cut short is the merge of a smaller batch, and the reopened
store recomputes every digest.

Properties: `DigestsFresh` (cache), `CounterCovers` and `LocalWriteApplies` (the
counter), `VersionIdentifiesContent` (digests compare versions only),
`DirtyIsHeld` (outbound batch), `RecordsOnlyAdvance` (merge), and the refinement
`AbstractSpec`.

### Sync

A node is its client id. `store`, `counter`, `dirty` and `provisional` are those
of the library; `outbox` joins the worker's channel, its deferred frames and the
socket; `inbox` joins the socket and the UI event queue. The worker keeps these
FIFO: deferred frames were taken from the channel before anything still in it.
A broken connection eats the oldest frames of `outbox` (on the wire, or
discarded when the replay fails) and the newest of `inbox`, never a `Connected`
signal, which is local. Frames: `hello` with digests, and records; `page` and
`update` frames are handled alike by both sides and are one kind here.

| Action | Code |
| --- | --- |
| `Edit` | a write through the library or page handle, and the flush that ends the same UI action; if the write makes or deletes a page, the page loaded then |
| `Select` | a row picked in the sidebar, as far as it makes the editor leave a removed page |
| `AgentWrite` | `put`/`remove` and `publish` |
| `ClientHandle` | `Driver::on_action` for a signal: `HandleConnected`, `HandleHello` (confirm or drop the provisional page, then the differing pages), `HandleRecords` (merge, and load the first page if none was active) |
| `ServerHandle` | `onMessage`: `AnswerHello`, `RelayRecords` (merge, relay, return winners) |
| `Connect`, `Disconnect` | `run` and `accept`/`forget` |
| `Crash`, `Start` | process end; `main` with the provisional seed |
| `ServerRestart` | the server process; all connections break |

`Sync` takes digests from the records held, which `CacheCorrect` justifies, and
a local write as applied, which `CounterCorrect` does.

`purged` is the removed page a client's editor still shows. A hello that drops the
provisional page leaves the editor on it (`DropProvisional`): with no other live page
`refresh_library` has none to load, with one it takes the switch for done
(app.rs:182-191). From then on `Edit` may make blocks of that page, as
`insert_block` asks for no page record (page.rs:214-233), and send them; until the
user selects or makes a page, or the first page to come is loaded (`LoadsFirst`).
Which page is active is `App`'s matter, so where it decides, `Sync` allows both.

Abstractions: the seed page is at first its page record (its first block goes through the
same calls in the same step, and is dropped with it); a write the driver derives from a merged record (a
new title) is an `Edit` that may follow at any time; frames the server reads from
an old connection after the client has reconnected are read before the loss; a
connection breaks for both ends at once (`NetWorker` has the heartbeat and the
half-open connections); the server's crash in the middle of one merge is left to `Workspace`.

`SettledAgree` is the correctness of the protocol: a connected client with
nothing in flight has exactly the server's records. `UnconfirmedUnsent` is the
promise of the provisional page, for its record and its blocks. `SeedWithheld` is the
part of it that holds as long as no client is restarted: the record never leaves its
maker, nor do the blocks while the maker has the record. Blocks made after the page
was dropped do leave (`sync_stray`), and the other properties hold with them. `Converges` adds that settling happens.

Checking it also shows that returning winners to the origin (`Lost`,
hub.ts:83-94) is not needed for agreement: without it the run still passes, because a connected client has the winner in its inbox already and any
other gets it in the handshake.

Withholding the provisional page from `hello` is likewise harmless to drop: what
protects the server is that `handle_frame` settles the provisional page before it
sends pages.

### History

The undo and redo stacks of one page over a store. Each edit of the page handle
commits one record, so an entry holds one change. The 750 ms coalescing window is
a choice: an edit with the key of the last entry continues it or not. `Undo` and
`Redo` pop the entries a peer's version blocks and apply the first they may.
`PeerIds` are the blocks peers write; on the others `LinearSpec` states that undo
and redo walk a line of states: the refinement maps the stacks, restricted to
these blocks, to the states they lead back to.

### NetWorker

The loop of `run` (client.rs) with `connect_with_backoff` and `connect_bounded`
(transport.rs), one action per blocking call or loop turn: connect, websocket
handshake, pause, replay of deferred frames, drain of the channel, read. The UI
sends and in the end drops the handle (`BeginDrop`, `EndDrop`: the shutdown item,
the bounded wait, the detached thread). The socket is external: it may be dead
before the worker sees it, and takes writes until it does. Durations are left out;
a pause or a poll ends at any time. `QueueSpec` is the refinement that lets `Sync`
use one queue for channel, deferred frames and socket. `GapsOnlyAtBreaks` says
that frames arrive in order and are missing only where a connection broke,
`ConnectionsAnnounced` that every connection gets its handshake, `NoFrameStuck`
and `WorkerStops` that it goes on, or ends.

The other end is `accept` of hub.ts, as far as a connection can tell: `member`
says whether the hub still counts it, `ponged` is its flag, `pong` a pong on its
way. Each round of the timer pings the connections that answered and gives up
the others (`Ping`, `Outlived`), whatever is under way: a pong may come after the
next round. `Forget` takes the connection out of the set and closes it
(`conn.close()`, hub.ts:136); the worker reads the close after what was sent before it. `NotDeaf`: a worker whose connection the hub has given up does not stay on
it, sending to nobody and hearing nothing; it notices, or stops.

`FairSpec` assumes that the thread runs, that a pause takes what is in the
channel, that a server that accepts a connection answers the websocket handshake
or closes, and that it is reachable again and again. The third is not the code's
doing: the read timeout is set after the handshake (transport.rs:93), so a silent
server holds the worker for ever. Likewise a write to a peer that does not read
can block, and a half-open connection is noticed only by a write. These are
outside the model.

### Fractional, Positions

`Fractional` has the key algorithm of `fractional.ts` on sequences of bytes, which
is written after the Rust crate the editor uses and stands for it too.
`Positions` has two copies of a page, the editor's and the server's, which insert
and remove blocks and exchange what they have at any time. The agent's actions are
the tools of `mcp/server.ts` with the guards they have (`CreateDocument`,
`AppendBlocks`, `ReplaceDocument`, `InsertBlock`, `DeleteBlock`); the editor's are
those of the page handle, with undo and redo, which bring a removed block back to
its old place (`RestoreBlock`). `ReplaceCutOff` is a server that dies inside
`replaceBlocks`. Which of a block and its tombstone is newer is `Sync`'s matter:
here an exchange lets either win.

`AlwaysRoom`: between two different keys there is a key, and it is between them.
`InsertLands`: an inserted block stands where it was asked for, unless its
neighbours are twins with one key; then nothing fits between them. Twins come from
concurrent inserts, and from a removal undone after its place was given away.
`BatchesInOrder`: blocks appended together come last and in their order, and a
replacement is the whole page in its order, also when it repeats one that was cut
off.

The tools' text says that "a document always keeps at least one block"
(server.ts:164). Each completed call leaves the server's own copy so; a cut-off
replacement, or deletions of different blocks on both sides, do not, and the
editor inserts a block when it is asked to write to an empty page (edit.rs:30).

### Runs, Editor

`Runs` has the operators of `runs.rs` and the splices of `page.rs` on sequences of
bytes. `Editor` works on a record of page, selection ends and menu: each operation
of `edit.rs` or `menu.rs` is an operator from record to record, an event handler
applies it, rebuilds the layouts (`Relaid`, which re-anchors the selection) and
refreshes the slash query (`UpdateSlash`), in the order of `on_text_event`.
Between events the page changes by merges (`Peer...`), undo and `LoadDocument`.
`PeerRuns` are any runs: an agent's tool takes them as they come (server.ts:21-31),
the server stores them without joining them (blocks.ts:182-207), and the editor reads
what is stored (page.rs:78-91). Runs are normal, that is, not empty and with other
marks than their neighbours, only once the editor has written them.
Positions are left to `Positions`, and any two neighbours may be twins, which share
one: a new block asked for between twins gets a position behind both
(page.rs:263-272) and `Landed` puts it `past` places further down, for every `past`.
An undo with no menu open has the effect of a merge on this state, so only the
one with a menu is an action of its own.

The properties read the page as one text with newlines between blocks:
`TypingSplices`, `EnterSplits` and `DeletesSplice` say that each operation is the
splice one expects in that text, across blocks and on an empty page, whatever a
merge did before. The exception is Enter between twins, where the text right of the
caret stands as many blocks further down as its block landed, and nothing else is out
of place; `CharactersWhole` that no character of a run is ever cut in two,
at offsets taken from a text that a merge has replaced either; `SelectionAnchored`
that the ends of the selection stay in blocks of the page and between two characters
of their texts; `TypingKeepsMarks` and `ToggleExact` that marks stay with their
characters. At the end of a block a character gets the marks of the last run, and a
last run that an agent left empty may have marks that no character has: `marks_at`
(runs.rs:69-81) then does not give those "of the last character" (runs.rs:67-68).
`TypingKeepsMarks` is about typing one character the block does not have:
`set_text` finds the change by comparing texts, so typing "a" before or after an
"a" is one change to it, and marks may then move by a character. Joining and
splitting blocks loses marks: what moves to another block is written with `set_text`
(edit.rs:117, 148, 179, 209), although README.md:18-19 calls marks "preserved across
edits". No property of a passing run speaks of these marks.

Left out: dragging on from a double or triple click, preedit text, the highlighted
menu row, the deferred reflow (the page does not change while it waits), and grapheme
clusters, which are single characters here. The drag keeps the offsets of the span it
began with (selection.rs:200-251), so after a merge it may put an end behind the text
of its block, which `SelectionAnchored` does not cover. Whoever uses an end clamps it.

### App

One editor process above its store. `library` is the page records (live, deleted
or purged, title, text), the active and the provisional page; `editor` the page of
its handle and the title of the text as last laid out; `sidebar` the rows, the
active row and the row the open question is about. `link` tells whether the first
hello has come. `asked` is history: the page whose delete button opened the
question.

| Action | Code |
| --- | --- |
| `Start`, `Close`, `Crash` | `main`, `on_close_requested`, the end of the process |
| `Type` | an edit, the layout after it, and `EditorAction::Changed` |
| `Create`, `Select`, `Delete` | the sidebar actions of `on_action`, each with `sync_title` before and `after_library_change` after |
| `AskDelete`, `Cancel` | the question in `handle_down` |
| `HandleHello` | `handle_frame` confirming or dropping the provisional page, then `refresh_library` |
| `HandleRecords` | a merge of records, then the title of the merged text, the layout, the rows |

The helpers of `library.rs`, `sidebar.rs`, `editor.rs` and `app.rs` are operators
of the same names from one view to the next, so a handler reads as the chain of
calls it is. An event and the action it submits are one step, because the toolkit
delivers submitted actions before the next event, and a handler's layout happens
when it returns. After the first hello frames are chosen freely: any page may be
added, renamed, rewritten, deleted or revived. The titles of deleted pages show
nowhere and are left out, a page's text is the first line of each block.

`SidebarInStep` and `EditorInStep` are the driver's promise (app.rs:3-5) that the
three views agree, on every path through create, select, delete, rename, frames
and restarts, an emptied library included; `ConfirmAims` that frames which insert
and remove rows behind an open question do not turn it to another page;
`OwnTitles` that a page takes the title of its own text, and not one that was
laid out for another page or before a frame.

The last one also shows what an agent's title is worth: `create_document` takes a
"Title shown in the sidebar" (server.ts:103), and the editor replaces it by the
first line at the first edit, frame or sidebar action with the page open.

Left out: hover and drawing of the sidebar, eliding long titles, focus and
scrolling.

## Runs

| Run | Question | Bounds |
| --- | --- | --- |
| `workspace` | Is one store right under any deliveries and crashes, and does it implement `LwwStore`? | two pages, one with a block; one peer with a larger id; counters to 2; one record written by peers |
| `sync` | Do two clients and agents agree, and always get there, whatever is lost with a connection, a client or the server? | 2 clients, a page of agents, a block of one client's seed; 2 writes after seeding, 1 break or server restart, 1 crash; 2 of these in all once both clients have started |
| `history` | Is undo linear on the blocks peers leave alone? | a block of the user's, one shared, counters to 5, 2 peer writes |
| `networker` | Does the worker keep order, lose frames only with a connection, and stop when told? | 3 frames, 1 frame from the server and any pings, 2 breaks |
| `positions` | Do keys never run out, and do blocks land where they were put? | bytes 0 to 3 with terminator 2, four blocks, two in a batch |
| `editor` | Is every editing operation the splice the user means, and no character ever cut? | 2 blocks with 2 characters, or 3 with 1; two characters of two bytes that share the first; peers' runs with an empty one, and with two of the same marks |
| `app` | Are library, sidebar and editor in step, and titles and deletions right? | 3 pages ever made; texts without a block, with a blank one, and with a title below it |
| `sync_typing`, `sync_reseed`, `sync_stray`, `history_peer`, `app_drop` | counterexamples, see below | |

Why they are enough: in `workspace` two versions and three ids give every order
of two versions of one record, a digest over two records, and a page beside it;
the purge-restart-rewrite sequence behind the mutant `PurgeSentPage` (ten steps)
fits. In `sync` the client ids lie on both sides of the server's, so ties of
counters break both ways; two writes are one conflict, a write and a failure one
loss, two failures the second one in the recovery from the first; an agent's page and
a block are what a dropped page and a key after it take. What needs more
than two of these after both clients have started is not checked (`MaxShared`);
before that, one client goes through all of them. In
`networker` three frames are one sent, one deferred and one in the channel at a
time. In `positions` bytes are soon used up, so keys grow; a state in which all four
ids are used is checked and not continued (the state constraint `IdsLeft`), as
no position is given after it. In `editor` two
characters put text on both ends of a selection over two blocks, three blocks are
a selection with a block inside, or a split whose right part lands behind another block, and the shared first byte makes a careless splice
cut a character; the page ids are symmetric, and only invariants are checked. In
`app` three pages are the one shown, the one asked about and one that moves in
between; a page used up is never reused, as ids are random.
Edits and failures are bounded by `MaxWrites`,
`MaxBreaks` and `MaxCrashes`, so a system that has used them up stops: deadlock is
not checked in `Sync`, `History` and `NetWorker`, whose process ends, nor in `App`,
where a library without a page cannot start once `MaxPage` pages were used. It is in
`Workspace`, `Positions` and `Editor`, which never stop.

Fairness in `FairSpec` of `Sync` is one weak fairness condition on `Machinery`:
while a client's event loop has a queued signal, the server's has a frame, or a
worker can connect, one of them moves, whichever it is. The operating system runs
these threads, and `connect_with_backoff` has no limit of attempts. It is weaker
than fairness for each of them, so `Converges` is the stronger for it. Nothing is
assumed of users, agents or failures, and a crashed client may stay down:
`Converges` speaks of running clients.

## Findings

* `sync_typing`: typing into the provisional page marks its records dirty and
  flushes them; when the server's hello then drops the page, it is purged here and
  alive everywhere else (library.rs:222-228 against workspace.rs:207-208, 212-214).
* `sync_reseed`: the provisional mark does not survive a restart, so a blank page
  can be pushed onto a populated library (main.rs:114-117).
* `sync_stray`: a hello drops the provisional page before any other page has come.
  Nothing is loaded (app.rs:182-191), the editor keeps the removed page, and after a
  first key that is lost (page.rs:106) the next makes a block of it (edit.rs:30-35) that
  is sent: live, in every store, of a page nobody has. library.rs:222-223 says of this page
  that it "was never synced".
* `history_peer`: an own edit on top of a peer's re-enables older undo entries,
  which then overwrite the peer's text (README.md:25, history.rs:159-166).
* `app_drop`: when a hello drops the provisional page after the user has added
  another, the library moves on but the editor stays on the purged page
  (app.rs:182 reads the active page after `drop_provisional` changed it). The first
  key is lost, later ones make blocks of the purged page, and the next title sync writes the old page's title onto the page
  now active.

The passing runs show what holds all the same: `sync` sets `EditsProvisional = FALSE`
and checks, until the first restart, the promise for the page and its blocks as long as
it is there (`SeedWithheld`), and agreement with blocks of a purged page under way;
`app` sets `CreatesEarly = FALSE`, which keeps it from what `app_drop` shows.

## Proofs

The theorems hold for every value of the constants, bounds included, under the
named assumptions the modules state about them. Every proof of an invariant has
the same shape: an inductive invariant (`Inv`, or the conjunction named below),
lemmas about what each operator of the model returns, one step per action, and a
last temporal step.

| Module | Theorem | Says |
| --- | --- | --- |
| `WorkspaceProofs` | `TypeCorrect`, `CounterCorrect`, `CacheCorrect`, `DirtyCorrect`, `VersionsCorrect` | the invariants of one store |
| | `LocalWriteCorrect`, `AdvanceCorrect` | its two action properties |
| | `Refinement` | it implements `LwwStore` |
| `SyncProofs` | `SyncTypes` | types, for any clients and failures |
| | `SettledAgreement`, `VersionsIdentify`, `SeedsStayWithheld` | the invariants of the protocol, without typing into provisional pages |
| `NetWorkerProofs` | `WorkerTypes`, `ReadInOrder`, `EachAnnounced` | order, gaps and announcements |
| | `WorkerIsQueue` | the worker implements `FrameQueue` |
| `HistoryProofs` | `HistoryTypes`, `EntriesAlwaysHeld` | types; entries name blocks that are held |
| | `UndoIsLinear` | the stacks implement `LinearUndo` |
| `PositionsProofs` | `AfterAndBefore`, `AlwaysBetween` | the key algorithm, for keys of any length |
| | `PositionsTypes`, `PositionsRoom`, `InsertionsLand`, `BatchesStayInOrder` | all properties of `Positions` |
| `RunsProofs` | `SpliceKeepsAround`, `SetTextWrites`, `MarkRangeMarks` | what a splice, `set_text` and `mark` do to each byte |
| `EditorProofs` | `EditorTypes`, `SelectionStaysAnchored`, `CharactersStayWhole` | distinct blocks, in normal runs unless others wrote them; an anchored selection; no character cut |
| | `TypingAlwaysSplices`, `EnterAlwaysSplits`, `DeletingIsExact` | each editing operation is the splice the user means, over any number of blocks; Enter but for a block that lands further down |
| | `TypingAlwaysKeepsMarks`, `TogglingIsExact` | marks stay with their characters |
| `AppProofs` | `SidebarFollows`, `ConfirmAimed` | the sidebar is the library's |
| | `EditorFollows`, `TitlesOwn`, `AppTypes` | the editor's page and titles, when no page is added while one is provisional |

### Workspace

* `TypeCorrect` and `CounterCorrect` go together: what a local write stores has the
  type of a record only because the counter makes the upsert accept it.
* `CacheCorrect`: no digest outside the stale set is out of date.
* `DirtyCorrect` carries along that nothing waits while the process is down
  (`DirtyNeedsOpen`).
* `VersionsCorrect`: a version identifies a content. Not inductive alone: a
  restart resumes the counter from the records held, so one needs that what this
  store signed and sent is not ahead of what it holds (`SentBehind`), and that
  what it holds of others was sent (`ForeignIsShared`).
* `Refinement`: the store implements `LwwStore`, from the invariants above.

`PageOf` maps ids to pages, author ids are naturals, `Self` is one of them; nothing
else is assumed. There is a lemma per effect (`UpsertFacts`, `MergeFacts`,
`PurgeFacts`, `RestoreFacts`).

### Sync

`SyncTypes` needs that every counter covers what its store holds, and that a
process that is down has no connection, queue or dirty set (`Sound`). The other
three hold when nobody types into a provisional page, which is the constant
`EditsProvisional`; `sync_typing` is what happens otherwise. They come from one
invariant:

* `OnTheWay` is the idea of the protocol. Between linked ends, for each record:
  the client has one no older than the server's, or the client's `Connected` or
  its hello is still to be answered, or the record itself is in the inbox; and the
  same the other way. With empty queues only the first disjuncts are left on both
  sides, so neither has an older record, and by `VersionsDiffer` they are equal.
* `SentBehind`: who sent a record, or claims one in a hello, has no older one, so
  a frame delivered late cannot be all there is of a record.
* `AuthorHolds`: an author never falls behind what it wrote, although a crash
  resets its counter to what is held and a dropped page is removed outright. The
  removal is harmless because of `Withheld`: a provisional page is in no other
  store, frame or hello, and neither are its blocks.
* `SeedProvisional`: before any crash, an unconfirmed seed still is provisional, or no
  copy of its record is left. With `Withheld` this gives `SeedsStayWithheld`: while a copy
  of the record exists it is its maker's and withheld, and the blocks with it.
* `Editors`: an editor left on a purged page is on its own client's seed, so the blocks
  it makes are of no page that another client withholds. As long as nobody types into a
  provisional page, they are records like any others to the rest of the proof.

### NetWorker

`ReadInOrder` follows from `InOrder`: channel, deferred frames and wire hold, in
this order from the back, the last frames sent, without a gap. `ReadBefore` links
them to what was read, `Places` says what the worker has at each point of its
loop, and `EndsOnce` that the shutdown is queued last. `Announced` makes
`EachAnnounced` inductive: the last signal is about the last connection. For
`WorkerIsQueue` each step is a put, a read, a loss of the oldest frames or a
stutter of `FrameQueue`, whose queue is the concatenation of the three.

### History

`Coherent`, for each stack: what an entry of the user's own block wrote is what
the entry after it found, or the block's content now. The refinement mapping
unwinds the stack entry by entry (`Unwound`), and coherence says that unwinding
leads back through the very states the edits were made in, whatever peers did to
other blocks and whichever entries `Undo` skipped. `OwnRecords` (nobody else has
written these blocks) is what makes no own entry be skipped.

### Fractional, Positions

`Below` is a strict total order of the keys. `AlwaysBetween` goes by the first
place where two keys differ, found as the least of a set. Above that, the
invariant of `Positions` is small (every block made has a key, and no copy knows a
block that was not made), and most of the work is the lists: the order by key and
block is a listing of the live blocks and the only one (`OneListing`), an insertion
changes it in one place, a batch extends it by a chain of keys (`Chain`).

### Runs, Editor

`RunsProofs` gives run lists the meaning `Marked`: the bytes with their marks.
Splitting cuts that sequence (`SplitFacts`), joining runs and normalising keeps it
(`CoalesceFacts`), so a splice replaces a piece of it; `SetTextWrites` adds that
the common edges of two texts never overlap (`EdgesApart`). The lemmas walk a list
by the least index for which a claim fails, since the functions and folds that
define these operators are recursive.

`EditorProofs` splits a handler into its operations. `Fit` is what an operation
passes to the next: everything has its type, and either the selection is anchored
or the layouts are marked to be rebuilt. Each operation keeps `Fit` (`TypedFacts`,
`SplitAtFacts`, `JoinedFacts`, `ToggleFacts`, ...), rebuilding turns it into
`Settled` (`RelaidFacts`), and every event ends there. So a handler that moved a
block away and forgot to ask for a layout could not be proved, and one that writes
runs by anything but the splices could not either.

`CharactersStayWhole` adds `CharactersWhole` to that invariant. Each operation cuts
a text at an offset that was clamped to it, or found by a search in it, and such a
cut of whole characters leaves whole characters (`UncutConcat` and the lemmas around
it); `set_text` cuts again at the common edges of the old and the new text, which
`common_edges` moves back to boundaries.

The text properties follow from the two invariants, state by state:

* `Lines` and `Text` read a page with a newline before each block, the first
  included, so that every block is treated alike and a page is the concatenation
  of its blocks; `Plain`, the reading the properties use, is that without its first
  newline. What an operation does to the blocks is a `Swap`: the blocks from one
  index to another replaced by a few new ones.
* `TextSpliced`, `SwapOne` and `SwapTwo` turn a `Swap` into a splice of the text,
  and `Stands` says where a place in a block is in it. So `EnterAlwaysSplits` and
  the selection's part of `DeletingIsExact` and `TypingAlwaysSplices` are one
  argument, with one block or two in the middle. Where the new block stands further down,
  taking it back to the place asked for gives the page that `Swap` speaks of (`SplitLands`).
* `DeletingIsExact` with a bare caret needs that the boundary before or behind it in
  the page is that in its block, or the newline at the block's end (`BackErases`,
  `ForwardErases`); here `CharactersWhole` is needed, as a block that began with the
  rest of a character would have its boundary elsewhere. `SelectedIs` says that what
  is copied is what lies between the two offsets.
* In `TypingAlwaysSplices` the marker is the second case: the block's new text
  begins with it, and the heading's text is the rest (`Converting`).
* `TypingAlwaysKeepsMarks`: typing writes the whole text of the block, so one needs
  where `common_edges` finds the change. As the block does not have the last byte of
  the character typed, it finds it where the caret is (`EdgesOfTyped`), and
  `marks_at` there gives the marks of the character behind, or of the last run.
* `TogglingIsExact` goes block by block, from `MarkRangeMarks`.

Assumed are documents of distinct blocks, each in normal runs or in runs a peer may
write, and texts in UTF-8: what is opened, typed or written by peers has no part of a
character in any run (`TextsAssumption`). Nothing else is assumed of peers' runs, so the
theorems about `set_text` and `mark` start from any runs, and `MarksAtIs` tells the last
run from the last character.
The newline continues no character, and the marker is not empty and has no newline.

### App

`SidebarFollows` and `ConfirmAimed` come from one invariant with the types
(`ViewsInv`). The types carry that a title given by a line is not blank, so a row
retitled alone shows what a new list would (`RetitledRowFacts`). Nearly every
step rebuilds the rows and closes the question (`Unasked`).

`EditorFollows`, `TitlesOwn` and `AppTypes` hold as long as no page is added while
one is provisional (`app_drop` shows why; for `AppTypes`, the provisional page
could then be deleted and still be withheld). `EditorInv` strengthens it twice: the
editor is laid out for the active page also while that page is deleted, since a
peer may bring it back; and a withheld page is alone in the library, so that
dropping it cannot move the library without the editor.

The page ids' order is that of the naturals; a title is not blank, a text is a
sequence of such titles and blank lines, and the texts of a new and of a purged
page are among the texts.

### Only model-checked

* Liveness (`Converges`, `NoFrameStuck`, `WorkerStops`, `NotDeaf`): fairness and
  ENABLED are out of the prover's reach.
* That `LinearUndo`, `FrameQueue` and `LwwStore` say what a user would expect is a
  matter of reading them; they are short.

## Plan

All safety properties of the runs that are expected to pass are theorems. What could
follow: the drag of a double-click span in `Editor`, whose ends are only clamped by
their users; a store with two pages in `History`, whose stacks are independent by
construction here; and an abstract text editor that `Editor` implements event by
event, of which the splice properties are the steps.

## Not modelled

* Drawing, layout geometry, hover, themes and platform calls, which share no state
  with the rest; the blink timer, which changes one drawing flag.
* The agent's reading tools and the HTTP transport, which change nothing.
* SQLite, tungstenite and the MCP SDK, which are external.
* A websocket handshake that never ends (transport.rs:93), see `NetWorker`.
* Two editors exchanging titles: each derives the title from the text it has laid
  out and writes it when it differs. `App` has one editor and peers that write any
  title, and shows that its own are right; whether two editors always stop writing
  to each other is open.
