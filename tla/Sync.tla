-------------------------------- MODULE Sync --------------------------------
(***************************************************************************)
(* The clients and the server kept in step over one websocket per client:  *)
(* src/src/session.rs with the catalog of src/src/library.rs and the       *)
(* worker of src/src/net/client.rs on one side, src/server/src/hub.ts with *)
(* the store of src/server/src/workspace.ts on the other.                  *)
(*                                                                         *)
(* A node is named by the client id it signs its versions with.  Stores    *)
(* survive a crash; everything else of a client does not.  `outbox` is the *)
(* way from a client's UI thread to the server's handler (the worker's     *)
(* channel, its deferred frames and the socket), `inbox` the way back (the *)
(* socket and the UI event queue).  Both are FIFO; a lost connection eats  *)
(* the frames on the wire, which are the oldest of `outbox` and the newest *)
(* of `inbox`.  Digests are those of the records held: module Workspace    *)
(* shows the cache that serves them to be fresh.                           *)
(***************************************************************************)
EXTENDS Lww, Sequences, FiniteSets, SequencesExt

CONSTANTS
    Clients,            \* the client ids of the editors
    Server,             \* the client id of the server
    SeedOf,             \* the page each client would seed itself with
    EditsProvisional,   \* whether the user may type into a provisional page
    MaxWrites,          \* bound of the model: edits after the seeding
    MaxBreaks,          \* bound of the model: disconnects and server restarts
    MaxCrashes,         \* bound of the model: client crashes
    MaxShared           \* bound of the model: all of these once two clients have started

Nodes == Clients \cup {Server}
Seeds == {SeedOf[c] : c \in Clients}

ASSUME NodesAssumption == Authors = Nodes /\ Server \notin Clients
\* A page is named by the id of its page record.
ASSUME PageRecordsAssumption == Pages \subseteq Ids /\ \A p \in Pages : PageOf[p] = p
ASSUME SeedAssumption ==
    /\ SeedOf \in [Clients -> Pages]
    /\ \A c, d \in Clients : SeedOf[c] = SeedOf[d] => c = d
ASSUME DataAssumption == IsFiniteSet(Ids) /\ Values # {}
ASSUME BoundsAssumption ==
    MaxWrites \in Nat /\ MaxBreaks \in Nat /\ MaxCrashes \in Nat /\ MaxShared \in Nat

VARIABLES
    store,          \* node -> its records
    counter,        \* node -> its Lamport counter
    running,        \* client -> whether its process runs
    dirty,          \* client -> ids with local changes not yet sent
    provisional,    \* client -> the page withheld from sync: none or one
    purged,         \* client -> the removed page its editor still shows: none or one
    link,           \* client -> whether its connection is up
    outbox,         \* client -> frames on their way to the server
    inbox,          \* client -> frames and signals on their way to its UI
    unconfirmed,    \* history: seeds whose maker has not seen an empty server
    writes,         \* bound of the model: edits made
    breaks,         \* bound of the model: connections broken
    crashes         \* bound of the model: client crashes

clientVars == <<running, dirty, provisional, purged>>
wireVars == <<link, outbox, inbox>>
boundVars == <<writes, breaks, crashes>>
vars == <<store, counter, clientVars, wireVars, unconfirmed, boundVars>>

-----------------------------------------------------------------------------
(* Frames. *)

Connected == [t |-> "connected"]
Hello(pages) == [t |-> "hello", pages |-> pages]
Update(batch) == [t |-> "records", batch |-> batch]

\* One frame for each group of ids, with the records `s` holds for them.
Frames(s, groups) ==
    LET order == SetToSeq(groups)
    IN  [k \in DOMAIN order |-> Update([i \in order[k] |-> s[i]])]

\* Mutated ByPage: a group for every page, touched or not.
ByEveryPage(ids) == {{i \in ids : PageOf[i] = p} : p \in Pages}
ByPage(ids) == {{i \in ids : PageOf[i] = p} : p \in {PageOf[i] : i \in ids}}
Singly(ids) == {{i} : i \in ids}

\* Mutated DifferingPages: only the pages the other side does not know.
UnknownPages(s, mine, theirs) ==
    Frames(s, {PageIds(s, p) : p \in DOMAIN mine \ DOMAIN theirs})

\* The handshake reply: every page whose digest differs from `theirs`, whole.
DifferingPages(s, mine, theirs) ==
    Frames(s, {PageIds(s, p) : p \in Differing(mine, theirs)})

InFlight == UNION {{outbox[c][k] : k \in DOMAIN outbox[c]} \cup
                   {inbox[c][k] : k \in DOMAIN inbox[c]} : c \in Clients}
Copies ==
    UNION ({{<<i, store[n][i]>> : i \in Held(store[n])} : n \in Nodes} \cup
           {{<<i, f.batch[i]>> : i \in DOMAIN f.batch} :
               f \in {g \in InFlight : g.t = "records"}})

-----------------------------------------------------------------------------
Init ==
    /\ store = [n \in Nodes |-> Empty]
    /\ counter = [n \in Nodes |-> 0]
    /\ running = [c \in Clients |-> FALSE]
    /\ dirty = [c \in Clients |-> {}]
    /\ provisional = [c \in Clients |-> {}]
    /\ purged = [c \in Clients |-> {}]
    /\ link = [c \in Clients |-> FALSE]
    /\ outbox = [c \in Clients |-> <<>>]
    /\ inbox = [c \in Clients |-> <<>>]
    /\ unconfirmed = {}
    /\ writes = 0
    /\ breaks = 0
    /\ crashes = 0

-----------------------------------------------------------------------------
(* The bound on edits and failures when several clients take part. *)

\* A client's counter is above 0 from its first start on.
Started == {c \in Clients : counter[c] # 0}
Events == writes + breaks + crashes
HasRoom == Cardinality(Started) > 1 => Events < MaxShared
MayJoin(c) == Cardinality(Started \cup {c}) > 1 => Events <= MaxShared

-----------------------------------------------------------------------------
(* Local writes. *)

LivePages(s) == {p \in Pages : Holds(s, p) /\ ~s[p].deleted}

\* What the editor, the sidebar and the agents may write: a record held (an
\* undo may revive a deleted one), or one under a new id; a block only of a page
\* held or shown (`open`); the last live page is never deleted.
Fresh(i) == i \notin Seeds /\ i \notin IdsOf(Copies)
MayWrite(s, open, i, deleted) ==
    /\ i \in Pages \/ PageOf[i] \in open \/ Holds(s, PageOf[i])
    /\ IF deleted
         THEN Holds(s, i) /\ ~s[i].deleted /\ (i \in Pages => LivePages(s) # {i})
         ELSE Holds(s, i) \/ Fresh(i)

\* Mutated NextVersion: every node signs with the same id.
SharedIdVersion(n, deleted, value) ==
    [c |-> counter[n] + 1, client |-> Server, deleted |-> deleted, value |-> value]

NextVersion(n, deleted, value) ==
    [c |-> counter[n] + 1, client |-> n, deleted |-> deleted, value |-> value]

\* A record written at node n with a fresh version.
Put(n, open, i, deleted, value) ==
    /\ writes < MaxWrites
    /\ HasRoom
    /\ MayWrite(store[n], open, i, deleted)
    /\ writes' = writes + 1
    /\ counter' = [counter EXCEPT ![n] = @ + 1]
    /\ store' = [store EXCEPT ![n] =
                    Merged(@, [j \in {i} |-> NextVersion(n, deleted, value)])]

\* A page made is loaded into the editor, and so is the next one when the active
\* page is deleted (which one that is, module App tells).
LoadsAfter(c, i, deleted) ==
    IF i \notin Pages THEN {FALSE}
    ELSE IF deleted THEN BOOLEAN ELSE {~Holds(store[c], i)}

\* An edit, a new page or a deletion, then the flush that ends the handler.
Edit(c, i, deleted, value) ==
    LET ids == dirty[c] \cup {i}
    IN  /\ running[c]
        /\ PageOf[i] \in provisional[c] => EditsProvisional
        /\ Put(c, purged[c], i, deleted, value)
        /\ \E loads \in LoadsAfter(c, i, deleted) :
              purged' = [purged EXCEPT ![c] = IF loads THEN {} ELSE @]
        /\ dirty' = [dirty EXCEPT ![c] = {}]
        /\ outbox' = [outbox EXCEPT ![c] = @ \o Frames(store'[c], ByPage(ids))]
        /\ UNCHANGED <<running, provisional, link, inbox, unconfirmed, breaks, crashes>>

\* The user picks a page in the sidebar, and the editor leaves the purged one.
Select(c) ==
    /\ running[c]
    /\ purged[c] # {}
    /\ LivePages(store[c]) # {}
    /\ purged' = [purged EXCEPT ![c] = {}]
    /\ UNCHANGED <<store, counter, running, dirty, provisional, wireVars, unconfirmed, boundVars>>

\* An agent's write at the server, published to every connection.
AgentWrite(i, deleted, value) ==
    /\ Put(Server, {}, i, deleted, value)
    /\ inbox' = [c \in Clients |->
                    IF link[c] THEN inbox[c] \o Frames(store'[Server], {{i}}) ELSE inbox[c]]
    /\ UNCHANGED <<clientVars, link, outbox, unconfirmed, breaks, crashes>>

-----------------------------------------------------------------------------
(* The client's handlers, on its UI thread. *)

\* The digests a client advertises: a provisional page is withheld.
DigestsOf(c) ==
    [p \in KnownPages(store[c]) \ provisional[c] |-> Digest(store[c], p)]

\* Mutated HandleConnected: no handshake after a connection comes up.
IgnoreConnected(c) ==
    UNCHANGED <<store, counter, outbox, clientVars, link, unconfirmed>>

\* The connection came up: open the handshake.
HandleConnected(c) ==
    /\ outbox' = [outbox EXCEPT ![c] = Append(@, Hello(DigestsOf(c)))]
    /\ UNCHANGED <<store, counter, clientVars, link, unconfirmed>>

\* The server has no pages: the provisional page joins the library.
ConfirmProvisional(c) ==
    /\ provisional' = [provisional EXCEPT ![c] = {}]
    /\ dirty' = [dirty EXCEPT ![c] = @ \cup UNION {PageIds(store[c], p) : p \in provisional[c]}]
    /\ UNCHANGED <<store, purged>>

\* Mutated DropProvisional: the page is no longer provisional, but stays.
AdmitProvisional(c) ==
    /\ provisional' = [provisional EXCEPT ![c] = {}]
    /\ UNCHANGED <<store, dirty, purged>>

\* The server has pages: the provisional page is removed outright.  An editor
\* that shows it keeps it: the catalog names its first page before the driver
\* looks, so the driver sees no change of page and loads none.
DropProvisional(c) ==
    /\ provisional' = [provisional EXCEPT ![c] = {}]
    /\ store' = [store EXCEPT ![c] =
                    [i \in Ids |-> IF PageOf[i] \in provisional[c] THEN Absent ELSE @[i]]]
    /\ dirty' = [dirty EXCEPT ![c] = {i \in @ : PageOf[i] \notin provisional[c]}]
    /\ \E shown \in BOOLEAN :
          /\ ~shown => LivePages(store'[c]) # {}
          /\ purged' = [purged EXCEPT ![c] = IF shown THEN provisional[c] ELSE @]

\* The server's digests: settle the provisional page, then send what differs.
HandleHello(c, pages) ==
    /\ \/ provisional[c] # {} /\ DOMAIN pages = {} /\ ConfirmProvisional(c)
       \/ provisional[c] # {} /\ DOMAIN pages # {} /\ DropProvisional(c)
       \/ provisional[c] = {} /\ UNCHANGED <<store, dirty, provisional, purged>>
    /\ outbox' = [outbox EXCEPT ![c] =
                     @ \o DifferingPages(store'[c], Digests(store'[c]), pages)]
    /\ unconfirmed' = IF DOMAIN pages = {}
                         THEN unconfirmed \ {SeedOf[c]} ELSE unconfirmed
    /\ UNCHANGED <<counter, running, link>>

\* merge: the newer version of each id stays, the counter follows the largest.
MergeAt(n, batch) ==
    /\ store' = [store EXCEPT ![n] = Merged(@, batch)]
    /\ \E m \in {counter[n]} \cup BatchCounters(batch) :
          /\ IsGreatest(m, {counter[n]} \cup BatchCounters(batch))
          /\ counter' = [counter EXCEPT ![n] = m]

\* Whether the first live page is loaded after a merge: the active one is gone or
\* there was none.  It is when pages appear where none was; a page that comes
\* back may have been the active one all along.
LoadsFirst(old, new) ==
    LET before == LivePages(old)
        after == LivePages(new)
    IN  IF after = {} \/ (before # {} /\ before \subseteq after) THEN {FALSE}
        ELSE IF before = {} /\ \A p \in after : ~Holds(old, p) THEN {TRUE}
        ELSE BOOLEAN

HandleRecords(c, batch) ==
    /\ MergeAt(c, batch)
    /\ \E loads \in LoadsFirst(store[c], store'[c]) :
          purged' = [purged EXCEPT ![c] = IF loads THEN {} ELSE @]
    /\ UNCHANGED <<running, dirty, provisional, outbox, link, unconfirmed>>

ClientHandle(c) ==
    /\ running[c]
    /\ inbox[c] # <<>>
    /\ inbox' = [inbox EXCEPT ![c] = Tail(@)]
    /\ LET frame == Head(inbox[c])
       IN  \/ frame.t = "connected" /\ HandleConnected(c)
           \/ frame.t = "hello" /\ HandleHello(c, frame.pages)
           \/ frame.t = "records" /\ HandleRecords(c, frame.batch)
    /\ UNCHANGED boundVars

-----------------------------------------------------------------------------
(* The server's handler of one frame. *)

\* The client's digests: send back the pages that differ.
AnswerHello(c, pages) ==
    /\ inbox' = [inbox EXCEPT ![c] =
                    @ \o DifferingPages(store[Server], Digests(store[Server]), pages)]
    /\ UNCHANGED <<store, counter>>

\* The rejected records whose winner the origin has not seen.
Lost(batch) ==
    {i \in DOMAIN batch \ Applied(store[Server], batch) : Newer(store[Server][i], batch[i])}

\* Mutated RelayRecords: what was new is not relayed.
MergeWithoutRelay(c, batch) ==
    /\ MergeAt(Server, batch)
    /\ inbox' = [inbox EXCEPT ![c] = @ \o Frames(store[Server], Singly(Lost(batch)))]

\* Records: merge them, relay what was new to the other connections, and send
\* the winners of what was rejected back to the origin.
RelayRecords(c, batch) ==
    /\ MergeAt(Server, batch)
    /\ inbox' = [d \in Clients |->
           IF d = c THEN inbox[d] \o Frames(store[Server], Singly(Lost(batch)))
           ELSE IF link[d]
             THEN inbox[d] \o Frames(store'[Server], ByPage(Applied(store[Server], batch)))
             ELSE inbox[d]]

ServerHandle(c) ==
    /\ link[c]
    /\ outbox[c] # <<>>
    /\ outbox' = [outbox EXCEPT ![c] = Tail(@)]
    /\ LET frame == Head(outbox[c])
       IN  \/ frame.t = "hello" /\ AnswerHello(c, frame.pages)
           \/ frame.t = "records" /\ RelayRecords(c, frame.batch)
    /\ UNCHANGED <<clientVars, link, unconfirmed, boundVars>>

-----------------------------------------------------------------------------
(* Connections and processes. *)

\* The server announces its digests to the new connection, the worker tells
\* the UI that it is up.
Connect(c) ==
    /\ running[c]
    /\ ~link[c]
    /\ link' = [link EXCEPT ![c] = TRUE]
    /\ inbox' = [inbox EXCEPT ![c] = @ \o <<Connected, Hello(Digests(store[Server]))>>]
    /\ UNCHANGED <<store, counter, clientVars, outbox, unconfirmed, boundVars>>

\* What may remain of the two queues when a connection is lost: the frames not
\* yet on the wire, and what had arrived.  Connected signals never were on it.
OutboxAfterLoss(c) == {SubSeq(outbox[c], k, Len(outbox[c])) : k \in 1 .. Len(outbox[c]) + 1}
InboxAfterLoss(c) ==
    {SubSeq(inbox[c], 1, m) : m \in
        {k \in 0 .. Len(inbox[c]) : \A l \in k + 1 .. Len(inbox[c]) : inbox[c][l] # Connected}}

Break ==
    /\ breaks < MaxBreaks
    /\ HasRoom
    /\ breaks' = breaks + 1

Disconnect(c) ==
    /\ Break
    /\ link[c]
    /\ link' = [link EXCEPT ![c] = FALSE]
    /\ \E q \in OutboxAfterLoss(c) : outbox' = [outbox EXCEPT ![c] = q]
    /\ \E q \in InboxAfterLoss(c) : inbox' = [inbox EXCEPT ![c] = q]
    /\ UNCHANGED <<store, counter, clientVars, unconfirmed, writes, crashes>>

\* The server stops, between two frames or amid the relaying of one, and comes
\* up again with the counter its records give it.
ServerRestart ==
    /\ Break
    /\ \E c \in Clients : link[c]
    /\ link' = [c \in Clients |-> FALSE]
    /\ outbox' \in [Clients -> UNION {OutboxAfterLoss(c) : c \in Clients}]
    /\ inbox' \in [Clients -> UNION {InboxAfterLoss(c) : c \in Clients}]
    /\ \A c \in Clients :
          IF link[c]
            THEN outbox'[c] \in OutboxAfterLoss(c) /\ inbox'[c] \in InboxAfterLoss(c)
            ELSE outbox'[c] = outbox[c] /\ inbox'[c] = inbox[c]
    /\ \E m \in {0} \cup StoreCounters(store[Server]) :
          /\ IsGreatest(m, {0} \cup StoreCounters(store[Server]))
          /\ counter' = [counter EXCEPT ![Server] = m]
    /\ UNCHANGED <<store, clientVars, unconfirmed, writes, crashes>>

\* The client's process ends; what it had queued is lost with it.
Crash(c) ==
    /\ crashes < MaxCrashes
    /\ HasRoom
    /\ crashes' = crashes + 1
    /\ running[c]
    /\ running' = [running EXCEPT ![c] = FALSE]
    /\ link' = [link EXCEPT ![c] = FALSE]
    /\ outbox' = [outbox EXCEPT ![c] = <<>>]
    /\ inbox' = [inbox EXCEPT ![c] = <<>>]
    /\ dirty' = [dirty EXCEPT ![c] = {}]
    /\ provisional' = [provisional EXCEPT ![c] = {}]
    /\ purged' = [purged EXCEPT ![c] = {}]
    /\ UNCHANGED <<store, counter, unconfirmed, writes, breaks>>

\* A start from counter m: with no live page the client seeds a provisional one.
StartFrom(c, m) ==
    LET page == SeedOf[c]
        seed == [c |-> m + 1, client |-> c, deleted |-> FALSE, value |-> CHOOSE v \in Values : TRUE]
    IN  /\ ~running[c]
        /\ MayJoin(c)
        /\ running' = [running EXCEPT ![c] = TRUE]
        /\ \/ /\ LivePages(store[c]) # {}
              /\ counter' = [counter EXCEPT ![c] = m]
              /\ UNCHANGED <<store, provisional, unconfirmed>>
           \/ /\ LivePages(store[c]) = {}
              /\ \A j \in IdsOf(Copies) : PageOf[j] # page
              /\ counter' = [counter EXCEPT ![c] = m + 1]
              /\ store' = [store EXCEPT ![c] = [@ EXCEPT ![page] = seed]]
              /\ provisional' = [provisional EXCEPT ![c] = {page}]
              /\ unconfirmed' = unconfirmed \cup {page}
        /\ UNCHANGED <<dirty, purged, wireVars, boundVars>>

Start(c) ==
    \E m \in {0} \cup StoreCounters(store[c]) :
       /\ IsGreatest(m, {0} \cup StoreCounters(store[c]))
       /\ StartFrom(c, m)

-----------------------------------------------------------------------------
Next ==
    \/ \E c \in Clients, i \in Ids, deleted \in BOOLEAN, value \in Values : Edit(c, i, deleted, value)
    \/ \E c \in Clients : Select(c)
    \/ \E i \in Ids, deleted \in BOOLEAN, value \in Values : AgentWrite(i, deleted, value)
    \/ \E c \in Clients : ClientHandle(c)
    \/ \E c \in Clients : ServerHandle(c)
    \/ \E c \in Clients : Connect(c)
    \/ \E c \in Clients : Disconnect(c)
    \/ ServerRestart
    \/ \E c \in Clients : Crash(c)
    \/ \E c \in Clients : Start(c)

Spec == Init /\ [][Next]_vars

\* One step of the machinery: an event loop turns, or a worker connects.
Machinery == \E c \in Clients : ClientHandle(c) \/ ServerHandle(c) \/ Connect(c)

\* While some event loop or worker can move, one of them does, whichever it is.
\* Nothing obliges the user to start a client or to type, or the network to break.
FairSpec == Spec /\ WF_vars(Machinery)

-----------------------------------------------------------------------------
(* Properties. *)

Batches == UNION {[S -> Record] : S \in SUBSET Ids}

IsFrame(f) ==
    \/ f = Connected
    \/ /\ f.t = "hello"
       /\ f = Hello(f.pages)
       /\ DOMAIN f.pages \subseteq Pages
    \/ /\ f.t = "records"
       /\ f = Update(f.batch)
       /\ f.batch # <<>>
       /\ DOMAIN f.batch \subseteq Ids
       /\ \A i \in DOMAIN f.batch : f.batch[i] \in Record

\* Every variable has its type; only a running client is connected, a frame of
\* records is never empty, and a client sends no Connected signal.
TypeOK ==
    /\ store \in [Nodes -> Stores]
    /\ counter \in [Nodes -> Nat]
    /\ running \in [Clients -> BOOLEAN]
    /\ dirty \in [Clients -> SUBSET Ids]
    /\ provisional \in [Clients -> SUBSET Pages]
    /\ purged \in [Clients -> SUBSET Pages]
    /\ link \in [Clients -> BOOLEAN]
    /\ \A c \in Clients :
          /\ link[c] => running[c]
          /\ Cardinality(provisional[c]) <= 1 /\ Cardinality(purged[c]) <= 1
          /\ \A k \in DOMAIN outbox[c] : IsFrame(outbox[c][k]) /\ outbox[c][k] # Connected
          /\ \A k \in DOMAIN inbox[c] : IsFrame(inbox[c][k])
    /\ unconfirmed \subseteq Seeds
    /\ writes \in 0 .. MaxWrites
    /\ breaks \in 0 .. MaxBreaks
    /\ crashes \in 0 .. MaxCrashes

\* A client whose connection is up and has nothing in flight either way.
Settled(c) == link[c] /\ outbox[c] = <<>> /\ inbox[c] = <<>>

\* A settled client has exactly the server's records, whatever was edited,
\* deleted, lost or restarted on the way: each side sends what differs in the
\* handshake, the server relays what it accepts and returns what it rejects
\* (session.rs handle_frame, hub.ts onMessage).
SettledAgree == \A c \in Clients : Settled(c) => store[c] = store[Server]

\* No two copies of a record, held anywhere or in flight, differ and yet carry
\* the same version: digests compare versions only, and last-write-wins would
\* keep both (next_clock, merge, and the counter restored by open).
VersionIdentifiesContent ==
    \A a, b \in Copies :
        (a[1] = b[1] /\ a[2].c = b[2].c /\ a[2].client = b[2].client) => a = b

\* Copy e is with the maker of the seed page it belongs to, and nowhere else.
Unsent(e) ==
    /\ \A c \in Clients : SeedOf[c] # PageOf[e[1]] => ~Holds(store[c], e[1])
    /\ ~Holds(store[Server], e[1])
    /\ \A f \in InFlight : f.t = "records" => e[1] \notin DOMAIN f.batch

\* Nothing of a seed page that no handshake has confirmed is anywhere but in the
\* store of the client that made it (library.rs digests, main.rs).
UnconfirmedUnsent == \A e \in Copies : PageOf[e[1]] \in unconfirmed => Unsent(e)

\* What is left of that as long as no client is started a second time (the
\* provisional mark is not persisted): the page itself stays with its maker, and
\* so do its blocks while the maker has the page.  An editor that still shows the
\* page after its removal may send blocks of it.
SeedWithheld ==
    crashes = 0 =>
       \A e \in Copies :
          /\ PageOf[e[1]] \in unconfirmed
          /\ \/ e[1] \in Pages
             \/ \E c \in Clients : SeedOf[c] = PageOf[e[1]] /\ Holds(store[c], SeedOf[c])
          => Unsent(e)

\* Once edits and failures stop (the bounds see to it), every running client
\* connects, settles and has the server's records.
Converges == <>[](\A c \in Clients : running[c] => Settled(c) /\ store[c] = store[Server])
=============================================================================
