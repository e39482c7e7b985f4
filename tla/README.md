# A TLA+ model of AgentMail

AgentMail is a chat server for agents. Conversations live on S2 streams (one
append-only stream of records per conversation), everything else in Postgres,
and one Go process (`src/cmd/server`) serves HTTP, tails the streams to its
clients over SSE and may host a resident agent. Beside it lives a web workspace
(`src/Agent-Stream-Chat`): `agentmail-ui`, which observes the conversations, a
generated API client, and `mockup-sandbox`, which previews mockups. This
directory models the parts of both whose correctness depends on order: who runs
between two calls, which call fails, what survives a crash, which callback,
effect or timer comes first.

## The system

| Part | State it keeps | Operations | Hard part |
|---|---|---|---|
| Delivery cursor cache (`internal/store/cursor_cache.go`, `postgres.go`) | hot map, dirty set; `cursors.delivery_seq` | `Update`, `Get`, `FlushAll`, `FlushOne`, `Run`, `Close` | several goroutines flush the same key, outside the lock; a statement whose answer is lost; a restart empties the hot tier |
| Message writes (`internal/api/messages.go`, `streaming.go`, `internal/store/s2.go`) | the stream; `in_progress_messages`, `messages_dedup`, `head_seq`; one append session per streamed request | `SendMessage`, `StreamMessage`, the abort path | two requests with one `message_id`; six calls that can each fail; records handed over before they are durable |
| Recovery sweep (`cmd/server/main.go`) | the rows a dead process left | `recoverInProgressMessages`, `retryMeta` | a crash at any call, of a handler or of the sweep itself |
| Membership (`internal/api/conversations.go`, `helpers.go`, `postgres.go`) | `members` rows, row locks; `agent_joined`, `agent_left` records | `CreateConversation`, `InviteAgent`, `LeaveConversation`, `requireMembership` | two members leaving at once; row, cache and record change in separate steps |
| Membership cache (`internal/store/membership_cache.go`) | TTL and LRU cache of yes and no | `Get`, `Set`, `Invalidate` | an answer that is stale when it is stored |
| Connection registry (`internal/api/conn_registry.go`) | the SSE and write handlers of each (agent, conversation) | `RegisterSSE`, `RegisterWrite`, `LookupAndCancel`, `WaitFor` | a late handler's deregistration; a request that registers after the leave looked |
| SSE tail (`internal/api/sse.go`) | resume position, a channel of 64 events | tailer, writer, exit flush | slow reader, tailer that ends with events buffered |
| Ack and unread (`internal/api/ack.go`) | `cursors.ack_seq` | `AckCursor`, `ListUnread` | bounded by a `head_seq` that may run ahead of the stream |
| History (`internal/api/history.go`, `internal/model/events.go`) | none | `GetHistory`, `AssembleMessages` | messages that cross a window |
| Resident agent (`internal/agent`) | listeners, discovery channel, one response slot per conversation | `NotifyInvite`, `NotifyLeave`, `startListening`, `triggerResponse`, `respond` | re-invite against a listener that is ending; triggers dropped while busy |
| Conversation stream (`agentmail-ui`: `hooks/useConversationStream.ts`, `lib/sse.ts`) | live messages, position, retry count, connections | select, connect, open, frame, error, retry | callbacks of a connection that was aborted; resumption; a stream that just ends |
| Observer page (`App.tsx`, `useConversations.ts`, sidebar, header, member list) | polled list, what was viewed, toasts and their timers | poll, select, membership frame, timers | polls and frames disagree about what is known; effects that follow one another |
| Message feed (`useMessages.ts`, `MessageFeed.tsx`, `MessageContent.tsx`) | a cached page beside the live messages; carets, copy marks, flashes; whether the view is at the bottom | merge, cut into blocks, scroll, timers | the two sources cover different prefixes of the log |
| Identity and API client (`lib/agent-id.ts`, `lib/api.ts`, `main.tsx`) | `localStorage` of the profile, one promise per tab | bootstrap, request | tabs that bootstrap at once, answers that are lost |
| Generated client (`lib/api-client-react`) | base URL, token getter | `customFetch`, `useHealthCheck` | configuration that changes while a call waits for its token |
| UI kit (`components/ui`, `hooks/use-toast.ts`, `use-mobile.tsx`; in both applications) | toast store and listeners; sidebar state and cookie; copies of Embla's state; memos of charts and forms | dispatch, subscribe, toggle, scroll, validate | closures, memos and copies that are older than what they stand for |
| Preview server and page (`mockup-sandbox`: `mockupPreviewPlugin.ts`, `App.tsx`) | the generated module, the scan in flight, the component shown | refresh, watch, load | files that change during a scan; a slow import of an earlier version |

The handlers talk to two services and to each other only through them: every
write appends to S2 and then updates Postgres, a leave first cancels the
caller's connections through the registry, an ack and an SSE resume move the
delivery cursor, the sweep runs before the listener opens. There is no
transaction across S2 and Postgres; each handler is a sequence of calls, and the
properties are about what every prefix of such a sequence leaves behind. The UI
reads the observer endpoints only: it polls the list of conversations, fetches
one page of history, and follows one stream. In the browser nothing runs in
parallel, but between an await, a timer or an effect and its continuation
anything else may run.

What makes each part correct:

* cursors: the row never moves back; an advance that is only in memory is never
  forgotten; it reaches the row while the server is up;
* writes: one writer per `message_id`; the recorded outcome is final; success
  is only claimed for a message that is whole on the stream; a message left open
  on the stream keeps the row from which it will be closed; every claim is given
  back;
* connections: a leave reaches every tail and, while a message is claimed once,
  every streamed write; when it is told that they have ended, they have;
* reading: a client that reads, breaks off, resumes and acknowledges misses
  nothing, and the stored cursor never passes what it has confirmed;
* resident: one listener per conversation, one response at a time, which ends
  before a leave is told that the listener is done;
* membership: a conversation is never emptied; the records balance with the
  rows; a departed agent is refused; every leave is answered;
* stream: what is shown is what a prefix of the log says, whatever was aborted,
  retried or resumed; one connection feeds it; it catches up;
* page: only an advance makes a conversation unread; advances and members show
  up; toasts go away;
* feed: page and stream together show every message once, as the log has it, and
  a reader at its end stays there;
* requests: they carry ids that the server has handed out, and what was
  configured when they were made;
* kit and previews: what is derived, memoized or copied is what its source says
  now; nobody is told too little or after it has gone; the previews are those on
  disk.

## Modules

| Module | Models | Used by |
|---|---|---|
| `CursorContract` | abstract: a stored cursor moves forward, to confirmed values | refined by `CursorCache` |
| `CursorCache` | the two-tier cursor, its flushers, shutdown and restarts | `MCCursorCache`, `CursorCacheProofs` |
| `MessageWrite` | both write handlers, the append session, the abort path, the sweep | `MCMessageWrite`, `MessageWriteProofs` |
| `Membership` | create, invite, leave, gate and membership cache | `MCMembership`, `MembershipProofs` |
| `Connections` | connection registry with tails, streamed writes and leaves | `AgentSessions` |
| `Reading` | the SSE tail, resumption, ack and unread | `AgentSessions` |
| `Resident` | the resident's listener, invites, responses and leave | `AgentSessions` |
| `AgentSessions` | composition of the three: one part at work | `MCAgentSessions`, `AgentSessionsProofs` |
| `ConversationFeed` | pure: the reducers of the stream, `AssembleMessages`, a page, the merge, the blocks | `ConversationStream`, `FeedView`, `ConversationFeedProofs` |
| `ConversationStream` | the stream hook, its SSE client, the server's loop | `MCConversationStream`, `ConversationStreamProofs` |
| `ObserverApp` | the observer page | `MCObserverApp`, `ObserverAppProofs` |
| `FeedView` | the merged feed over a page and a stream that load independently | `ClientKit` |
| `Transients` | flash, caret and copy mark | `ClientKit` |
| `Scrolling` | how the feed follows its end | `ClientKit` |
| `Identity` | agent id and requests of a browser profile | `ClientKit` |
| `CustomFetch` | the generated client | `ClientKit` |
| `Toasts`, `Sidebar`, `Carousel`, `Charts`, `Forms` | the stateful parts of the UI kit | `ClientKit` |
| `Previews` | preview server and page | `ClientKit` |
| `ClientKit` | composition of the eleven modules from `FeedView` on: one part at work, in one application | `MCClientKit`, `ClientKitProofs` |

The `MC` modules add only symmetry sets, the bound on the records of each
conversation, and for `membership_live` the order in which requests arrive and how
many run at the same time. Definitions marked `Slip` are small
bugs one could write in the definition that follows them. No specification uses
them; replacing the definition by its slip shows that a property depends on it.

### CursorCache

`hot` and `dirty` are the two maps, `pg` the column, -1 for a missing entry or
row. A flush is three steps, because the lock is released before the statement:
`SnapshotDirty` (or the first half of `FlushOne`) takes the marks, `Apply` is
Postgres executing the upsert, `ExecOk` or `ExecErr` the return. An error is
possible before the statement took effect, after it, and in the case where it
takes effect later (`late`). `flight[t].restore` are the keys `restoreDirty`
would mark again. The threads are the flusher goroutine `"loop"`, the
flush of shutdown `"main"`, and handlers (SSE exits, resident listeners).
`server` and `loop` follow `run`, `shutdown` and `Close`: main's last flush and
the flusher's run side by side, and `Close` waits for the flusher and, through
`pool.Close`, for the statements in flight. HTTP handlers that outlive the drain
budget may still update and flush until then. `Restart` covers both a crash and
a start after an orderly end. `AckCursor` may insert a row with `delivery_seq` 0;
it reads the same as no row and is not distinguished.

### MessageWrite

One conversation. An attempt is one HTTP request; its `pc` names the next call
to S2 or Postgres, and every such call is one step:

    idle -Gate-> claim -Claim-> append ------------------------> dedup -> head -> release -> done
                          \-> tail -> open -> body -> close -> tailEnd -/
                                                 \-> closeAbort
    any failure after the claim ----> abortAppend -> abortDedup -> abortRelease -> done

`log[i]` has sequence number i, record 0 being the creator's `agent_joined`. A
unary write is one batch of three records, which S2 orders as a unit; a streamed
write submits single records to its session (`wire`), which S2 orders later
(`Land`). `Break` is a session that loses what it had not ordered: the sticky
error of the drain loop then surfaces in a later `Submit` or in `Close`.

Contexts are part of the state. `ctx[a]` is that of the request: `ended` when the
client has disconnected or its time is up (`EndRequest`), `cut` when a leave has
cancelled the context of the session (`CancelWrite`; `streaming.go:144` makes
`streamCtx`, `conversations.go` cancels it through the registry). A session under a
cancelled context loses what is not ordered (`Lose`), and the drain loop keeps no
error of acknowledgements that fail with `context.Canceled` (`s2.go:177`): `session[a]`
is then `silent`, `Close` returns nil, and the handler goes on to record the
message. The statements after the append, and the second tail, use the request's
context (`messages.go:131`, `streaming.go:265`) and fail once it has ended. The abort
path has a context of its own, five seconds for the append and both statements
together (`messages.go:148`, `streaming.go:311`): when a stalled append has used them
up, what is left of the path fails with it (`AbortExpires`). Its answer is the one of
`AbortRelease`; the model calls it `unsettled` to tell the two apart.

`BodyFails` stands for every way a body ends early (bad line, oversized, invalid
UTF-8, idle deadline, disconnect); the abort reason is not kept. With `"late"`
in `Faults`, an append whose call has failed may be ordered afterwards, also
after a crash. `Crash` kills the handlers; the next process lists the rows and
takes them one by one (`SweepAbort`, `SweepDedup`, `SweepDelete`), and `Gate`
waits for it (`Serving`). `retryMeta` is one step that succeeds or fails for
good. The gate of both handlers includes their request validation only as far
as a refused request changes nothing and is no attempt at all.

### Membership

One conversation. A request is a create, an invite, a leave or any other request
that goes through `requireMembership`. `cache[a]` is yes, no or none, and the
statement and the cache entry that is to reflect it are separate steps (`AddMember`
and `AddMemberSet`, `IsMemberRead` and `IsMemberSet`, `RemoveCommit` and
`Invalidate`). `RemoveMember` is a READ COMMITTED transaction: `LockMembers`
begins it and takes the snapshot of `SELECT ... FOR UPDATE`; `LockRow` grants one
row, in any order, since the statement has no ORDER BY, so that a transaction holds
rows while it waits for others; `Locked` is the SELECT with all its rows. A circle
of waits (`Circle`) is broken by Postgres, which fails one of its statements
(`LockFails`). A row deleted during the wait drops out of the result and a row
inserted since is not in it (`RowGone`), and an early return rolls back. The DELETE
and the COMMIT are one step, since the rows are locked. The handler's own call of
`LockMembersForUpdate`, before, is a transaction like the other (`check`,
`checking`) whose locks are gone when it has all of them. `"pg"` also stands for a
statement that is cut off by its context: that of the request in create, invite and
leave, and the five seconds that a leave's append and its head update share
(`conversations.go:269-281`). `log[i]` has sequence number i - 1. Left out: the leave's wait
for its connections (`Connections`), the notification of the resident (`Resident`)
and the check that an invitee is a registered agent.

### Connections

One agent in one conversation. `sse` and `write` are the registry's maps,
`handler` says where each tail or streamed write is and whether its context was
cancelled, `closed` whose `done` is closed. Each method of the registry holds the
lock and is one step; a handler's gate, registration, end and deregistration are
separate ones. A write's calls to S2 and Postgres are those of `MessageWrite`; here
it is claimed, runs, records an outcome or fails to, and gives its claim back. The
waits of a newer tail (2 s) and of a leave (5 s) may run out at any time.
`DeregisterWrite` goes by `message_id`, so two attempts at one message can take
each other's entry; `claims` counts how often a message was claimed, and
`ConnectionsSound` speaks of writes only up to the first claim.

### Reading

One client, one connection at a time. `tail` and `eventCh` are the tailer and its
channel, `wire` what was flushed and has not arrived, `known` what the client has
read or passed over by `?from`. The tailer may end at any time, the handler return
with events in the channel, the connection be lost with what is on it, the client
forget its position, the server restart with a stored cursor that is older.
`headSeq` lags behind the stream or is one ahead of its last record, as
`MessageWrite` shows. The client acknowledges only what it has read.

### Resident

The resident in one conversation. An invite commits its row and notifies later, or
not at all when the append of `agent_joined` fails; the channel may be full.
`entry` is the conversation's entry in `listeners`; the end of a listener is the
three steps of its deferred function in their order: the wait for the response,
`close(done)`, the removal of the entry. A response waits for a Claude slot, takes
its snapshot of the history and ends; its own records are a streamed write.
`Shutdown` cancels the root context, and a listener started after that is
cancelled from the start.

### ConversationFeed

No state. `ReduceMessages` and `ReduceSystemEvents` are the reducers of the hook,
record by record; `AssembleMessages` is the server's assembly of a history page
(`internal/model/events.go`), `HistoryPage` a page as the observer endpoint
returns it, then the merge of `App.tsx` and the blocks of `MessageFeed`. A text is
the sequence of the positions of its chunks. `SortBySeq` is the client's
`sort((a, b) => a.seq - b.seq)`: in place `i` the element with `i - 1` below it,
which is a sort only where no two elements have the same `seq`, as is proved of
every set that is sorted here. The reference definitions say the
same without a fold: which records of a log a message consists of.

### ConversationStream

`log[c]` is the S2 stream of a conversation, to which `Write` appends what the
write path can produce, messages started or ended twice included. `cid` is the
selection, `messages`, `systemEvents`, `lastSeq` and the membership marks are the
hook's state, `conns` its connections: `connecting`, `open`, or `closing` when the
server has returned and the client has yet to read the end; the record that
comes next, and the `cancelled` flag of the effect that made it. `Select` is the
cleanup of the old effect and a run of the new one. A cancelled connection stays
until `AbortSeen`, and until then its frames and errors arrive. `OpenFails`,
`StreamBreaks`, `ServerFails` and `Done` are the four ways a connection ends: the
first two call `onError`, which arms a retry; the last two call nothing.
`ServerFails` sends an event named `error`, which `parseFrame` does not know, and
returns; `Closed` is the client reading the end of that response.

### ObserverApp

`server[c]` is what the server has, `data` what the last poll brought, `lastSeen`,
`viewed` and `advanced` the refs and sets of the effects. A React commit is one
step: `Poll` is the new list, the advances and first sights, the mark of the
conversation shown, and the first selection, in that order. The stream appears
as frames (`SpeakerFrame`, `LiveMembershipFrame`). `toasts` and `toastTimers` are
separate, since the effect that makes a toast runs again with the next frame.
`Unread`, `Rank`, `Row`, `EmptyState`, `AgentIds`, `MemberGroup` and `OnlineCount`
are what is rendered.

### FeedView, Transients and Scrolling

In `FeedView` the log grows, the stream delivers or starts over, and a page is
loaded with any prefix of the log and any `head_seq` it may have been made
with. `Feed` is the merge. In `Transients` every timer has a flag and an effect's
cleanup is part of the step that changes its dependencies. In `Scrolling` a position
is a multiple of half the 80 pixels that count as the bottom. A smooth scroll heads
for where the end was when it began; scroll events come later than the moves they
tell of, and none comes when the content grows or the window is resized
(`ResizeView`). `reader` is a history variable: whether the reader follows the end,
has scrolled away from it, or was left behind.

### Identity and CustomFetch

The tabs of a profile share `storedId`; `storage` says what the browser allows.
`Bootstrap`, `BootAnswer`, `Request`, `Answer` and `Reload` interleave freely, and
an answer may be lost. `Endpoints` is the table of `api.ts`, `SkipAuth` the calls
without `X-Agent-ID`. A call of `customFetch` is made, waits for its token
(`TokenArrives`), fetches and settles (`ResponseArrives`); `SetBaseUrl` and
`SetAuthTokenGetter` may come at any of its waits. How a body is read depends on
its media type, on whether there is one, and on whether it is what it says. A call
notes whether its caller gave an Authorization header (`given`), which decides
whether the getter is asked (`AsksGetter`).

### Toasts, Sidebar, Carousel, Charts, Forms

`Toasts` is the store outside React: `memory`, `toastTimeouts`, `listeners`. A
component renders, and subscribes later; after each later commit its effect takes
it out of the listeners and puts it back at their end in one go (`Resubscribe`), and
until then the old subscription hears what is dispatched. An update merges any
field, `open` and `onOpenChange` included; `dismissed` is a history variable. `Sidebar` keeps the two closures apart
that a click and the keyboard call (`toggle`, `keyToggle`), each as the values it
captured; a parent that controls the state answers late or not at all.
`Carousel` has Embla's own state and the copies that the buttons show; `heard` are
the events subscribed to. In `Charts` and `Forms` a memo is a pair of dependencies
and value, computed again only when a listed dependency changes.

These files exist in both applications, and the copies differ in comments only.
`ClientKit` has each action once per application (`Mockup...`), so that each copy
is named.

### Previews

`ConfigureServer` scans once before serving; later scans are asked for by file
events, 404s and hooks (`Rescan`). A scan reads the directory (`DiscoverComponents`)
and finishes or fails later; one that is asked for meanwhile is queued. `unseen`
and `broken` are history variables: a file that came when nobody watched, a scan or
write that failed. The page shows the gallery or, by its URL, a component, and runs
its effect for every version of the module it gets (`App`, `PreviewRenderer`); loads
answer in any order (`LoadComponent`).

## Runs

"pass" runs check what holds, "violation" runs show a disagreement between the
code and what one of its documents or comments says.

| Run | Instance | Shows |
|---|---|---|
| `cursor_cache` | 1 key, seqs 0..2, a handler, the flusher and main, fair | `NoLostUpdate`, `CloseLosesNothing`, `StoredMonotone`, `EventuallyStored`, refinement of `CursorContract` |
| `message_write` | 1 message, 2 requests, 2 chunks, S2 fails and orders late, a leave cancels | `CompleteIsOnLog` |
| `message_write_crash` | 2 messages, 2 requests, 2 crashes, Postgres fails | `ClaimExclusive`, `OutcomeFinal`, `UnfinishedIsClaimed`, `AbortedIsOnLog` |
| `message_write_live` | 2 messages, 2 requests, 1 crash, requests that end, fair | `AnsweredIsRecorded`, `HeadCoversAnswered`, `ClaimResolved` |
| `message_write_once` | 1 message, 2 requests | violation of `WrittenOnce`, see Findings |
| `membership` | 2 agents, 4 requests, Postgres fails, 1 crash | `NeverEmptied`, `JoinsBalance` |
| `membership_live` | 2 agents, 4 requests, 2 at a time, S2 fails, fair | `AllAnswered`, `HeadFollowsLog` |
| `agent_sessions` | 3 tails, 2 writes of 1 message and a leave; 4 records and a channel of 2; 3 listeners, 2 invites under way, a channel of 1, 2 messages heard | `ConnectionsSound`, `NoGap`, `ResidentSound` |
| `conversation_stream` | 1 message, 1 agent, a conversation with up to 3 records and an empty one, 2 connections, 2 retries, 3 faults, fair | `LiveIsLogPrefix`, `OneReader`, `CatchesUp` |
| `stream_closed` | as above, 1 record | violation of `ConnectedIsOpen` |
| `observer_app` | 2 conversations, 1 agent, heads 0..1, 3 times, 2 toasts at most, fair | `OnlyAdvanceFlags`, `AdvanceShows`, `ToastGoesAway`, `MemberShows` |
| `client_kit` | 2 messages of 2 agents in 3 records, pages of 1; counters 0..2; 2 tabs and ids; 1 base URL and getter; 2 users, 1 toast of 2; 3 slides; 2 series; 2 fields; 2 mockups, 3 loads; a feed of up to 5 half bottoms | `FeedIsMerged`, `TransientsTimed`, `RequestsSound`, `FetchSound`, `ToastsSound`, `ClickWorks`, `DerivedIsCurrent`, `PreviewsSound` |

The first run of each module but `agent_sessions` and `client_kit` also checks its
type invariant. `DerivedIsCurrent` is `TooltipTrue` of `Charts`, `ErrorAnnounced` of
`Forms`, `ButtonsTrue` of `Carousel`, `AlwaysNamed` of `Sidebar` and
`FollowerSeesEnd` of `Scrolling`; `PreviewsSound` is `PreviewFresh` and
`ShownIsCurrent` of `Previews`.

Bounds. The cursors of different keys share nothing but the statement that
carries them, so one key suffices for interleavings (the proofs cover any set
of keys); three values give an old, a current and a newer one, and with a
handler, the flusher and main three flushes of one key can overlap. For writes,
every race on a `message_id` is between two requests, one of which may be a
retry; the second message is there for the order of `head_seq` and for a sweep
with two rows. Two chunks can be lost, or come in the wrong order, in the middle of a
message (`message_write`: 4.6 million states); `message_write_crash`, in which S2 loses
nothing, and `message_write_live` do without. One crash
reaches every prefix of a handler, two reach the sweep as well. For membership,
two agents are the case in which the last-member rule matters, and in which two
leaves can wait for each other's rows, and four requests
are a create, an invite, a leave and one that races with them. In `membership_live`
the four arrive in the order of their numbers, which is no restriction, two of them
run at a time (`MaxInFlight`), which is one, and requests that only pass the gate are
left out: the two leaves of a circle are the third and the fourth.

In `agent_sessions`, three tails are one that was replaced and ends late, one that
replaces it and a third that replaces that; two writes of one message are an
attempt and its retry. A channel of 2 fills while a record is left; four records
let a tail be cut, resumed and cut again. Three listeners are one that ends, the
one of a re-invite, and one more.

In the stream, three records are the start, an append and the end or abort of a
message (or a membership record among them), so that a connection can break
before, in and after a message; the empty conversation is there to switch to
and back. Two connections are the current one and an aborted one whose
callbacks still arrive. Two retries (the code allows more) and three faults reach
the give-up and, after a successful open, a fresh count. For the page, two
conversations give one that is shown and one that is not; a head of 1 is an
advance after the first sight. The clock bounds the membership frames, and a
limit of 2 (3 in the code) with three frames cuts the list. In `client_kit`, two
of everything gives a pair that can disagree; a page limit of 1 makes a page
that does not reach back to the first message; three slides have a middle one;
three loads let an early one answer after two others. The parts share no state,
so one at a time is no restriction.

`CompleteIsOnLog` is checked with failing S2 calls, late appends and leaves, and
working Postgres, since a failing statement only makes the claim weaker. It excepts
one case by name, the message whose cancelled session has lost records in silence;
without the exception it is `SuccessIsDurable`, see Findings. `UnfinishedIsClaimed` and
`AbortedIsOnLog` need S2 to answer: the abort path records "aborted" and gives
the claim back even when its own append has failed, as its comments say (best
effort), so with a failing S2 a message does stay open. `AnsweredIsRecorded` and
`HeadCoversAnswered` need both services to answer, since the errors of the
statements after the append are only logged; they cover crashes, races and requests
that end, and except by name the request whose context was over before the
statement. `ClaimResolved` excepts the claims that the code does keep (`Kept`): a body
that goes on for ever, a request that ended before the delete, or before it knew that
its claim had taken effect.
`JoinsBalance` speaks of the runs in which no request has failed or died, since
a row whose record could not be appended is not compensated. It counts records
and does not look at their order: a re-invite between a leave's commit and its
append puts `agent_joined` before `agent_left` on the stream, and the last
record then says the opposite of the table.

Deadlock is not checked in the `MessageWrite`, `Membership` and `AgentSessions` runs:
each request is served once, so the system stops when all are answered. That no request
hangs is `ClaimResolved` and `AllAnswered`. The web runs check deadlock. Symmetry is
used in safety runs only.

Fairness.
* `CursorCache`: a call to Postgres returns (WF of `ExecOk \/ ExecErr`; the pool
  and the contexts bound every call). The ticker meets a dirty mark that keeps
  coming back (SF of `TickFlush`: handlers may take the mark in between).
  Postgres executes the flusher's statement if it is tried again and again (SF
  of `Apply("loop")`): without it nothing could ever be stored.
* `MessageWrite`: handlers run, since every call has a deadline (WF of `Handler`); S2
  orders what it was handed (WF of `Land`); the sweep runs (WF of `Sweep`). Nothing is
  assumed of a body (`Body`): a blank line is skipped and puts off the idle deadline
  (`streaming.go:166-189`), so a client may keep one open for ever.
* `Membership`: handlers run (WF): a free row is granted to one of those who want it,
  and Postgres looks for circles of waits. No fairness on arrivals, expiry or crashes.
* `ConversationStream`: the retry timer fires, a request is answered or fails, what
  the server has is delivered, an abort is noticed, the end of a response is read (WF
  of each, per connection).
  Faults, selections and the orderly end of a response are never forced.
  `CatchesUp` excepts what the code gives up on: used-up retries, a stream that has
  ended silently, another selection.
* `ObserverApp`: the list is fetched again every 1.5 s whatever the last answer
  was, and the server answers now and then (WF of `Poll`); activity windows and
  dismiss timers run out (WF). Frames and selections are not forced.
* `AgentSessions` and `ClientKit` check safety, and one action property, only: their
  waits are bounded by timeouts.

## Proofs

All theorems are about `Spec` for every value of the constants (any number of
keys, handlers, agents, messages, requests, chunks and crashes, every
combination of faults), from the named assumptions of the modules only: bounds
are naturals, thread names are distinct, tails and writes are different requests,
the faults are the listed ones, the creator is an agent, no conversation has the
name that stands for none. Where a property holds only as long as a store does not fail, the
theorem says so (`"s2" \notin Faults => ...`); each such hypothesis is one that
a run which checks the property satisfies, and the other faults, crashes
included, stay. `"ctx"`, requests whose context ends, is allowed in every theorem.

* `CursorCacheProofs`. `NoLostUpdate` is not inductive alone. `IInv` adds
  `InFlight` (a flush about to return nil has written what it carries), `Quiet`
  (a closed store has no flush left that could return) and `Provenance` (every
  value in the hot tier, a statement or the table was confirmed by a caller). From it follow `TypeCorrect`,
  `NothingForgotten` (`NoLostUpdate`), `NothingLostAtClose`
  (`CloseLosesNothing`), `StoredNeverRegresses` (`StoredMonotone`) and
  `CacheImplementsContract`: every step of the cache is a step of
  `CursorContract` or a stutter; a flush is `Persist`, an update is `Offer`.
* `MessageWriteProofs`. `ClaimInv` is `ClaimExclusive` with `QuietSweep` (no
  request is anywhere past its start while the sweep has rows to do). The insert claims only when there is no row, a delete removes only the row
  of its own `message_id`, whose only owner is the deleter. `OneWriterPerMessage`
  and `OutcomeNeverReplaced` follow, with `TypeCorrect`, which includes that a
  range computed from two tails is a pair of naturals.
  Its second part is what the stream and the two tables say together, each from an
  invariant over the places of a handler and the batches it has in flight
  (`OwnBatches`: they are its own).
  `AnswerMeansRecorded` (`AnsweredIsRecorded`, no Postgres faults) by
  `RecordedInv`: from an insert whose context was live to the answer the row is there.
  `AbortedMeansAbort` (`AbortedIsOnLog`, no S2 faults, nothing late) by `AbortInv`: a
  handler, or a row of the sweep, that is about to record "aborted" has its
  `message_abort` on the stream.
  `OpenMessageIsAnchored` (`UnfinishedIsClaimed`, no S2 faults, nothing late, no leave
  under a write) by `AnchorInv`:
  whoever is about to delete a claim has ended the message, because its end is the
  last batch of its queue (`EndQueued`), its session is closed only when the
  queue is empty, and one that has lost records belongs to a request whose statements
  fail (`InFlightInv`).
  `HeadReachesAnswered` (`HeadCoversAnswered`, no faults of S2 or Postgres, late
  records, leaves and ended requests allowed) by `RangeInv` with `Fresh` and
  `EndQueued`: the end lies below the tail read after it, and `head_seq` moves to the
  end of the range computed from that tail.
  `CompleteMeansWhole` (`CompleteIsOnLog`, every fault) by `Progress`: as long as a
  session is whole, the records on the stream followed by the batches in flight are
  start, chunks and end as far as the handler has got, each chunk once and in order
  (`Copied`, `StartedAt`); a handler past its session has a whole copy or a silent
  loss, and `SettledInv` says that whoever vouches for a message stands on one of
  them, which no later step takes back.
* `MembershipProofs`. `LockInv`: a transaction about to delete holds the locks of
  the rows it has seen, no two share a row, and the rows that a transaction has
  seen and waits for or holds are there. A commit therefore leaves the other row
  it has locked: `ConversationNeverEmptied` (`NeverEmptied`). `TypeCorrect` as
  well. `LockWaitsEnd` is the safety half of `AllAnswered`, with locks taken one by
  one: a row lock has one holder, none is held by a request that has returned or died,
  and whoever waits can be granted a free row, waits (over others) for somebody who can
  move, or is in a circle that Postgres breaks (`SomebodyMoves`, by the smallest set of
  requests that is closed under waiting); that those then go on needs fairness. `HeadWithinLog` (`HeadFollowsLog`, no Postgres faults) by `HeadInv`: a
  request past its update carries a number that `head_seq` has reached, and both
  stay below the length of the stream. `StreamTellsMembership` (`JoinsBalance`, no
  S2 faults) by `BalanceInv`: while no request has failed or died, the joins of an
  agent on the stream plus the requests that have inserted its row and are still to
  append equal its leaves plus the requests that have deleted it and are still to
  append, plus one if the row is there. `FirstInv` makes the creator's row new (nobody passes the gate
  before it is in), `KindInv` says which request may be at which place.
* `AgentSessionsProofs`, one invariant for each part of the composition.
  `OneListener` (`ResidentSound`) by `ResidentInv`: listeners not yet started are
  idle, the only active one is that of the entry, and a leave that has waited has
  found a closed done channel. `LeaveReachesAll`
  (`ConnectionsSound`) by `ConnectionsInv`: `TailsInv` and `WritesInv` say, for each
  place of a handler, who has the entry of the registry, who is cancelled and
  whose done channel is closed; `ClaimedOnceInv`, that of a `message_id` claimed once the entry and the done
  channel are one handler's; `LeavesInv`, that a leave which was told of all it waits
  for has their done channels closed.
  `NothingMissed` (`NoGap`) by `ReadingInv`: the records on the wire and in the
  channel are consecutive, the wire continues what the client has, the
  channel continues the wire and the tailer's next record continues the
  channel, so that whatever is cut off, what remains has no gap. `NoGap`
  itself speaks of the client and the stored cursor only and is not inductive.
* `ConversationStreamProofs`, on the reconnecting hook. `ReaderInv`: a current connection reads the conversation shown, at the record after
  `lastSeq`; there is one, or a timer, or neither. `OnlyOneReader` (`OneReader`)
  follows. `LogInv`: an append or an end on a log has its start before it.
  `LiveInv`: message by message, the hook holds what the reference definition
  `MessageIn` says of the first `lastSeq + 1` records. A frame keeps it by
  `ReduceTells`; no induction over the log is needed, since the hook's state before
  the frame is the hypothesis. `LiveViewIsPrefix` (`LiveIsLogPrefix`) and
  `StreamTypes` (`TypeOK`) follow.
* `ConversationFeedProofs`, the lemmas about the pure operators; it has no theorem of
  its own; `ConversationStreamProofs` and `ClientKitProofs` use it. `ReduceTells`: one frame takes
  what is told of n records to what is told of n + 1, a start
  beginning the message afresh, a later append extending its text by the largest
  number yet (`InOrderOfNext`), a terminal record having the last word.
  The feed is computed by folds over logs of any length, so here the induction is
  needed. The library's induction theorems take an operator, so `InductTo`
  says it for a set: one that has 0 and with each number below n the next has
  all up to n, from the library's theorem that strict inclusion of finite
  sets is well-founded (`Smallest`). Four lemmas then say that `LiveMaps`,
  `Assembled`, `ById` and `GroupFeed` are the last of a sequence of steps, where `PlacesBelow` takes a
  fold over places apart, and `FlattenIsJoined` does the same for `FlattenSeq`.
  With these: `LiveMapsTell` (the hook's maps tell of every record delivered),
  `HistoryRows` and `PageRows` (a page's rows have different starts, each a
  `message_start` of its message), `MergedRows` (the stream's row wins, a
  message has one), `SortBySeqSorts`, `FeedHasAll` (the feed has all of them once, in
  order) and `GroupFeedCuts` (the blocks are the feed cut into pieces of one sender,
  for whatever agents are known, and the longest such pieces when all are).
* `ObserverAppProofs`. `PageInv` makes three records of a head agree: the list's
  (`data`), `lastSeen` and `viewed`. `lastSeen` is the head of the last poll for each
  conversation listed and `NoHead` for the others, never past the server's;
  a listed conversation has been viewed, and the one shown up to what was last seen.
  The heart is `PollTells`, what the effects of one commit leave of each conversation.
  With it `OnlyPolledAdvancesFlag` (`OnlyAdvanceFlags`): only a poll
  can lift `lastSeen` above `viewed`, and only where it reports an advance. `TypeCorrect` (`TypeOK`) follows as well.
  `ToastsHaveTimers` is the safety half of `ToastGoesAway`: every toast on the screen
  has its timer. What the timer then does needs fairness and stays with TLC.
* `ClientKitProofs`, a section for each part; a first lemma says that the part moves
  or its variables stay, since the composition moves one part at a time.
  `FeedMergesLog` (`FeedIsMerged`) by `FeedInv`: no text comes before its message on
  the log, and stream and page cover records of it. The property then follows for
  each state by itself, from the lemmas of `ConversationFeedProofs`.
  `TransientsHaveTimers` (`TransientsTimed`) adds to the property that `copyTimers`
  counts.
  `OnlyKnownIds` (`RequestsSound`): the types and the property are inductive together;
  what a tab stores and sends is `NoId` or an id handed out before (`StoredIsKnown`).
  `CallsKeepTheirConfiguration` (`FetchSound`) by `FetchInv`, which says for each place of
  a call what it has captured, so that a change of the base or the getter meanwhile
  does not reach it (`OnItsWay`), that a header of the caller's own is never replaced by
  the getter's, and how it ends (`Ended`). `RefusalIsApiError` and
  `SuccessIsNoApiError` go through every way a body can be read.
  `PreviewsFollowDisk` (`PreviewsSound`) by `ScanInv` (a scan that will still
  read or is queued may owe the difference between disk and module; otherwise `unseen` or `broken`
  explains it) and `LoadInv` (only the last load is not cancelled).
  `ToastsAreSound` (`ToastsSound`) by `StoreInv`, in which the toasts with a pending
  timer are those that were dismissed, whatever updates have made of `open` since, and
  `ListenersInv`, in which the listeners are the subscribed components, each once, and
  one that has rendered since it subscribed shows the store's toasts.
  `CutOut` and `AppendTells` are what `splice` and `push` make of a list
  without repetitions.
  `ClicksWork` (`ClickWorks`) by `SidebarInv`: after every render `toggle` has
  captured the state on the screen, because each value it reads is a
  dependency (`RendersCapture`).
  `CopiesAreCurrent` (`DerivedIsCurrent`) has a part for each of the others: the follower at the end of the
  feed, unless one of the named losses has left it behind (`ScrollingInv`), the carousel's buttons (`CarouselInv`: an Embla whose
  effects have run is listened to), the names on those of the sidebar's buttons that were given a tooltip (`SidebarInv`), the label of the
  chart's tooltip (`ChartsInv`: the memo has the dependencies and the value of the
  last render) and the message of a field (`FormsInv`).

The `filter` of the two toast lists is written as the sequences that keep the
chosen positions in order (`Filtered`, `ToastsAt`). `SelectSeq` is defined by
recursion, which the prover does not unfold; TLC finds the same states with either.

Only model-checked: the liveness properties, since fairness and ENABLED are outside
the prover. Every invariant and action property of the passing runs has its theorem.

## Findings

Each is the counterexample of a violation run; PROJECT.json quotes the line that
the code disagrees with.

1. `WrittenOnce`: the dedup table is read before the claim and not after. A
   retry that passed the gate before the first attempt finished, and claims
   after it has released, writes the message a second time. The recorded
   outcome stays the first one.
2. `ConnectedIsOpen`: a response that the server ends in order ends the client's
   reading loop without a callback. The hook goes on saying that it is connected
   and does not reconnect.

Other disagreements met while modelling. The first eleven are definitions in
the modules that TLC refutes when they are checked; no run is kept for them.

* `StreamedRange` (`MessageWrite`): the range answered for a streamed message
  (`streaming.go:250`) is one too high at both ends, with a single writer and no
  failure, since `CheckTail` answers the next number to be assigned.
  `docs/CLIENT.md:272` answers first and last record. `head_seq` is then one past
  the stream.
* `NothingAfterLeave` (`Connections`): a request that passed its gate before the leave
  registers after `LookupAndCancel`, and nothing cancels it.
* `MemberListens` (`Resident`): a re-invite may find the entry of a listener whose
  `done` is closed, and then nobody listens. A leave that is refused, the resident
  being the last member, has cancelled the listener before. An invite whose append
  fails has inserted the row and notifies nobody, while `agent.go:219` says that
  the append does not matter.
* `HeardIsPrompted` (`Resident`): `respond.go:38` says that a running response will
  check the history again after `message_end`; it takes one snapshot, and a
  message heard during it waits for the next one.
* `ReadMonotone` (`CursorCache`): after a restart the in-memory guard no longer
  knows the row; a late, smaller confirmation enters the empty hot tier, and reads
  prefer it. The row itself does not regress (`StoredNeverRegresses`).
* `OneTerminal` (`MessageWrite`): a crash between `message_end` and the delete of
  the claim makes the sweep append `message_abort` to a finished message.
* `DepartedIsRefused` (`Membership`): a "member" entry can be stored after the leave
  has invalidated it; the departed agent is let in until the entry expires.
* `LeftIsLogged` (`Membership`): a leave whose append fails is answered 200, and no
  later step writes its record.
* `FlashTimed` (`Transients`): a counter that grows and falls again within 250 ms,
  as on a switch to another conversation, loses the timer of its flash, which
  then stays on until the counter grows again.
* `SuccessIsDurable` (`MessageWrite`, with `"leave"`): a leave cancels the context of a
  streamed write between the submit of its last record and the acknowledgements; the
  drain loop drops those that fail with `context.Canceled` (`s2.go:177-180`), `Close`
  returns nil, and `streaming.go:240-274` records "complete" and answers 200 for a
  message of which records are lost. `spec.md:362` says that "a successful write is
  durable". That the SDK fails the outstanding appends of a cancelled session, rather
  than finishing them, is taken as possible; its source is not in the repository.
* `ClaimsEnd` (`MessageWrite`, with `"ctx"`): the success path deletes the claim with the
  request's context (`messages.go:131`, `streaming.go:265`), so a client that disconnects
  after the append leaves the row, and every retry is answered 409 until a restart,
  while `http-api-layer-plan.md:207` says that the in-flight writer will resolve the
  `message_id`. A body of blank lines, or the response of the claim lost with the
  context, keeps it too.
* The abort path's append and its two statements share five seconds
  (`messages.go:148`, `streaming.go:311`). An append that stalls leaves the outcome
  unrecorded and the claim in place with Postgres healthy, although
  `streaming.go:299-301` makes the context bounded so that a slow S2 call does not "swallow
  a retry's dedup hit". No property promises anything of the answer `unsettled`.
* `use-toast.ts:86` merges any field of an update: `update({ open: false })` of a
  toast's handle closes it without a remove timer, so it stays in the store, and an
  update may open again a toast that was dismissed and that its timer then removes.
  A dispatch between the first render of a component and its first effect is not
  heard by it; it shows the older toasts until the next dispatch.
* `App.tsx:60` says that content which streams in while it is looked at is marked as
  viewed; the mark goes by what polls have reported, so content that was seen over the
  stream and is polled only after another conversation was selected is flagged unread.
* `agent-id.ts:5` promises one `POST /agents` "exactly once per browser profile"; two
  tabs that start together each make one (`Identity`), and the later id wins.
* The feed can leave a reader who follows its end behind (`reader = "behind"` in
  `Scrolling`): a scroll event in the middle of a smooth scroll, or after the content
  has grown, is taken for the reader scrolling away (`HandleScroll`); a resize moves the
  end and tells nobody (`ResizeView`); a selected conversation whose end is where the
  view stood already makes no scroll event (`ConversationRenders`).
* A sidebar menu button without a tooltip is returned bare (`sidebar.tsx:526`) and says
  nothing in the icon layout; `AlwaysNamed` speaks of those that were given one.
* `useConversationStream.ts:11` promises an `ack` that nothing sends.
* `useConversations.ts` says that it polls every 3 s; its interval is 1500 ms.
* `api.ts:4` says that every request but `POST /agents` and `GET /health` carries
  `X-Agent-ID`; the resident and observer endpoints do without it too.
* `mockupPreviewPlugin.ts:94` records the new source before it is written: a write
  that fails is not tried again until the source changes (`broken` in `Previews`).

## Plan

Done: the cursor (contract, cache, refinement), message writes with recovery,
membership with its cache, connections, reading, the resident's listener, the web
client's stream, page, feed, API clients, UI kit and previews, with a theorem for every
invariant and action property. Next, in this order:

1. `History`: the window walk of `GetHistory` over `AssembleMessages`, compared with
   the reference definition over all short streams, those with records
   that the S2 client's retries (`AppendRetryPolicyAll`) have duplicated included.
2. `Connections` composed with the membership rows and the records of a streamed
   write: what may still be appended after `agent_left`.
3. The records of a resident's response: `respond` appends `message_abort` before it
   closes its session, which may still hold records.
4. The retry loop of the client daemon `run_agent.py`.
5. For each of these the invariants that its properties need, proved like the
   others: the window's bounds, and who may append after `agent_left`.

## Not modelled

Of the server: the window walk of `GetHistory`; the resident's assembly and seeding
of its history, its prompt and the retries of its Claude calls; the HTTP drain of
shutdown (see Plan for what comes next); request parsing,
status codes, logging and middleware (no state); agent registration and its
cache (agents are only added, so an entry cannot become wrong); health and asset
endpoints (read only); configuration; the generated SQL bindings (the statements
are modelled where they are called); the Python clients and scripts (users of the
API).

Some properties say less than one may think. `NoGap` has a client that acknowledges
only what it has read, while `ack.go:31` accepts any position up to `head_seq`.
`ClickWorks` says that the state of the layout flips, not that the screen changes (it
does not with `collapsible="none"`, nor in a narrow window before `isMobile` has
followed). `OnlyAdvanceFlags` speaks of what polls have reported. `Carousel`, `Charts`
and `Forms` model parts of the kit that the page `agentmail-ui` ships does not use.

Of the web workspace: the lookup of the resident agent for its badge;
`createAgent` of `api.ts`, which nothing calls; the style sheet of a chart and the
layout parts of `field.tsx`; the components of the kit that only choose class names
around a Radix primitive; the text of the module that the sandbox generates; the API server (a health route), the generated schemas and the
build files.

Message contents are represented only as the order of their chunks in the feed;
neither `MessageWrite` (which orders a batch at most once) nor `Membership` has
them. There are no time stamps: a timeout is a step that may happen at any time,
and a comparison of a time stamp with the clock may come out either way. S2,
Postgres, the browser, React, Embla, Radix, react-hook-form and Vite are modelled
from how the code uses them: S2 orders batches atomically and in session order, a
Postgres statement is atomic, React runs a cleanup before the effect that
replaces it.
