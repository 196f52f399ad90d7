# govord and govorirc: a verification project

TLA+ models of the IRC server `govord` and of its client `govorirc`, TLC runs
on small instances and theorems proved with TLAPS. Paths and line numbers refer
to the repository's `src/`; in this text `Server.cpp`, `Channel.h`,
`m_mode.cpp`, ... stand for the files below `src/govord/` (and its `core/`),
`Socket.cpp`, `Ui.cpp` and `govorirc.cpp` for those below `src/govorirc/`,
`config.h` and `Utils.cpp` for those below `src/shared/`.

## 1. The system

`govord` is one process with one thread. `Server::run` polls its sockets for at
most a second, accepts one connection, serves the clients that poll reported
(TLS handshake, read, write), sweeps the clients marked for closing and, every
few seconds, looks for silent ones. A complete line is handed to the line
handler (`govord.cpp`), which looks the command up in a table and executes it.
A command reads and changes the server's tables and queues replies and
broadcasts in the send buffers of other clients. There is no persistent state.

`govorirc` is one process with one thread as well. It tries the addresses of the
server until a TLS handshake succeeds, then polls the socket and the keyboard in
turn. Of what the server tells it, it keeps its own nick, the channels it is in
and the target of what is typed next; everything else is only shown.

| component | code | state | operations |
|---|---|---|---|
| connection registry, nick table | `Server.cpp`, `Client.h` | `clients_`, `nicks_`, registration fields of `Client` | accept, mark for closing, teardown, lookup by nick |
| registration handshake | `m_cap`, `m_pass`, `m_nick`, `m_user` | nick, user, password, capabilities, `capNegotiating`, `registered` | CAP LS/REQ/END/CLEAR, PASS, NICK, USER, `tryCompleteRegistration` |
| channels | `m_join`, `m_part`, `m_kick`, `m_invite`, `m_mode`, `m_topic`, `Channel.h` | `channels_`, the sets of a `Channel`, `Client::channels` | JOIN, PART, JOIN 0, KICK, INVITE, MODE, TOPIC, operator succession, removal at teardown |
| WHOWAS store | `Whowas.cpp` | `history_`, `order_` | `record`, `lookup` |
| server loop, TLS, timeouts | `Server.cpp` | per client the TLS wants, buffers, mark, ages; the OpenSSL error queue | poll, handshake, read, write, sweep, reap, stop |
| line framing | `Server.cpp` (`doRead`, `processBuffer`) | `recvBuf` | append, cut, limits |
| messages between users, queries | `m_privmsg`, `m_notice`, `m_names`, `m_who`, `m_whois`, `m_list`, ... | none of their own | replies, broadcasts |
| string helpers | `Utils.cpp`, `IrcMessage.cpp` | none | folding, globs, splitting, tokenizing |
| what clients see of a channel | `sendTo`, `broadcastChannel` and their callers | in the clients | the JOIN, PART, KICK, QUIT, NICK, MODE and 353 lines |
| client: socket and main loop | `Socket.cpp`, `main` of `govorirc.cpp` | `sock_`, `ssl_`, `closed_`, wants, buffers, `g_stop` | connect, handshake, poll, read, lines, write, send, close |
| client: session | `govorirc.cpp` | nick, joined channels, `currentTarget` | `onServerLine`, typed lines, `/win` |
| client: user interface | `Ui.cpp` | input line, cursor, history | keys, drawing |

How they interact:

- *Calls.* The loop calls the line handler from `processBuffer`; a handler
  calls `sendTo` or `broadcastChannel`, which may call `closeClient` on
  **another** client; the sweep calls `teardownClient`, which records a WHOWAS
  entry, leaves every channel (and so may appoint a successor and announce it)
  and frees the nick.
- *Shared state.* Clients, nicks and channels refer to each other by cid, by
  folded name and by raw pointer (`Client::channels`); the copies are kept in
  step by hand.
- *Callbacks.* The line handler and the close handler are callbacks into
  `govord.cpp`. The signal handler clears `running_`. In the client the line
  handlers of socket and keyboard are callbacks which may send, and a send that
  overflows closes the socket under the function that called back.
- *Messages.* Clients know of each other only by lines. A line sent to a client
  that is marked is dropped; a teardown is not announced.

What is hard here is not parallelism (one handler runs at a time) but

- **deferred effects**: a client is only *marked* for closing, at any point of
  a round and by anybody, and torn down by a later sweep; it may still have
  lines to run, be appointed operator, or be invited;
- **redundant tables** that many handlers must keep in step;
- **orders of commands** in the handshake and around a channel;
- **TLS wants** and error queue, which decide what poll is asked for and what
  a result means;
- **clocks**: a ping, its answer and the reaper race;
- **limits** reached by roundabout ways;
- **views**: what a client believes lags behind what the server holds, in both
  directions, and nothing ever compares the two.

What makes each component correct: the nick table equals what the clients
show, and nicks have one owner; registration is complete, checked and final;
channel table, members and back pointers agree, roles follow membership, a
departure leaves an operator and the right one; the limits hold; every nick
given up is in WHOWAS, within its bounds; a MODE line is one step and its
announcement tells what it did, as far as its parameters can be read back; every complete line is handled, at most one after a
mark; every marked client goes away; silence is bounded and not invented; a member is
told enough to know who can act in its channels; the client's own idea of its nick
and channels is the server's; its socket is used only while it is open, its
loop ends when told to; the line one edits is a line of characters.
`PROJECT.json` lists, under `hazards`, each way this can fail with the line
where it would, and the properties that watch it.

## 2. The modules

```
Ids ── Registry ──┬── Govord ──┬── MCRegistry      NickOwnership (abstract)
    ── Channels ──┤            │                       ▲ implemented by Registry
    ── Whowas ────┘            ├── Views ── MCViews
                               └── Session ──┬── MCClient
                    ClientLoop ──────────────┘
Channels ── MCChannels
         ── ModeLine ── MCModeLine   (implements Channels' Mode)
ServerLoop ── MCServerLoop           (the loop below the handlers)
LineBuffer, LineEditor, Text ── MCText
            LineEditor implements Editor (abstract)
Induction                            (induction over data, for the proofs)
Channels ── ChannelsProofs ── ModeLine's: ModeLineProofs
Registry, Whowas, Govord, Views ── GovordProofs ── ClientProofs ── Session, ClientLoop
ServerLoop ── LoopProofs        MCText ── TextProofs ── MessageProofs
MC*                                  (instances for TLC)
```

**Ids** declares cids, nicks and the case folding. Names are opaque; `Fold` is
a constant, so a theorem holds for every folding.

**NickOwnership** is the abstract specification of nicknames: claim, move,
release, with no table and no connections.

**Registry** is the connection registry and the handshake. `clients`,
`client[c]`, `nicks` are `clients_`, the `Client` record and `nicks_`. One
action per handler: `Accept`, `Pass`, `FirstNick` and `Rename` (the two halves
of NICK), `User`, `CapLs`, `CapReq`, `CapEnd`, `CapClear`, `Mark` (closeClient
from outside the client's line), `Drop` (from inside), `Teardown`; `OtherLine`
stands for refused and read-only lines. `markedForClose` has three values,
because `processBuffer` tests the mark only *after* a line: `"marked"` (one
more line may run) and `"drained"` (none may). Cids are reused in the model
(the code counts upwards), so a stale reference to a dead cid would be found.

**Channels** is `channels_`, the `Channel` record and `Client::channels`
(`joined`). A channel that does not exist is the blank record `NoChannel`.
`Departed` is one departure with everything it calls: erasures, succession,
erasing an emptied channel under the folding of *its own* name. `Mode` is a
whole MODE line, a nondeterministic choice of what such a line can leave;
ModeLine justifies it.

**ModeLine** runs a MODE line letter by letter: signs, parameters consumed left
to right, letters without effect, the announcement at the end. A parameter is
announced as it took effect (`AppliedArg`: the nick of a client, the completed mask)
and written unescaped, so `WrittenArgs` is what a reader finds there (`HeardAs`): a word
is read as itself, but the last parameter of a line, which may hold spaces, be empty
or begin with a colon, as another or as several (`WordsButLast` says that no other
can). `HeardAs` is a constant, so the theorems hold for whatever it is read as. The module implements
`Channels` under the refinement mapping that shows the channel as it was until
the line ends (`ShownChannel`).

**Whowas** is `WhowasStore::record` with its two bounds.

**Govord** conjoins the three: who may run a channel command (registered, and
with a line to run), which client a nick stands for, and the two handlers that
change several tables, NICK (`RenameTo`) and `TeardownClient`.

**Views** is Govord with the lines its handlers send about channels. `view[c][k]`
is what a client that reads them all, and nothing else, holds to be the members
and operators of a channel; `SawJoin`, `SawLeave`, `SawRename` and `SawMode` say
what such a reader makes of a line. Each handler's `Tell...` has the recipients
and the order of the code: the announcement of a departure goes out before it,
that of the successor after it; QUIT and NICK go to the neighbours; a teardown
says nothing of the client itself. Lines in a send buffer count as read.
`MaySpeak` and `Reaches` are the tests of PRIVMSG and NOTICE to a channel.

**Session** puts one `govorirc` at the cid `Me` of Govord. `session` is what
`onServerLine` and the user's line handler keep (nick, channels in join order,
target); `outbox` and `inbox` are the lines under way. The server answers the
client's lines in their order (`Serve`), the other clients act between
(`Others`), the client reads when it can (`Read`), and the user types ahead
(`Type`). Refused commands are answered by lines that the client only shows.

**ClientLoop** is `main` of the client with its Socket: `TryAddress`,
`HandshakeGoesOn`/`Fails`/`Ends`, the head of the loop (`Turn`), `Poll`,
`ReadData`, `ReadStops`, `Lines` (processBuffer with what handlers send),
`Write`, and the keyboard. `at` is where the thread is. Buffers are counted in
lines; a close for overflow may come at any of them. What poll *must* report is
`Due`: it may report less only where nothing is due.

**LineEditor** is `Ui::handleKey` byte by byte, bytes being of five kinds (alone,
alone though no character has it, first of two, first of three, continuation).
**Editor** is the abstract line of characters it implements.

**ServerLoop** is `Server::run`: `Poll`, `HangUp`, `DoHandshake`, `DoRead`,
`RunLine`, `LinesEnd`, `DoWrite`, `NoWrite`, `BeginSweep`, `Sweep`, `EndRound`
(the reaper), `Shutdown`. `stage`, `todo` and `cur` are where the thread is. A
line is what the loop sees of it: messages for a set of clients, perhaps a
registration, perhaps the end of its own client. Ages count seconds up to
`Horizon`. OpenSSL is modelled from the code's use of it: every call may make
progress, want a direction, end or fail, a failure may leave an entry in the
thread's error queue, `SSL_get_error` looks at that queue first, and only a
handshake step empties it (the state machine of OpenSSL does, at its start;
the server itself only in `drainSslErrors` while it sets up).

**LineBuffer** is `recvBuf` byte by byte, with three kinds of bytes, any
division into reads, and both limits; `LinesOf` is the reference definition.

**Text** holds the functions of `Utils.cpp` and `IrcMessage.cpp` on which the
handlers and the client rest, as recursive functions over sequences of symbols:
`Split`, `CaseFold`, `GlobMatch`, `TokenizeMsg` and `SerializeMsg` with the tag
escapes, `FormatOutbound`; with `NormalizeBanMask` and `IsBanned`, and the path
of a PRIVMSG (`Relayed` on the server, `Shown` in the client). A symbol is a
character, or a word none of them looks into. The two reference definitions are
`Matches` (a glob prefix by prefix, with no return point) and `Said` (what a
typed line means). `serializeMsg` has no caller in the repository; it is
modelled as the inverse of the tokenizer. **MCText** puts them to TLC together
with LineBuffer and LineEditor: its `kind` chooses between a byte stream, an
edited line and the growing texts. In the same way **MCRegistry** has handshakes
and the filling of the WHOWAS store, and **MCClient** a session and a thread.

Definitions commented `Mutation:` are not used by any specification. Each is a
plausible mistake in the definition that follows it; `PROJECT.json` pairs it
with the property that fails when it takes that definition's place, which shows
that the property depends on the code and not on the shape of the model.

## 3. The runs

| run | instance | properties | shows |
|---|---|---|---|
| `registry` | 2 connections, nicks alice/Alice/bob, two passwords, one sticky capability; 2 WHOWAS entries per nick, 3 in all | NickTableExact, NicksAreOwned (refinement), RegistrationChecksPassword, RegistrationNeverHangs, StickyCapsStay, GivenUpIsRecorded, StoreIsBounded, ForgetsOldestFirst | contention for a nick and all its foldings; every order of the handshake commands, with retries and late CAP LS; every way to give up a nick, with both bounds of the store reached |
| `succession` | 4 clients, `#a`/`#A`/`#b` with room for 3, one channel per user, one ban | ChannelTablesAgree, RolesFollowMembership, LimitsHold, DepartureLeavesOperator, SuccessorIsSenior, SeniorityIsStable, OplessChannelIsFrozen | every way to leave, with the operator, the voiced and the invited among those who do; every limit reached |
| `views` | 3 clients, 3 nicks, 2 channels | GovordTypeOK, ChannelsHoldClients, ViewsMissNobody, SpeakersAreSeen, GhostsAreLostClients | connections that die and cids that return around channels, and what each member has been told |
| `mode_line` | 2 clients, lines of up to 3 letters and 2 parameters out of a nick, a limit and one with a space | AnnouncementReplays, ModeIsOneStep (refinement) | letters that are skipped, that eat each other's parameters, that take the author's own role, or whose parameter is announced as two |
| `timeouts` | 1 connection, PING after 1 s, timeouts 2 s and 1 s, reaper every 2 s | SilenceIsBounded, RegistrationIsBounded, PingTimeoutMeansSilence, NoLineIsStranded | every race of data, answers and the reaper |
| `loop` | 2 connections with full send buffers, 2 lines each | OneLastLine, MarkedIsGone (liveness) | marks set at every point of a round |
| `text` | streams of up to 7 bytes, pieces of up to 5, line limit 1; pairs of texts of up to 4 symbols, at most 3 parameters, messages of 4 symbols; lines of 4 bytes, a history of 3 | LinesAreTheStream, BufferIsBounded, GlobIsRight, PlainNickBansHold, MessagesReadBack, TextArrives, EditsCharacters (refinement) | every cut, inside a CR LF too, and both limits; every short pattern against every short text, tag value with every escape, typed line to every kind of target; every sequence of keys |
| `client` | one `govorirc` and another client, 2 channels, 1 line typed ahead; 2 addresses, 2 waits in a handshake, 2 lines per buffer | StaysInStep, OnlyJoinMisleads, UsedWhileLive, StopIsObeyed and LostPeerIsNoticed (liveness) | renames, kicks and partings that cross the client's own commands; a connection that fails, closes, overflows or falls silent anywhere |
| `foreign_error`, `nick_ban`, `target` | as above | one each, violated | the findings below |

*Bounds.* Two connections are what a nick, a mark or an invitation needs to
go wrong between; three are needed for succession (one leaves, two compete)
and a fourth for a full channel. Two foldings of a
name and one other exercise all branches that compare names. `MaxJoinSeq`
bounds a 64-bit counter. `MaxUsed` bounds the joins, invitations and (in
`succession`) bans of all channels together: 4 are three members and one who
returns or waits outside, 3 in `views` two members and a third who comes
while one is leaving. `MaxTotal` = 3 is below twice `MaxPerNick`, so the
total is what bites, and what the bound per nick drops leaves its `order`
entry behind. The clocks are scaled: what matters is the order of
`PingInterval`, `PingTimeout` and the reaper's period, and `Horizon` = 7 exceeds
every bound the properties name. In `loop` every message overflows
(`MaxSend` = 0), which is the case that marks, and the time limits are 0, so
that the reaper marks whenever it can. In `text` the flood limit is 4, so
one piece of 5 bytes crosses it and two pieces fill it; four symbols hold a
pattern with two stars and something between and behind them, an escape cut by
the end of the value, and `/msg` with its target and a text, or a text cut by
the 4 (400 in the code) that are relayed; with two middle parameters (14) the
third takes the rest with or without a colon. `MaxInput` = 4 bytes hold a
character of three and another; `MaxKept` bounds the bytes of the history. In
`client` one line typed ahead (`MaxTyped`; the handshake is longer) and one under
way back (`MaxInbox`) already cross in both directions, and two addresses
(`MaxAddrs`) are one that fails and another; with two lines per buffer
(`MaxHeld`, `MaxSending`, `MaxIncoming`) a handler runs with another line waiting.

Some clauses rest on the theorems, not on the runs: `succession` gives each user one
channel, no limit, and neither +t nor topics, so several channels per user are
ChannelTablesAlwaysAgree, +l is LimitsAlwaysHold, and the topic under +t
OplessChannelStaysFrozen; `views` has no flags and no masks, so +m and bans in
SpeakersAreSeen are SpeakersAreAlwaysSeen.

*Constraints and views.* `PlainHandshake` keeps the handshake of the other
clients simple where it is not the question (`registry` has it in full).
`FewSettings` in `mode_line` begins a line only on a channel with at most one of key, limit, flag
and ban set, and there is no invitation in that run (`MaxInvites` = 0: a MODE line touches none); what
a line does to several settings at once is reached within the line. `FewJoins`, `ShortHistory` and `FewLines` are the bounds above; `FirstNickWasFree`
stops following a client whose first nick was taken (433), of which nothing is
claimed. `FewLines`, `PlainHandshake` and `FirstNickWasFree` restrict only the
session behaviours of `client`; the liveness properties of that run are about the
thread, whose variables have bounds of their own. The views
(`WhatMatters`) identify states that differ in what neither the properties nor any
guard reads: the WHOWAS store where nothing is said about it, voices where
there is neither +m nor a ban, what a marked client has seen. The only symmetry
is that of cids, nicks and names in runs without liveness.

*Deadlock* is checked everywhere but in `text`, `nick_ban` and `client`, where a
connection that has closed, a stream or text at its bound, or a program that has
ended, ends the behaviour.

*Fairness.* In ServerLoop it is `WF(LoopNext)`: poll is called with a time
limit of a second, no other call of a round blocks (sockets are non-blocking),
and every pass is over a finite set; so the thread always takes another step.
In ClientLoop it is `WF(Program)`, for the same reasons (poll has 50 ms, the
handshake 10 s per wait, a blocking connect gives up by itself), which leaves out the one place where the thread waits
for the user, the middle of a multibyte key; and `SF(NoKey)`: a user's keys do
not come faster than they are handled for ever, so that `Ui::tick` comes to its
end again and again. No fairness is assumed of the network, of peers, of the
user or of signals. StopIsObeyed and LostPeerIsNoticed carry their own conditions
(the key is completed; the socket is not deaf), since the code gives no more.

## 4. What is proved

For every value of the constants that satisfies the named assumptions (any
number of clients, names, foldings, limits):

- **GovordProofs**, the registry: `RegistryCorrect` is the inductive invariant: types,
  `NickTableExact`, and what the handshake needs (`RegisteredIsSettled` and
  `RegistrationNeverHangs`). They go together: that a rename cannot be the last
  step of a registration follows only because no client that is ready was left
  waiting. `RegistryImplementsOwnership` proves the refinement of
  NickOwnership; the exact table is what makes the two lookups (`nickExists`
  and "who shows this nick") equal. `RegistrationIsChecked` is the password,
  `StickyCapsAlwaysStay` the capabilities (cap302 is never taken back, so what is
  sticky for a client stays so), `RegistrationIsFinal` that nothing reopens a registration.
- **ChannelsProofs**: `ChannelsCorrect` is the inductive invariant: types,
  `ChannelTablesAgree`, `RolesFollowMembership`. The join order must be part of
  it: `SuccessorIsAlwaysSenior` needs that every member has a place and its own
  (otherwise the minimum is not unique). `DepartureAlwaysLeavesOperator`,
  `SeniorityIsNeverGained`, `OplessChannelStaysFrozen` and `LimitsAlwaysHold`
  follow per action; the last needs finite sets and their cardinalities.
- **GovordProofs**, WHOWAS: `WhowasCorrect` is the inductive invariant of the store.
  The total of the store is never measured; it is bounded because every
  nickname has at most as many records as entries in `order`, whose positions
  are counted as a finite set. `StoreStaysBounded` and `EntriesAreFiled` follow,
  and `OldestIsForgottenFirst`: a step takes records only from the old end of a
  list, whichever bound makes it.
- **GovordProofs**, the whole: the composed server implements Registry, Channels and
  Whowas (each step is theirs or a stutter), so every theorem above holds of
  it; on top, `ChannelsHoldOnlyClients` and `EveryMemberIsFound`, and
  `EveryNickGivenUpIsRecorded`: a nick has one owner, so a handler gives up one nick at
  most, and where it does it records that one; as each bound of the store is at
  least one, the record just written stays unless the store was full.
- **GovordProofs**, the views: `ViewsImplementGovord` says the lines change nothing, so all of
  the above holds with them. `ViewsAlwaysMissNobody` is inductive together with
  three facts about the server: the nick table is exact (else two members might
  share an entry of the view, and the departure of one would hide the other),
  roles lie within membership, and channels hold only clients. There is one
  lemma per handler. `SpeakersAreAlwaysSeen` follows, since who may speak is a
  member that still runs lines; `GovordTypes` collects the types.
  `GhostsAreOnlyLostClients` counts: ghosts are numbers of a view's finite set, so
  views must be shown finite first, and a step that makes one more is a teardown.
- **ModeLineProofs**: `ModeLineIsOneStep`, for lines of any length. The
  invariant says that the channel in progress differs from the one before only
  in what MODE may set, and stays within `ModeSettings`. `AnnouncementsReplay`: what
  a line announces, read from the channel as it was, gives the channel as it is.
  By itself this is not inductive, for the next letter may bring a parameter. The
  invariant has two phases. While all that was announced are words, the reader of the
  letters and parameters so far, *followed by any further parameters*, comes to the
  channel, the last sign and the count of effects of the writer, with exactly the
  further parameters left. A parameter that is no word is the last of its line: no
  parameter follows it, so only letters without one can take effect from then on, and through
  these the reader keeps up in all but the key, or all but the bans, that it has misheard.
- **ClientProofs**, the session: `ClientStaysInStep` and `OnlyJoiningMisleads`, for
  queues of any length. Both speak of the client as it will be once it has read all
  that is under way: no step takes its nick and channels away from the server's, none
  but a JOIN just typed its target to a channel it is not in.
  Each step of the server appends lines that take a reader who knew the old nick and
  channels to one who knows the new (`TellsMe`, one lemma per handler); that
  reading the queue and then the lines is reading both is the fold over a
  concatenation. The server's own invariants are needed: tables that agree, a nick
  table that is exact (a line about another's nick must not look like one's own).
- **ClientProofs**, the connection: `ConnectionIsUsedLive`. The invariant ties the
  places of the thread to the state of the socket: where OpenSSL is called it is open,
  and outside of connecting and handshake it is open exactly while `closed_` is
  false.
- **LoopProofs**: `LoopCorrect` is the inductive invariant of the loop. The bounds
  on silence are not inductive by themselves: `ClockOK` relates each age to the
  time since the reaper last ran, and the age of a pending PING to the silence
  before it. `LineOK` says that lines wait only with the client being serviced,
  just heard from, or with a marked one; that makes `LinesAreHandled`, and a
  registration start at age zero. From it `SilenceEnds`, `RegistrationEnds` and
  `PingTimeoutsAreSilences` follow for all values of the four limits with
  `PingInterval <= PingTimeout`. `LastLinesAreSingle` adds that lines run only
  after the client's readability is used up (`ReadIsUsed`).
- **TextProofs**, lines: `LinesAreAlwaysTheStream` and `BufferStaysBounded`, for streams
  and pieces of any length. What has left `recvBuf` ends with a whole line, so cutting
  it leaves nothing open, and the cut of the stream is the lines handled and the cut
  of the buffer.
- **TextProofs**, globs: `GlobMatchDecides`, for every alphabet, pattern and text: on a text without a
  star `globMatch`, which keeps one return point only, answers as `Matches`, which tries
  everything. The loop's invariant has two halves: if the pattern matches at all, it
  matches from the return point on; and what the text has consumed so far the pattern up
  to here matches. A measure that decreases in each pass bounds the recursion.
  `BareMasksBanNicks` is that a bare nick, completed to a mask, bans each of
  its bearers whose mask has no star; `GlobsAreRight` and `NickBansBanNicks` are
  the invariants of the run for texts of any length.
- **TextProofs**, the input line: `LineEditsCharacters`, the refinement of Editor by
  LineEditor for lines and histories of any length. The invariant (`EditInv`) is that
  the bytes spell two rows of whole characters that meet at the cursor, that every line
  of the history spells one, and that what has been read of a key is the beginning of
  a character. `CharsOfSpelt` says that a reader of UTF-8 finds the characters the
  bytes spell, so that the invariant fixes what the user sees; one lemma for each way
  to move the cursor (`OneBack`, `OneOn`, `OneMore`) and one for each step of Editor
  (`InsertsOne`, `ErasesBefore`, ...) do the rest.
- **MessageProofs**: `MessageIsReadBack` and `TypedIsHeard`, for every alphabet and texts
  of any length. Both rest on one fact: a text that was put together is taken apart
  where it was joined. `SplitOfJoined`, `EscapeIsUndone` and `ParamsOfJoined` are
  inductions on the suffixes of what was written: from the place where the first
  item ends, the reader finds the others. Only the last parameter may hold anything,
  because nothing follows it. The hypotheses of `MessageIsReadBack` (`Messages`) are what
  the format cannot express otherwise: keys, nicks and commands without the symbols that
  end them, middle parameters that are words without a colon in front, and no more
  parameters than are read. `TypedIsHeard` composes four steps: `SaidIs`
  (formatOutbound sends what the line says, case by case as the code distinguishes
  them), `SpokenIs` (the server reads target and text from it), `HeardIs` (the other client
  reads who, to whom and what) and `PlainIsShown`, `ActionIsShown` (what is shown of a
  text that stripCRLF has shortened). What is typed holds no CR, LF, NUL or SOH, which the
  input line does not take (Ui.cpp:276: no byte below 32); the target of a `/msg` is one
  recipient, that of the window may be a list. `MessagesAreReadBack` and
  `SpokenLinesArrive` are the invariants of the run for texts of any length.
- **Induction** holds what the others rest on where data has no bound. The provers
  cannot instantiate a predicate, so induction is stated of *sets* (of numbers, of
  positions in a sequence), and what a fold returns of the fold of the module's
  parameter `Op`, which a proof takes by INSTANCE for its own operator. No theorem of
  the library with an operator parameter is used.

Assumptions are those stated in the modules (`IdsAssumption`, ...): distinct
"nothing" values, a folding defined on the names, natural-number limits, a PING
interval within the timeout, a horizon beyond the time limits, and in Text room for at
least one middle parameter and for the three symbols that mark an action (the code has
14 and 400; with less room the mark itself would be cut and shown).

*Model-checked only*: `MarkedIsGone`, `StopIsObeyed` and `LostPeerIsNoticed`
(liveness under fairness is beyond the prover). Every invariant and every action
property of the passing runs is a theorem. The three violated properties are false.

## 5. Findings

1. *A bare nick does not ban everybody of that nick* (`nick_ban`). `globMatch`
   compares literally before it looks for a star (Utils.cpp:65), so a star in
   the mask that meets a star in a client's user name stands for that one
   character. `+b nick`, completed to `nick!*@*` (m_mode.cpp:86, "nick only"),
   misses a client whose user name begins with a star and goes on.
   PlainNickBansHold and GlobIsRight show that this is the only way it fails: on
   texts without a star the glob is exact.
2. *TLS errors reach other connections* (`foreign_error`). The error queue is not
   emptied before `SSL_read` or `SSL_write` (Server.cpp:278,305), so a failure
   left by one connection makes `SSL_get_error` report another one's ordinary
   "want read" as an error, and that connection is closed with "read error"
   (Server.cpp:295).
3. *A refused JOIN leaves the client talking to a channel it is not in* (`target`).
   govorirc.cpp:407 sets the target when JOIN is typed, so that it "stays accurate";
   no refusal takes it back. OnlyJoinMisleads shows that it is the only way the target
   goes wrong, and that the echo of an admitted JOIN sets it anyway.

Observed as well, without a run of its own, for no line of the repository says
otherwise: `MODE -o` of the last operator (m_mode.cpp:228) appoints nobody, since
succession is for departures (Server.cpp:589-590 speaks of an operator who leaves), and
OplessChannelIsFrozen shows how long that lasts: until a member departs. MODE announces
parameters unescaped (m_mode.cpp:278), so `MODE #a +k :a b` sets the key `a b` and
announces `+k a b`, and `+k ::x` or `+b :x y` are read back as other parameters too;
AnnouncementReplays shows that only the key or the bans can be misheard so. In the client `SSL_read` that wants to
write, followed by a write with nothing to send, leaves nothing to poll for
(Socket.cpp:227,263): the socket is deaf until the user types (`Deaf` in
ClientLoop, excluded by LostPeerIsNoticed); and a multibyte key whose end never
comes stops the program, signals included (Ui.cpp:287). In the server, a write that waits for a TLS read
clears `wantWrite` (Server.cpp:311), but the poll mask asks for writability
whenever `sendBuf` is not empty (Server.cpp:169), so the loop spins until the
peer sends (`Requested` in ServerLoop).

## 6. What is not modelled, and what is left

Abstracted throughout: the text of replies, numerics, logging, configuration
files; outside of Text also names and masks (a mask is a value, matching and
folding are constants). The INVITE throttle only refuses. A JOIN or PART of a list is
its single ones in a row; a client that is marked runs one of them as its last line
(`LineLeaves`), where the code runs the whole list before it looks at the mark. A poll
that a signal cuts short is begun again in the server (Server.cpp:174), which
`Poll` of ServerLoop leaves out, as `HandshakeGoesOn` and `Poll` of ClientLoop leave out
such retries other than for the signals that set `g_stop`. LineEditor has
first bytes of two and of three, not of four (Ui.cpp:42). In Views the voices are left out (nobody but the voiced
depends on them) and a line that overflows a buffer counts for nothing, since its
reader is marked and gets no more. In Session the client's connection lasts, and
the client never sends a password.

Not modelled, because they keep no state and answer with formatting only: LIST,
WHO, WHOIS, WHOWAS' reply, MOTD, PING/PONG, the numerics, the command
line (`Cli.cpp`), drawing and scrolling (`Ui.cpp`), the configuration, the
validity predicates of `Utils.cpp`, the command registry (a constant table filled before
`main`). The overflow of `nextCid_` (2^31 connections) is out of reach; the model
reuses cids freely, which is harsher. The unsynchronised flag written by the
server's signal handler is listed as a hazard: whether the loop sees it is the
compiler's choice.

Left for later:

1. **ChannelSeniority**: an abstract queue of members with an operator at its
   head after departures, implemented by Channels.
2. **Parsing on top of Text**: the keys of JOIN (those of `JOIN #a,#b ,k` shift,
   because empty items are dropped) and the tokens of CAP REQ.
