# guacd-ts: a TLA+ model, its checks and its proofs

`guacd-ts` is a Node.js library that bridges browsers to Apache Guacamole's proxy
daemon, guacd. An application issues a one-time ticket that stands for connection
settings; the browser opens a WebSocket with the ticket in its URL; the server redeems
the ticket, opens a TCP connection to guacd, performs the Guacamole handshake and passes
instructions in both directions until either side ends.

This directory models the parts of it that have state and concurrency, checks them with
TLC on small instances, and proves safety theorems with TLAPS. Paths below are relative
to the repository (`src/` is its library source).

## 1. The system

| component | source | state | operations |
|---|---|---|---|
| tickets | `src/server/ticket-manager.ts` | the store, the per-ticket locks, the sweep interval | issueTicket, validateTicket, consumeTicket, validateAndConsume, revokeTicket, sweep, destroy |
| guacd client | `src/server/guacd-client.ts` | client state, TCP socket, parser, send buffer, connect timeout, inactivity interval | connect, socket events, processInstruction, send, close |
| client connection (bridge) | `src/server/client-connection.ts` | bridge state, guacd client, WebSocket listeners, inactivity interval, lifetime timer, statistics | connect, WebSocket events, sendToWebSocket, handleError, close |
| parser | `src/protocols/parser.ts` | text buffer | receive, parseInstruction, toInstruction |
| server | `src/server/guacamole-server.ts` | activeConnections, closed, the `ws` server | issueTicket, joinSession, attach, handleUpgrade, handleNewConnection, disconnectConnection, checkGuacd, close |
| builders | `src/protocols/builders/` | one record of parameters | constructors, setters, option methods, withParams, validate, build |
| parameters, utilities | `src/protocols/types.ts`, `utils.ts` | none | tables of parameters, queries, parseConnectionString |
| example application | `examples/` | a React client, an Express server | not part of the library |
| errors, logging, types | `src/errors/`, `src/logging/`, `src/types/` | none that matters | |

Interactions. The server calls the ticket manager and awaits it; it builds a
`ClientConnection` on a WebSocket and listens to its `ready`, `close` and `error`; the
connection owns a `GuacdClient` and listens to its `open`, `close`, `error` and `data`;
`close` of either calls `close` of the other; the guacd client owns a parser and is called
back by it once per instruction. The `ws` library, the HTTP server, the TCP socket, guacd,
the browser and a custom `TicketStore` are the environment.

What is hard. JavaScript runs one handler at a time, so everything that can go wrong does
so at an `await` or between two events:

- `validateAndConsume` awaits the store between reading a ticket and writing it back; only
  a per-process promise lock keeps two redemptions apart, and `consumeTicket` and
  `revokeTicket` take no lock;
- `handleNewConnection` has up to four awaits, and reads limits, sharing settings and the
  server's state before them that it uses after them;
- a tunnel can be ended by either socket, four timers, a failing write in either direction,
  a parser or buffer overflow, the handshake, the server or a hook;
- the parser's loop goes on calling its client after an instruction has closed it;
- shutdown runs while handlers are suspended, and depends on listeners that the bridge
  removes;
- three layers of defaults (builder, server, handshake) meet values such as `false`, 0, `''`,
  NaN and undefined, each tested in its own way, after validation has passed;
- two clocks of inactivity are renewed by different events and looked at once a second.

What makes each component correct:

- tickets: at most one redemption; a closed ticket stays closed; a live ticket is not lost;
  the lock is exact and is always handed on; dead tickets are forgotten;
- tunnel: teardown releases everything, whoever starts it; nothing passes a closed bridge;
  the client's messages reach guacd once, in order and after the handshake; the buffer is
  bounded; listeners see one `ready`, one `error`, one `close`, in that order; a handshake
  ends;
- parser: the instructions handed out are those sent, however TCP cuts the stream;
- settings: what was asked for last is what guacd is told, and what validated is usable;
- limits in time: none is outstayed by more than a period, none ends a tunnel early;
- server: one tunnel per ticket; the table of tunnels is exact; limits; nobody joins a
  session that is not shared; every request is answered; `close` resolves.

## 2. The modules

| module | models | composition |
|---|---|---|
| `OneTimeTicket` | what the ticket subsystem promises | abstract; refined by `TicketManager`, used by `GuacamoleServer` |
| `TicketManager` | the ticket manager and its store | refines `OneTimeTicket` |
| `TicketManagerProofs` | theorems about `TicketManager` | |
| `TunnelLifecycle` | what a tunnel promises its listeners | abstract; refined by `Tunnel`; its three phases are `conn` of `GuacamoleServer` |
| `Tunnel` | `ClientConnection` with its `GuacdClient` | refines `TunnelLifecycle` |
| `Parser` | `GuacamoleParser` behind the decoding of TCP chunks | on its own |
| `ParserProofs` | theorems about `Parser` | |
| `TunnelProofs` | theorems about `Tunnel` | |
| `Deadlines` | the timers of a tunnel, and `checkGuacd`, on a clock | when the timers of `Tunnel` fire |
| `DeadlinesProofs` | theorems about `Deadlines` | |
| `GuacamoleServer` | the server, over tickets and tunnels | INSTANCEs `OneTimeTicket` |
| `GuacamoleServerProofs` | theorems about `GuacamoleServer` | |
| `Parameters` | the parameters of each protocol, the utilities, JavaScript's tests of values | |
| `Builders` | constructors, setters, methods, validate and build of the four builders | EXTENDS `Parameters` |
| `Handshake` | version negotiation and the reply to `args` | EXTENDS `Parameters`; `Reply` of `Tunnel` |
| `Connection` | settings from the first call on a builder to what guacd is told | EXTENDS `Builders`, `Handshake` |
| `BuildersProofs` | what a method of a builder writes, and what `validate` has let pass | |
| `ConnectionProofs` | theorems about `Handshake` and `Connection` | EXTENDS `BuildersProofs` |
| `Induction` | induction on numbers and sequences, recursion over an interval | EXTENDed by `ParserProofs` and `ConnectionProofs` |
| `MC*` | instances for TLC | |

Names are the source's. In every module an operator marked "Mutant" is a plausible bug in
the definition that follows it and takes no part in the specification; it is there to show
that a property notices.

**TicketManager.** A call is one invocation of one of the four methods. `pc[c]` is the
await it is suspended at: `wait` in the loop of `withTicketLock`, `get`, `set` and `delete`
in the store, `check` and `ack` after an answer has come, `mark` after `validateTicket` has
returned to `validateAndConsume`, `unlock` before the `finally` of a rejected call. An
action is what runs between two awaits. `SharesObjects` tells the two stores apart: the
in-memory one returns the object it keeps, so that a mark is seen by every holder
(`Aliases`) even before `set`; a custom one answers later with a copy and may fail, before or
after it has applied a write. A ticket is `absent`, `fresh` or `consumed` in the store, and
expiry is a flag that time sets once. Identifiers come from `randomUUID` and are taken to
be distinct. The sweep runs from a timer, and all awaits on the in-memory store are
microtasks, which Node runs to exhaustion first: it never falls into a call (`Quiet`).

**Tunnel.** One action per event handler. `TearDown` is the joint effect of the two
mutually recursive `close` methods. `rx` is the rest of a chunk inside the parser's loop; no
other handler runs until it is empty (`Idle`), and an instruction that closes the client does
not empty it. `timers` are the armed timers, `quiet` the idle ones whose period has passed
without activity; time itself is abstract. `events` is the history of emitted events.
`process` is "gone" once a handler has thrown, and "unheard" once a WebSocket that `close` has
stripped of its listeners, the one for `error` among them, has failed while it was still closing
(`StrippedWsError`): nobody hears that `error`, so it is thrown. A message is one
unit of the send buffer; `Reply` stands for the six or seven instructions that answer `args`,
whose content is `Handshake`. guacd is external: `peer` is its place in its protocol; a silent
peer follows it, an unruly one sends any instruction at any time.

**Deadlines.** `left[t]` counts down to the next firing of timer t; it may run below zero, as
far as `Lag`, for a busy event loop. `idle` is `Date.now() - lastActivity` as each side sees it,
`silence` how long there really was nothing; the two are kept apart so that a forgotten or
superfluous renewal shows. Durations are counted up to `Cap`, beyond every limit, which makes
the clock unbounded and the state space finite. Node's part (what a delay above 2^31 - 1
becomes in `setTimeout` and in a socket, and that a socket's timer starts again when the host
name is resolved) is external.

**Parameters, Builders, Handshake, Connection.** A value is denoted by the text that
`String(value)` makes of it, so that `"false"`, `"0"`, `""`, `"NaN"`, `"undefined"` and `"null"` are
told apart and the tests of the code (`if (x)`, `??`, `!== undefined`, comparisons) are operators
on them. A method that takes an option object is a record that names the parameters it writes by
the rule it writes them by; `Written` is what a call writes. A record is built with the operators `:>` and `@@` that `Parameters` defines, so that the provers can
expand them. `Connection` makes calls on one
builder of one protocol, or writes a settings object by hand, then `Build` (after `Validate`),
`MergeSettings` with the server's defaults, and `SendHandshakeReply`. `wanted` is the history of
what the caller asked for. Nothing here is concurrent; the hazard is in the sequence of calls.

**Parser.** Text is a sequence of characters and a character is a number: n >= 0 stands for the
digits of n with the dot after them and counts as one byte, the negative ones for a comma, a
semicolon and characters of one, two or three bytes. A byte is a character and its place in it.
`Decoded` is the conversion `toString('utf8')` of one chunk, with U+FFFD for what is not a
character. The loops of `receive` and `parseInstruction` are functions on the positions of the
buffer: `InstructionsFrom` and `ElementsFrom` are one round each. Digits without a dot
(`parseInt` reading a number out of a value that the loop has lost its place in) are left out.

**GuacamoleServer.** `stage[w]` is the await at which `handleNewConnection` is suspended for
WebSocket w; `Validated` is the whole stretch from the answer of `validateTicket` to the call
of `validateAndConsume`, `Proceed` the stretch after it, a hook included. A WebSocket and the
tunnel built on it share a name. `clients` is `wss.clients`, `deaf` the WebSockets that a
bridge has stripped of their listeners. `overlapped` is a history variable: two handlers were
between the limit tests and `activeConnections.set` at one time. `reason[w]` is the code and text a
WebSocket was refused with: a hook that throws an `AuthenticationError`, or allows nobody, gives
"forbidden", any other exception "internalError". A ticket's `allowJoin` is
resolved against the default when it is issued; a join ticket states none.

## 3. The runs

All runs but `DeadlinesMet` set `CHECK_DEADLOCK FALSE`: calls, messages and sockets are finite
in number, and a system that has served them all rightly stops.

| run | asks | bounds |
|---|---|---|
| `TicketUse` | types, live tickets survive, dead ones are swept, lock, single use, closed stays closed, marks are final, every call settles, refinement of `OneTimeTicket` | 1 ticket, 3 calls, both stores, the custom one failing |
| `TicketDoubleSpend` | (violated) single use with two processes over one store | 1 ticket, 3 calls, 2 managers |
| `TunnelLife` | types, teardown, both halves, message order, handshake, buffer, client stream, no exception but one, silence of a closed bridge, refinement of `TunnelLifecycle`, end of a handshake | 3 client messages, 4 instructions, buffer of 2, two configurations of timers, both peers |
| `TunnelUnhandled` | (violated) no handler throws, with no `error` listener | 1 message, 2 instructions |
| `DeadlinesMet` | no limit outstayed, no early end, the probe settles | 4 settings of the limits, 2 timeouts of the probe, period 2, lag 1, longest timer 5 |
| `ParserChunks` | the stream is faithful and the buffer bounded | 2 instructions of 1 or 2 elements, 4 texts, limit of 8 bytes |
| `ParserSplit` | (violated) the same with cuts inside characters | same |
| `ServerSharing` | types, one tunnel per ticket, session limit, consent to sharing | 3 WebSockets, 3 tickets, limit of 2, no shutdown (`Serving`) |
| `ServerLife` | exact table, answers, connection limit, what a refusal costs, shutdown | 2 WebSockets, 2 tickets, limit of 1, both hooks |
| `ServerDeadSocket` | (violated) no tunnel on a WebSocket that is gone | 2 WebSockets, 2 tickets, one hook |
| `ServerCloseHangs` | (violated) `close` resolves | 2 WebSockets, 1 ticket |
| `SettingsArrive` | what was asked for arrives, validated settings are usable, one display size, time zone, the utilities agree with the tables | all four protocols, every first call and every second about the same parameters, every option with every value, 3 offers of versions, 2 sets of defaults, one of which switches a feature on without what it needs |

Why the bounds are enough. Tickets do not interact: a lock, a store entry and every call
belong to one. Three calls give two contenders and a third that consumes, revokes, waits
behind them or comes late. In a tunnel a buffer of two needs three messages to overflow, and
four instructions cover `args`, `ready`, data and a failure, with every way of cutting them into
chunks; the two configurations of timers are the smallest with which a handshake ends and all
four, against a peer that keeps to its protocol and one that does not. On the server a limit of
one needs two requests and a limit of two three. In the parser two instructions are what a lost
boundary can join. On the clock, a period of two and a lag of one let a check fall before, at and
after every limit, and one setting lies beyond the longest timer. Parameters interact only where
one call writes what another wrote, or where a feature needs another parameter: two calls that
share a parameter reach both; their values cover what the code's tests tell apart (an empty, a
plain and a second text; NaN, 0, a small and an out-of-range number; both booleans).

The violated runs are disagreements between the code and what it says of itself; each is
quoted in `PROJECT.json`:

- `TicketDoubleSpend`: the lock is a map of one process, while the README recommends a shared
  store for several servers;
- `TunnelUnhandled`: the server emits `error` even when nobody listens, and Node throws it;
- `ParserSplit`: each chunk is decoded by itself, and a character cut in two makes the length
  not fit, so the instruction is dropped;
- `ServerDeadSocket`: nothing looks at the WebSocket after the awaits, and the bridge has
  missed its `close`;
- `ServerCloseHangs`: `removeAllListeners` takes away the listener by which the `ws` server
  learns that a WebSocket has gone.

Some properties are stated in the form in which the code keeps them. `LimitHoldsInSequence`
and `JoinLimitHoldsInSequence` exclude handlers that overlap, since both limits are tested
before the awaits and counted after them; `CloseResolvesUnlessStripped` excludes stripped
WebSockets and tunnels that a suspended handler puts into the closed server;
`FaithfulStream` is run on texts without `;`, at which the parser splits before it looks at
lengths; `SilentOnceClosed` is what remains true when an unruly guacd's `ready` behind an
`error` in one chunk reopens a closed client and its `ready` event follows its `close`;
`HalvesAgree`, `ClientStream`, `Lifecycle` and the first part of `OnlyStrippedThrows` are stated of a
guacd that keeps to its protocol. `OnlyStrippedThrows` admits one exception, which the code does not prevent:
`removeAllListeners` (`client-connection.ts:182`) leaves a WebSocket that is still closing without an
`error` listener, `ws` goes on reading its frames, and an invalid one ends the process although the
application listens; what is claimed of it is that the tunnel has released what it held by then.
`RefusalKeepsTicket` excepts the hooks, which run after the ticket is redeemed; two
WebSockets under a limit of one never fill a session in `ServerLife`, so that refusal is left to `TicketKept`
(section 4).
`Arrives` takes an empty text, passed as an option that a method tests by `if (options.x)`, to ask for nothing
(`Asked`): a second `sftp({ ..., password: '' })` leaves the password of the first, and `enablePrinting('')`
no printer name. As a setter's value, in `withParams`, as a required option or as one tested by
`!== undefined` or `??`, it is a value like any other and arrives. `Usable` excepts the features
that only a default of the application switches on, since defaults are merged after `validate`. `NoEarlyEnd` excludes a lifetime above 2^31 - 1 ms, which `setTimeout` turns into
1 ms, and `NothingOutstays` grants the connect timeout twice its length, since it starts again when
the host name is resolved.

Fairness. `TicketManager`: a suspended call is resumed (the microtask queue is drained), a
store answers or fails, the interval fires while armed. A store that never answers would
hold its ticket's lock for ever; the code has no timeout for it. `Tunnel`: the parser's loop
runs on, and timers fire; nothing is assumed of guacd or the browser. `GuacamoleServer`:
promises and hooks settle, a WebSocket that is being closed ends (`ws` destroys the socket
after 30 s), events due are emitted; no browser has to leave and no tunnel has to end.

## 4. The proofs

`TicketManagerProofs` proves, for any sets of tickets, calls and managers and either kind of
store, from the named assumptions of `TicketManager` (each call is made on a manager, the
two switches are Boolean, `None` is not a ticket):

| theorem | states |
|---|---|
| `Typing` | `Spec => []TypeOK` |
| `ClosedForGood` | `Spec => []ClosedStaysClosed`, for any number of managers |
| `Locking` | `Spec => []LockDiscipline`, for any number of managers |
| `UnusedKept` | `Spec => []UnusedTicketSurvives` |
| `MarksAreFinal` | `Spec => MarkIsFinal` |
| `OneManagerSingleUse` | `Spec => []SingleUse` if all calls are made on one manager |
| `Refinement` | `Spec => OneTime` under the same hypothesis |

That hypothesis is needed: `TicketDoubleSpend` shows a behaviour of two managers that breaks
both.

The argument. `TicketInv` is inductive and has four parts. `TypeInv` adds to `TypeOK` what the
place of a call says about its method and its data. `StoreInv`: nothing is stored before it is
issued; from the moment a redemption, consumption or revocation is about to return, the
ticket is never fresh in the store again (`SpentInv`); and a call doomed from its start meets
an expired ticket or a copy that is not fresh (`DoomInv`). It holds because every write that
can follow is of a marked copy or a deletion, which is also why marks are final. `LockInv`:
the calls inside a lock and the locks held correspond one to one. `OnceInv`: once a call has
redeemed a ticket, another call of the same manager can no longer hold a fresh copy of it
past the lock, for it was shut out until the mark was stored. `SingleUse` follows from
`OnceInv`, `ClosedStaysClosed` from `DoomInv`, `LockDiscipline` from `LockInv`. `UnusedTicketSurvives` is
inductive over `TypeInv`. The refinement maps a redemption to `pending` or `doomed` until it
returns: `ValidateAndConsume` is the abstract `Begin`, `Settle` is `Grant`, or `Close` when the call
consumes or revokes, `Reject` is `Deny`, `Expire` is `Close`, and all else stutters.

`GuacamoleServerProofs` proves, for any finite set of WebSockets, any tickets, hooks and limits
(`ServerAssumption`):

| theorem | states |
|---|---|
| `Typing` | `Spec => []TypeOK` |
| `OneTunnel` | `Spec => []OneTunnelPerTicket` |
| `ExactTable` | `Spec => []TableIsExact` |
| `Answered` | `Spec => []NoSilentRefusal` |
| `TicketKept` | `Spec => []RefusalKeepsTicket`, of every refusal |
| `Consented` | `Spec => []SharingNeedsConsent` |
| `ConnectionLimit`, `SessionLimit` | `Spec => []LimitHoldsInSequence`, `Spec => []JoinLimitHoldsInSequence` |
| `TicketsRespected` | `Spec => Tk!Spec`: the server takes no step with its tickets that `OneTimeTicket` does not offer |

The argument. `Inv` has four parts. `TypeInv`: a ticket that was asked for has been issued.
`TunnelInv` says, for every stage of a handler, what it has claimed and answered (`Requests`), that a
live tunnel is in the table unless its `connect` threw (`Tunnels`), and that a ticket is granted once.
`SessionInv` is needed because consent is checked once and the session joined later: it carries the
owner's consent, or the owner's departure, from the check to the tunnel, and ties guacd's identifiers to
their owners. `LimitInv`: while at most one handler is between the tests and the table, there is still
room for it. With `Refinement` of `TicketManagerProofs` the last theorem closes the composition: what
the server assumes of tickets is what one manager provides.

`TunnelProofs` proves, for any timers, buffer limit, numbers of messages and instructions and either
peer (`TunnelAssumption`):

| theorem | states |
|---|---|
| `Typing`, `Released`, `Bounded` | `Spec => []TypeOK`, `[]TornDown`, `[]BufferBounded` |
| `Silent` | `Spec => SilentOnceClosed` |
| `Ordered` | `Spec => []InOrderToGuacd` |
| `HalvesTogether` | `Spec => []HalvesAgree` |
| `Introduced` | `Spec => []HandshakeFirst` |
| `ClientHears` | `Spec => []ClientStream` |
| `Uninterrupted` | `Spec => []OnlyStrippedThrows` if somebody listens to `error` (`TunnelUnhandled` shows the need) |
| `Implements` | `Spec => Lifecycle`, the refinement of `TunnelLifecycle` |

The argument. `TunnelInv` has three parts. `HalfInv` relates the two states, the socket and the timers
and holds of any peer. `OrderInv` says which messages are written, which wait, and that none is
written early. `Keeps`, of a peer that keeps to its protocol, looks at what is on its way to the parser
(`Transit`, the rest of the chunk and the wire): it holds at most one `ready`, nothing behind an
`error` (`Clean`); a `ready` in it meets a client that is still opening (`Waiting`); whatever allows a
message to pass came after the reply (`Replied`); and what the client has heard fits
(`Heard`). It is needed because the parser goes on after an instruction that closed the client:
only the peer's protocol keeps a `ready` from following. The refinement maps the phase to the bridge's
state when closed and to the guacd client's before; `Closes`, `Keeping` and the two `ready` actions
are all the shapes a step can have.

`DeadlinesProofs` proves, for any limits, timeouts, period, lag and longest timer
(`DeadlinesAssumption`), `Typing` (`Spec => []TypeOK`), `InTime` (`Spec => []NothingOutstays`),
`NotBefore` (`Spec => NoEarlyEnd`) and `Probed` (`Spec => []ProbeSettles`). The invariant adds up, for every
armed timer, what is over and what is left: `idle + left <= limit + period` for the checks, `age + left`
at most and, for a delay that a timer holds, at least the limit for the two that fire once.

`ParserProofs` proves, for any elements without a `;`, any number of instructions and any limit of the
buffer (`ParserAssumption`: the elements are texts without the separator):

| theorem | states |
|---|---|
| `StreamFaithful` | `Spec => []FaithfulStream` if TCP cuts between characters (`ParserSplit` shows the need) |
| `BufferStaysBounded` | `Spec => []BufferBounded`, wherever it cuts |
| `ParseUndoes` | `ParseInstruction(ToInstruction(parts)) = parts` for any elements, of any length |
| `InstructionsOfStream` | the loop of `receive` finds in written instructions, and the start of another, those instructions |
| `DecodedEncoded` | `Decoded(Encoded(t)) = t` for any text |

The argument. `StreamInv` says that there are instructions `pending` and a text such that `sent` is
`handed` and `pending`, and, unless the buffer has overflowed, the buffer and that text spell `pending`
while the wire holds the text's bytes (`Stands`). A chunk cut between characters decodes to a front of
the text (`CutText`); behind the buffer it is whole instructions and the start of one (`StreamSplits`);
the loop of `receive` hands out the former (`InstructionsOfStream`, which rests on `ParseUndoes`) and
keeps the latter (`RestOfStream`). Once the wire is empty the buffer spells `pending`, and as it holds no
`;` (`BufferBounded`), nothing is pending. `ParseUndoes` is an induction over the elements: a length
prefix counts the bytes of its value, so the separator stands where the loop looks for it, whatever the
value holds; only the `;` that `receive` looks for first has to be kept out of it.

These are inductions over data, which the library's induction theorems cannot give, for they take an
operator as a parameter. `Induction` takes the least counterexample instead: `LeastNumber` is an
instance of the minimal element of a well-founded relation, `Induct` says that a set with 0 and with
every member's successor holds every number, `SeqInduct` and `SeqInductFront` the same of sequences,
longer by their last or their first element. `Recursion` proves that a function exists that is defined
by its value at a later place, so that the `CHOOSE` behind a recursive function has something to choose.

`ConnectionProofs`, with `BuildersProofs`, proves for any sample values, any versions a guacd offers, any
defaults of the application and any number of calls (`ConnectionAssumption`: a sample is a value and not
the absence of one, a text is not spelt like the text that denotes another kind's falsy value, versions
are sequences of numbers):

| theorem | states |
|---|---|
| `SettingsArrive` | `Spec => []Arrives` |
| `ConnectionsUsable` | `Spec => []Usable` |
| `OneSizeTold`, `TimezoneTold` | `Spec => []OneDisplaySize`, `Spec => []TimezoneHeard` |
| `TablesAgree` | `Spec => []UtilitiesAgree` |
| `ConnectionInvariant` | `Spec => []ConnectionInv`, the invariant behind them |
| `PicksAHighest` | what `pickProtocolVersion` returns, for any sequence of versions |
| `PickKnowsTimezone` | the version picked knows `timezone` just when an offered one does |

The argument. `ConnectionInv` has three parts. `Described`: while calls are made, the builder's params are
what was asked for over the constructor's defaults. It needs of every method that what it writes is what
it was asked for (`WrittenIsAsked`), for any values of its options, `''` included; `BuildersProofs` shows
of every method that the rules by which it writes do not overlap: an option tested by `if` is
written in no other way. `Settled`: what was built has passed `validate`, and the settings are those params.
`Told`: the reply follows from the settings and the defaults of the server. `PicksAHighest` rests on
the order of versions being strict and transitive, where a missing number counts as 0.

Only model-checked is liveness (`EveryCallSettles`, `DeadTicketsAreSwept`, `HandshakeEnds`,
`EveryRequestSettles`, `CloseResolvesUnlessStripped`), which needs fairness and `ENABLED`. Every other
property of a passing run is a theorem.

## 5. Not modelled

- Statistics and metadata of a connection: no decision depends on them.
- Warnings of `validate` (they stop nothing) and the texts of errors; display names of protocols.
- `parseConnectionString`: a parser of URLs by way of `URL`.
- Misaligned digits in `Parser`, and elements that hold `;`, with which `FaithfulStream` does not hold.
- Changes of the system's clock, from which `lastActivity` is read.
- Exceptions thrown by the application's event hooks.
- A WebSocket that fails during the awaits of `handleNewConnection`, before a bridge listens to it: its
  `error` has no listener then either (in `Tunnel` the like of it is `StrippedWsError`).
- Error classes, logging and type exports: no state shared between steps, or output only.
- The example application: a user of the library. Its client is written against
  `guacamole-common-js`, whose events decide what it does and which is not in the repository.

## 6. What is left

1. The shutdown of an attached HTTP server with browsers that stay connected, as a property.
2. The refinement of the timers of `Tunnel` by `Deadlines`, joined into one module.
3. Elements with `;` and misaligned digits in `Parser`, with the cases in which an instruction is
   mistaken for another.
4. `parseConnectionString`, once there is a model of `URL` to rest it on.
