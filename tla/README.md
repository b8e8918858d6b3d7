# A verification project for csuoi

The repository collects university assignments. Two of them are real programs with behaviour that is
hard to test: a multi-threaded key/value server with its client, and a match-3 game driven by callbacks;
three smaller ones are pairs of processes that talk over pipes.
This directory models both in TLA+, checks the models with TLC, and proves the most important results
with TLAPS. Paths below are relative to the repository.

## 1. The system

### Key/value server (`operating-systems/assignment_1/server.c`, `common.h`)

- State: the ring `s_g_queue` of accepted connections; three mutexes (`queue_access_mutex`,
  `db_access_mutex`, `statistics_access_mutex`) and two conditions (`non_empty_queue`,
  `non_full_queue`); the KISSDB handle `db`; three counters.
- Threads: `main` opens the database, creates the others and joins them. One producer accepts
  connections and inserts them into the ring. Six consumers take connections out and run
  `processRequests` on each until it ends. `signalhandler` (Ctrl-Z) runs in whatever thread the kernel
  picks, prints the statistics, sends SIGTERM to the threads, closes the database and exits.
- Interaction: producer and consumers through the ring; consumers with each other through the database
  and the counters; the handler with everybody through the counters and `db`.
- Hard: wake-ups that are announced only at the edges (size 1, size full - 1), waits under `if`, a file
  position shared by all consumers, clients that leave in mid-session, a signal handler that takes locks.
  The handler also prints, and so takes the lock of stdout, which a thread it interrupted may hold.
- Correct when: connections leave in order of arrival, each to one consumer; no wake-up is lost; answers
  are true and go to the one who asked; counters are exact and reported consistently; Ctrl-Z ends the
  process with the database closed.

### Client (`operating-systems/assignment_1/client.c`)

- State: one TCP connection per session, one `struct Request` used for sending and receiving.
- Operations: PUT or GET of all stations over one connection, `-i` times over (`-p`, `-g`), fifty threads each of one PUT
  and one GET (`-m`), one manual request (`-o`), then END and close.
- Correct when: each answer read is the answer to the request just sent, and what was stored is found.

### Match-3 game (`computer-graphics/assignment_1`)

- State: the board `cubes2dArr`, `gameState`, `numberOfMovesLeft`, `score`; the two clicked cubes and the
  registered mouse handler; the list `s_g_destructiblePoints`; two kinds of timers; the stencil buffer,
  in which the last drawing left each cube's id.
- Operations, all of them GLUT callbacks: display; first and second click; the timer that puts new cubes
  in (2 s after an explosion) and the timer that replaces lines (1 ms later); the menu; the escape key.
- Interaction: all through globals. A click is decoded from the picture of an earlier moment.
- Hard: callbacks in an order nobody tried, more than one explosion under way, a new game in the middle.
- Correct when: lines and only lines explode, with the neighbours the rules name; no exploded slot and no
  line stays; clicks select the cube under the mouse; a game has its number of moves.

### Labs with pipes (`systems-programming/lab8_2.c`, `lab8_3.c`, `lab8_5.c`)

- State: two processes, one or two pipes, the writer's last input; a file of positive numbers (`lab8_2`),
  gnuplot (`lab8_3`), sum, counter and answer (`lab8_5`).
- Interaction: through the pipes, by end of file and SIGPIPE, and `waitpid`.
- Hard: input that ends, is no number or is empty (the last entry is sent again, once or for ever), a pipe that is full, one process gone
  while the other reads, writes or waits, int overflow and an average of nothing.
- Correct when: what is kept, added and reported is what was sent, and the ending ends both processes.

### The rest

Other labs of a page each (`systems-programming`), a security demonstration, build files, rendering. They are
listed in `PROJECT.json` with the reason they are left out. KISSDB is an empty submodule; it is modelled
as what `server.c` expects of it.

The hazards of the code, each with its line and the properties that cover it, are in `PROJECT.json`.

## 2. Modules

| module | models | builds on |
|---|---|---|
| `Server` | the ring, its mutex and conditions, producer and consumer threads | |
| `Dispatch` | abstract: a bounded first-in first-out line in front of several servers | |
| `ServerRefinement` | the mapping from `Server` to `Dispatch` | `Server`, `Dispatch` |
| `ServerProofs` | proofs of the safety properties of `Server`, and that it implements `Dispatch` | `ServerRefinement` |
| `Session` | clients, TCP connections, `processRequests`, database and its mutex | |
| `Store` | abstract: a table on which each client's call acts at one moment | |
| `SessionRefinement` | the mapping from `Session` to `Store` | `Session`, `Store` |
| `SessionProofs` | proofs of the safety properties of `Session` | `Session` |
| `StoreProofs` | proof that `Session` implements `Store` | `SessionRefinement`, `SessionProofs` |
| `Shutdown` | start, statistics, `signalhandler`, `doCleanUp` | |
| `ShutdownProofs` | proofs of the safety properties of `Shutdown` | `Shutdown` |
| `Board` | explosions, drops and stencil ids as functions of a board | |
| `BoardChecks` | the rules of the game's README, compared with `Board` | `Board` |
| `BoardLemmas` | facts about the operators of `Board`: lines, drops, stencil ids | `Board` |
| `BoardProofs` | proofs of the game's rules, on every board | `BoardChecks`, `BoardLemmas` |
| `Game` | the event loop | `Board` |
| `GameProofs` | proofs of the safety properties of `Game` | `Game`, `BoardLemmas` |
| `PipeLabs` | the three labs with two processes and pipes | |
| `PipeProofs` | proofs of the safety properties of `PipeLabs` | `PipeLabs` |
| `MC*` | constants for TLC: symmetry, sets of boards | |

The server is cut along its mutexes, and each cut is justified by another module. `Server` takes what a
consumer does with a connection as one step (`ConsumerClose`). `Session` takes the queue as a line,
which is what `Server` is proved to implement. `Shutdown` takes a session as a number of answers.
Splitting them keeps every interleaving inside each part within TLC's reach.

### Correspondence with the code

`PROJECT.json` maps every definition to its lines. In general:

- `Server`: one action per step between two pthread operations. `pc` is the thread's place; the names
  are the ones of the code around it. `Acquire`, `Release`, `CondWait` and `Broadcast` are the pthread
  operations: `CondWait` releases and sleeps at once, a woken thread must get the mutex again, broadcast
  wakes every sleeper. `SpuriousWake` is the return without a signal that POSIX allows. A connection is
  the number of its `accept()`.
- `Session`: a client is one TCP session, with its `mode` for the option that made it. `toServer` and
  `toClient` are the bytes under way, in whole requests. A key is its station and what stands behind the
  text (`rest`), because KISSDB compares all 128 bytes. `Seek` and the access after it are the two
  halves of a KISSDB call that need the mutex. `Hangup`, `Die` and `ResetArrives` are what TCP makes of a
  client that closes or dies. `stored` is history and influences nothing.
- `SessionRefinement`: a client's call is the PUT or GET that is in `toServer` or with a consumer that has not
  yet accessed the file; from then on its answer is on the way. The phantom PUT of a client that closed
  without END has the empty key and is nobody's call, so the table of `Store` is the database without that key.
- `Shutdown`: `pc` is what a thread does, `handler` where it is in `signalhandler`, so an interrupted
  thread keeps its place and its locks. A counter is the number of additions made to it; load and store
  are separate steps, and so are the reads for the `printf`. SIGTERM has no handler: it ends the process,
  at once if a thread kills itself, later otherwise. `stdout` is the lock of the stream, held by a consumer inside
  a `printf`; it belongs to the thread, so a handler may print in the middle of its own thread's `printf` and waits
  for another's. The threads are created one by one, so Ctrl-Z may come in between. `DestroyMutexes` leaves a mutex
  on which locking fails without excluding anybody: what is said of the statistics is said until then
  (`Protected`), and the rest of a process that has been sent SIGTERM and closed its database. `ProducerGivesUp` is the
  `exit(EXIT_FAILURE)` of the producer, possible at any time here; `Server` says when. Not modelled are what else
  `printf` in a signal handler may damage, the exits on failing system calls before the threads exist, and the
  descriptors. `exit()` is taken not to wait for the lock of stdout; if it did, the SIGTERM already sent would end
  the process all the same.
- `Board`: a board is a function from points to types. The C++ loops become sets: `Horizontal` and
  `Vertical` are the two-way scans, `Lines` what remains after sorting and removing duplicates.
  `dropCubesToEmptySlots` keeps the order of the loop, since lifts of one column do not commute.
- `Game`: one action per callback. The loop of `replaceEmptyCubesWithOutScoring` runs in steps of one
  round, with all other callbacks held off (`replacing`). `stencil` is the set of ids in the buffer;
  `stencilMask` stays as the last cube drawn has set it, so that clearing may have no effect, as in OpenGL.
  Cubes are drawn with gaps, so there is always background to click on (`ClickBackground`).
- `PipeLabs`: `lab` is the program that runs. The writer's loop is the same in all three (`ReadInput`, `Send`,
  `CloseWriteEnd`), so the actions are shared and `lab8_2_child`, `lab8_3_parent` and `lab8_5_parent` say which
  program takes which; the readers differ. A pipe is a sequence of whole writes, which is what writes of four
  bytes (and of at most 49) are to a reader. `scanned` is history: what the writer's variable held after each `scanf`
  or `fgets`. Any of them may leave it as it was, and the next may change it again: `scanf("%d")` takes a lone
  sign out of the input, so that `5 - 7 0` is sent as 5, 5, 7, 0, while a word stays and fails every `scanf` from then
  on. `lab8_3`'s commands are what one `fgets` returns, so the rest of a long line may look like a command; before
  the first, `cmd` is unset and may be any of them, the empty one included. `SendNothing` is the write of no bytes.
  A double is kept as the operands of its quotient.

## 3. Runs

### Passing

| run | question | instance |
|---|---|---|
| `ServerQueue` | safety of the queue and its refinement of `Dispatch`, spurious wake-ups included | 3 consumers, 2 slots, 6 connections |
| `ServerLive` | is every connection served, does the producer go on | 2 consumers, 2 slots, 5 connections, fair, no spurious wake-ups |
| `SessionData` | does each call act on the table at one moment (`Store`), are answers to the point and to the right client | 3 sessions, 2 consumers, 2 stations, 2 readings, `-i` 0, 1 or 2 |
| `SessionEnds` | does every session end, and are answers and table still right, when clients die, puts fail, a stranger or a text that is no request comes | 2 sessions, 2 consumers, fair |
| `ShutdownSignal` | are counters and report right under Ctrl-Z in any thread, does it end the server in the order of `doCleanUp`, and what alone can keep it from ending it | 2 consumers, 2 signals, 2 sessions, 1 answer, fair |
| `BoardRules` | lines, explosions, drops, clicks | 5x5: a line of a hand and one more cube, anywhere; all fillings of a 4x3 corner and of two rows with two types |
| `GamePlay` | is a line ever left standing, is the game over in time, do marks follow the selection | 3x3, three types, two games, the second started at any time, of 2 moves; 3 swaps in all, or 2 with the second game |
| `PipesEnd` | do the labs with pipes keep, add and report what was sent, and do both processes end | 6 rounds, ints of 4 bits, pipes of 2, either process killed at any point, fair |

The proofs of section 4 remove the bounds for the safety properties of all these runs. Why the bounds are
enough to mean something for the liveness properties, and to have found mistakes before a proof was tried:

- Server: six connections wrap a ring of two slots three times and exceed slots plus consumers (5), so
  the producer sleeps, is woken, and finds consumers asleep. Three consumers let one be serving, one be
  woken and one overtake it.
- Session: two consumers are enough for any interference at the database (it is between two), three
  sessions let one wait in the line or ask after the others have left. `MaxStray = 1` lets a server
  write once to a client that has gone before the reset comes; in TCP a reset answers the first such write.
- Shutdown: two consumers with a session each race for a counter, and one of them may have two sessions; a
  request of either, one at a time, is counted. Two signals are the least that reach a thread other than the one whose
  handler runs; and as a handler waits for two things only, the mutex and the lock of stdout, whoever waits for ever
  does so because of the holders of these two.
- Board: the corner and the rows give lines of three, four and five, crossings, edges, corners, empty slots
  and columns with several exploded cubes; 5x5 leaves room for the three levels of a blast.
- Game: the generator deals one of two boards (`FewRolls`), one with a line and one that is two swaps from
  one; the boards differ at every point, so each cube can change. Three swaps where a game has two make the
  first game go on after its end, and let the second begin with any number of moves left. Leaving is looked at
  before the first game only (`Exits`): no property speaks of a game that has been left.
- Labs: three numbers and the 0 fill a pipe of two, overflow an int of four bits and leave room for a negative
  one; two more rounds let an entry repeat in the middle, as at a lone sign, and at the end of the input.

Deadlock is not reported as an error in any run: when all connections have arrived, all sessions have
ended, all moves are made or the process has ended, the models stop, as bounded models do. That the server
does not stop early is what the liveness properties of `ServerLive`, `SessionEnds` and `ShutdownSignal` say,
and what `ServerStandstill` refutes beyond light load.

### Disagreements found

Each is a run that TLC finds violated, and a finding in `PROJECT.json` with the sentence it contradicts.

- `ServerStandstill`: after it has slept on a full queue, the producer inserts without waking consumers
  (`server.c:221-227`). If they have emptied the queue and sleep by then, the queue fills up and
  everybody waits. `ServerLive` shows that this is the only way for the producer to wait for ever.
- `SessionPadding`: `-m` sends keys with uninitialised bytes behind the text; a GET misses the value.
- `ShutdownTwice`: a second Ctrl-Z during the first one's handler goes to another thread; if that holds
  `statistics_access_mutex`, the server hangs. `ShutdownSignal` shows that there are two ways to hang and no third: this
  one (`SelfBlocked`), and a consumer interrupted inside a `printf`, which keeps the lock of stdout while its
  handler waits for the mutex, whose holder waits to print (`BlockedAtStdout`; `server.c:82`, `:88`, `:272`).
- `GameRefill`: a second swap within two seconds of an explosion replaces the list of exploded cubes;
  the first explosion's slots stay empty.

The models contain further behaviours that differ from what the documents promise; no run is spent on them.
Read off the code, and visible in the model as the state named:

- a spurious wake-up of a producer on a full queue ends the server, because it waits under `if`
  (`server.c:219-224`; `exited` in `Server`, see `ExitOnlyAfterSpuriousWakeup`);
- a client that closes without END is taken for a PUT of the empty key, which is stored (`server.c:108`;
  `db[EmptyKey] = ""` in `Session`);
- the producer's `exit(EXIT_FAILURE)` ends the server without a report and with the database open
  (`server.c:221-224`; `process = "failed"` in `Shutdown`, which `EndsInOrder` excepts);
- SIGTERM, sent to the threads, ends the process before `KISSDB_close` (`server.c:58-64`;
  `process = "terminated"` with `db = "open"` in `Shutdown`);
- service time is added per session and requests per answer, so a report during a session counts requests
  without their time (`server.c:278` against `:162`; `report` in `Shutdown`);
- a new game keeps the moves the last one has left (`GameManagement.cpp:250`; `StartGame` in `Game`);
- the child of `lab8_5` does not look for the end of the file: once its parent has been killed it adds the last
  number for ever (`lab8_5.c:93`; the exception in `NobodyLeftAlone`), and its parent takes an end of file
  for an answer (`lab8_5.c:68`; the exception in `ReportIsTrue`);
- all three labs send the last entry for ever when their input ends or, for numbers, at a word, and once more at a
  lone sign (`lab8_2.c:43`, `lab8_5.c:53`; `UNCHANGED input` in `ReadInput`), so that the file, the sum and the
  average hold a number more often than it was entered: 17 and 5.67 for `5 - 7 0`;
- an empty command is written for ever at the end of `lab8_3`'s input, even when gnuplot has gone: a write of no
  bytes raises no SIGPIPE (`lab8_3.c:84`; `SendNothing`, the exception in `NobodyLeftAlone`);
- nothing ever adds to `score` (`GameManagement.hpp:21`), which is why `Game` has no such variable;
- at distance two and three an explosion looks only at the eight straight directions
  (`GameManagement.cpp:62-78`; `Compass` in `Board`), where the game's README counts diagonals as it counts rows.

### Fairness

Only weak fairness is used. `WF` of each thread's steps is what the kernel's scheduler gives a thread
that can run; a thread that waits for a mutex may be overtaken as long as the mutex is free only now and
then. In `Server` it also says that clients end their sessions, which `Session` shows to follow from
the client programs (`SessionEnds`). In `PipeLabs` the two processes are fair and the user
is not: `ReadInput` waits as long as the user likes. Arrivals, signals, deaths of clients and processes and
spurious wake-ups are never fair: the environment owes nothing. `ShutdownTwice` assumes with `MainFirst` that a signal goes to the
main thread whenever that accepts one, which is how Linux delivers a signal sent to a process, so that the
hang does not need an unusual kernel; `ShutdownSignal` lets it go to any thread, as POSIX allows. `ProducerGivesUp`
is not fair either: the server must end without its help.

## 4. Proofs

All theorems hold for every value of the constants that the named assumptions allow:

- `Server`: the producer is not a consumer and no thread is `NoThread` (`ThreadAssumption`), the ring has a slot
  (`SizeAssumption`).
- `Shutdown` (`ShutdownAssumption`): the threads are different, and the consumers finitely many, as the additions
  still owed are counted.
- `Session` (`SessionAssumption`): there is a station, 0 is among the bytes that can stand behind a text, a
  reset may be late by an answer or more, and `None` is no client, consumer or reading.
- `Board` (`GridAssumption`): the grid is between 1 and 15 (`Config.hpp:18` asks for more than 10, the id's four
  bits for at most 15). `BoardChecks` (`BoardsAssumption`): the boards hold types of cubes.
- `Game` (`GameAssumption`): the generator deals types in play, a game has a move.
- `PipeLabs` (`PipeAssumption`): what is entered for a number is an int, of whatever width, and a pipe holds a write.
  The number of rounds is bounded by a constant of any value.

No property but the types of variables is inductive by itself, so every component has an inductive invariant `IInv`,
a conjunction of named parts; each proof module ends with `Invariance` (`Spec => []IInv`) and the theorems that
follow from it.

### `ServerProofs`

`IInv` is built in layers, each preserved because of the ones before it:

1. `Shape`: types, except that a consumer might close connection 0; and the producer holds the connection
   accepted last.
2. `MutualExclusion`: needs `Shape` only.
3. `Aligned`: the tail is the slot behind the backlog. Without it an insertion could land anywhere.
4. `QueueIsBacklog`: needs `Aligned`, and that different positions are different slots (`RingDistinct`).
5. `EachTakenOnce`: a removal yields the number `Taken + 1`, by `QueueIsBacklog`, which nobody had. From it
   follows that connection 0 is never closed, hence `TypeOK`.
6. `ProducerSleepsOnFullQueue`, `WokenFindsRoom`, `LightLoad`: the wake-ups. They need mutual exclusion (the
   one who is about to broadcast is alone) and, for light load, `Aligned` (the queue cannot be full).

`StepKinds` reduces the thirteen actions to five kinds (quiet, arrival, insertion, removal, close), so that layers
3 to 5 and the refinement argue about five steps. The ring's arithmetic is in `RingStep`, `RingPosition`,
`RingShift` and `RingDistinct`. Theorems: `TypeCorrect`, `MutuallyExclusive`, `FirstInFirstOut`,
`NothingTwice`, `ProducerNeverForgotten`, `ExitNeedsSpuriousWakeup`, `LightLoadNoLostWakeup`.

The refinement, at the end of the module, is `QueueImplementsDispatch`: `Spec => ImplementsDispatch`. The line is the sequence of slots
from the head (`LineIsSeq`); an insertion is `Append` (`EnqueuedAdmits`), a removal `Head` and `Tail`
(`DequeuedTakes`), a close a `Finish` (`ClosesFinishes`, which needs `EachTakenOnce`: nobody serves
connection 0); the others stutter.

### `ShutdownProofs`

The parts that speak of the mutex hold until it is destroyed, in the last steps of the main thread's handler.

1. `Shape` and `Started`: types, and which threads exist when `main` is where.
2. `Exclusive`: whoever uses the counters holds the mutex, and a thread that its handler interrupted in between
   is not in between in the handler as well. This is why the handler's `lock` on a mutex of its own thread
   hangs instead of corrupting a report.
3. `LoadedIsFresh`: a value loaded is current until it is stored, because of 2.
4. `Reading`: a report in the making agrees with the counters; they cannot move, because of 2.
5. `Ending`: only the main thread's handler gets beyond SIGTERM, and the database is closed just before its exit.
6. `AnswersBounded` and `Balanced`, with `NothingLost`: the ledger. An answer or a session is owed to its counter
   from the moment it happens until the store, which pays one debt (by 3). `InSession` relates the two kinds of
   times: a service time is added to by those only that have added their waiting time.

Theorems: `TypeCorrect`, `NoAdditionLost`, `ReportsBelongTogether`, `StatisticsProtected`, `EndingInOrder`.

### `SessionProofs` and `StoreProofs`

1. `Shape`, in four parts: clients, wires, consumers, file. `Asking` says what a client asks, by its mode;
   `Onwards` that one that goes on has stations left.
2. `OneServer`: a session is in the line once or with one consumer.
3. `FileIsMine`: from locking to unlocking one consumer uses the file, and the position is where it has moved to.
4. `Turns`: while a client waits, its question or the answer to it is in exactly one of four places: with the client's
   socket (`Asked`), with a consumer before the file (`AtWork`) or behind it (`Answering`), or on the way back
   (`Told`). What a client that has gone leaves behind nobody reads. This part makes `AnswersTheQuestion` inductive:
   the invariant on the answers alone says nothing of the questions under way.

A step of one client or consumer leaves the turns of all others alone (`TurnFrame`, `ClientTurns`, `ConsumerTurns`),
so each action is looked at from the side of its own client only. Theorems: `TypeCorrect`, `AnswersReachTheAsker`,
`OneAtTheFile` (mutual exclusion, which no run states as such) and `ReadingsAreFound`, for which `Kept` is needed
besides: the reading of a station stays in the table, under the one key the station has if `StackBytes = {0}`. Without
that hypothesis the property is false, which is what run `SessionPadding` shows.

`Implementation` in `StoreProofs`: `Spec => ImplementsStore`. By `Turns` the set from which `callOf` chooses has at most
one element (`CallsAre`), so the mapping is what one reads off the four places. Sending is `Store`'s invocation, the
access to the file its effect (`Gets`, `Puts`, `Refuses`), receiving its return; everything else stutters
(`CallFrame`), including all that strangers and broken connections do.

### `BoardLemmas` and `BoardProofs`

- `dropCubesToEmptySlots` is a fold in the order of `Point::operator<`. The induction that says what a fold does is
  replaced by the least counterexample: `Minimal` gives every non-empty family of sets of points a minimal one.
  With it `FallsExist` and `FallsAgree` show that the recursion has one solution, `DropUnrolled` takes the last
  point off, and `DropKeeps` says that what each lift keeps the drop keeps. Then `DropTurns`: a lift turns a part of
  one column (`LiftTurns`, a bijection of rows), so a drop keeps the cubes of every column.
- `LinesAre`, `EmptyingEndsLines`: once the cubes of all lines, and perhaps more, are gone, no line is left.
- `StencilIdParts`, `ClickDecodes`: the byte's two halves, and that mirroring and decoding cancel out.

Theorems, for every board on every grid: `ScanIsRight` (a run of three or more is gapless, hence made of aligned
threes, `ThreeInARow`; and aligned threes are found from each of their cubes), `ExplosionsFollowRules` and
`NeighboursExplode` (the compass points at n are n away, and at 1 they are all there is), `DroppingIsSafe`,
`ClickSelects`.

### `GameProofs`

`IInv` adds to `TypeOK` and `LinesOnlyDuringReset`: `Counted` (every pending timer is due to a move, so their number is
bounded by the moves), `Selected` (marks are the first cube's at most, and the handler tells which click is
awaited), `Idle` (before the first game the picture has no cube to click on, so no move is made and no timer set)
and `Over`. `NoLineIsLeft` rests on `EmptyingEndsLines` for a swap; dropping may make lines and sets the timer of the
reset; the reset goes on until there is none. `GameEnds` needs `Idle`, since a move before the first game would
be missing in it. Theorems: `TypeCorrect` (which needs `DropType` and `ClickDecodes`), `NoLineIsLeft`, `GameEnds`,
`MarksGo`.

### `PipeProofs`

The three labs share one invariant, whose parts speak of one program each:

1. `Shape`: types, and in which places the two processes of each program can be.
2. `Flow`: the pipe is the last of what was written, and what is scanned is written next, whether or not the `scanf` has
   found a number; a 0 is written last and once, since the writer stops there.
3. `Keeping` (`lab8_2`): the file is the positive numbers of what the parent has taken, and its loop ends with nothing
   left in the pipe, by `Flow`.
4. `Counting` (`lab8_5`): the sum is that of what the child has taken, plus its last number as often as it has read an
   end of file for a number (`Again`). This happens only to a child whose parent was killed.
5. `Answers` (`lab8_5`): answers made, under way and received are those of the numbers sent, which needs 4 and that
   a child whose loop is over has taken the 0, so that the parent was not killed before it wrote everything.

The model computes sums and the positive numbers of a list from left to right. That this is well defined, and that it
adds up over two parts of a list, is proved once for both: `Tallies` are the partial results, `TalliesExist` and
`TalliesAgree` say that a list has exactly one such table, `TallySteps` and `TallyParts` take it apart. The inductions go by
the least counterexample (`NatInduct`, `SeqInduct`). `WrapAdds`: overflow loses nothing that the total would
not lose, because `Wrap` keeps the remainder (`SameRemainder`). `EntriesSplit` and its neighbours relate what
was written to what was taken and what is still in the pipe.

Theorems: `TypeCorrect` (the sum stays an int, a pipe within its capacity), `NumbersReachTheFile`,
`NothingAddedTwice`, `ReportedIsTrue`.

### Only model-checked

Everything under fairness (`EveryConnectionServed`, `ProducerResumes`, `SessionsEnd`,
`OnlyBlockedHandlersPreventEnd`, `EndingEnds`, `NobodyLeftAlone`), which is out of the prover's reach. Every other property of a passing run is a
theorem.

## 5. Not modelled

- Short reads and writes of a session: the rest of a split request is read as the next one, and its first bytes
  as an operation outside the enumeration, which indexes an array (`server.c:114`). What follows is undefined and
  depends on the byte layout.
- Which combinations of options the client rejects (`client.c:176-262`): a loop over strings, before anything is
  connected. An endless `-i`: a negative number is a large one, as the variable is unsigned.
- Time (stamps are counted, not subtracted), the content of readings, KISSDB's file format, errors of system
  calls before threads or processes exist.
- Colours, textures and text on the screen; the special keys, which change two locals nobody reads.
- That random replacement terminates, which is true only with probability one.
- The labs without concurrency: one pass over one input each, which a test reaches as well. The security
  demonstration, which is faulty on purpose.

## 6. Plan

Done: all modules of section 2, with the proofs of every safety property that a run checks and of both refinements.

Left: lemmas of `PipeProofs` and `BoardLemmas` that argue by the least counterexample have a common core (a recursive
function over the natural numbers is well defined), which could be stated once for both. The mutual exclusion at the
file, now a theorem of `SessionProofs`, and the bound on timers in `Game` are candidates for a run of their own.
