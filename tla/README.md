# zzacommon: a verification project

zzacommon is a C++ library of common parts for FLTK applications of an amateur
radio operator: queues between threads, a socket and XML-RPC server, audio
through PortAudio, application files and settings, status messages, graphs and
other widgets; it carries pugixml, which it reads and writes XML-RPC with. This
directory models the parts that keep state several actors share or that change
state in many steps, checks them with TLC, and proves with TLAPS what the queues between
threads and the other containers, the socket server and the RPC handler on it, the audio
port, the files and settings, the viewer, the status log and the banner, the ticker, the
graph, the scroll bar and the calendar must keep. Paths below are relative to the repository
(`src/zc_ticker.cpp`); `PROJECT.json` gives the same files from one directory up,
and names for every definition the lines it models.

1. [The system](#1-the-system)
2. [Modules and how they correspond to the code](#2-modules-and-how-they-correspond-to-the-code)
3. [What the runs check](#3-what-the-runs-check)
4. [Fairness](#4-fairness)
5. [What is proved](#5-what-is-proved)
6. [Where the code and its documents differ](#6-where-the-code-and-its-documents-differ)
7. [What is not modelled](#7-what-is-not-modelled)
8. [The plan](#8-the-plan)

## 1. The system

Almost everything runs on the **main thread**, inside FLTK's event loop. Three
things make that less sequential than it sounds:

* **other threads**: `rcv_packet` (one for each `run_server`), PortAudio's
  thread that calls `pa_stream`, and the application's own threads on either
  end of a `zc_async_queue`;
* **`Fl::awake`**: a bounded ring, one for the whole program, through which
  another thread asks the main loop for a callback; the result of `Fl::awake` is
  never looked at;
* **`Fl::check`**: every status message that goes to a banner ends in
  `zc_banner::add_message`, which runs FLTK's loop there and then. Any handler
  of the library that reports something can therefore be re-entered.

| Component | State | Operations | Talks to | Must hold |
|---|---|---|---|---|
| `zc_async_queue` | `queue_`, mutex, condition, atomic `shutdown_` | push, try_pop, wait_and_pop, empty, front, pop, clear, shutdown | any threads | FIFO, each value once; no wakeup lost; a shutdown lets every waiter go, after the queue is drained |
| `zc_socket_server` | `closing_`, `closed_`, `server_`, `client_`/`client_addr_`, `q_packet_` | run_server, close_server, send_response; rcv_packet on a thread; cb_th_packet from FLTK | `Fl::awake` to the main loop; status; `do_request` of the application | packets reach the application once, in order, and are not stranded; a reply reaches who asked; close_server leaves no thread receiving |
| `zc_rpc_handler` | methods, the server | handle_request, encoding and decoding | is the `do_request` of a socket server | no request is performed twice, nor before its end has arrived; each reply is that of its request; a fault is a fault |
| `zc_rpc_data_item`, base 64 | type and value | set, get, write_item, read_item | the RPC handler | what is written is read back |
| `zc_ticker` | `tickers_`, `tick_count_`, FLTK's timeout | add, remove, activate, stop_all, cb_ticker | calls the subscribers from inside its loop | each active subscriber called every period, also over the wrap-around; the iterator survives the callbacks |
| `zc_audio` | `state_`, `port_index_`, `port_ids_`, `stream_`, `idle_`, `app_audio_` | enable, reset, use_port, disconnect_port, sample_rate, pa_stream | PortAudio (every call may fail), an async queue | one stream at a time, `stream_` names it; samples once and in order |
| `zc_file_holder` | the working directory, `DEBUG_RESET_CONFIG` | get_file for reading and for writing | settings, status | the user's changes are thrown away only on request and once; shipped files can always be read |
| `zc_settings` | `all_settings_`, `attachments_` (static), `data_` of each object | construct, set, get, clear, flush, destroy | the file holder | the last change is in the file, in whatever order objects go |
| `zc_file_viewer` | the buffer, `filename_`, `dirty_`, `data_` | load, save, reload, recover, set_data | FLTK's text buffer and modal dialogue | a text goes to the file it came from; clean means stored |
| `zc_status`, `zc_banner` | log file, message history, filter, progress | misc_status, progress, add_message, ... | everything reports to them; `Fl::check` | no message lost; the display is what the filter says |
| pugixml: documents | nodes and attributes in linked lists, strings in pages with a reference count, the parsed buffers | append, insert, move, copy, remove, set names, values and texts, parse into, reset | each other: a copy shares strings, a move crosses documents | the tree is what the calls promise; nothing leaks, is freed twice or changes behind a copy |
| pugixml: files | a buffer through which text is converted in pieces | save_file, load_file | the disk | what is saved loads back, whatever the flags, the encoding and where the buffer was cut |
| pugixml: XPath | the query's tree; the order a node set is in | parse, optimise, evaluate | documents | the nodes a path means, in the order the set claims |
| `zc_graph_` and its classes | axes, data sets, layout, damage | configuration, wheel, drag, double click, draw | `zc_range`; the application's vectors of points | what is shown stays within the limits, follows the mouse and is what is drawn |
| `zc_range`, `zc_zoom_scroll_bar` | bounds and range | bounds, value, wheel, drag | FLTK's slider, which has a value of its own | the range stays inside the bounds; the slider is where the range is |
| calendar and its field | a date in three places | buttons, cells, OK, Cancel, typing | `zc_utils` for dates | the date exists and is the table's |
| `zc_async_deque`, `zc_active_queue`, `zc_running_average` | a container each | push, pop, front, lock; a refill callback inside pop; add | threads, the application | as the queue; the mean of the last N |
| `zc_utils` | none | pairs of conversions | everything | what was converted comes back |
| `zc_url_handler`, `zc_serial` | a curl handle under a recursive lock; the port list | read_url, post_form, send_email; available_ports | libcurl, boost.asio | the handle is released on every path |
| style dialogues, small inputs | widgets' values | callbacks | the application | see section 7 |

What is hard to test in this code, at its line, is in `PROJECT.json` under
`hazards`, with the properties that cover it.

## 2. Modules and how they correspond to the code

| Module | Models | With |
|---|---|---|
| `BlockingChannel` | what the queue promises: a FIFO with parked clients | |
| `AsyncQueue` | `include/zc_async_queue.h` | implements `BlockingChannel` |
| `AsyncQueueProofs` | theorems about `AsyncQueue` | extends it |
| `SocketServer` | `src/zc_socket_server.cpp`, POSIX branches | FLTK's ring and `Fl::check` |
| `SocketServerProofs` | theorems about `SocketServer` | extends it |
| `RpcServer` | `zc_rpc_handler::handle_request` | extends `SocketServer`; refines its `Serve` |
| `RpcServerProofs` | theorems about `RpcServer` | extends `SocketServerProofs` |
| `RpcItems` | write_item, read_item, decode_request, decode_response; `encode_base_64`, `decode_base_64` in `src/zc_utils.cpp`; pugixml's conversions of values | extends `XmlWriter` and `XmlParser`; base 64 has the standard as reference |
| `Ticker` | `src/zc_ticker.cpp` | |
| `Audio` | `src/zc_audio.cpp` | the async queue as a sequence |
| `AudioProofs` | theorems about `Audio` | extends it |
| `FileHolder` | `src/zc_file_holder.cpp` | |
| `Settings` | `src/zc_settings.cpp` | extends `FileHolder`, calls its actions |
| `SettingsProofs` | theorems about `FileHolder` and `Settings` | extends them |
| `FileViewer` | `src/zc_file_viewer.cpp` | |
| `Status` | `src/zc_status.cpp` and `src/zc_banner.cpp` | FLTK's `Fl::check` and dialogues |
| `DesktopProofs` | theorems about `FileViewer`, `Ticker`, `Status` and `Calendar` | extends them |
| `XmlLinks` | pugixml's linked lists | operators |
| `XmlDocument` | its allocator, and what each editing call does to objects, strings, pages and buffers | extends `XmlLinks` |
| `OrderedTree` | what the editing calls promise: a tree, no memory | |
| `XmlEdits` | a program that makes any calls in any order | `XmlDocument` against `OrderedTree` |
| `XmlPath` | the evaluation of location paths, and their rewriting | extends `XmlDocument` |
| `XmlQueries` | what a location path means, and the asking of paths | `XmlPath` and `XmlEdits` |
| `XPathParser` | the lexer and the parser of queries, and the grammar in their comments | |
| `XmlEncoding` | decoders, writers, the guess at an encoding, the buffered writer | operators |
| `XmlWriter`, `XmlParser` | node_output; xml_parser | extend `XmlEncoding` |
| `XmlFiles` | a document saved, perhaps cut short, and loaded | extends both |
| `Range` | `include/zc_range.h` | operators |
| `ZoomScrollBar` | `src/zc_zoom_scroll_bar.cpp` | extends `Range`; FLTK's slider |
| `GraphAxes`, `GraphLayout`, `Graph` | `src/zc_graph_.cpp`: ranges; layout, pixels and values; the widget's events | each extends the one before |
| `GraphProofs` | theorems about `Graph` and `ZoomScrollBar` | extends them |
| `Dates`, `Utils` | `src/zc_utils.cpp` | operators; `Utils` also asks for each conversion |
| `Calendar` | `src/zc_calendar*.cpp` | extends `Dates` |
| `AsyncDeque` | `include/zc_async_deque.h` | |
| `PullBuffers` | `include/zc_active_queue.h`, `include/zc_running_average.h` | |
| `BufferProofs` | theorems about `AsyncDeque` and `PullBuffers` | extends them |

`MC<Module>` gives a module's constants their values for TLC, one cfg per
question (`MC<Module>_<question>.cfg`). Two of them bring together what shares
nothing but a program: `MCDesktop` the windows and files of an application, `MCData`
everything that stores or converts data (XML documents, XML-RPC values, texts, the
containers). Their variable `part` is chosen by `Init` from the constant `Parts` and
says which part moves in this behaviour; the others are at rest and their variables
keep their first values. The runs that look at one part give `Parts` that one. So
one run asks what its parts would be asked one by one, and the number of its
states is the sum and not the product of theirs. An operator marked *mutant* is a
form of the definition beside it as a plausible bug would have it;
`PROJECT.json` says which property notices.

**AsyncQueue.** A thread's place in the operation it has called is `pc`. A step
is what no other thread can see the inside of: one for each critical section,
except that `push` and `try_pop` read `shutdown_` before they lock (`PushCheck`,
`TryPopCheck`), `shutdown` stores the flag before it locks (`ShutdownStore`), and
`wait_and_pop` is cut wherever it reads the flag while holding the mutex
(`WaitTest`, `WaitSleep`, `WaitTake`), because the flag can be raised in between.
The condition variable is the set of threads asleep on it; it wakes spuriously.
`Producers`, `Waiters`, `Pollers`, `Peekers`, `Cleaners` and `Closers` are
threads by the operation they call; the destructor is a `Closer`. The header
asks the caller of `front` and `pop` to be sure that the queue is not empty; a
peeker can be sure only when nobody else takes values, so it begins `empty`,
`front`, `pop` when the other takers have left (`Alone`), and there is one.

**SocketServer.** Each `run_server` has a thread with a label (`tpc`); the main
thread is a **stack** of calls (`main`), because `Fl::check` can start
`cb_th_packet` inside any of them. A call's label is where it stands:
`RunServer` to `Created` is `run_server` and `create_server`, whose socket, bind
or listen may fail; `StartThread` the thread's creation, which happens whatever
`create_server` returned; `ErrorClose` and `Shut` are `handle_error` and
`close_server(false)`; `CloseBegin`, `CloseWait`, `CloseEnd` are
`close_server(true)`. `MainAwake`, `Drain`, `Serve` are `cb_th_packet`. A client
is a name and a segment a number; TCP may hand over any run of a client's
segments, UDP one datagram. `received`, `served` and `replies` are history. The
`ring` is the whole program's: another part of it may make entries (`OthersAwake`,
as many as `others`) and FLTK serves them (`MainOther`). `lost` says that the last
`Fl::awake` failed with none of the server's own entries in the ring; if no
`cb_th_packet` is in its loop either, the packet is `Stranded`.

**RpcServer** replaces `Serve` by `HandleRequest`: what is answered depends on
the *one packet* at hand (`HasHeader`, `Whole`) and on what the method
returns (`Outcome`). Nobody asks whether the request is complete, nor whether its
XML is: pugixml keeps what it has read before an error, so where the first of a
request's two segments ends (`world.cut`) decides what becomes of it. Within the line
of `POST` it is refused; within the rest of the header the main thread does not come
back (`Spinning`); before the end of the method's name no method is found; among the
parameters it is *performed* with those that have arrived (`Outcomes`: it may come to
anything), and the rest of it is refused.

**RpcItems** follows one value from a method's return, or a request's parameter,
to the other side. On the way it is text: `Written` makes a document of it with
pugixml's conversions (`IntegerToString`, `DoubleToString` with `Precision` digits,
base 64), `Sent` is `XmlWriter`'s text, `Received` what `XmlParser` reads in it, and
`ReadItem` converts back (`AsInt`, `AsDouble`, `AsBool`). Numbers have their
width: `IntWidth` bits, and doubles `Mantissa` significant ones. It has `RECURSIVE` operators
(values nest) and is for TLC only.

**Ticker.** `pos` is `cb_ticker`'s iterator and `capacity` the vector's; `moved`
says that a `push_back` has moved the vector from under the iterator. The
operations a callback may itself call are `InCallback`. `idle`, in an entry, is a
history: ticks since it was last called.

**Audio.** A call of the application is one action and its result a *set* of
outcomes (object, PortAudio's streams, return value), since each PortAudio call
inside may fail. `pa_stream` moves one sample for each step, so that the
application's pushes and pops come in between. A `std::map::at` that finds
nothing is the result `"throw"`.

**FileHolder, Settings.** A file is absent, torn, as shipped, or some version
the application wrote; copying and writing are two steps each, and the program
may be killed in between (`Restart`). A settings tree is the number of the last
change in it; a group's object remembers which tree it points into.

**FileViewer.** A text is a number. The modal question of `load_file` is the
state `asking`, in which only answers are possible. A file may fail to open and
may be read or written in part (`Loads`, `Saves`, `Pieces`); `savefile`'s result is
looked at, `loadfile`'s is not. `entire`, a history, says that the file in the
editor was read whole and has been written whole since.

**Status.** The main thread is again a stack of calls (`main`). `MiscStatus` is
`misc_status` up to the `Fl::check` in `add_message`, where the application's
callbacks may report something else, report progress, change a filter or close;
`Checked`, `RotateBegin`, `Rotate` (one rename), `OpenLog` or `OpenLogFails` and
`WriteLog` are the rest. The dialogues of severe and fatal errors run FLTK's loop
too. `files` says which run of the program the log of each name is from; `Kill`
ends the program anywhere, between two renames included. Renaming is POSIX's,
which replaces a file of the new name. `start_progress`, `add_progress`,
`end_progress` and `cancel_progress` call `misc_status` in their middle: what is
left of them waits on the stack (`Started`, `Refreshed`).

**XmlLinks, XmlDocument.** A *heap* is a record of functions: the
objects, with the pointers they have in C++ (`first_child`, `prev_c`, `next`, ...,
`Null` for none), the strings, the pages, the buffers. `prev_c` of a first child is
the last one, as in the code. An object's header bits are `allocated` (which of
its strings it must free) and `shared` (its strings may be another's too). Pages
are small enough that the fifth node begins a new one. The operators have the
names of pugixml's functions, and take a heap and give one. In `XmlEdits` a call
of a member function of `xml_node`, `xml_attribute`, `xml_text` or `xml_document`
is a record (`Calls`), `Do` what it does to the heap, and `Promised` what the same
record means for the trees of `OrderedTree`, which know no memory. `EditsKeepThePromise`
says, as an action property, that the abstraction function (`Tree`) maps every
step to the promised one: it is the refinement of the tree by the linked lists,
stated call by call.

**XmlPath, XmlQueries.** `EvalNodeSet` is `xpath_ast_node::eval_node_set` with
`step_do`, `step_fill` and the early ends (`nodeset_eval_first`, `_any`), `Optimize`
is `optimize`, and a node set carries the order it claims (`sorted`,
`sorted_reverse`, `unsorted`); document order is compared by the places in the
buffer where the code does so. `Meaning` is XPath's, from the relations between
nodes.

**XPathParser.** `NextLexeme` is `xpath_lexer`, `ParseQuery` the recursive descent of
`xpath_parser`, which hands the depth on as `_depth` does and puts it back where the code
does (`RestoreDepth`). `Exprs` reads the grammar in the comments
as a set of trees, by every way a sequence of lexemes can be divided; the parser's
tree must be the only one there is.

**XmlEncoding, XmlWriter, XmlParser, XmlFiles.** A character is a one-character
string or the name of a code point, a file a sequence of bytes: the encodings are
modelled by what they do to bytes, with the buffer of `xml_buffered_writer` cut to
8 bytes, the least its assertion allows, so that every text is cut somewhere.
`XmlWriter` gives the sequence of writes and `XmlParser` goes through a text
turn by turn of `parse_tree`'s loop; `FilesNext` saves, is perhaps interrupted
after any byte, and loads. A file that is cut after its first element loads without
a word (`TruncationIsNoticed` says what may then be missing, and that all that is
there is whole). `KeptNode` and its helpers say on trees what may be lost
under which flags and options.

**GraphAxes, GraphLayout, Graph.** Values are whole numbers of the smallest
range; a quotient is rounded down where the code has a double, and the
properties allow for the unit. A widget too small for its axes gets no events
(`HasRoom`): its plot has no pixels, or a negative number of them. `layout` is what the last drawing computed and
events read: pixels of an event are converted with it, though ranges may have
changed since. `damage` is FLTK's; `Draw` is layout and drawing together, as
`draw()` does both whenever anything is damaged. The application lends the widget
its vectors and may append to them (`AppendPoint`). `status = "hung"` is a drawing that does
not end (section 6). `given`, the points since `start_config`, is history.

**ZoomScrollBar.** FLTK's `Fl_Slider` draws its value as if the button had no
length; `ToDrawn` and `FromDrawn` are the conversions of the class. A place of the
mouse is a tenth of the bar.

**Calendar.** `value_` points into the text of the field, or into a string that has
been destroyed when the field was empty (`valueAt = "gone"`), and then Cancel writes
anything. `Typed` texts need not be dates that exist. A date is a `tm` with its hour and
`isdst`: the calendar's are UTC, and `mktime`, which takes them for local time, goes by
the zone's standard time (`Standard`), puts the clock on in summer (`Local`) and
fails before the day `Earliest` (`Representable`), when the table shows today (`Selected`).

**Dates, Utils.** One operator a function; a text is a sequence of bytes and a
locator's place a whole number that both grids divide, so that no floating point is
left. Each pair of conversions is a kind of `sample`.

**AsyncDeque.** Each member is one critical section and one action, except for the
wait and for threads that lock the deque by hand, which hold it over steps.
**PullBuffers.** `asking` is the stack of `pop` calls that wait for the callback, which
may push, pop and be asked again. The average keeps its ring and its sum in the
width of a signed type (`AverageLimit`) and divides in that of `size_t` (`SizeLimit`);
`Totals`, the running sums of the values added, are for the property only.

### Worlds

A run that asks the same question under several circumstances has a variable
`world` (`type` in `FileViewer`) that `Init` chooses from a set of records and no
action changes: the protocol, whether there is a banner, whether files can fail
to open, and so on. Some properties name the circumstances they hold in (`world.patient`, `~world.faulty`, `~world.nested`);
section 6 says what happens in the others.

## 3. What the runs check

Six runs pass and six show a disagreement between code and documents. All
runs stop the search at bounds in the guards of actions, never by a constraint;
deadlock checking is off because a program whose pushes, segments or edits are
used up, or which has been closed, may really stop. Properties after the
semicolon are temporal or of steps.

| Run | Instance and bounds | Properties |
|---|---|---|
| `queue` | 2 producers with 2 pushes each, 2 waiters, a poller, a cleaner, a peeker, a closer; 4 crews (`Crews` lists who is *away*) | `TypeOK`, `NoLostWakeup`, `ShutdownWakesAll`, `PopNeverEmpty`, `OneLatePushEach`, `QueueIsUntakenLog`; `ValuesAreConsumed`, `ChannelSpec` |
| `server` | 2 clients, 2 segments, 2 runs; HTTP with an impatient application, UDP with a banner, UDP closed and restarted, UDP beside another part that uses the ring; ring of 1 | `ServedInTurn`, `ThreadQuiesced`; `EveryPacketServed`, `CloseReturns` |
| `rpc` | 2 clients, one whose method returns and one whose faults; up to 3 segments; requests in one piece from clients that wait, with and without another part that uses the ring; requests in two, cut in each of the 4 places, from clients that do not wait | `RepliesMatchRequests`; `EveryRequestAnswered` |
| `audio` | 2 ports with 2 names, 2 channels, 3 samples | `StreamsAreKnown`, `SamplesInOrder`; `PushedIsPlayed` |
| `desktop`, files | the settings under 2 roots and a group; a shipped file that changes and one that does not; 2 versions, 2 kills | `ShippedAlwaysOpens`, `LastChangeIsWritten`; `UserDataIsKept` |
| `desktop`, viewer | 2 files or a string, 6 texts, files that do not open or are read and written in part | `SavedWhereItCameFrom` |
| `desktop`, banner | 3 messages or progress calls, up to 3 inside one another; 4 log files instead of 10; with and without a banner, with a log, without, or with one that may not open; up to 5 runs of the program, ended or killed | `BannerIsTrue`, `LogsAreKept` |
| `desktop`, ticker | 2 entries, periods 1, 2, 3 and 5 capped at 4, a 3-bit count | `CalledEveryPeriod` |
| `desktop`, graph | all eight classes, configured once (the plain one three times, once with the default range left to the data), 2 events and the drawings between them | `ViewWithinLimits`, `PictureIsCurrent`, `PlotShowsTheRanges`; `ViewFollowsTheMouse` |
| `desktop`, calendar | 2023 and 2024, all buttons and cells, a text that is no date; *Today* in the last hour of 29 February; days of summer time; no dates before 1 March 2023 | `CalendarIsTrue` |
| `desktop`, bar | 4 events; bounds that begin at, below and above zero | `BarHoldsTheRange` |
| `data`, documents | 2 documents, 3 calls (and, asked only for the promise, every fourth), up to 7 objects, pages of 4 nodes; about 7000 paths with up to 2 steps and 2 predicates, each from every node | `MemoryIsAccounted`; `EditsKeepThePromise`, `PathsFindWhatTheyMean` |
| `data`, files | an element with every pair of some two dozen contents; formats, encodings, 8 sets of options; cut short after every byte, also with nodes before and after the first element | `SavedLoadsBack`, `TruncationIsNoticed` |
| `data`, queries | about 30000 texts and sequences of lexemes, some of them long ones on either side of a depth limit of 12 | `QueriesAreUnderstood` |
| `data`, items | all byte strings up to 5 of 4 sample bytes; texts with escapes, line ends, blanks and zeros; each 5-bit int; doubles of 6 bits, printed with 3 digits; arrays, structs, a level of nesting | `ItemsArriveAsSent` |
| `data`, values | texts up to 3 bytes, lines of words, numbers, lists of ranges, places, times, dates and formats | `ConversionsComeBack` |
| `data`, deque | 3 waiters, or a reader in their place; a thread that locks; 4 pushes | `NoValueIsLost` |
| `data`, queue and average | 4 pushes, calls to a depth of 3; 6 samples of 4 bits with N = 3 | `BuffersAreTrue` |
| `silentclient`, `fault`, `ticker_remove`, `windows_reload`, `graph_axis`, `xml_order` | | the six findings of section 6 |

**Why the bounds are enough.** The interesting cases have few actors. A lost
wakeup needs two sleepers and two pushes, or one thief (the poller) between a
notify and the waiter's return; a late push needs one producer between its test
and its lock. A stranded packet needs a packet that arrives while another is
being handled and a full ring, hence two segments and a ring of one, and one entry of
another part to fill it. Two
receivers need two runs. A reply that goes astray needs a second client. Over
UDP, and inside `Fl::check`, the second packet re-enters the handling of the
first. A ticker's count wraps after 8 ticks, which none of the periods 3 and (before
the cap) 5 divides. Two ports are enough to go from one to the other and back;
three samples on two channels run over the end of a frame of two. Settings need
two roots to be destroyed in either order, and two kills to be killed again while
recovering. What a cut does to a request depends only on which of the four parts of
it the cut is in. Three digits for six bits are in the relation of 17 for 53: the
fewest that tell all doubles apart.

An edit of a document disturbs at most an object, its two neighbours, its owner
and the owner's first child, and a subtree has a depth of three with two children
on a level, so that first, middle and last places all occur; a string that two
objects share takes one call to parse it, one to copy it and one to write to the
copy or the original, and a page is freed by a fourth. A path's early end and its
order depend on the step before and the predicates behind, hence two of each. A
buffer of 8 bytes is cut within every code point of 2, 3 or 4 bytes. Each
precedence of XPath's operators meets each other one in the queries with two
operators. A wheel after a drag, before the drawing, is two events; a limit that
cuts a range is met by the first. February 2024 and the months of 31 days that begin
on a Saturday or a Sunday are in the two years. A parser that does not put its depth back adds up what
each operand of a long query took, and refuses at the limit of 12 what is not deep. Symmetry is not used, because the
runs with the largest state spaces check liveness or steps.

**Type invariants** state the values of the variables in the modules; that of
`AsyncQueue` is a property of a run. The others document the variables, and those of
section 5 are proved.

## 4. Fairness

Weak fairness only, of single operations already begun or of a scheduler:

* `queue`: a waiter goes on calling `wait_and_pop`; a producer past its test and
  a closer past its store get the mutex in the end. Nobody has to start a push,
  a `try_pop` or a shutdown, and a spurious wakeup never has to come.
* `server`, `rpc`: the operating system schedules each receiving thread; the
  main thread goes through the calls it has begun and takes entries off FLTK's
  ring. Clients, `run_server` and `close_server` are not fair: the network may stay silent.
* `audio`: PortAudio goes on calling `pa_stream` of a running stream, which never blocks.

The mutex is given weak fairness although a `std::mutex` promises none; each
waiter's step is a disjunction (`WaitStep`) so that it is scheduled, not each
label. `desktop` and `data` check no liveness and assume none.

## 5. What is proved

Eight modules hold the theorems. Each is for **every** value of the constants that the
assumption of the module allows: any sets of threads, clients, files or ports, any
number of values, messages, runs or kills. The last column says what a theorem
assumes beyond that; a property's own conditions (section 6) are part of it.

| Module | Theorem | Property | Assumes also |
|---|---|---|---|
| `AsyncQueueProofs` | `TypeCorrect` | `TypeOK` | |
| | `PopNeverOnEmpty` | `PopNeverEmpty`: no `front()` or `pop()` of an empty `std::queue` | |
| | `ShutdownLeavesNoSleeper` | `ShutdownWakesAll` | |
| | `NoWakeupIsLost` | `NoLostWakeup` | |
| | `QueueIsFifo` | `QueueIsUntakenLog` | |
| | `OnePushIsLate` | `OneLatePushEach` | |
| | `QueueImplementsChannel` | `Spec => Channel!SafeSpec`: each step is a step of the channel or a stutter | |
| `BufferProofs` | `NothingIsLost` | `NoValueIsLost` | |
| | `BuffersStayTrue` | `BuffersAreTrue` | |
| `SocketServerProofs` | `SocketTypeCorrect` | `TypeOK` | |
| | `ServerQuiesces` | `ThreadQuiesced` | |
| | `PacketsServedInTurn` | `ServedInTurn` | |
| `RpcServerProofs` | `RepliesMatch` | `RepliesMatchRequests` | |
| | `RpcServerIsSocketServer` | each step of the RPC server is one of the socket server, its `HandleRequest` a `Serve` | |
| `AudioProofs` | `AudioTypeCorrect` | `TypeOK` | |
| | `StreamsStayKnown` | `StreamsAreKnown` | |
| | `SamplesStayInOrder` | `SamplesInOrder` | |
| `SettingsProofs` | `SettingsTypeCorrect` | `SettingsTypeOK` | |
| | `ShippedFilesOpen` | `ShippedAlwaysOpens` | |
| | `UserDataKept` | `UserDataIsKept` (of steps) | `Installed` |
| | `LastChangeReachesTheFile` | `LastChangeIsWritten` | `Nested` |
| `DesktopProofs` | `SavesWhereItCameFrom` | `SavedWhereItCameFrom` (of steps) | |
| | `ViewerTypeCorrect` | `ViewerTypeOK` | |
| | `TickerTypeCorrect` | `TickerTypeOK` | |
| | `EveryPeriodIsKept` | `CalledEveryPeriod` | no callback removes |
| | `IteratorIsLostSo` | of steps: exactly which ones end `IteratorValid` | |
| | `StatusLogsAreKept` | `LogsAreKept` | |
| | `BannerStaysTrue` | `BannerIsTrue` | small progress |
| | `CalendarStaysTrue` | `CalendarIsTrue` | |
| `GraphProofs` | `GraphTypeCorrect` | `TypeOK` | |
| | `ViewStaysWithinLimits` | `ViewWithinLimits` | |
| | `ViewFollows` | `ViewFollowsTheMouse` (of steps) | |
| | `PictureStaysCurrent` | `PictureIsCurrent` | |
| | `PlotStaysInPlace` | `PlotShowsTheRanges` | |
| | `BarKeepsTheRange` | `BarHoldsTheRange` (of steps) | |

`Installed`: the shipped copy of every file that has one is there; without it a copy
can fail in a way that leaves the request to reset the file standing. `Nested`: the
application destroys a group's object before its parent's; the code does not notice
when it does not, and then writes to freed memory (section 6). What callbacks may do
is the constant `InCallback`. `IteratorIsLostSo` is for any of them, and says when the
loop of `cb_ticker` loses its iterator: if and only if a callback subscribes when the vector is
full, unsubscribes when the loop is at the last entry (the finding `ticker_remove` is one such
behaviour), or stops all. `EveryPeriodIsKept` allows an add that makes the vector grow but
says nothing of what comes after it: the
behaviour is undefined from there (`moved`), and the loop of the model does not go on.
Small progress (`ValuesAssumption` of `Status`): a value that is less than the one before
differs from it, unsigned, by more than a hundredth of the maximum. Counts of files or
bytes do; a value that went back by nearly 2^32 would leave the dial where it is.
The other assumptions are about types and about what the application gives: roles are sets that
do not overlap, sizes and bounds are numbers, today is a day that exists, the bounds of
a scroll bar are not reversed. TLC evaluates each of them in a run.

### The arguments

None of the properties is inductive alone.

**The queue.** `SafeInv` conjoins

* `TypeOK` and `PcOK`: which labels a thread of each role can be at;
* `LockInv`: a waiter holds the mutex exactly between its lock and its unlock
  or `cond_.wait`. This makes the tests of a waiter and its sleep one critical
  section as far as the queue is concerned;
* `SleepInv`: who is in the wait set is inside `cond_.wait`; a waiter about to
  sleep saw an empty queue, and if the flag has been raised since, the thread
  that raised it has not yet taken the mutex (which the waiter still holds) to
  notify; and a raised flag with sleepers left means that such a thread is on
  its way. This is why raising the flag outside the mutex is safe here;
* `PopNeverEmpty` and `AloneInv`, which says that a peeker past its test of
  `empty()` is alone: the other takers have left and do not come back
  (`DoneStays`).

`SafeInvInit` and `SafeInvStep` show it inductive, one step for each action.
`NoLostWakeup` is a count, Len(queue) against the number of awake waiters, and
its step (`NoLostWakeupStep`) uses `SafeInv` and the cardinality of the set
before and after one waiter joins or leaves it; notifying one of several
sleepers adds exactly one to `Woken`, for the one value pushed. `FifoInv` is
`QueueIsUntakenLog` index by index, which every append and removal preserves.
`LateInv` adds to `OneLatePushEach` that a producer between its test of the flag and the
lock has no late value yet, so that the one it is about to push is its only one.
`ChannelStep` maps each action to `Send`, `Receive`, `Discard`, `Close`, `Park`,
`Deliver`, `Dismiss` or a stutter.

**The deque.** `DequeInv` has the types; `RoleInv`, which says that
what the reader saw still is the front, because nobody else takes while there is a
reader; the numbers of the values element by element (`NumberedInv`, which
`NumberedIsFifo` turns into the equation of sequences); and the count of the notified
(`AwakeInv`), which every wait, wakeup and pop keeps by the same argument as the queue's.

**The socket server.** The difficulty is the stack: `Fl::check` begins `cb_th_packet`
inside any call. `StackInv` says that `run_server` and `close_server(true)` are only at
the bottom of it, since they begin in FLTK's loop; all that can begin above them is in
`Inner`, and a step of the innermost call can only add to the labels on the stack what
is in `Inner` (the lemmas before `MainKeepsTypes`). `Quiescing` then follows the one
thread that can be receiving: all threads before that of the latest run are done, a
thread past its start has cleared `closed_`, and `close_server(true)` waits on it. For an
impatient application none of this holds, which is why the property is conditioned.
`Ordered` says where each packet received is: the first ones served, the next queued, and
one more in the hands of a thread at "push". Nested calls keep the order because a
packet is taken off the queue and counted as served in one step of the main thread.
`OneClient` says that over HTTP and with one run every packet queued, in hand or
answered is from `client_`.

**The replies.** `RpcStepIsServerStep` shows every step of the RPC handler to be one of the
socket server, so that all of the above holds of it (`RpcServerIsSocketServer` is the
statement of that). `CutInv`: however TCP cuts and joins them, the segments a client has sent are
in the kernel or in packets, each in one and in order. `AccountInv`: a packet given to the
application is in the hands of one call or answered, and answered once. `AnsweredInv`: what a
method was performed for, and answered, is the whole of a request, unless requests are cut among their
parameters. Each such reply therefore has the first segment of a request of its own, and the last where the
request is whole, and a client cannot have more of them than the requests it has begun, or sent in full;
each reply of either kind has a segment of its own (`RepliesAreFew` counts these). `WaitInv` is for clients that
wait: one request at most is without its reply, so that the number of a reply is that of its request.

**Audio.** `PortInv` says of an object between two calls that `stream_` is the only stream
open (`Known`), that its state fits (`Settled`), and that `port_ids_` are devices. Each
operation of the class is a set of outcomes, so that each has a lemma that says what all
its outcomes have in common: the proof goes call by call as the code does. `Numbered`
puts the samples in the queue after those played, number by number.

**Files and settings.** `FileInv` says what a copy or a write under way has done to its
file (`BusyInv`), that no version is newer than the latest, and that a torn file is a kill's or
is being written; `SeenInv`, that a file that has been read is not to be reset any more.
`SettingsStepIsFileStep` shows every step of the settings to be a step of the files or none,
so that these are proved once. For the last change, `HandleInv` says that an open group's
object points into the tree that will be written, and `DataInv` that the changes are in the tree
while there is one and in the file afterwards.

**The viewer.** `ViewerInv` says that the text in the editor is from the file that
`filename_` names, also while a question is open, and that clean is stored as long as the file
is `entire`. `SavesAre` and `LoadsAre` say what all outcomes of `savefile` and `loadfile` have in
common; that a question is followed by a load of its own file, whatever the save before it
returned, is then enough. `ViewerTypeCorrect` counts the texts: a piece of a text is a new one.

**The ticker.** `AgeInv` says that an entry waits no longer than the count says:
`idle <= tick_count % period_ds`, except for entries that are due and that the loop has
not come to. The wrap-around only ever makes the remainder smaller. `IteratorIsLostSo` needs the
types alone: the lengths of the vector before and after each call.

**The status log.** `RotateInv`: only the innermost call can be renaming, and only while the
log is not open. `WriteInv`: each message of this run is in the log or in the hands of one
call on the stack, and of one only. `FilesInv` says that the logs are of runs so far, the
newer below the older, and that the next rename finds its new name free unless it is the
first, which is why POSIX's replacing loses only the oldest. `KeptInv` says how far up a
log can have been moved: one place for each newer log that was opened, one for each kill that
came between renames and one for the renaming in progress. The step of a rename
(`FilesRotate`) needs that nothing above the gap moves, and that of `OpenLog` that there are as
many logs as numbers (`AsManyAsNumbers`).

**The banner.** `ShownInv` says that the display is what the filters leave of the history;
`Shown` is a recursive function, and a message more adds itself or nothing to it.
`DialInv` compares the dial with the last value: a progress call that has shown its message and
not yet set the dial is the outermost call, and but for that one the dial is behind by no more than
`delta`. The filter is an unsigned subtraction, and this is where small progress is needed.

**The graph.** Everything that moves what is shown ends in `set_axis_range`, so the invariant
of an axis (`AxisInv`: its ranges lie in one another) is proved for that one
(`SetKeepsAxis`), for the first view (`ConfiguredAxisIsSound`), and then for a zoom, a scroll and a
reset as calls of it. What is left is that these are given numbers. A wheel and a drag take them
from the layout of the last drawing, however many events ago that was: `Sound` says that in
a layout with room for a plot each pixel stands for a value, for each of the eight ways to lay
out (`LayoutIsSound`), and `ScaleInv` that the scales of the axes go with it. `GivenInv`
says that the default range has the data that fit, which is what a double click of the right
button goes back to. For the picture, `PictureInv` compares the damage with the changes: each
step draws, leaves damage behind or changes nothing that a drawing reads (`PictureIsAsItWas`
says what it reads). `ConfigAssumption` asks that the application's ranges do not make
`set_axis_ranges` throw, and that a density plot is given sorted data, which the code says it
assumes (`src/zc_graph_.cpp:2609`). `PlotInv`, a part of `PictureInv`, says where the plot is: while nothing is
damaged, the ranges of the layout are those of the axes, with one axis beside the plot and
one below it (`Framed`), and the scales are the plot's own. A drawing lays this out
(`DrawLaysOut`, by the five rectangular layouts), and all else leaves damage or the ranges as they
were. That the corners then show the ends of the ranges is a division that comes out even (`EndsAreShown`).
`DrawnInv` says that what has been drawn was configured, so that a density plot has sorted data; its
values below a pixel's are then the first ones (`LessAreFirst`), which gives the neighbours and their shares.

**The scroll bar.** `BarInv` says that what is shown lies in the bounds, and that the slider is where
that is drawn, to one unit below. The bar multiplies by the size of one range and divides by
that of another, and back: `ThereAndBack` says that this loses at most one, `QuotientIsBetween` that it
does not leave the ends. A wheel is the same about the value under the mouse.

**The calendar.** `CalendarInv`: the calendar's date and the table's both exist, and the table's is the
calendar's, or today if that one cannot be represented; only what *Today* was pressed for in the last hour
may be off by summer time (`Steady`). What `mktime` makes of any numbers is a date that exists, whatever the zone (`SelectedIs`). `gmtime` searches for its year and month, so the proof shows
that there is one of each: days of successive years and months lie apart and without gaps (`DayHasYear`,
`DayHasMonth`), for all years, leap years counted by their quotients. The month is then mapped
one to one to the cells (`CellOfDay`, `AsManyCellsAsDays`); that five rows have room for it is the
table's sixth week in the first row.

**The buffers.** `AverageInv` says that the ring, read back from `tail`, is the last values added, and
that the sum is the difference of two totals *modulo the type*, which is why the mean is right
again after sums that did not fit.

### Only model-checked

Every invariant and step property of the runs not named here is stated by a theorem.

* **All liveness** (`ValuesAreConsumed`, the fairness of `ChannelSpec`, `EveryPacketServed`,
  `CloseReturns`, `EveryRequestAnswered`, `PushedIsPlayed`): the prover has no rule for fairness and
  `ENABLED`.
* **What `RECURSIVE` operators compute**: `MemoryIsAccounted`, `EditsKeepThePromise`,
  `PathsFindWhatTheyMean`, `SavedLoadsBack`, `TruncationIsNoticed`, `QueriesAreUnderstood` and
  `ItemsArriveAsSent` are about trees, paths, queries and nested values. `OrderedTree`, the `Xml`
  modules, `XPathParser` and `RpcItems` declare such operators or extend a module
  that does, which no module with theorems may; the properties are checked for all inputs up to a bound.
* **What folds compute**: `ConversionsComeBack` joins texts with folds. They take an
  operator as an argument, and so do the induction theorems about them, which the
  provers cannot instantiate. Recursive *functions* on numbers (`Shown`, `Totals`, counts of
  replies) are within reach: a set of numbers that has zero and with each number
  the next is all of them, and this is how their lemmas are proved.

## 6. Where the code and its documents differ

Six runs end in a counterexample:

* `silentclient`: **close_server(true) can hang.** `closing_` is tested between
  receives, and on Linux the socket `accept` returns blocks, although the comment
  at `src/zc_socket_server.cpp:320` speaks of non-blocking calls. With a client
  that keeps its connection and sends nothing, the main thread spins for ever
  on `closed_`. On systems where `accept` passes `O_NONBLOCK` on
  (`InheritsNonblock`), and over UDP, it comes back (`CloseReturns`).
* `fault`: `decode_response` (`src/zc_rpc_handler.cpp:238`) tests `strcmp` the
  wrong way round: `<params>` is taken for a fault and `<fault>` for a result.
* `ticker_remove`: a subscriber that unsubscribes from inside its callback (which
  the comment in `remove_ticker` calls safe) moves the vector under `cb_ticker`'s
  iterator; if it was the last entry, the loop runs past the end.
* `windows_reload`: the *Reload* button empties the editor before it asks whether
  to save; answering *Save* writes the empty text over the file, while
  `zc_file_viewer.h` says that nothing is saved.
* `graph_axis`: `get_layout_area` (`src/zc_graph_.cpp:1810`) looks for the horizontal
  axis beside the plot instead of below it, and for horizontal bars answers the
  wrong axis: the wheel on that strip, which the header promises to zoom, does nothing.
* `xml_order`: moving a document (`pugixml/pugixml.cpp:7687`) loses the flag that its
  nodes are not in the order of its buffer any more, and sorted node sets of the
  new document are in the old order.

Properties hold under conditions the documents do not state. What the model
shows without them, found while modelling and with no run of its own:

* `close_server(true)` called before the new thread has set `closed_` to false
  does not wait for it (`ThreadQuiesced` assumes a patient application), and a
  server restarted after a failed send can have two receiving threads.
* Over UDP a reply goes to whoever sent the *latest* datagram (`ServedInTurn` speaks of
  replies over HTTP only), and with a banner replies can overtake each other.
* `close_server` leaves `q_packet_` as it is. When the server is run again, a packet of the
  old client is answered to the one accepted since (`ServedInTurn` and
  `RepliesMatchRequests` are about one run where they speak of replies), and a server run again by
  an impatient application can have packets out of order.
* Entries stay in FLTK's ring when `close_server(true)` has returned. When the ring is
  full of other parts' entries, a packet received is not given to the application until
  another one arrives (`src/zc_socket_server.cpp:404`; `EveryPacketServed` excepts a
  packet that is `Stranded`).
* A request cut up by TCP is answered according to its first segment alone: cut among its
  parameters it is *performed* with those that have arrived, and its reply sent before its end
  has come (the results of `doc.load` and `decode_request`, `src/zc_rpc_handler.cpp:258` and 358,
  are not looked at); cut in its method's name it is not answered; cut in the header it leaves
  the main thread in the loops of `strip_header` (`src/zc_rpc_handler.cpp:418`), or, between two of its
  lines, with an exception. Its rest is refused
  with a 400 of its own. `RepliesMatchRequests` says for each cut what is still true.
* A request for an unknown
  method, or whose method returns a positive error, is not answered at all
  (`EveryRequestAnswered` is about requests in one piece with a result or a fault).
* Integers and Booleans come back as doubles, negative integers as their unsigned
  value; the elements of an array lose their values and the members of a struct
  their names; `encode_base_64` drops the last bits of an incomplete group.
* The viewer: `load_file` (`src/zc_file_viewer.cpp:170`) takes a file that does not open for an
  empty one and one read in part for a whole one, clean both times, so that the next *Save* of an
  edit writes over what was not read. When the answer to the question is *Save* and saving fails, the
  file asked for is loaded all the same, and the edits are gone. After *Save* has failed on a
  clean text, what is stored may be less than what is shown (`SavedWhereItCameFrom` says that clean is
  stored while the file is `entire`).
* `stop_all` takes the timeout away and no later `add_ticker` brings it back. When
  the count wraps, every subscriber is called at 0 whatever its period: early
  where the period does not divide 2^32, and never late.
* `zc_audio`: after an underrun in the middle of a frame samples change channel;
  `idle()` stays true, its test standing where it cannot fail; a first `reset()`
  leaves `port_index_` at "none", and then returns false; an exception can leave
  the destructor when an enumeration has dropped the port in use.
* A working file that fails to open *once* is replaced by the shipped one
  (`UserDataIsKept` needs files that open); a settings file cut short by a kill reads
  as an empty tree; a group's object used after its tree is gone writes to freed
  memory (`Nested` says the application does not do that).
* A log file that does not open is tried again with every message
  (`file_unusable_` is set at `src/zc_status.cpp:165` and never read): each message
  puts up an alert and shifts the old logs by one, until the newest is the only one
  left (`LogsAreKept` needs a log that opens). Where the system's rename refuses to replace
  a file, nothing is shifted once all ten are there, and the new log overwrites the last.
* What is reported inside the `Fl::check` of another message stands before it in
  the log and after it in the banner; progress reported inside `start_progress`
  leaves the dial at zero although it is remembered (`BannerIsTrue` is about
  progress in turn); a new topic sets the chooser to *All* while the filter stays
  (`src/zc_banner.cpp:488`).
* `misc_status` on another thread ends the program if there is a banner: `throw` with
  no exception in hand. `close_` has no value until `callback` is called.

* pugixml, documents: a document that was moved from has a root without
  `prev_sibling_c`, and its last child or its preceding axis reads a null pointer.
* pugixml, files: `load_file` of Latin-1 that happens to be ASCII, and
  `load_buffer_inplace` of UTF-8, put the terminating zero over the last character:
  a *fragment* that ends in a text loses it (`LastIsLost`). Latin-1 output turns
  characters above 255 into `?`; a declaration added in an indented format is
  followed by a line end that joins a fragment's leading text; `parse_wnorm_attribute`
  trims an *escaped* blank at the end and keeps it at the start; tabs and line ends in
  attributes vanish under `format_skip_control_chars`; under `parse_ws_pcdata`
  indentation is text. `SavedLoadsBack` states the rest.
* pugixml, files: a file that was cut short after its first element loads with `status_ok`, without
  what followed (`TruncationIsNoticed`).
* pugixml, XPath: the depth the parser counts is put back after a subtree, so that the
  tree can be higher than the limit; `//` costs two of it; a qualified name may have
  a digit after its colon.
* `zc_graph_`: `start_config` keeps the data sets its header says it clears;
  `set_ticks` never ends where a float does not tell a tick from the next (`"hung"`); a
  an inner range given without a default range, which `set_axis_ranges` accepts, need not be in
  the first view though `include/zc_graph_.h:461` says "Cannot zoom closer than this range"
  (`ViewWithinLimits` is about inner ranges within the default one); an inner range that is no
  range and not the empty one either has its ends put in by every drag (`DragKeepsSpan` is about
  axes without one); a
  range asked for wholly outside the outer one leaves the widget blank though the
  header says "clamped"; near the upper outer limit a wheel gets below the smallest
  span; the first point of a line is dropped where it falls on the pixel of (0, 0);
  `data_to_pixel` is not the inverse of `pixel_to_data`; lozenges on axis 0 use the
  identity; Smith ticks are added again with every drawing; `reset_zoom(-1)` indexes
  before the axes; `axis_width` measures the labels of the drawing before; a widget
  smaller than its axes has a plot of negative size; horizontal bars scroll their labels
  by the mouse's x; the scales of the overlaid and the right axis belong to another
  plot; a density plot without data dereferences null; a shaded Smith marker throws;
  the last colour of a linear map is never used.
* `zc_zoom_scroll_bar`: a value apart from the bounds leaves the empty range, though
  the comment at line 48 says that it resets to the full bounds; `bounds()` with a value that is
  still valid leaves the slider where it was, and its next event makes the range jump.
* `zc_async_deque`: `clear` does not compile; a thread that has locked the deque by hand
  cannot call any member (the mutex is not recursive), although that is what `lock` is
  for; `wait_and_pop_front` cannot be told to stop; a reference from `front` outlives the
  lock. `zc_active_queue`: `low_limit_` is never read, and a callback that pops before
  it pushes recurses without end. `zc_running_average`: a negative sum of a signed type
  is divided as a `size_t`.
* `zc_utils`: `string_to_tm` compares its place in the format with the length of the
  text, and throws what it does not catch on a short text or an unknown month;
  `string_to_ints` gives only the end of a range that begins at 0; `escape_hex` of a
  byte above 127 gives `%fff..`; leading empty words are lost in `join_line`;
  `latlong_to_grid` of the pole gives letters past `R`, and `grid_to_latlong` reads
  lower-case letters wrongly; `to_ascii(to_hex(s))` has a zero more; fractions of a second are taken
  for a zone; `find_not` does the opposite of its comment and `find_substr` misses the last place.
* Calendar: the field's own format reaches the calendar after its text has been
  read; an empty field leaves `value_` dangling, and *Cancel* writes what is there; a month
  above 12 gives the day -1; after *Today* the date has a time of day and today is
  not marked as such; pressed within the last hour of the UTC day, in a zone with summer time, the table's
  `mktime` takes it to tomorrow, of the next month perhaps, while the buttons go on from today;
  a date `mktime` cannot represent (`src/zc_calendar_table.cpp:138`) is shown as today, under the name of its own month.

## 7. What is not modelled

The Windows branches; all drawing (of the graph: where an object is placed is
modelled, what it looks like is not); formatting and the wording of messages; the
table of RPC methods and `system.*`; floating point, in whose place the graph and
the scroll bar have whole numbers; the search for directories and the timestamps of
`zc_file_holder`; `get` of settings with its defaults; zones that change their clocks
for other reasons than summer, and the hour in which they change; of `zc_utils` the great circle, the clock, the cipher and the hash.

Of pugixml: conversions of values to and from numbers other than those XML-RPC calls
for, and of these infinities, what is no number and exponents below zero; streams; the values of
XPath's functions, operators and variables (their syntax and node sets are
modelled); compact mode; memory that runs out; the tree that a failed parse leaves, of which only
`RpcServer` says what comes of it; bytes
that are not UTF-8, which the code passes on and the model drops.

Whole components: `zc_url_handler` (one call at a time under a lock around
libcurl; nothing outlives a call but the handle, though `post_form` leaves it
uncleaned when the answer is not 200); `zc_serial` (two passes over the ports,
all of it boost.asio's); the style dialogues, the small inputs and the drawing
helpers, which keep at most one value each; the test programs, which are
interactive and assert nothing. libcurl, PortAudio, boost and FLTK appear as far
as the code calls them: FLTK's ring, timeouts, damage and slider, PortAudio's streams and
list of devices.

Undefined behaviour (the iterator past the end, a pop of an empty queue)
is a state a property excludes, not a behaviour that is followed further.
Data races on plain integers and on `client_` are taken as atomic reads and
writes of either value. `PROJECT.json` lists every component with its status
and the reason.

## 8. The plan

1. *Done*: the queue and the deque with their proofs; the socket server and the RPC
   handler on it; data items; ticker; audio; files and settings; viewer; status and banner;
   pugixml's documents, files, paths and queries; graphs, ranges and the scroll bar;
   the calendar; conversions; the other containers.
2. *Done*: the theorems of section 5, which state each invariant and step property of the
   runs but those under "Only model-checked".
3. *More proofs, if they are wanted*: `MemoryIsAccounted`, with `OrderedTree` written with
   recursive functions in place of operators.
4. *More of the system, if it is wanted*: `zc_url_handler`'s handle on every path of
   an error; the values of XPath's functions over a small set of numbers.
