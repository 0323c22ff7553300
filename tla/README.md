# srcML: verification development

srcML turns source code into an XML document that keeps every character of it
(srcML), and back.  The models here follow a file through the whole program: the
command line that names it, the step that opens it, the threads that parse it and write
it in order, the bytes, tokens and elements it becomes, the library
that keeps, transforms and reads units, and the steps that make source of them again.

Paths are those of the repository; `client/`, `libsrcml/` and `parser/` stand for
`src/src/client/` etc.

## Inventory

| Component | State | Operations | What is hard, and what makes it correct |
|---|---|---|---|
| Conversion pipeline: `create_srcml`, `ParseQueue`, `srcml_consume`, `WriteQueue`, `srcml_write` | the pool's FIFO, the priority queue `q`, `completed`, positions, `error_count`, the output archive | schedule, consume, queue, pop, write, stop, close | three kinds of threads, lost and spurious notifications, `exit()` from any thread, unlocked counters. *Written in the order scheduled, nothing lost, errors noticed, ends* |
| srcML archive input, `OpenFileLimiter`, archives of an output directory | permits, who owns each input archive, who waits | open, close, clone, drop a reference | main and the writer compete for a bounded number of permits, which they and the threads of the pool give back. *Exact count, everything closed, ends* |
| URL input: `input_curl`, `srcml_pipe`, `srcml_execute` | `go`, `curl_errors`, a pipe per URL, the list of threads to join | download, write to the pipe, answer, read, join | flags shared by all downloads, bounded pipes, joining while the list grows. *The answer is the URL's own, errors are not converted, srcml exits* |
| Command line | options, inputs, transformations | parse, select steps | options that exclude each other, wait for each other or belong to the last query. *What can be followed is, the rest ends with an error* |
| Input handlers: `src_input_*`, `stdin_libarchive` | position in a list, a text, a range of lines | slice, dispatch | boundaries of texts and ranges, headers, one entry failing. *Each part that is named becomes a unit* |
| Output of source and metadata: `create_src`, `src_output_*`, `srcml_display_metadata`, `srcml_pretty` | what was written | loop over units | headers and NULs that are read again elsewhere. *Source written with headers is read as the units it was, each with the attributes of the root beside its own; answers are about what is there* |
| Steps: `decompress_srcml`, `unarchive_srcml`, `compress_srcml`, `input_file`, `input_archive` | file descriptors | copy | I/O |
| `transform_srcml` | - | append transformations, loop over units | see transformations |
| Status and trace | counts | log | plain counters incremented by several threads (in the pipeline's model) |
| libsrcml reader: `srcml_sax2_reader`, `srcml_reader_handler`, `srcml_archive_read_unit` / `skip_unit` / `free` | mutex, condition variable, `is_done`, `terminate`, `wait_root`, `collect_unit_header/body`, `unit` | read header, read body, skip, free | control handed to and fro by one condition variable without a predicate. *Never both wait, what is read is the stream of units of the document* |
| SAX layer: `sax2_srcsax_handler`, `srcsax_controller` | the delayed root, the text collected, the callbacks installed | the SAX2 callbacks | an archive is told from a single unit only by what follows the root. *Root before units, each unit its own text* |
| libsrcml archives for writing, units, translator, namespaces | options, tables of namespaces, a writer, its buffer, offsets into the text of a unit, caches | open, set, register, start / end element, attribute, text, parse, write, clear, clone, close | calls in any order; a unit is put together from pieces made with the namespaces of different moments. *What can be read from the file is what was described* |
| libsrcml settings: options, languages and extensions, `srcml()` | an archive's fields, the library's own archive | set, get, clone | copies, defaults, the order of registration |
| Transformations: `srcml_transform` | the list of transformations, a document | append, apply, clear | results are made roots in place, and nest. *What the transformations give one after the other on copies; units that can be told apart* |
| srcQL: `libsrcql`, `xpath_generator`, `unification_table`, `qli_extensions` | trees of XPath nodes, the table of variables, rules of regular expressions | convert a query, add / match / clear elements, evaluate | a query is put together in many passes over trees; the uses of a variable meet in a table that libxml2 fills in the order of its predicates. *A query finds what it asks for, no more and no less* |
| Off-side rule of Python: `OffSideRule` | three buffers of tokens, open blocks and brackets, width of an indentation, flags | next token | flags set by one token and tested lines later, tokens moved back and forth. *None lost or reordered, INDENT and DEDENT balanced, blocks are those of Python* |
| Other token filters of Python and of JavaScript | buffers of tokens, the tokens before, open brackets | next token | lookahead in one filter past what another has to change. *Each token once, words and ends of statements are those of the language* |
| Parser state: `Mode`, `ModeStack`, `StreamMLParser` | a stack of modes, elements opened in each, two pairs of buffers of tokens | start / end mode and element, consume, skip | three streams of tokens are woven together. *The text is kept, elements nest, whatever the grammar does* |
| Output of the parser: `srcMLOutput` | lines, a queue of tokens, depth | write a token | positions are written before it is known where an element ends. *Positions are those of the text* |
| Character input: `UTF8CharBuffer` | two buffers, what is kept of a cut character, encoding, hash, lines | open, read, convert, close | characters, newlines and byte order marks cut at the end of a read. *The characters and the hash are those of the file* |
| Grammar and lexers | - | - | 29,000 lines of actions on program text; the repository's parser tests cover them |
| ANTLR | - | - | vendored |

How they interact: `srcml_execute` runs a thread for each step of a command; the
steps are joined by pipes.  The step that creates srcML runs `create_srcml` (main in
the models), which calls a handler for each input.  Handlers read a file, an archive,
a URL (by a download thread and a pipe) or a srcML document (by the reader of
libsrcml) and schedule requests on the `ParseQueue`; its pool parses them (bytes to
characters, tokens, filtered tokens, modes, elements) and hands
them to the `WriteQueue`, whose thread writes them to the output archive.  Threads
share memory under mutexes with condition variables, and some plain variables under
no lock at all.

## Modules

Composition is by `EXTENDS`, from left to right, or by `INSTANCE` for an abstract
specification.

| Modules | What they model |
|---|---|
| `ParsePipeline` | `create_srcml`, `ParseQueue`, `srcml_consume`, `WriteQueue`, `srcml_write_request`: main, each pool thread and the writer step between critical sections |
| `OrderedOutput` | the promise of the pipeline: accepted requests are written in order; closed only when all are |
| `ArchiveConversion` | `srcml_input_srcml`, `OpenFileLimiter`, `srcml_archive_deleter`, and the archives `srcml_write_request` opens for an output directory.  A parse is one step, `ParsePipeline` has its detail |
| `CurlInput` | `input_curl`, `srcml_pipe`, `srcml_pipe_clean`, `srcml_execute`: the step, a download thread per URL, and the thread that joins them |
| `SaxLayer`, `UnitReader` | `sax2_srcsax_handler` as functions from a token of the document and the state of the layer to the new state and the calls of the handler; `srcml_reader_handler` and `srcml_sax2_reader`, user and parser thread at the grain of the mutex |
| `UnitStream` | the promise of the reader (each read or skip takes the next unit, a read has its text, afterwards every call says there is none), which `UnitReader` refines, with the units of a document found from the nesting of tags alone |
| `ArchiveSettings`, `SourceText`, `CommandLine`, `InputHandlers`, `OutputSteps`, `Client` | the client without its threads: the settings of an archive; names, ranges, escapes, NULs and headers; the command line; how each input becomes units; how units become source and answers; programs, alone or in a pipe |
| `SrcMLNamespaces`, `ArchiveWriter`, `LibraryUser` | libsrcml for writing: tables of namespaces; the text writer of libxml2, building and parsing units, and archives of them; a user that calls them in any order |
| `Documents` | the promise of the library: a document is the units written to it, each as described, with the namespaces meant |
| `XPathGenerator` | the XPath expression a query in srcQL is converted to: patterns, buckets of variables, clauses, operations |
| `Transformations`, `ApplyTransforms` | the trees of libxml2, reading and evaluating an XPath expression with the table of variables, and what a transformation finds; what a query in srcQL asks for, told from its words; the list of transformations applied in place, and what the client writes of it |
| `OffSideRule`, `PythonFilters` | the filter of Python's blocks, one action per token read or moved; what it promises, told from the indentation of lines, and the filters before and after it |
| `JavaScriptNames`, `JavaScriptFilters` | the sets of token types and which words are names; three filters that ask one another for tokens, and what they promise |
| `StreamMLParser`, `MarkupOutput`, `ParseUnit` | modes and elements; consuming and skipping tokens; writing them with and without positions; a unit parsed by any rules |
| `UTF8CharBuffer` | the characters of a source, read by pieces |
| `ParsePipeline_proofs`, `UnitReader_proofs`, `ArchiveConversion_proofs`, `CurlInput_proofs`, `ParseUnit_proofs`, `UTF8CharBuffer_proofs`, `OffSideRule_proofs` | theorems and proofs: see *Theorems* |
| `SequenceFacts` | lemmas about natural numbers, concatenation and `FlattenSeq`, for `ParseUnit_proofs`, `UTF8CharBuffer_proofs` and `OffSideRule_proofs` |
| `MC*` | small instances (that of `ParsePipeline` is in its cfg) |

### State and code

*ParsePipeline.*  `q`, `completed`, `position`, `total` and `counter` are the
variables of the code.  `request` holds what the pipeline tests of a `ParseRequest`;
the text of the source is not modelled.  The program counters `mpc`, `wkpc` and `wpc`
say between which critical sections a thread is.  Each critical section under
`qmutex` is one action.  `NotifyWriter` does nothing unless the writer waits: a
notification can be lost.  `SpuriousWakeup` lets a wait end by itself.
`++error_count` is two actions, a load and a store, because main and the writer execute it
without a lock (`SRCMLStatus.hpp:35`); download threads do so as well (`input_curl.cpp:135`), which are not in this module.  `exit()` in a thread is `proc = "exiting"`, with
the other threads still running until `Die`.

*ArchiveConversion.*  `openFiles` is `OpenFileLimiter::open_files`; `owner[p]` the
input archive request `p` shares (0 for none).  A request is kept by the pool's task until that ends
(`ended`: `WriteQueue::schedule` copies the pointer into the queue, and the task has its own, `ParseQueue.hpp:37`)
and by the queue and the writer until it is written, whichever is later (`Live`).  An archive is closed by
whoever drops the last reference to it: main, the writer or a thread of the pool (`LetGo`, `Drop`).  The comparison is the code's
(`open_files > MAX_OPEN_FILES` blocks), so one file more than the constant may be open.

*SaxLayer, UnitReader.*  A document is a sequence of tokens (start, end, empty
element, text, error); attributes, namespaces and text are the positions they come
from, which is enough to tell whose they are.  `calls` are the calls of the handler
a SAX event leads to and the position each is about; the parser thread runs them one
by one.  `at` says where the user is in `wait()` or `resume_and_wait()`: before the mutex
("enter"), with it ("holds"), in `cond.wait` ("waits"), or after it ("left").  `object`
is the unit the parser writes into, `result` what the last call returned.

*CurlInput.*  `go`, `curlErrors` and the list `lthreads` are the code's.  `answerer` is
a history variable: the URL whose download last set `go`.  A pipe is the difference of
`sent` and `got`, and `Write` blocks at `PipeSize`.  A URL is the response it will give:
code, amount of data, whether the transfer is complete, whether the data is a sound archive.

*Client.*  A scenario is the files on disk, what is on standard input and one to three command
lines.  One action is a phase of a program: `parseCLI11`, the look at standard input, the choice of the
steps, and each step.  Within a step the functions of `InputHandlers` and `OutputSteps` take
one input, or one unit, after the other.  A name, a text and a header are sequences of
pieces, so that ranges, escapes and extensions are really taken apart.  A request is
parsed and written where it is scheduled (`ParsePipeline` shows that this is the order of the
output).  The loop over the options of a root that never ends (see *Known*) is `LibraryStuck`.

*LibraryUser.*  Each action is one call of the library.  A unit records its buffer as
pieces with the offsets `content_begin`, `content_end` and `insert_begin` / `insert_end` of the code, and its caches
(`src`, `loc`, the hash) with the code's rules for when they are made.  `described` is what the
caller said, and what is read back from a file is found by the reader of `ArchiveWriter`, which
resolves prefixes by the tags around an element.

*ApplyTransforms.*  A forest keeps nodes by number, with their children and document, so
that it shows when a node is moved from where it is still needed: `MakeRoot` is
`xmlDocSetRootElement`.  `Composed` compares with the transformations applied to copies.

*XPathGenerator, Transformations (srcQL).*  A query is a sequence of words with its arguments; a
pattern is the tree srcML makes of it.  Each pass of `XPathGenerator::convert` and of the conversion of
patterns is an operator on trees of `XPathNode`; the text of the result is a sequence of tokens.
These tokens are read again as libxml2 reads an expression (precedence, steps, predicates) and
evaluated in its order: each predicate of a step on all nodes the ones before it left, with the table of
`unification_table.cpp` passed from one call of a function of srcQL to the next.  `AskedFor` says what a query means
without any of this: an assignment of texts to the variables under which pattern, clauses and
contents fit.  `Expression` is a constant, as a query is converted once; the assumption on it says that it is what
`convert` makes of the query.

*OffSideRule.*  `filter` is a record of the members of the class, with their names, and of the
local variables of `handleBlocks`.  A token read is its position in the program, so that the
output can be compared with the program; a DEDENT is 0.  A token has a type, a line, a column and
a length; the types the filter does not tell apart are one, and a comment's start and
end are one token.  `Iteration` is one iteration of the loop in `handleBlocks`, and `ArrangeDedents` one of
`arrangeBlockEnds` that meets DEDENTs.  `pc = "undefined"` is the read of an empty `tempBuffer` at
`parser/OffSideRule.cpp:419`.  `ReturnsProgram` has two parts: `InOrder` is about the tokens of the
program among those returned, `Balanced` about INDENT and DEDENT.

*PythonFilters, JavaScriptFilters.*  Python's filters are functions of the types of what they read.
JavaScript's ask one another for tokens, so their buffers, histories and brackets are
state, and each `nextToken()` is a step.  What a word or the end of a line means is
said by the program itself, by position, in the MC modules; where the heuristics of the code do not
reach is listed under *Known*.

*StreamMLParser, MarkupOutput, ParseUnit.*  The stack of modes (`ModeStack.hpp`) and the buffers of tokens
are one record, and each operation of the code a function from it to the next.  The grammar is any sequence of the calls its
rules make, under the discipline they keep: a rule ends no mode it did not start, but the
last of its caller; an expression statement is in another only inside a block of its own, ends after its
terminate, and with its block or the program; what takes up the skipped tokens starts
before a token; a preprocessor line ends what it starts (no rule of one sets `MODE_END_AT_ENDIF`).
The positions that mark a repeated type (`STYPEPREV`) and the branch for elements without
a name are not exercised.

*UTF8CharBuffer.*  A byte is a class of bytes, a source its characters with an encoding, and each read
returns any number of bytes the code may get.  The hash is the sequence of bytes given to
it.  A buffer is made by each constructor and destroyed at any moment.

## Runs

| Run | Shows |
|---|---|
| `pipeline` | two pool threads, two requests from two inputs (one a file list), one warning by main, spurious wakeups, exit at any moment: `NothingLost`, `ErrorsNoticed`, `ClosedOnce`, `Termination`, and the refinement of `OrderedOutput`, which implies the order of what is written (`WrittenInOrder`, proved) |
| `archive` | one output archive with a source file and three srcML archives of up to two units; an output directory with one archive, and with three, where main and the writer wait at the same time: the count is exact whichever thread is the last to drop an archive, no waiter is forgotten, and the conversion ends unless the archives can take every permit (`TakesAllPermits`) |
| `archive_deadlock` | violation: see *Finding* |
| `reader` | archives, single units, empty units, text after the root, and two documents broken off at every token; reads and skips in every order, freed at any time: control is handed over exactly (`HandOff`, `NeverBothWait`), the root comes first (`RootFirst`), the parser fills in only the unit of the call it is in (`WritesInCall`), the reader refines `UnitStream`, and in a document with a unit each call returns (`CallsReturn`) |
| `curl_read` | every pair of URLs of nine kinds (larger than the pipe, small, empty, broken off, error with and without a page, and last a broken archive with as much data as the pipe holds or with more): `OwnAnswer`, `NoErrorConverted`, `GoesOn`, `Exits` (but for `BrokenBeyondPipe`) |
| `client` | 18 groups of command lines over files, texts, archives, directories, lists, headers, srcML and pipes of up to three programs: `PartsTaken` (each part named becomes a unit; a command line that cannot be followed, and no other, ends with an error), `RoundTrip` (source written with headers is read as the units and the url it was, the attributes of the root coming back on each unit, where a unit's own win), `Answers` (queries tell what is there), `OneRoot` (what is written has one root, but for `KeepsForm`: srcML as the only input, without `--archive` or `-X`) |
| `library` | one unit built, parsed, cloned, rebuilt and written again and again, to an archive or a solitary unit, with namespaces registered and not: `WellBuilt` (the text of a unit is a well-formed element), `InnerIsContent` (its offsets enclose what was described), `Complete` (a closed file is one element), and the refinement of `Documents` |
| `transform` | up to three calls, or two options of the client, on documents with results beside and inside of one another: `Composed` (in place as on copies), `Identified` (units of one unit can be told apart; several units are written to an archive).  Some sixty queries in srcQL (every kind of argument, clause and operation, alone and combined) on three source documents in C++ and Python: `Meant` (each finds exactly what it asks for) |
| `offside` | programs of four lines of statements and blocks at three indentations; a block's first line and two lines of 15 kinds (comments, blank lines, brackets, backslashes, blocks on one line) at indentations of 0, 2 and 3, with and without a last newline; the colon of a block on a line of its own, after a backslash; words, docstrings and soft keywords: `ReturnsProgram` (each token once and in order, each INDENT with a DEDENT after it), `BlockStructure`, `StatementsTold` |
| `javascript` | statements and pairs of statements in four layouts, with words that can be keywords in every position: `SourceInOrder`, `WordsTold`, `StatementsEnd` |
| `parser_output` | ten programs with whitespace, comments, preprocessor lines and attributes, parsed by any rules, written with and without positions: `SourceKept` (the text, all of it, in order), `Nested`, `Counted` (positions and lines are those of the text) |
| `char_buffer` | sources of up to five characters in six encodings, with and without byte order mark, from each constructor, read in pieces of any size, dropped at any time: `ReadsSource` (the characters, newlines and lines), `HashesSource` (the hash is that of what was read, all of it at the end; what the buffer opened is closed once) |

### Finding

`archive_deadlock`.  With an output directory the writer takes a permit in
`srcml_write.cpp:90` while all permits may be held by input archives whose requests
wait behind the one it writes; only by writing those could they be released.  `Termination` of the run
`archive` has this case as its exclusion, `TakesAllPermits`.

### Known from reading the code, without a run

What was met while modelling and is not asserted by a property; where a property is about
the same code it excludes these cases by name.

Reader, threads and pipes

- `done()` changes `is_done` and notifies without the mutex (`srcml_reader_handler.hpp:187`), so for a
  document malformed before its first unit opening may never return.  A well-formed document that is not srcML
  ends the parse without the reader being told (`srcml_sax2_reader.cpp:33`).  `CallsReturn` leaves
  both out.
- The waits of the reader have no predicate (`srcml_reader_handler.hpp:177`); a wakeup nobody caused would
  return a unit without its text.  `UnitReader` leaves such wakeups out.
- The namespaces of a skipped unit are registered with the next (`srcml_reader_handler.hpp:389`).
- A download can notify before `waitCurl` waits (`input_curl.cpp:38`), and the wait never ends.  When libarchive
  reports an error the pipe is left open and unread, so a large download blocks in `write()` and the join of
  `srcml_execute.cpp:67` never returns: `Exits` leaves this out by name (`BrokenBeyondPipe`).  `pipe()` failing leaves `input_curl` waiting (`srcml_pipe.cpp:29`).
  The list of threads is walked while it may grow (`srcml_pipe.cpp:43`).
- `--jobs 0` makes a pool that never parses (`srcml_cli.cpp:252`).
- main registers namespaces in the output archive while the writer may write to it
  (`srcml_input_srcml.cpp:52`).
- A request read from a srcML archive has no filename, and `srcml_write.cpp:78` dereferences it for an output
  directory.

Client

- The loop over the root's attribute `options` (`srcml_reader_handler.hpp:271-295`) never ends for any value, and
  `--cpp-markup-if0` and `--cpp-nomarkup-else` write one (`srcMLOutput.cpp:433-447`): what they write cannot be
  read again, also not by a later step of the same command.
- Headers: the version is written as `src_version` (`create_src.cpp:118`) and read as `src-version`
  (`src_input_libarchive.cpp:451`); `#` in a quoted value starts a comment (`:53`); a value with `---` ends
  the header (`RoundTrip` has none of these).  The attributes of the root are written with each unit (`create_src.cpp:87`)
  and read as the unit's (`src_input_libarchive.cpp:473`), as `test/client/testsuite/header_archive.sh:270-321` has it.  An empty value makes `remove_prefix(npos)`.
- A text ending in a backslash is read past its end (`src_input_text.cpp:91`); an empty list reads the bytes of
  nothing (`src_input_filelist.cpp:72`), its last line is lost when one character long, and an entry
  that fails ends the list (`:111`); ARCHIVE_WARN ends an archive (`src_input_libarchive.cpp:240`).
- `srcml archive.xml -o out.xml` writes several roots: the solitary flag is cleared only when
  `SRCML_COMMAND_XML` is set (`srcml_input_srcml.cpp:49-52`, `srcml.cpp:271`).  `OneRoot` leaves this out by name (`KeepsForm`); the
  run has it (`SeveralRoots`), and round trips leave it out, as the next program cannot read such a file.
- A file with NULs on disk is one unit by the fast path (`src_input_file.cpp`), and several from standard input.
- `-` given twice: only the last is standard input.  `-o out.d/` is not taken for a directory.  A reserved prefix
  other than `""` is never refused (`srcml_cli.cpp:825` compares iterators of two maps).
- `--show-unit-count` counts only units with a language; `%C` is one too many; the long form counts a unit
  where there is none; `%s` in the body of `--pretty` takes the value of another directive; a template
  without braces reads `input_template[npos - 1]` (`srcml_pretty.cpp:67`).
- A unit whose transformation fails to parse it is silently written as nothing (`srcml_consume.cpp` ignores the status).

Library

- `srcml_archive_close` keeps the translator (`srcml_archive.cpp:1414`), so an archive opened again writes nothing,
  though `srcml.h:685` says it can be reopened.  Closing an empty solitary archive writes no unit, though
  `srcml_archive.cpp:1408` says so.
- A prefix registered on a unit only is not declared when the unit is written to an archive
  (`srcml_translator.cpp:271`, `srcMLOutput.cpp:387`).  `srcml_unit_get_srcml_outer` loses the `>` of a unit without
  attributes (`srcml_unit.cpp:1219`).  `src`, `loc`, `srcml_fragment`, `srcml_raw` and the hash are
  not reset when a unit is built again.
- An end of an element too many makes the depth -1, and `srcml_write_end_unit` then loops some 2^32 times
  (`srcml_unit.cpp:1242`).  Calls that are refused may have registered a namespace or counted a depth.
- `srcml_archive_set_options` loses `CPP_DECLARED`; expanding tabs cannot be disabled, because the masks
  of enable and disable differ.  `srcml_archive_get_uri_from_prefix` returns the last, not the first.
  `srcml_set_eol` is never used.  Extensions with capitals are never found.

Transformations

- A transformation that finds nothing in one result ends the loop (`srcml_transform.cpp:674`), and what was found in the
  results before is dropped, though `srcml.h:1350` says they are applied "consecutively in order";
  `Composed` leaves such scripts out.  With no place for a result the unit is not replaced (`:733`), though
  `srcml.h:1350` says so.
- XSLT on several results frees the documents of earlier ones (`:672`).  Wrapping the root together with its
  first child corrupts the tree (`:357`).  `append_attribute_to_node` looks an attribute up with its value as URI
  (`xpathTransformation.cpp:153`), so the same attribute can be appended twice.
- srcQL: a specifier that comes behind two or more siblings in a pattern, as in `int k() const {}`, drops all
  but the first of them (`xpath_generator.cpp:951`), so that the name is not asked for.  `FOLLOWED BY` looks
  in any enclosing element that fits, so that elements nested in one another are found for what the outer one has.
  The table does not keep which texts were met together, so two arguments that share two variables find pairs that never
  occur together; and two equal arguments that share a variable need two different elements.  `Meant` is
  about the other queries (`Expressible`: `KeepsParts`, `Apart`, `Distinct`).

Parser

- `OffSideRule.cpp:98`: after a block on one line with trailing whitespace, the lexer makes the newline a WS_EOL and
  what follows is taken into the block.  `OffSideRule.cpp:419` reads an empty buffer when a comment line
  follows a backslash; after a backslash an end of line may be returned twice.
  `OffSideRule.cpp:250` ends all blocks at a line without indentation, also after a backslash, where the comment at `:154` says the next line should not end the block; if such a line
  begins with the colon of a block, the INDENT made of it is returned after the DEDENTs (`ColonFirst`).
- Python: a soft keyword consumed by another's lookahead is not told (`print`, newline, `match = 1`), contrary to the
  comment at `NameDifferentiatorPython.cpp:72`; `lastNonWhitespaceToken` of `NewlineTerminatePython` is
  never assigned; `match = lambda x: y` keeps `match` a keyword.
- JavaScript: `debugger;` becomes a name; `as`, `of`, `is` etc. as plain operands, a word with whitespace before its
  parenthesis, and a member with whitespace after the point stay keywords; `//` directly before a newline takes the newline, so that no
  TERMINATE is inserted; a block comment with a newline in it does not end a line.  `WordsTold` and
  `StatementsEnd` have none of these.
- An exception in the middle of a unit leaves its elements open while the parse reports success.  With positions the prefix in
  `addPosition` is `thread_local const`, that of the first archive of the thread.
- `UTF8CharBuffer.cpp:157`: a sequence cut off by the end of the data is taken for valid, so an ISO-8859-1 file that ends in
  such a byte is passed on as UTF-8.  A first read of nothing but the byte order mark of UTF-16 or UTF-32 leaves nothing to convert
  (`:600` asks only for bytes left over), and `readChars` returns 0, which `getChar` takes for the end of the input; `MinFirst` and
  `ReadAssumption` leave such reads out.  A file of only a byte order mark is read one past its end.  Data
  iconv refuses ends the input, with a message only, and so does an encoding that iconv does not know (`:377`, `:502`), which the
  model leaves out.  A file opened as descriptor 0 is never closed (`:245`, `:678`).

### Bounds

Two pool threads and two requests are the least at which requests finish out of order and the
writer meets a gap; safety for any number of both is proved.  `MaxErrors = 1`
lets main's increment of the count race the writer's.  `MaxOpenFiles = 1` with three archives
has main waiting for a permit with two archives owned by requests, and with an output directory main and the writer
waiting while a thread of the pool closes an archive.  The reader's
documents cover each branch of the SAX layer: the first element below the root is a
unit, another element, `macro-list`, or absent, and units have nested elements, are empty,
or are written as an empty element.  A pipe of two blocks with URLs of 0, 1, 2 and 4
blocks covers the pipe never full, full, and full again after it was drained.  Four lines are the least
that open two blocks and return to either; of lines of all kinds two are enough for every flag that
one line leaves set to be met by the next, inside a block and after it.  A unit of `library` takes two
events and eleven pieces, which is an element in an element with a declaration on each, built twice over.
In `parser_output` three modes and three starts give an element in an element across a mode, with what is skipped at each
place.  The buffer of `char_buffer` has five bytes (`SRCBUFSIZE`), so that files are longer than a read and
a character of three bytes can be cut at either place; `MinFirst = 4` is what the detection of a wide encoding
needs of the first read.  Three transformations are the least with a result of a result of a
result.  The source documents of srcQL have classes in classes, functions of equal and of different
types and names, a statement in a block before and behind others, and expressions that repeat an
operand, so that a pattern with a variable meets a fitting and a failing candidate in either order.  Scenarios of `client` are listed by group in `MCClient`: every option is given in at least one that
can and, where it can be wrong, in one that cannot be followed.

### Fairness and deadlock

Each thread is weakly fair: a thread that can run and keeps being able to does at last,
as the operating system's scheduler promises.  Nothing is assumed of mutexes or
condition variables beyond that: no strong fairness is needed, as a mutex is
never held across a step except by a user of the reader that is about to wait.
In `UnitReader` the user is fair only once inside a call (`Continues`): nobody has
to go on reading.  In `CurlInput` downloads are fair: the server answers.  The other modules are sequential; they have safety
properties only, and the filters and buffers end because their runs have no deadlock
but the end and their programs are finite.

`ParsePipeline` and `ArchiveConversion` include spurious wakeups, harmless where the wait is in a loop.
`UnitReader` and `CurlInput` leave them out, because their waits have no loop and
anything could follow.

Deadlock is checked except where the system really stops: where a run is about a hang or has one among its command lines
(`archive`, whose `Termination` names it),
in `reader`, whose broken documents include one that hangs, in `curl_read`, where a lost answer
leaves the step waiting, in `client`, whose programs end, and in `library`, whose bounds stop its user.  Elsewhere
the finished state has a stuttering step of its own.

## Theorems

Proved by TLAPS for every value of the constants.

*ParsePipeline_proofs*, for every pool, number of inputs and of requests (assuming only
that the pool is not empty and the bounds are natural numbers):

- `TypeCorrect`, `Order` (`WrittenInOrder`), `Complete` (`NothingLost`), `Noticed`
  (`ErrorsNoticed`), `Closed` (`ClosedOnce`), `Refinement` (`ImplementsOrderedOutput`).

`NothingLost` is not inductive: that main is past the writer says nothing of requests
still in the pool.  The invariant `Inv` adds `Accounted` (each position scheduled is in
the pool's FIFO, with a thread, in `q`, with the writer or written), `Bounded` (nothing else
is), `OrderInv` (the position expected is one more than what is written), `ShutdownInv` (the
order in which pool, queue and main stop, and that a drained pool stays drained) and
`ErrorInv` (the count is above 0, or about to be stored, if and only if something was logged:
lost increments never bring it back to 0).  One lemma per part and kind of step; the
frame lemmas (`WriterFrame`, `PoolFrame`, ...) say once what each thread leaves alone.  The
refinement maps every step to a step of `OrderedOutput` or to none (`Observed`), using
`Inv` for the guard of `Close`.

*UnitReader_proofs*, for every set of documents (sequences of tokens whose tags match):

- `TypeCorrect`, `HandedOver` (`HandOff`), `NoDeadlock` (`NeverBothWait`), `RootIsFirst`
  (`RootFirst`), `WritesDuringCall` (`WritesInCall`);
- `Refinement` (`ImplementsUnitStream`), for every set of documents that are what the library writes
  (`SrcML`), whole or broken off anywhere.

The invariant is made of four layers, each inductive relative to the ones before.

`Inv` is the hand-over: the types, who may wait where (`WaitInv`), that nothing is asked of the
parser before it has paused at the first unit (`RootInv`) and that a user who was woken
finds the parser waiting or done (`HandInv`).  `TypeCorrect` rests on lemmas about `SaxLayer`
(what a callback returns has the type of the state of the layer, and the text it has collected
never passes the position of the parse).

`Told` is the order of the calls of the handler.  `RootFirst` is not inductive, because a unit is announced
by a list of calls made several steps before the first of them runs.  `SaxInv` says that the depth is the number of
tags still open and that the layer has told the root before anything else; `CallsInv` that in the list of
calls still to run the root comes before the unit, and the end of the root last (`ListOK`); `AtInv` which
of these calls the parser is in when it pauses.  This is where `MatchAssumption` is needed: were `</unit>` reported for
another element, `end_element` would end a unit nobody started.  libxml2 ends the parse instead
(`TagsMatch`).

`Placed` ties what the parser is doing to the call of the user: where the user can be in each call and which
flags the call has set (`CallInv`), where the parser can be then (`PlaceInv`), and that
between two calls it is at rest: paused, stopped or ended, with no call of the handler to run that writes (`RestInv`).  `WritesInCall` follows
because each step that changes `object` is excluded at rest.

`Gives` is what is read.  The units of a document are defined from its tags alone (`UnitStarts`, `TextOf`), the
code finds them with a flag, a depth and the callbacks installed; the two have to be brought together for a
document of any length.  `SaxUnits` does it without an induction over the document: with the unit that started last
(`Cur`), the parser is in it (`InUnit`: as many elements are open at every token since its start, its start
was announced once, and what is collected is `u..base`) or behind it (`OutUnit`: its end was announced once, with
all of its text).  A token keeps this, whichever it is (`TokenRoot`, `TokenInUnit`, `TokenEndsUnit`, ...), and so do
the calls it leads to.  `UserUnits` counts: `Known` units have been found, `Entered` is those whose header the handler has
written, `taken` those the user has, and each place of a call fixes how they differ.  `OverInv` says that
a document that is over while no unit is being read has none left, and `BodyInv` what the unit of a read holds while it is waited for.
The refinement itself is then short: a call that returns is a `Read`, `Skip` or `End` (`ReturnImplements`), and no
other step is seen but `Free`.

The hypothesis `SrcML` says that end tags match, an error is the last token, the root is a unit, and a unit is
the root or in a root that has only units, after lists of macros without elements.  The code relies on all of it: in an archive,
`start_unit` takes any element after the first unit for a unit, and in a single unit every `</unit>` ends it.
`MCUnitReader` assumes `SrcML` of its documents (`WrittenAssumption`), so that TLC shows the hypothesis holds of all the
kinds of documents that are read there.

*ArchiveConversion_proofs*, for every list of inputs, number of threads, units and permits:

- `TypeCorrect`, `PermitsCounted` (`CountExact`), `WakeupKept` (`NoLostWakeup`).

`CountExact` compares a counter with the cardinality of the set of archives that main, the requests
and the writer have open, where a request exists as long as the queue, the writer or its task has it.  What makes it inductive is `AtWork` (main is at an archive when it opens and reads one, and the writer has a
request that was parsed) and `OwnedWhenRead` (requests own only archives that main has read a unit from, so that the archive
it opens is nobody's yet).  `DropCounts` is the one argument for the writer and the tasks: the share dropped last closes the
archive, and any other leaves it open.  `NoLostWakeup` needs the count: main and the writer can both wait while a third thread
closes, and `notify_one` wakes one of them.  `WaitsForPermit` says that whoever waits is in `open()`, and that a permit that is free while a
thread waits is the only one and the other thread is awake to take it; that two threads never wait with a permit free, so that
a second one cannot become free unnoticed, follows from the limit in `Counts`.

*CurlInput_proofs*, for every set of lists of URLs and every size of the pipe:

- `TypeCorrect`, `AnswersAreOwn` (`OwnAnswer`), `ErrorsNotConverted` (`NoErrorConverted`).

The last two assume `SoundButLast`: no archive but the last of a request is broken.  It is
necessary: a broken archive leaves a download behind that still answers while the step waits for the next
URL (see *Known*), and the run keeps to it as well.  `InTurn` says that a download is started in its turn, and that those of earlier URLs
answer no more; `Answered` whose the shared `go` and `curl_errors` are while the step waits and reads;
`Piped` that only the data of a URL goes through its pipe, and that a pipe is closed
after its download has told its errors.

*ParseUnit_proofs*, for every program, set of elements and bounds on modes and starts (assuming
only that a token of the lexer has a type other than EOF, and that no element is named like a
control character):

- `TextKept` (`SourceKept`): the text of a unit is the text of its program, whatever calls the rules
  make.

`SourceKept` says where the text is, but not why a step keeps it there.  The invariant `IInv` adds what the steps rely on: the
second pair of buffers is in use only in preprocessor lines and attributes, and is empty otherwise (`Good`);
the token of a pause is the start tag of a statement, so that taking it back takes no text (`Good`);
a preprocessor line always has its two modes on the stack, so that ending it ends them and nothing else (`At`);
without positions nothing is queued; a rule never runs with a control character as the next token; and once the last mode has ended only the end
of the program is to come.  The proof goes by operation, as the code does: what one
operation does to what waits (`Quiet`, `Reads`, `Takes`, `Grows`), one lemma per action (`...Moves`), and for the
output what each way to take a token writes or queues (`Puts`).  Loops are recursive functions here, and a claim
about all their steps is an induction by `Induct`, which `SequenceFacts` derives from the
well-foundedness of < on the natural numbers for a set, so that no operator has to be instantiated.

*UTF8CharBuffer_proofs*, for every source, size of the buffer and way to cut the source into reads:

- `WholeSourceHashed` (`HashesSource`).

What is hashed is the first `offset` bytes, because the bytes kept of the last read (`inbytesleft`) are in front of the new ones
and are skipped (`FilledFacts`).  That an input ends only where its file does (`EndsAtEnd`) needs that a
read is never converted to nothing: `ProcessFacts` follows it through the encoding, the check and the conversion
(`ConvertFacts`: of data that is not empty something is converted or kept) and finds one exception, a first
read of the byte order mark alone (see *Known*).  `ReadAssumption` leaves it out.

*OffSideRule_proofs*, for every set of programs (sequences of tokens that end with the only EOF and have no INDENT,
which only the filter makes):

- `TypeCorrect`, `ProgramReturned` (`ReturnsProgram`).

`ReturnsProgram` is about what was returned, while tokens wait in three places and their types still change.  The
invariant `Inv` puts them together: `All` is what was returned, the first token of a block, `indentBuffer`, and `buffer` backwards,
and is the order in which tokens will be returned if nothing more is read.  `Sound` says of `All` that it has each token read
once and in order, that its INDENTs exceed its DEDENTs by `numIndents`, and that no prefix has more
DEDENTs than INDENTs.  Reading adds tokens at its end or changes a type (`Reads`, one lemma per branch of
`handleBlocks`; `Retyped` says which types can change, and only of tokens that were read).
`arrangeBlockEnds` moves DEDENTs before the token they follow and the blank tokens before it (`DedentsMoved`), which
keeps the nesting only if none of these begins a block: in `indentBuffer` no INDENT is directly followed by a DEDENT
(`Spaced`), and blank tokens are whitespace, ends of lines and comments.

Only model-checked:

- Liveness (`Termination`, `CallsReturn`, `GoesOn`, `Exits`): fairness and ENABLED are out of
  the prover's reach.
- `Nested` and `Counted` of `ParseUnit`: the elements and lines are read back from the output by a fold, which would have to be followed
  through every operation as the text is.
- `ReadsSource` of `UTF8CharBuffer`, `BlockStructure` and `StatementsTold` of Python's filters, those of JavaScript, and what is
  above them (`Client`, `LibraryUser`, `ApplyTransforms`):
  their promises are about what recursive operators and folds compute over bytes, texts, trees and command lines.  Recursive operators
  are out of the prover's reach; for the first, recursive functions and inductions over sets of numbers, as in `ParseUnit_proofs`, remain to be done.

## Not modelled, and why

- The grammar and lexers: their behaviour is that of whole
  programs, and the repository's parser tests are its reference.  Any grammar that keeps the discipline of
  `ParseUnit` is covered.
- Of srcQL: comments in patterns, the prefixes and postfixes of variables, the printing of queries, and the locks
  of the caches; a regular expression is the set of texts it matches.  How a query is cut into words is not modelled.
- libarchive, libcurl, libxml2, libxslt and the thread pool `ctpl` are external; what the
  code relies on is modelled (marked external): a FIFO of tasks, SAX2 events, an answer, trees and their writer.
- Comments, CDATA, processing instructions and meta tags of a srcML document: they
  change neither the calls nor whose text is collected.
- Contents of files beyond the pieces the client looks at, wording of messages, timing, the values of hashes.
- Two threads in one archive, and data races on `q` or on the reader's flags: a run shows the flags are never shared
  (`HandOff`), except `is_done` after an error.
- `TokenLookbackJavaScript`, `TraceLog`, `Timer`, `ParserTest`: no state another part depends on, or the
  lexer's.

## Plan

1. `ReadsSource` of `UTF8CharBuffer`, and `SourceInOrder` of JavaScript's filters by the way of `OffSideRule_proofs`.
2. Runs with an empty pool (`--jobs 0`) and with a step that fails to start.
