# A verification project for mdsort

mdsort sorts the messages of a maildir, or one message read from stdin, by the
rules of a configuration. This directory holds TLA+ modules that model how it
finds and reads messages, decides where they go and carries that out, and the
allocator and containers it keeps them in; configurations that check them with
TLC; and proofs checked by TLAPS. All paths are relative to
the repository's root; `expr.c:546` is line 546 of `src/expr.c` here and in
`PROJECT.json`.

- [Running](#running)
- [The system](#the-system)
- [Modules and how they correspond to the code](#modules-and-how-they-correspond-to-the-code)
- [What the runs check](#what-the-runs-check)
- [What is proved](#what-is-proved)
- [Disagreements found](#disagreements-found)
- [What is not modelled](#what-is-not-modelled)
- [Plan](#plan)

## Running

    tlc -workers 2 -config DeliveryReader.cfg DeliveryMC     # one run
    tlapm DeliveryProofs.tla                                 # the proofs

`PROJECT.json` lists the runs, with the module and configuration of each, the
lines every definition stands for, the hazards of the code with the properties
aimed at them, and a mutant for every property: a change of the model of the
kind a bug in the code would be, under which TLC finds the property violated.
The mutants are the definitions whose comment begins with *Variant*; they are
used by no specification.

## The system

### Components

| component | state | operations | correct when |
|---|---|---|---|
| main loop, `mdsort.c` | `error`, `reject`, the maildir being read, the environment | open and walk each maildir, `handle_message()`: parse, evaluate, interpolate, execute; exit status | the exit status is 0 only if every message is where the rules want it; in stdin mode every error is 75; an error in one message leaves the others alone |
| maildir engine, `maildir.c` | an open directory, its path, root and subdirectory, flags (walk, stdin) | `maildir_open`, `_close`, `_walk`, `_move`, `_write`, `_unlink`; creation of unique names; spooling of stdin | no message is lost or duplicated whichever system call fails; the temporary maildir is removed |
| match list, `match.c` | a list of matches per message; strings captured; destinations | append and merge, find, remove by type, back-references, interpolation, execution | the destination is the one the last action asks for; a back-reference is resolved in its own rule; actions run in order up to the first error |
| evaluator, `expr.c` | the expression tree (constant), the match list it fills | one function per condition and action; `pass`, `break`, blocks, attachments | a block means what mdsort.conf(5) says, however blocks, `pass`, `break` and negation are nested |
| message, `message.c` | buffer, headers and their order, flags of the name, descriptor, attachments, decoded body | parse, get and set headers, body, attachments, write, set file | what is read is what the sender meant, what is written is what was read, with the headers asked for; look-ups find what is there |
| configuration, `parse.y`, `conf.c` | list of configurations, macro context | parsing, validation of rules, expansion of strings | a configuration that cannot be carried out is refused |
| macros, `macro.c` | macro list, use counts, stickiness | insert, find, validate | a macro on the command line wins; unused and redefined macros are reported |
| decoders, `decode.c` | none | base64, quoted-printable, RFC 2047 | encoded text is read as what was written, malformed text is refused |
| dates, `date-time.c` | none | parsing by strptime | result of a pure function |
| arenas, `libks/arena.c` | a stack of frames, a stack of scopes | enter and leave a scope, malloc, realloc, free | no byte belongs to two live blocks; leaving a scope frees what is in it and nothing else |
| buffers and vectors, `libks/buffer.c`, `vector.c`, `arena-*.c` | memory, length, capacity | append, reserve, reset, read a file, give the memory away | what was put in stays as it grows and moves; files are read whole |
| utilities, `util.c`, `string-list.c`, `log.c` | none | `exec()`, path slicing | the status of a command is reported |
| environment, `environment.c` | a record written once | `readenv()` | |
| other libks, compat, test and fuzz harness | | checked arithmetic, shims | |

### How they interact

mdsort is one sequential process. `main()` reads the configuration, and for each
maildir block opens the maildir and walks it. For each entry `handle_message()`
parses the file, calls `expr_eval()` with an empty match list, and if the rules
matched calls `matches_interpolate()`, which computes the destination of each
action and changes the headers *in memory*, and then `matches_exec()`, which
calls the maildir engine once per action. The components share the message, whose
path, name and descriptor the engine changes as it moves the file, and the match
list, which is the stack, the result and the symbol table of an evaluation at
once. Everything about one message is allocated in a scope of the arena that ends with
`handle_message()`. The file system is shared with mail servers that deliver to and mail
readers that rename in the same directories; a maildir is not locked.

### What is hard

- **Failure and crash.** A move is up to eight system calls, any of which may
  fail; the process may stop between any two. A message exists once, and must
  do so at every point (`maildir.c:162-285`).
- **Interleaving.** A reader that marks a message as seen renames it, between any
  two system calls, the half-written file included.
- **One vector, two orders.** Headers are sorted by name to be searched and by position
  to be written, and values are cached in them (`message.c:264-499`).
- **Stale state.** The source directory handle, the descriptor, and the path and
  name of the message have to follow the file from action to action; destinations
  are inferred from the path *before* any action is executed (`match.c:59-83`),
  flags of the name are derived again for each action (`maildir.c:559-584`).
- **One list for everything.** `pass` and `break` are marks in the list, looked
  for by whichever block ends next (`expr.c:541-557`); back-references count
  positions in it after merging and negation have removed some
  (`match.c:490-520`).
- **Merging.** `move` and `flag` are merged as they are appended, depending on
  what is last and what came before (`match.c:449-488`).
- **Set-up and tear-down of the temporary maildir**, and the exit status, which
  tells a mail server to forget the message.
- **Walking a directory while changing it**: actions create, rename and remove files of the
  directory that `readdir()` is going through, as do readers and other processes
  (`maildir.c:485-539`); new is walked before cur because messages move that way
  (`maildir.c:313-328`).
- **Attachments share everything with their message**: the match list their rules write to
  (`expr.c:501-530`), the vector they are parsed into on demand, recursively
  (`message.c:846-919`), and the cached body (`message.c:381-417`).
- **Text at its edges**: headers without an end, boundaries never closed, escapes cut off,
  padding (`message.c:753-788`, `message.c:921-993`, `decode.c`).
- **Memory that grows in place or moves**, and goes with its scope (`libks/arena.c:436-472`,
  `libks/arena.c:586-637`).

`PROJECT.json` lists all of this per line under `hazards`.

## Modules and how they correspond to the code

    Maildir  <--- extended by ---  Delivery, Walk

    Intent  <--- implemented by ---  Delivery  <--- extended by ---  Mda
                                        |                             |
                                   DeliveryMC                       MdaMC
                                                                      |
    Evaluate  --- extends --->  MatchList  <----- lists to execute ---'
       |
    EvaluateMC        Walk --- WalkMC        Headers --- HeadersMC

    Message --- MessageMC        Decode --- DecodeMC

    Arena  <--- extended by ---  Buffers --- BuffersMC

The modules of proofs extend the one they are about, and those they build on:

    DeliveryProofs  <---  MdaProofs        WalkProofs  <---  AloneProofs        BuffersProofs

    Numbers  <---  HeadersProofs, DecodeProofs

`Numbers` is about no component: it derives induction over numbers, and the existence of functions defined by recursion,
as facts about sets.

`Maildir` has what `Delivery` and `Walk` share: the directories and `MsgFlags`, which decides on
the S flag of a new name.

### Delivery

`matches_exec()` for one message, with `maildir_move()`, `maildir_write()`,
`maildir_unlink()` and `message_write()`: **one action per system call**, the
order, checks, early returns and undo of the code kept. `pc` is the next system
call, `step` the match being executed. `Ready` is a state in which `matches_exec()` is
called, `Init` is that before anything has failed; in stdin mode something may have.

| variable | code |
|---|---|
| `entry`, `text`, `durable` | the file system: what each directory links, what a file holds, and whether it has been synced |
| `msg` | `struct message`: path, name, `me_mflags`, descriptor |
| `src`, `opened` | `src`, `dst`, `chsrc` of `matches_exec()`: the source handle, and the handles not closed |
| `doutime`, `dname` | locals of `maildir_move()`, `maildir_write()` |
| `error`, `rv` | locals of `matches_exec()` |

Every system call may fail; a failing write leaves any prefix of the message; a
failing undo is ignored. `MarkSeen` is the mail reader. States are states of the
disk, so `NoLoss` as an invariant is the statement about crashes: a crash leaves
just such a state, and `durable` is what a power failure leaves of file contents.

Data is abstracted to what the properties tell apart. A file is none, empty, part
of a message, or the whole message before or after its headers were changed. A
name is a unique part and its S flag. Files have the number of the action that
created them. `move`, `flag` and `flags` are one case of the switch in the code
and one verb here, as are `label` and `add-header`.

### Intent

What a delivery promises, without system calls: actions take effect one at a
time, each entirely or not at all, in order, up to the first one that fails; the
outcome says so; the delivery ends. `Delivery` is checked to implement it
(`KeepsPromise`; its safety part is proved), under the mapping at its end (`Done`, `Where`,
`Edited`, `Ended`): an action has taken effect once
the file it works on is no longer where the action found it. Writing down the
mapping showed one thing that is easy to miss: a move to another file system
already writes the labels of actions that come later, and an error between the
two leaves a message with labels of an action that was never executed.

### MatchList and Evaluate

`MatchList` has the operators over match lists, with the names of the code:
`MatchesAppend` with `MergeTail` and the inferred destination, `RemoveByType`,
`Backref`, `Interpolate...`, and `Plan`, what `matches_exec()` does for a list.
It has no recursive operators. `Evaluate` is `expr_eval()` on one message. The
operators `EvalCond`, `EvalAction`, `EvalRule`, `LeaveBlock` are the functions
`expr_eval_*`; the state machine evaluates one top-level rule per step and then
interpolates one match per step. A message is what its patterns match, so a
pattern says itself what it matches in the message and in each of its attachments
(`HeaderOf(caps)`); header and body are one kind, `command` and `date` are conditions that fail (`Fails`), and where they
succeed they are like `All`, as they leave no match in the list.

An attachment condition (`EvalAttachment`) tries the attachments up to the first for which
its condition does not return no match; the rules of an attachment block (`EvalParts`) are
tried on every attachment. Both add to the list of the message, so each match says which of
them it is about, and `exec` and `add-header` get their back-references from matches of
attachments.

Next to it stands a *reference*: `Holds`, `Subst` and `Promised` say what the manual
says of blocks, `pass`, `break` and back-references, as a function of the tree,
with no match list, no marks and no merging. The properties compare the two.

### Headers

The headers of one message in memory: `me_headers` with the operations that search, cache,
change and sort it, in the phases in which `handle_message()` calls them. `SearchHeader` is the
binary search of the code with its bounds, a recursive function over positions. Names are
numbers in the order of strcasecmp(3). A value is the sequence of words it is made of, so that
`label` can be followed from the labels read to the one header written; in `asked`, a history
variable, stands which words each header should have. `qsort()` may leave headers of the same
name in any order, and so may `Sorted`.

### Mda

stdin mode: `maildir_stdin()`, the walk, `handle_message()`, `maildir_close()` and the
exit status around `Delivery`. The lists to execute are those `MatchList!Plan`
makes of actions as rules append them, so merging is part of it. In the
temporary maildir only `new` exists, the source's modification time is not
looked at, and a move into the maildir is refused, as in the code.

### Walk

The loop of `main()` over maildirs, `maildir_walk()` over new and cur, and `handle_message()`
for every entry, by several processes at once, with a mail reader: one action per system call
again. A rule has one condition and one action, since lists of actions and failures within
them are the subject of `Delivery`; what `Delivery` leaves out is here, that there are several
messages and processes and that directories are read while they change.

| variable | code |
|---|---|
| `entry`, `file` | what each directory links, and what a file holds: which message, whether all of it, labelled or not |
| `block`, `sub` | the path in the loop of `main()`; `md_subdir` |
| `stream` | `md_dir`: the names that `readdir()` still has to return, and those it may return |
| `cur` | the message being handled: name, content as parsed, name and file created |
| `error` | local of `main()` |
| `sc` | the scenario, constant: configurations, rules, where messages are, bounds |

`stream` is what POSIX says of `readdir()`: a name that is there from `opendir()` on is returned; one
that is added or removed meanwhile is returned or not. `handled`, `acted`, `touched`, `broken`, `torn`,
`dropped` are history, for the properties.

### Message

How the text of a message is read and given out. A text is a sequence of lines, a line a tuple of
its kind and what matters of it, `Cut` stands for a missing last newline and `Nul` for a NUL.
`Parse`, `HeadersEnd`, `LastLine`, `Boundary`, `Delimiters`, `Sections`, `Attachments`, `DecodeBody`, `Body` and `Text`
are the functions of the code; the steps are the calls, in any order, of
`message_get_attachments()`, `message_get_body()`, `message_get_fd()` and of a rewrite, after which
the next mdsort reads what was written. `msgs`, `parsed`, `decoded` are the message with its
attachments, `me_attachments` and `me_buf_dec`. The reference is a tree of parts, as the sender means it;
`Render` writes it as text, and `Meant`, `PartsOf`, `Readable` and `BodyMeant` say, of the tree, what
mdsort is to make of it.

### Decode

`b64_pton()`, `quoted_printable_decode_buffer()`, `rfc2047_decode()` and `unfoldheader()`, byte for byte, as functions
without recursive operators. A text is put together of pieces, each of which says what it means; a
step adds one. `B64Pton` goes through the digits as the code does: each one adds bits to the last byte of the target (`AddDigit`) and begins the
next; `QuotedPrintable` takes steps (`QuotedStep`) that each read a character, an escape or a soft line break. For base64 the reference (`DecodedExactly`) is the encoder of RFC 4648, by which three bytes and four digits are the same 24 bits: a text decodes
to bytes if and only if it is the encoding of those bytes, white space aside.

### Arena and Buffers

`Arena` is the allocator: `frames`, a stack with size and use of each; `scopes`, a stack of where the last frame
was used to when the scope was entered; `blocks`, what the allocator has returned and whose scope has
not been left, as frame, offset and size. Actions are `Enter`, `Malloc`, `Realloc`, `Leave` and `Free`. `Realloc` has the fast path with
its test, by alignment, for being the last block of the frame.

`Buffers` extends it with what the program keeps in an arena: strings, buffers and vectors that grow (`Put`), shrink
(`Shorten`), give their memory away (`Release`) and are read from files (`NewRead`, `ReadSome`, one `read()` each).
`memory` maps each byte in use to the object and the element it was written for, so that
copying, growing and freeing can be followed. Every step of `Buffers` is one of `Arena`, with sizes beyond the set `Sizes`, or
leaves the variables of `Arena` alone. An object that grows is one of the innermost scope, as in all of
the program. Not shown are the block of a buffer's `struct`, and that
an allocation may fail, which ends the process.

## What the runs check

All runs finish within a minute or two. Deadlock is checked in each, and final states
stutter explicitly, except in `DecodeTexts` and `ArenaBuffers`, which stop at the bounds on the
length of a text and on blocks, scopes and lengths.

| run | states | shows |
|---|---|---|
| `DeliveryReader` | 46,000 | the safety of a delivery, see below |
| `DeliveryPromise` | 72,000 | `Delivery` implements `Intent`, termination included |
| `EvaluateBlocks` | 294,000 | evaluation agrees with the reference; labels; arguments; destinations |
| `HeadersLookup` | 108,000 | look-ups and what is written agree with a plain list of headers |
| `MdaDeliver` | 24,000 | stdin mode: exit status, temporary maildir, termination |
| `WalkShared` | 286,000 | several messages, processes and a reader on maildirs that change |
| `MessageParts` | 35,000 | headers, bodies and attachments are those meant |
| `DecodeTexts` | 292,000 | the decoders agree with the encodings |
| `ArenaBuffers` | 315,000 | blocks do not overlap; contents are kept; files are read |

**DeliveryReader.** Every well-formed list of one or two actions (moves to each of
four directories, on the file system of the source or another, writes, commands,
discard, reject), with the source an ordinary maildir or (`msg.stdin`) the temporary one, of which only `new` exists
and into which moves are refused; every pattern of up to two failing system calls and up to two
renames by a reader.

- `NoLoss`: unless discarded, some file is the whole message, synced.
- `GoodReplaced`: a step takes away a good copy only while another one stays.
- `NoLeftover`: with at most one failure and no reader, exactly one file is left.
- `SuccessIsComplete`: success means one whole file, in the last directory, with
  all labels, and the path in memory is the file's.
- `SourceFollowsMessage`, `ExecReadsCurrent`, `HandlesBalanced`: source handle,
  descriptor and the set of open handles follow the message.
- `ErrorStops`: after an error no further action is begun.
- `IInv`: the inductive invariant of the proofs, checked before it was proved.

*Bounds.* Two actions are the smallest lists in which a handle is handed from one
action to the next and one action works on what another left; the proofs cover
any length. Two failures let the undo of a failed step fail as well, which is the
deepest nesting of error handling in the code. Two renames let a reader rename
both the source and the new file. Two maildirs on two file systems have both
kinds of move, and four directories both ways of changing the S flag. Three
unique name parts suffice for the files of two actions to get fresh names.

**DeliveryPromise.** The same lists, modes and failures, no reader, against
`Intent`.

**EvaluateBlocks.** About 15,000 blocks of two or three rules, with one or two levels of
nested blocks: simple rules with `pass` or without, `break`, `discard`, `reject`; nested
conditions with negation and conjunction around patterns; attachment conditions and
attachment blocks, for a message with two attachments, which patterns match one of, both, or only
the message; back-references from `move`, `label`, `exec`, `add-header` and `isdirectory`. Two attachments are what it takes to
mix up one with another. Every pair of constructs
meets, inside and outside of a nested block. Left out are the *tangled* blocks, where a nested
block ends without a match or with a break while a `pass` is in effect: there the code does not
do what the manual says (`EvaluatePass`).

- `BlocksAgree`: outcome and actions are those promised.
- `LabelsAreAdded`: `X-Label` is what it was, then the labels of the rules that
  applied, in order, each with the back-references of its own rule.
- `ArgumentsAreMeant`: `exec` and `add-header` are about the message or attachment they were
  meant for, with the back-references of their own rule.
- `PlansAreWellFormed`: what is handed to `matches_exec()` is non-empty, has no mark of a block in
  it, and ends with `discard` or `reject` if it has one. This is the assumption `PlansAssumption`
  of `Delivery`.
- `DestinationIsLast`: the maildir of the last move, the subdirectory of the flag. Its hypothesis
  `Mergeable` leaves out lists in which `flags` follows a move, several moves meet a flag, or a
  flag follows a move with a back-reference: the code loses one of them, see below.

**HeadersLookup.** All messages of up to three headers with four names, those with four different
ones, and some with many occurrences of one name; any look-ups of headers and body, two
`label` or `add-header` actions, any number of writes. Five or six headers take the search through
both halves more than once; three occurrences lie on either side of the one hit.

- `LookupIsCurrent`: until the first write, a header that exists is found, with all of its
  occurrences and the values they have now. (Not so after it: `HeadersBody`.)
- `WriteKeepsHeaders`: what is written has the headers nobody touched, once each and in
  order, and every other one once, with the words asked for.

**MdaDeliver.** Lists with and without moves, merged flags, labels, commands, discard
and reject, and lists refused because they name the temporary maildir; two
failing system calls at any point of the program, one rename by a reader.

- `AcceptedIsKept`: exit status 0 after a match with a move means that the maildir
  of the last move has the whole message, synced, with its labels.
- `TemporaryRemoved`: the temporary maildir is gone unless removal itself failed.
- `FaultlessIsAccepted`: without a failure, and if no action names the temporary
  maildir, the status is not 75.
- `Exits`: the program ends.

Spooling takes at most two turns of its loop, so that an error can strike before,
between and after reads; one turn is like another. `ShortWrites` is FALSE, that is, the file
system writes what it is asked to or fails: with TRUE, `AcceptedIsKept` does not hold, see below.

**WalkShared.** Three kinds of scenario: one process, two messages in new and cur, any of 13 rules, one
maildir or two, a failing system call and a rename by a reader; two processes with rules of their own on the
same maildir; a process that delivers from stdin into the maildir another one walks, with a
reader.

- `NoneLost`: every message exists as a whole, unless it was discarded, or its unfinished file was
  copied or discarded by another process (`torn`). Files are created in new and cur and not in tmp, so that does
  happen: mdsort on a maildir that another mdsort delivers to may take a half-written message.
  Renaming one does no harm.
- `EveryMessageHandled`: a message that was there at the start has been looked at in the end,
  whatever else failed, if its maildir could be walked to the end at least once, and nobody else changed it but
  for moving it from new to cur.
- `ActsOnce`: if the rule no longer holds for what it did, or moves messages out of the maildirs walked,
  it acts once on each message, although `readdir()` may show the result again.
- `NoErrorOfItsOwn`: a process alone that meets no failure reports none.
- `Ends`: all processes end.

Two messages and two processes are the fewest that can be confused with each other. `Echoes` bounds
the files up to which `readdir()` shows newly created ones: with it, a rule that does not settle, such as
`match all label "x"`, ends because the file system ceases to show what is created, which no code
guarantees; rules that settle end without it, as they create a bounded number of files.

**MessageParts.** All messages with up to two parts out of five, encoded or not, with a body that is not base64, with lines
that look like headers and delimiters; boundaries later in the line, unquoted, empty, unterminated or never
closed, on the outside and in a part; nesting up to two beyond the depth accepted; mbox separators,
continued headers, no body, no last newline, a NUL. Any order of calls, and one rewrite, after which
the message is read anew.

- `MessageIsMeant`: headers with their continuation lines and body are those meant, and survive rewriting.
- `AttachmentsAreMeant`: the parts, in their places, or an error exactly if one is malformed or too deep.
- `BodyIsMeant`: of alternatives the text, then the HTML, decoded as its headers tell; whatever was asked before.
- `TextIsMeant`: a command that gets an attachment reads a message that is that attachment.

**DecodeTexts.** All texts of up to five pieces: digits of each kind, padding, white space and complete groups of base64;
escapes complete, cut off, in the wrong case or at the end of a line; encoded words well formed,
malformed, cut off, between plain text, white space and folds. Five pieces surround a gap between two
words by text, and fill a group of base64 and begin another.

- `Base64IsExact`, `QuotedIsMeant`, `HeaderIsMeant`: see their comments.

**ArenaBuffers.** Two objects at a time, two nested scopes, frames of 64 bytes that are doubled once, so that strings of
eight bytes fill one and a buffer has to leave it; growth from 4 to 9 elements, which is two
reallocations; files that are empty, smaller than the first buffer, just as large, and
larger by one and by two reallocations. `b1` and `b2` are interchangeable (symmetry).

- `ArenaTypeOK`, `BlocksAreDisjoint`: proved as well, see below.
- `ContentIsKept`: every byte of a live object has what was written to it.
- `FileIsRead`: reading ends at the end of the file, also when it fits the buffer exactly.

*Fairness* is weak fairness of mdsort's own step, `WF_vars(Mdsort)`,
`WF_allVars(MdaStep)` and, of each process, `WF_vars(Step(p))`. A process is sequential, without locks or waits: some
step of it is enabled until it is done, and the operating system runs it. In stdin
mode this includes that standard input ends and commands return. Nothing is
assumed of the reader, nor of which names `readdir()` returns of those it may.

*Assumed.* A reader renames within a maildir and does not rename over another
message. Files created by actions do not show up in the walk of a stdin
delivery of `Mda`; this matters only to actions that stay in the temporary maildir, and `Walk` has
them. A rename is
atomic and survives a crash (directories are not synced by the code).

## What is proved

The theorems hold for every value of the constants that the assumptions named below allow; the
invariants they rest on were checked with TLC, as invariants of the runs, before they were proved.

### DeliveryProofs

`DeliveryProofs` proves about `Delivery`, for every set of maildirs, devices, names, every
set of match lists and all bounds, from the assumptions `SrcDirAssumption`,
`BoundsAssumption` and `PlansAssumption` (lists are non-empty, and end with discard or
reject if they have one at all):

| theorem | statement |
|---|---|
| `TypeCorrect` | `Spec => []TypeOK` |
| `Invariant` | `Spec => []IInv` |
| `MessageNeverLost` | `Spec => []NoLoss` |
| `ErrorIsFinal` | `Spec => ErrorStops` |
| `CopyReplaced` | `Spec => GoodReplaced` |
| `NoHandleLeaks` | `Spec => []HandlesBalanced` |
| `SourceIsMessage` | `Spec => []SourceFollowsMessage` |
| `CommandReadsMessage` | `Spec => []ExecReadsCurrent` |

`NoLoss` is not inductive: it says that a good copy exists, not which, so nothing stops
that copy from being the new file that an undo unlinks, or the old one that a rename
overwrites. `IInv` adds:

- `Kept`: while an action works on its new file (`Busy`), a good copy exists in
  some *other* file. This is what makes undo safe.
- `Owned`: what `dname` names in the destination is that new file or, if a reader has
  renamed it away, nothing. So undo unlinks, and a rename overwrites, nothing else.
  The second half, that a seen name in `cur` cannot be taken away, is what keeps a reader
  from putting another file in its place.
- `Pending`: before the source is unlinked the new file is linked, whole and synced. This
  is what makes the unlink safe: the good copy that goes is replaced by this one.
- `Fresh`: files of actions not begun hold nothing, so are not good.
- `Control`: relates `pc` and `step`.

Each action has a lemma (`CreateStep`, `RenameStep`, `WriteStep`, ...); those that change none
of the variables concerned are one case (`QuietStep`). `LinkEffect`, `UnlinkEffect` and
`RenameEffect` say what the operators on directories do to each entry and are cited wherever
a step changes one.

The other theorems need more than `IInv`:

- `CopyReplaced` speaks of steps. Those that touch only the action's own file follow from `Kept` (`OwnFileOnly`); creating and
  a reader's rename leave every file linked, as both take a free name (`AllStay`); `UnlinkReplaces` is the step where one copy
  goes for another.
- `NoHandleLeaks` needs `Handles`, which says exactly which handles are open at each point, and whether the action there is
  a move: `rename`, `write` and `undo` are reached from moves and, but for the first, from writes.
- `SourceIsMessage` needs `Follows`: also in the middle of an action the message's file, and the new one, are where mdsort
  takes them to be, if they are `Pinned`: no reader has renamed anything yet, or the place is a seen name in cur, which no
  reader takes a file from.
- `CommandReadsMessage` needs `Reads`, and `Located` for the second kind of `Pinned`. Between the unlink of the old file and the opening of the new
  one a reader may take the new file away, in which case opening it fails; what has to be excluded is that it puts
  *another* file under that name, so that the command would read that one. It could only do so at a seen name in cur, and that one still holds the new file.

### DeliveryProofs: what a delivery leaves behind

What `Delivery` leaves behind, from the same assumptions:

| theorem | statement |
|---|---|
| `DeliveryComplete` | `Spec => []SuccessIsComplete` |
| `NothingLeftBehind` | `Spec => []NoLeftover` |

Both speak of the end of a list of any length, so they need to know, at every point, which entries the directories
have and what is in the files. The invariant is `Account`, which adds to `IInv`:

- `Exact`: before an action creates its file there is one entry, that of the message; while it works on it there are these
  two; then the new one. At the end there is one, or none if the message was discarded.
- `Content`: that file is on disk, and has the headers asked for once an action has written it.
- `Placed`: the source is the directory of the last move so far.
- `Outcome`: an error leads to the end of the list, and the list is carried out to its end without one.

`Exact` and `Content` are stated for `renames = 0`: a reader only ever adds to `renames`, so the proof follows the delivery up to the first
rename. `NoLeftover` allows for one failure, and the step that matters is a failing undo: to get there a call must have failed before.

That `Delivery` implements `Intent` is proved in the same module:

| theorem | statement |
|---|---|
| `DeliveryImplements` | `Spec /\ [](renames = 0) => Promise!Safety` |

`Promise` is `Intent` under the mapping of `Delivery`, and `Safety` is `Intent` without its fairness. Each system call is shown to
leave what is seen alone (`Unseen`) or to be the one with which an action takes effect (`Effect`): the rename, the unlink of the
source, the command. `Seen` computes the mapping from `Account`: the file is where the action
found it (`AtSource`) or where it has been put (`AtTarget`). With a reader the refinement does not hold, nor is it meant to: an action may
then fail after it has taken effect.

### MdaProofs

`MdaProofs` proves about `Mda`, from `MdaAssumption` in addition (`msg.stdin` is set, and the source is the `new` of the temporary maildir):

| theorem | statement |
|---|---|
| `MdaTypeCorrect` | `MdaSpec => []MdaTypeOK` |
| `AcceptedMessageIsKept` | `MdaSpec => [](~ShortWrites /\ Straight => AcceptedIsKept)` |
| `TemporaryIsGone` | `MdaSpec => []TemporaryRemoved` |
| `NothingDeferred` | `MdaSpec => []FaultlessIsAccepted` |

The hypotheses of `AcceptedMessageIsKept` are what the statement really takes, and each of them is needed: TLC finds it violated
with short writes, with a move back into the temporary maildir (`MdaMoveFlags`), and with two moves in a row to one directory (see
below). `Straight` excludes the last two and nothing else: every list that names another
directory in each move, and is in the temporary maildir at its beginning only, is straight.

Unlike `SuccessIsComplete`, `AcceptedIsKept` must hold with a reader at work, so `Exact` is of no use. What stays true is `At`: the
message's file is where mdsort has put it, or a reader has marked it as seen since, in which case it is in `cur` under its seen
name, where no reader takes it from; and mdsort's own place is empty, so mdsort's next step fails instead of acting on another
file. `Tracked` says so of the message and of the action's new file at each point. It is not inductive where an action could rename a file onto itself,
or where the path in memory is the place a reader might have moved *another* file to; `Apart` excludes the former, and holds in straight lists.

`MdaInv` adds what `main()` knows in each phase:

- `Spooling`: the temporary maildir is empty until the spool file is created, which then is the only file of all (`Alone`); it is whole and synced when
  `main()` goes on to walk. So `matches_exec()` is called in a state that is `Ready`, and `DeliveryProofs`, whose invariants
  start from `AtStart`, which is `Ready` with any number of failures before, apply.
- `Delivering`: during the delivery the invariants of those modules hold, and after it the message has `Arrived`, if no error was
  returned.
- `Leaving`: which status comes of which error, and what is left in the temporary maildir.

A step is one of `Delivery` or one of `main()`; `DeliveringInside` and `DeliveringOutside`, `SpoolingInside` and `SpoolingOutside` take them in turn.

### WalkProofs

`WalkProofs` proves about `Walk`, for any number of processes, messages, files and failures, and any rules, from `ScenariosAssumption` and `WalkAssumption`:

| theorem | statement |
|---|---|
| `WalkTypeCorrect` | `Spec => []TypeOK` |
| `NoMessageLost` | `Spec => []NoneLost` |

`NoneLost` is not inductive: a process unlinks a source because it has made a copy, and it is another process that may meanwhile have taken that copy, moved
it, copied it in turn or be about to undo it. `WInv` says why the chain never closes:

- `Numbered`: names are numbered in the order of their creation, and a file is only ever renamed to a higher number.
- `Owned`, `Tentative`: the file a process may still remove is alone under its number.
- `Unread`: nobody has parsed a complete message under the name of a file yet to be renamed over or written.
- `Kept`: before a process unlinks what it has copied, the message is safe under a number *at least that of its copy*, hence higher than that of
  what is unlinked, in a place no other process will remove. So of all copies in flight the one with the highest number is never undone, and two
  processes cannot unlink each other's copies.

Each kind of step has a lemma: `ShrinkNumbered` to `KeptRemoval` for those that only take entries away or touch none, `ParseKeeps`, `CreateKeeps`, `RenameKeeps`, `WriteKeeps`, `MarkKeeps` for the others.
The bound `MaxIds` on the number of files is a guard of `Create`; the run does not reach it, or `Ends` would not hold.

### AloneProofs

`AloneProofs` proves, from the same assumptions, what a process does to the messages that nobody else changes (`Alone`), while other processes are at work on other messages
in the same directories and a reader moves files from new to cur:

| theorem | statement |
|---|---|
| `ActedOnce` | `Spec => []ActsOnce` |
| `AllHandled` | `Spec => []EveryMessageHandled` |
| `NoOwnError` | `Spec => []NoErrorOfItsOwn` |

All three are about how `readdir()` and the changes to the directory it reads go together. `AInv` adds to `WInv`:

- `OneName`: no file has two names.
- `Worked`: whoever is at work on a message (`Busy`) has handled it and is known to have `touched` it. So with `Alone` a step of any other
  process leaves every file of the message, under its name, as it is: `OthersStay`.
- `Settling`, for `ActsOnce`: in the places in which the rule would still act (`Fresh`), there is of the message at most its first file, and only
  until the process has acted. Files the process creates are elsewhere, where the walk may come upon them without any harm: in a maildir that is not walked, in cur, or
  labelled. The exception is a labelled copy yet to be written, which nobody but its writer may look at before it is.
- `Looking`, for `EveryMessageHandled`: a message not handled is still its first file, and `Ahead` of the process in each block of its maildir that has
  not been given up: the block is yet to come, or it is the current one, and the directory is yet to be opened, or the name is among those that
  `readdir()` has to return. A reader may move the file from new to cur, which is walked later; that is why new comes first.
- `Quiet`, for `NoErrorOfItsOwn`: the names that `readdir()` may still return are all linked, and so are the two an action works with. They are
  different, as the number of the new file is higher than the one in the name of the source; so no step of the process takes away a name that it is going to use.

The proofs have shown that two conditions `EveryMessageHandled` once had are not needed: that the block is the first one for its maildir, and that the
rule does not move messages to maildirs that are walked. They also need `ScenariosAssumption` to say that the messages of a temporary maildir are in new: it has no cur, and none is
walked. `Echoes`, the bound of the run on what `readdir()` shows of new files, plays no part: they hold for any.

### BuffersProofs: the arena

The first part of `BuffersProofs` proves about `Arena`, for every set of sizes and of frame sizes, any size of the
header of a frame, with and without the poison between blocks, and any number of scopes and
blocks, from `ArenaAssumption`:

| theorem | statement |
|---|---|
| `ArenaTypeCorrect` | `ArenaSpec => []ArenaTypeOK` |
| `ArenaDisjoint` | `ArenaSpec => []BlocksAreDisjoint` |

`BlocksAreDisjoint` is not inductive either. Nothing in it says that the use a scope goes back
to when it is left is not below a block that lives on, nor that a block recognised as the last one
by its aligned end is the last one. `IInv` adds:

- `ScopesNest`: an inner scope began where the outer ones had come, in the same frame or a newer one.
- `BlocksInUse`: a block lies below the use of its frame, its aligned end too unless the frame is full.
- `BlocksOutlive`: a block lies below the use that each scope entered after it found. So `Leave` frees none of it.
- `BlocksApart`: two blocks of a frame are apart by the alignment. So the block that the fast path of `Realloc` takes for
  the last one has no other above it.

Each action has a lemma (`EnterKeeps`, `AllocateKeeps`, `ReallocKeeps`, `LeaveKeeps`, `FreeKeeps`); `PushKeeps` is the common part
of allocating in a frame and growing in place, `NewFrameKeeps` that of a new frame.
The proofs do not need that a block that grows is of the innermost scope for the arithmetic, but
for `BlocksOutlive`: a block of an outer scope that grew would be cut off when the inner one is left.

### BuffersProofs: strings, buffers and vectors

The second part proves about `Buffers`, which works in any arena, from `ArenaAssumption` and `BuffersAssumption`: any sizes of strings, of
files and of the elements of vectors, any initial capacity, and a buffer for reading of at least 8 bytes:

| theorem | statement |
|---|---|
| `BuffersInvariant` | `Spec => []BuffersInv` |
| `ContentStays` | `Spec => []ContentIsKept` |
| `FilesAreRead` | `Spec => []FileIsRead` |
| `BuffersDisjoint` | `Spec => []BlocksAreDisjoint` |

The last one is the theorem about the arena for the sizes that buffers and vectors compute, none of which need be in `Sizes`. The lemmas of the first part
are about one call of the allocator of any size, so they carry over.

- `BecomeKeeps` is what growing has in common: the elements an object had are copied if its block moved, the new ones
  are written, and neither touches a byte of another object, since blocks do not overlap (`CellsApart`). An object that is new, one that
  stays where it is and one that gets more room are `FreshKeeps`, `StaysKeeps` and `GrowsKeeps`; each operation is one of them.
- `FileIsRead` takes `Filling`: unless the file fits the buffer exactly, there is always room for more than has been read, so that a `read()` of no bytes means the end. This
  is where the eighth of the size that is reserved has to be at least 1: with a buffer of less than 8 bytes the reservation would be
  of nothing, and a full buffer taken for the end of the file.
- `Capacity` is the capacity with which the loop of `buffer_reserve()` ends, as a set of one number: that it is not too small is then the
  loop's exit condition, which the proofs use. That there is such a number is a fact about powers of two, of which the prover knows nothing; TLC's run, which reaches every operation, shows it for the
  capacities there are in it.

### Numbers

What a recursive definition computes for every input takes an induction. The library's induction theorems, which are about a predicate, are out of the
prover's reach, but one about sets is not: every non-empty set of finite sets has a minimal one (`FS_StrictSubsetOrderingWellFounded`). With the sets `0 .. k`
this is `LeastNumber`, every set of numbers has a least one, and from it follow `Induction`, with a set of numbers in
place of the predicate, `StepByStep`, that what a function has at 0 and keeps from one number to the next it has at all of them,
and `Recursion` and `RecursiveFunction`, that a function defined from each number to the next exists and stays in the set that no step leaves. `Numbers` rests on no assumption.

### HeadersProofs

`HeadersProofs` proves about `Headers`, from `HeadersAssumption`: messages of any length, any names of headers, any number of actions:

| theorem | statement |
|---|---|
| `HeadersInvariant` | `Spec => []IInv` |
| `LookupsAreCurrent` | `Spec => []LookupIsCurrent` |
| `WritesKeepHeaders` | `Spec => []WriteKeepsHeaders` |

What the binary search and the sort compute for vectors of any length takes inductions, with the lemmas of `Numbers`:

- `SearchExists`, `SearchFinds`: the search ends, finds only positions of the name, and finds one if there is any in the range and the vector is sorted.
  The range gets smaller with each probe (`SmallerRanges`). `SearchHeaderFacts`: with its neighbours, what is found is all there is, and without gaps.
- `OrdersExist`, `SortedFacts`: what a sort may return is a permutation, and in order.
- `SetHeaderFacts`: setting a header leaves the vector sorted, with that name once and every other name as it was (`IsSet`, `Keeps`), both
  when it is appended and sorted and when it replaces all its occurrences.
- `LabelWords`: the label is made of the words X-Label has, each once, by `FlattenFacts`.

Neither invariant is inductive. `IInv` says of each name what its headers are (`AsAsked`): those that were read, each with its position
as value, or one that has exactly the words asked for; that no two headers of a name have the same value (`Distinct`), so that a cached
list of them that has the right length and the right members has each once; and, until something is written, that the vector is
sorted and what is cached is what there is (`Searchable`). `Searchable` ends with the first write, which is what the run `HeadersBody` shows. The identity of a
new header is the length of the vector, which another header may have if occurrences were removed before; it decides where the new header is
written, but the order of those that were read does not depend on it.

### DecodeProofs

`DecodeProofs` proves about `Decode` that base64 is decoded exactly, and that quoted-printable is read as it was written, for texts of any length:

| theorem | statement |
|---|---|
| `EveryTextIsDecodedExactly` | for every `text` in `Seq(1 .. 255)`: `DecodedExactly(text)` |
| `Base64Exact` | `Spec => []Base64IsExact` |
| `QuotedExact` | `Spec => []((\A i \in DOMAIN items : Conforms(items[i])) => QuotedIsMeant)` |

The first one needs no assumption on constants; the second, about the texts of the runs, takes `DecodeAssumption`, which says that the pieces
are characters. `DecodedExactly` speaks of what the decoder makes of malformed texts too: no text is accepted that is not the one encoding of
what is returned, so neither padding that is too short or too long, nor bits left over, nor anything after the padding.

- `FilledStep`: the target after `i` digits has a closed form, `Filled(d, i)`, in which the bytes not yet begun are missing and digits not yet read count as 0. `AddDigit` leads from
  one to the next, in each of the four states of the loop (`FilledFirst` to `FilledFourth`); by induction it is what the loop computes (`TargetIs`).
- `SubSeqIsBytes`: of complete digits these are the bytes of the reference, group by group (`GroupBytes`, `GroupDigits`).
- `RoundTrip`: the digits of these bytes are the digits read, if no bits are left over. Where the last group has two or three digits this is the
  test for a zero in the byte begun last (`LastEntry`), the one the code calls a subliminal channel.
- `Accepted` is the one direction: what the code accepts is the encoding of the result. `Encoded` is the other: what is the encoding of some bytes has the
  digits and the padding the code asks for.

`Conforms` is what RFC 2045 has a sender write: a character other than `=`, an octet in two upper-case digits, or a soft line break. `ItemRead` is that the
decoder, wherever it comes to such a piece, reads it in one step; `InPlace` is where the pieces are in a text that is put together from them, and
`ItemsRead`, by induction over the pieces, that the decoder comes to each of them. The theorem leaves out escapes that are malformed: whether `=` stands
for itself depends on the piece that follows.

### Only model-checked

- Liveness: `Ends`, `Exits`, and the fairness of `KeepsPromise`. It takes `ENABLED`, which is out of the prover's reach.
- `Evaluate` and `Message`, which are recursive over expressions and parts, with `RECURSIVE` operators, which the prover does not
  handle.
- `QuotedIsMeant` for texts with pieces that do not conform, and `HeaderIsMeant`: they compare the result with what each piece says it means, and hold of the pieces of
  the run. For which other pieces they would is a condition on how one piece ends and the next begins, which comes to the definition of the decoder again.
- `AcceptedIsKept` for lists that are not straight, of which the runs have some.


## Disagreements found

Three runs are expected to end in a violation. Each checks one statement of the
documentation or a comment, and stands for one entry of `findings`.

- **`MdaMoveFlags`**: stdin, `move` and then `flags`. The refusal to move into the temporary
  maildir looks at the flags of the current source, which after the move is no longer
  the temporary one; and the destination of `flags` is still the temporary maildir. The
  message is moved back there, and removed with it. Status 0: the message is gone.
- **`EvaluatePass`**: a nested block without a match, after a rule with `pass`, ends the
  enclosing block with a match; later rules are not evaluated.
- **`HeadersBody`**: `message_write()` sorts the headers by position and leaves them so; the binary
  search of later look-ups then misses some. `exec stdin body` after a label, or after a
  move to another file system, gets the body undecoded, unless a pattern on the body had it
  decoded before.

Met on the way, without runs of their own, most of them in `hazards`:

- `maildir_stdin()` compares the result of `write()` to -1 only: what a short write leaves out is missing
  from the message, which is delivered with status 0 (`maildir.c:456`; `MdaDeliver` with
  `ShortWrites = TRUE` shows it).
- If the temporary maildir cannot be created, `maildir_close()` rewinds a null directory handle
  (`maildir.c:119`); the process is killed instead of exiting with 75. `Mda` has this outcome (`NullRewind`).
- `flag !new` and then `label`, or `flag !new` in an earlier rule than a move: the message ends up in cur
  without the S flag, as the flags of the new name are not remembered (`maildir.c:572`).
- The actions that come before an attachment block in a rule are in the list even if the block does not
  match; they are executed if a later rule does (`expr.c:465`). Those after an attachment block
  have their back-references resolved among the matches of the last rule tried in the block (`match.c:506`).
- A boundary is recognised only as the first parameter of Content-Type and in quotes (`message.c:978`); the
  text of a message ends at its first NUL, for rewriting too (`message.c:208`); empty lines
  before a body are dropped (`message.c:662`).
- After an error in parsing attachments, asking for them again returns the ones parsed so far as if
  there had been none (`message.c:562`); evaluation stops at the first error, so nothing asks. While a
  nested multipart is parsed, `msg` points into the vector of attachments, which may grow and move
  in between (`message.c:893-910`).
- An error in a rule of an attachment block returns without freeing the list of attachments (`expr.c:521`).
- The path macro of a command is the path at evaluation, also after a move (`match.c:108`). `qsort()` leaves open the order of headers of the same
  name (`message.c:660`).
- `flag` after a move with a back-reference copies the maildir of the move before
  interpolation: the message is delivered to a maildir named, literally, `\1` (`match.c:484`).
- `flag`, `move` and a second `move`: the flag is lost, as the second move replaces the
  merged one and infers its subdirectory anew (`match.c:463`).
- A message that ends in a header line without a newline loses the rest of that line when it is
  rewritten (`message.c:764`).
- Two moves in a row to the same directory, in stdin mode: if a reader has renamed the message in
  between, the second move may create its file under the name that has become free (the counter is a random
  number below 128, `maildir.c:364`), and renames that empty file onto itself. What a later move then delivers, with
  status 0, is the empty file. The hypothesis `Straight` of `AcceptedMessageIsKept` excludes it.
- Without stdin `flags` after a move undoes the move (`match.c:59-66`).
- The example of release 11.4.0 (`CHANGELOG.md:57-62`), `flags` with `pass` and then `move`
  in stdin, is refused with 75 (`maildir.c:181`).
- Labels a message already has are interpolated again (`match.c:367`).
- `reject` is exclusive within its rule only: a move with `pass` in a rule before is executed,
  and the message both delivered and rejected (`parse.y:840`).

## What is not modelled

- **Macros and validation** in `parse.y`, `conf.c` and `macro.c`: the grammar, where macros are expanded, which rules are
  refused. It runs before any message is touched; what the other modules need of it is an assumption
  (`WellFormed`) or the choice of configurations.
- **The letters of a line**: which ones make a name of a header, flags of a file name other than S, the syntax of Content-Type beyond the five
  forms of a boundary.
- Attachments of attachments in rules (`Evaluate`; `Message` has them); macros in actions; dry run.
- Regular expressions, commands, dates and the clock: their results are inputs of `Evaluate`.
- `util.c` but for the result of a command, logging, the environment, compatibility shims, the
  test and fuzz harness.
- Of libks: functions run when a scope is left, statistics, tracing, memory poisoning, overflow of sizes, buffers on the
  heap, sorting of vectors (as part of `Headers` only), `arithmetic.c`, `fs.c`, `consistency.c`, `valgrind.c`.
- Failing allocations, which end the process as a crash does.

## Plan

Done: `Intent`, `Delivery`, `MatchList`, `Evaluate` with attachments, `Mda`, `Headers`, `Walk`, `Message`, `Decode`, `Arena`, `Buffers`,
and the proofs about them but for `Evaluate` and `Message`. What could come next:

1. Proofs: lemmas about `MergeTail` and `RemoveByType`, which need other forms of the definitions first, as the prover does not
   expand `SelectSeq`; then `PlansAreWellFormed`, with evaluation as a recursive function over the subexpressions of a tree.
2. `Macros`: `macros_insert`, contexts and use counts against the documentation.
3. Validation: `expr_validate()` and the depth bookkeeping of the grammar, so that the configurations of
   `Evaluate` are those it accepts.
