# A TLA+ verification of the atools build scripts

atools is a small environment for building libaroma, a graphics library for
recoveries and other embedded Linux systems, on a Windows computer. The program
proper is five batch scripts. They read a configuration, compile six bundled
libraries into one archive, compile libaroma into another, link programs with
both and run them. Everything else in the repository is third-party source that
the scripts hand to the compiler.

This directory models all five scripts and the test program, and those parts of
the bundled libraries that keep state from call to call in ways that are hard to
test. TLC checks the models on small instances, and TLAPS proves for every
instance the invariants and refinements that matter most.

## Contents of this document

1. Inventory: the parts of the system
2. What is hard about them
3. The modules and how they correspond to the code
4. How the model treats the batch language and the tools
5. The runs and their bounds
6. Fairness
7. What the runs show: disagreements between documents and code
8. The proofs
9. What is only model-checked, and what is not modelled
10. Plan

## 1. Inventory

### The settings loader, `_setldr.cmd`

*State.* The environment variables of the console: the `LIBAROMA_*` variables,
`LA_GENERIC_CFLAGS` (flags for every compilation) and `LIBAROMA_OUT` (the folder
to build in). There is no other storage; a script passes its settings on to the
scripts it calls by calling them in its environment.

*Operations.* One: `call _setldr.cmd [config]`. It reads `config.txt` or
`config-<config>.txt` line by line, assigns the variables, gives up if the
source path or the platform is missing, assembles the flags, resolves the
platform `android` to `linux` plus a mark, and names the out folder.

*Callers.* Every other script, first thing. The loader does not open a scope of
its own with `setlocal`, so what it does to the environment stays.

*Correct if* the variables are what the config says, whatever the order,
repetition and decoration of the lines; what the file does not say is inherited
and nothing else; and a nested script that loads the same config again ends up
with the settings and folder of its caller.

### The library builder, `alibs.cmd [config] [names]`

*State.* Its own environment and current folder, its place in the loop over the
libraries; on disk `<out>\libs\<library>\*.o` and `<out>\libadeps.a`.

*Operations.* Load the settings; choose the libraries; for each of them delete
and remake its folder, compile its units there, add all objects found to the
archive with `ar -r`.

*Interacts with* the loader (call, shared environment), `abuild.cmd` (which calls
it and reads its archive), other consoles (shared folders), and the user, who
edits configs and sources and presses Ctrl-C.

*Correct if* it never deletes what it did not make; the archive never mixes
objects that cannot work together; a run that is left alone makes every library
it was to build right, whatever earlier runs left; and it comes back to the prompt.

### The libaroma builder, `abuild.cmd [config]`

*State.* As above, with `<out>\aroma\*.o` and `<out>\libaroma.a`.

*Operations.* Load; call `alibs.cmd` with its own first argument if
`<out>\libadeps.a` does not exist; remake `<out>\aroma`; compile; archive.

*Correct if* the nested run agrees with it on settings and folder, and
`libaroma.a` is right at the end of a run that is left alone.

### The program builder, `atest.cmd [config] folder`

*State.* As above, with the program `<out>\<folder name>`.

*Operations.* Load, without checking the result; call `abuild.cmd`, without any
argument, if `<out>\libaroma.a` does not exist; compile and link.

*Correct if* a program never combines objects for different cpus, and a build
from scratch finds what the nested scripts made.

### The program runner, `arun.cmd [config] name`

*State.* The programs in the out folder; on the device `/tmp/test` and `/tmp/gdb`.

*Operations.* Run the `.exe` if there is one; otherwise push the program to the
device with `adb` and run it there, under a pushed debugger if one is configured.

*Correct if* an undisturbed run starts the program that was asked for: the one in
the out folder, by the debugger if one is configured, and on the device nothing
older.

### The test program, `test/test.c`

*State.* The window, its control, whether the window is on libaroma's pool, its
message queue. *Operations.* Start libaroma, make a window and a control, handle
messages until one says exit or the window has left the pool, free the window,
end libaroma. libaroma is not in this repository; other threads of it post
messages and may take the window off the pool.

*Correct if* every way out frees the window, nothing touches it afterwards, and a
request to exit ends the program.

### Third-party code

`drm/` (libdrm), `freetype/`, `harfbuzz/`, `jpeg/`, `png/` and `zlib/` are
unmodified libraries with their own projects and tests. To the scripts they are
the units that a library's routine compiles. They are also nearly all of the code
that ends up in a program, so the parts of them are modelled that carry state
between calls and that a model checker reaches:

* **libdrm, random numbers and hash table** (`xf86drmRandom.c`, `xf86drmHash.c`). A
  generator; a table of lists that reorders itself on lookup and has one
  iteration. *Correct if* a draw is the product modulo the prime, the table is a
  mapping, and an iteration finds every key if the program is gentle to it.
* **libdrm, connections and devices** (`xf86drm.c`). An array of shared
  connections, an entry of tags for each device, the enumeration of `/dev/dri`.
  *Correct if* a connection is open as long as somebody uses it, an entry belongs
  to a device that is open, and a list of devices has each of them once, whole,
  with nothing leaked, while devices come and go.
* **libdrm, mode setting** (`xf86drmMode.c`). Atomic requests, their commit, and
  the queries that count, allocate and fill. *Correct if* a request is a list
  whatever memory does, the kernel is sent what it says, and a query returns what
  the kernel had at one moment or nothing, and frees the rest.
* **harfbuzz, the buffer** (`hb-buffer.cc`). Glyphs and output in one block of
  memory or two. *Correct if* it is a list with a cursor, text keeps belonging to
  glyphs, and no cell is read that nobody wrote.
* **libjpeg, the way of the rows** (`jdmainct.c`, `jdsample.c`, `jdmerge.c`, the
  application's calls). Pointers into a ring of row groups. *Correct if* every line
  of the picture is computed from the right rows, once, in order.
* **zlib, inflate** (`inflate.c`, `inffast.c`). A state machine that stops anywhere
  and a circular window. *Correct if* the text of a stream does not depend on how
  the calls cut it.
* **libpng, freetype.** Not modelled (section 9).

## 2. What is hard about them

* **Nothing is checked.** Of all the commands the scripts run, none has its exit
  code looked at. A `mkdir` that fails lets the next `cd` fail, after which
  relative paths mean something else; a compiler that fails lets `ar` go on with
  what is there.
* **Nothing is cleared.** The environment is inherited by nested scripts and the
  loader overwrites only what the config names. `ar -r` inserts and replaces but
  never removes.
* **Existence stands for completeness.** `abuild.cmd` trusts any `libadeps.a`,
  `atest.cmd` any `libaroma.a`.
* **The world moves.** The user may interrupt a script between any two commands,
  edit a config between (or during) runs, update the sources of a library, and
  run scripts in two consoles, in two out folders or the same one. Devices are
  unplugged between two ioctls.
* **Memory is reused.** Libraries keep pointers and positions into blocks that
  they also write: an iteration into lists that reorder themselves, output over
  input, rows that the next rows will overwrite, a window that wraps around.
* **Calls stop in the middle.** For want of data, room or memory a library leaves
  a half-done piece of work and has to find its way back at the next call.

`PROJECT.json` lists each hazard at the line where it bites, with the properties
that would notice it going wrong, or the reason why none does.

## 3. The modules and how they correspond to the code

```
Settings             what one load computes, as operators
  SetLdr             _setldr.cmd line by line, checked against Settings
  Arun               arun.cmd, consoles and a device
  DepLibs            which libraries, which units, which flags
    Alibs            alibs.cmd in several consoles; implements Archive
      Build          abuild.cmd and atest.cmd around it
TestApp              test/test.c, with libaroma around it

DrmRandom            xf86drmRandom.c, against the product modulo m
DrmHash              xf86drmHash.c; implements DrmMap
DrmConnect           shared connections, descriptors and tags of xf86drm.c
DrmDevices           the enumeration of devices in xf86drm.c
DrmAtomic            atomic requests of xf86drmMode.c; implements PropertyList
  DrmCommit          what a commit makes of a request
DrmQuery             count, allocate, fill: the queries of xf86drmMode.c
HbBuffer             harfbuzz's buffer; implements GlyphList
JpegRows             libjpeg's rows; implements Scanlines
Inflate              zlib's inflate; implements Unpacked

Programs             Arun, TestApp, DrmQuery, JpegRows and Inflate side by side
Libdrm               the other modules about libdrm side by side

MCSetLdr, MCAlibs, MCBuild       config files and command lines for TLC
MCPrograms, MCLibdrm             configs, pictures and streams; keys and nodes
MCHbBuffer                       texts for HbBuffer

SettingsTheorems                 facts about Settings
  SetLdrProofs                   the loader is correct
  AlibsProofs                    alibs.cmd: types, sources, cpus, its archive
    BuildProofs                  the chain of scripts: types, cpus, settings, and what it
                                 achieves if nothing disturbs it
  ProgramsProofs                 arun.cmd, the queries of libdrm, the test program,
                                 the counts of libjpeg's rows, inflate
    PictureProofs                libjpeg hands out the picture
LibdrmProofs                     random numbers, requests and their commit, hash table,
                                 connections, devices
HbProofs                         harfbuzz's buffer: memory, the list it is, its clusters
```

Six abstract specifications say what a component promises, and the detailed one
is shown to keep it, as a PROPERTY of a run with a refinement mapping:

| promise | kept by | mapping |
| --- | --- | --- |
| `Archive`: one library at a time, one object per name, no name lost | `Alibs` (`ArchiveSpecHolds`, also proved) | the members of all archives, and the folders that have one |
| `DrmMap`: a mapping; each call takes effect at once | `DrmHash` (`IsMapping`, also proved) | the buckets of all lists, without their order |
| `PropertyList`: a list that grows at its end and may be cut | `DrmAtomic` (`IsList`, also proved) | the items below the cursor |
| `GlyphList`: a list with a cursor | `HbBuffer` (`IsList`, also proved) | the output, and the input from `idx` on, wherever they are |
| `Scanlines`: the lines of the picture in order, each once | `JpegRows` (`IsPicture`, also proved) | the lines a call returned |
| `Unpacked`: the text of the stream, then the end or the right error | `Inflate` (`IsText`, also proved) | all that was put out since the last reset |

**Settings** translates `_setldr.cmd` into one operator,
`LoadSettings(env, file, arg)`. The other modules use it where a script calls
the loader: the call reads one small file, and nothing else happens in that
console meanwhile. `LoadedVars` is declarative: the last line that gives a
variable a value decides, otherwise it is inherited. `ResolvePlatform` is lines
36-39, `OutFolder` lines 40-44 (with the comparison of a literal text that makes
the suffix unconditional), `GenericFlags` lines 25-34, cut down to the flags
that depend on a setting.

**SetLdr** is the same script operationally. `pc` is the block to come, `ln` the
line `for /f` will read. `SkipLine` and `SetLine` are the two ways through the
loop body, `Fail`, `SetFlags`, `SetPlatform` and `SetOut` the blocks after it.
`Call` may be made again in the environment the last call left, with another
config, which is what a chain of nested scripts does. The history variable
`entry` remembers the environment of the call, so that the result can be
compared with `LoadSettings(entry, file, arg)`.

**DepLibs** is the data of `alibs.cmd`: `TargetLibs` is lines 18-25, `Units` what
`call :<name>` compiles, `LibFlags` the flags of the routines. The unconditional
sources of a library are the constant `Common`, a few names that stand for all
of them; the conditional ones are `neon` (the assembly of png and jpeg) and
`nobs` (the memory manager jpeg gets without neon).

**Alibs** has one action per command or group of commands that can go wrong or
be interleaved independently:

| action | lines of `alibs.cmd` |
| --- | --- |
| `AlibsLoad`, `AlibsGiveUp` | 5-13, and the choice of libraries 18-25 |
| `AlibsEnter` | 15-17, `mkdir` and `cd` |
| `AlibsDone`, `AlibsInvalid` | the end of the loop, and line 30 |
| `AlibsPrepare` | 32-34, `rd`, `mkdir`, `cd` |
| `AlibsCompile` | 35 and the routine it calls |
| `AlibsList` | 36-37, the object names |
| `AlibsArRead`, `AlibsArRefuse`, `AlibsArWrite` | 38, `ar` |
| `AlibsUp` | 39, on to the next name |
| `AlibsEnd` | 287-289 |

`al[s]` is the run in console `s`: its block, arguments, environment, how many
folders it is below the atools folder (`cwd`), the libraries and the position in
them, the listed names, and the archive `ar` holds in memory. An object is a
record of where it is, what it was compiled from (library, unit, revision of the
sources) and with which flags; the archive members of all out folders are one
set of such records. `calm` is history: it becomes false when a failure, a source
update or another run in the same folder touches this run.

**Build** adds `abuild.cmd` and `atest.cmd`. A script that calls another one puts
it into the same console with its own environment, and waits until that console's
inner run is over (`AbuildGoesOn`, `AtestGoesOn`). The steps of the inner
`alibs.cmd` are those of `Alibs`. `Disturb` carries disturbance to the callers.
`AtestLink` has three outcomes: the program; no program or the old one, which is
possible when something the program needs is missing; and the same after a failure.
The sources of libaroma are grouped into the units a setting adds or leaves out:
`main`, the platform's, `memtrack` and `minzip`.

**Arun** has an action per `adb` command. `Find` chooses between the `.exe` and the
device, `PushGdb`, `ChmodGdb`, `Push`, `Chmod` and `Start` are lines 22-38.
`dev` is the two files on the device, which all consoles push to. A command that
fails leaves things as they are and the script goes on. A program is known by its
folder, name and the number of its build, so that a stale one shows.

**TestApp** has an action per statement of `winmain` and `main`, and one for the
other threads. A message is taken from the queue by `Pool`, which waits when there
is none.

**DrmRandom** does the arithmetic in words: the difference is taken modulo `Word`
before it is compared and put back. **DrmHash** keeps the lists that some key hashes
to, with the table's own scatter numbers, which the model computes from the
generator; `p0` and `p1` are the iteration, and a pointer to a bucket that was freed
is `Freed`. **DrmConnect** has the calls that open and close, by connection and by
descriptor, and the tags; `past` is history: who uses what drmOpenOnce returned,
kept while the program closes what it has opened in the same way. **DrmDevices**
reads `/dev/dri` a name a step, and devices come and go in between; `drmGetDevices2`
and `drmGetDevice2` fold the entries of a device and then hand out one entry a step,
which is when the number of a descriptor may have become another device's. **DrmAtomic**
separates what is allocated from what the code thinks is allocated, with `Junk` in
memory that nobody filled. **DrmCommit** has no step of its own: a commit leaves the
request alone, so that `CommitIsRight` looks at what it would send in every state,
for every order that `qsort` may give equal items. Its two loops are functions of the
number of turns, `Turns` and `Fill`. **DrmQuery** is the pattern of
five queries. A query is a record in `Kinds`: its lists in the order they are
allocated, those that get an element on the stack when they are empty, and whether a
retry starts with a clear struct or goes on with the old one; `ask` is the one that
is made.

**HbBuffer** keeps `info` and `pos` as memory with `Junk` in the cells that no one
may read any more. After each operation `Tidy` makes junk of what is not in use,
so that an operation that reads too far shows in `TypeOK` or `IsList`.

**JpegRows** is one record `d`, what hangs off the decompression struct. A sample
row is its number, memory is a function from places to rows, and the two lists of
pointers are functions to places. `ReadScanlines` is one call of the application
with all that it makes the library do: `Filled` decompresses an iMCU row over rows
in memory and `Suspended` part of one, the pointer operators are those of
`jdmainct.c`, `SepUpsample` and `MergedUpsample` put out lines. A line is the
sample rows it is computed from: `IsPicture` compares these with what the
picture's own geometry says, at the top and bottom edges too.

**Inflate** is one record `z`, the stream and the inflate state, with a step per
case of the big switch, `Return` for the way out, and `Fast` for a symbol in
`inflate_fast`. The bits of a length, a header or a check value are one unit of
input: what varies is where a call stops, how much room there is, and what is in
the window. `Leave` is what every return does: it keeps the window if it may be
needed, and counts the output in the check value.

**Programs** and **Libdrm** are unions: their parts share no variable and no call.
The variable `part` is chosen in the first state, only the actions of that part
are taken, and the other variables keep their initial values. So the state space
is the sum of the parts and not their product, and a run checks each part exactly
as a run of its own would. A part that has nothing left to do stutters (`AppRests`,
`RowsRest`, `StreamRests`); everywhere else deadlock is an error.

Operators whose comment begins with "Faulty variant" are not used by any
specification. Each is a plausible mistake in the code (a dropped reset, a path
relative to the wrong folder, a forgotten argument), and putting it in the place
of the definition after it makes TLC find a violation of the property it is
paired with in `PROJECT.json`.

## 4. How the model treats the batch language and the tools

* **Undefined variables** read as the empty string. That is what the comparisons
  of the scripts see, and `if defined` agrees with it.
* **Scopes.** `setlocal` and `endlocal` bracket each of the three build scripts, so
  the end of a run gives its caller environment and current folder back; the
  model's run simply ends. The loader has no scope.
* **Lines.** `for /f` with `delims==` yields the text before the first `=` and the
  field after it. A half of a line is its text plus whether blanks or quotes are
  around it; `:trim` removes these. Values with `&`, `!` or `%` in them, and values
  that are blank without being empty, are outside the model: for the latter,
  `:trim` misbehaves in ways that depend on the shell.
* **A missing config** behaves like one without lines: `for /f` prints a message.
  The scripts differ in what they do about the name. `alibs.cmd` takes it for a
  library, the others load nothing.
* **`cd`** stays where it is when the folder does not exist. A relative path is
  then resolved from there: this is why `FolderSeen` demands `cwd = 2`, and why
  `RemoveFolder` would delete *sources* at `cwd = 0`.
* **`rd /s /q`** either empties the folder or fails because a file is in use.
  Then `mkdir` fails as well, `cd` does not, and the old objects stay.
* **The compiler** compiles any subset of the units: the whole of it, or, as a
  failure, less.
* **`ar -r`** reads its archive and the named objects, replaces members by name,
  adds the rest, and writes the archive. It leaves the archive alone if a named
  object has gone. Between reading and writing, another `ar` may do the same.
  No two libraries share the name of a source, so the library and unit of an
  object identify its member.
* **Labels.** `call :<name>` for a folder without a routine (`test`) complains and
  returns; the loop then archives nothing. In Alibs that creates an empty archive.

## 5. The runs and their bounds

| run | what varies | states |
| --- | --- | --- |
| `set_ldr` | five config files, two consoles' environments, any sequence of calls | 1,768 |
| `alibs_one` | 1 console, 5 command lines, 3 contents of `config.txt`, a second config for the same folder and one without a must-have line, 1 failure, 1 source update | 308,202 |
| `alibs_two` | 2 consoles, 2 configs in 2 folders, 1 failure | 264,081 |
| `build_chain` | 1 console, all three scripts, 1 failure; linux and android/neon in one config, or a custom config and a `config.txt` that inherits the cpu | 626,991 |
| `build_two` | 2 consoles, `abuild.cmd` with 2 configs | 246,389 (symmetry) |
| `build_live` | 1 console, a custom config that may be missing, 1 failure | 69,100 |
| `programs` | one of five: `arun.cmd`, the test program, two kinds of libdrm's queries, libjpeg's rows, inflate | 371,648 |
| `libdrm` | one of six: random numbers, hash table, connections with their tags, requests, commits, devices | 784,448 (symmetry) |
| `hb_buffer` | five texts of up to three glyphs and the empty one, any operations, failing allocations | 80,829 |

Every state space is exhausted. The bounds, by name:

* `Sessions`: one or two consoles. Consoles interact through folders only, and
  each harmful interaction takes two.
* `Common`: one name. The unconditional sources of a library are always treated
  alike; next to the conditional units, one of them is enough for a partial
  failure of a library with two units.
* `Versions`: the contents each config may have. They are chosen so that two
  contents share a folder but differ in units or flags, and others share a
  platform but not a folder. `OneVersions` makes all of these possible:
  `config-linux.txt` has the folder of `config.txt` with platform linux, and
  android joins them after it is resolved.
* `LibArgs`: command lines with one to three names, among them an invalid
  library name, a folder without a routine, and a config name in front. The
  script takes at most six names; that cut is in `TargetLibs`.
* `MaxFaults`: one failure or interruption per behaviour. One is enough for each
  hazard listed, as each is one failure followed by commands that believe it did
  not happen. It is spent at any step. `build_two` and the three runs of section 7 have
  none: the first has its variety from the second console, and the disagreements
  need no failure.
* `MaxUpdates`, `Updated`: one update of one library's sources.
* `ChainOrCustom` of `MCBuild` keeps the two scenarios of `build_chain` apart: a
  behaviour has either no custom config, or a custom one and one content of
  `config.txt`.
* `Arun`: two consoles, as a program on the device is replaced by another console
  only; `MaxBuilds`: two builds, the first and one that makes it stale.
* `TestApp`: four messages (`MaxPosts`), so that some come before and some after the
  one to exit.
* `DrmRandom`: `M` = 251 in words of 256, where the difference wraps around for
  many seeds, all seeds up to `2 * M`, and three draws. The proof is about the real
  constants.
* `DrmHash`: five keys, two in the first list, two in one in the middle, one in the
  last, in the real table of 512 lists with the real scatter numbers.
* `DrmConnect`: three nodes for an array of two (`MaxFds`; 16 in the code), so that it
  overflows; `MaxHeld`: two uses of one connection.
* `DrmAtomic`: pages of two items (`Inc`) and four items (`MaxItems`), so that a request
  grows once and a merge grows it again; a commit of four items has three of one
  property next to one of another, and two of each.
* `DrmDevices`: three names, two of one type, at three places on two buses; room for
  three nodes (`MaxNodes`; 256 in the code), a caller with room for two devices, two
  hotplug events (`MaxPlugs`): a device goes and another one comes under its number,
  while the directory is read or between reading and handing out. `DrmQuery` has two events for the resources and
  three for a connector, whose lists one event may all change, and two ids: a list
  may grow, so that the query retries, and be empty then.
* `HbBuffer`: memory of four cells that grows by one (`Allocated`, `Growth`) to at most
  four glyphs (`MaxLen`); clusters that rise, fall and repeat.
* `JpegRows`: 33 pictures. Six kinds of sampling and scaling lead to each of the
  upsamplers the model has, to context rows or none, and to iMCU rows of one to four
  row groups; the heights are those around the borders of iMCU rows, where
  the last rows are repeated. One to three lines a call (`MaxLines`) stop within and
  at the border of a row group. `MaxPasses`: two, as the second starts from what the
  first left in the pointers.
* `Inflate`: a window of four bytes (`WSize`; 32768 at most in the code), matches
  of three (`MaxMatch`; 258), up to three units of input (`MaxIn`) and four bytes
  of room (`MaxRoom`) in a call, so that a call is shorter than, as long as and
  longer than a match and the window; two units are enough for `inflate_fast`
  (`MinIn`). Twelve streams: matches that wrap around the window, overlap
  themselves or start in the window and end in the output; blocks stored, empty
  and as long as the window; dictionaries shorter and longer than the window; a
  distance too far back; what is no header of a stream, a block or a stored block,
  no code of a length and no code of a distance; a wrong check value.
  `MaxResets`: one.

What each run shows:

* **`set_ldr`**: the loader computes `LoadSettings` (`LoadsSettings`), a second load
  is without effect (`ReloadIsStable`), each call returns (`CallReturns`).
* **`alibs_one`**: `SourcesKept`: whatever fails, `rd` never finds a source folder.
  The existence test on line 30, which is there to reject invalid names, is what
  prevents it: two folders up from anywhere else there is no such name.
  `OneCpuPerArchive`: no archive has objects for two cpus, even though configs that
  differ in the cpu take turns, because the cpu is in the folder's name.
  `CalmRunRepairs`: an undisturbed run makes its libraries right.
  `ArchiveSpecHolds`: `Alibs` implements `Archive`. That no name is ever lost includes
  the members whose unit new settings do not compile: they stay.
* **`alibs_two`**: `CalmRunRepairs` and `MembersKept` next to another console: a run in
  another folder is no disturbance; one in the same folder is, but what the two
  left there does not harm the next undisturbed run.
* **`build_chain`**: `CalleeAgrees`: the nested `alibs.cmd` has exactly its caller's
  settings, although by then android has become linux. `AbuildRepairs`: what
  `CalmRunRepairs` says, for libaroma. `ProgramOneCpu`: a linked program is for one
  cpu. `DefaultConfigLinks`: with `config.txt`, a build from scratch links.
  Its other scenario has a custom config given to `atest.cmd`, whose nested
  `abuild.cmd` loads another one over it: `ProgramOneCpu` holds all the same.
* **`build_two`**: `AbuildRepairs` with two consoles.
* **`build_live`**: each command line comes back to the prompt (`BuildsEnd`).
* **`programs`**: `CalmRunStarts`: if nothing interferes, `arun.cmd` starts the
  program it was given as it is in the out folder, whatever earlier runs left on the
  device. A failed command, another console's push and a build of the program in the
  middle of the run are what interference means; a Windows debugger that is
  configured but missing is the one excuse. `ResultIsSnapshot`: the lists of a query
  are what the kernel had at one moment. `HeapIsClean`: queries free everything
  once, except for a connector query that retries into an empty list or out of
  memory. `ExitEnds` and `QueryReturns` are liveness. `IsPicture` and `IsText` are
  the refinements of `Scanlines` and `Unpacked`. `ProgramsTypeOK` includes that the
  test program calls libaroma in order and its window only while it has one, that it
  frees the window on each way out but when its control fails, that the lines
  libjpeg has counted are those the application has read, and that inflate's window
  is the end of the text.
* **`libdrm`**: `IsProduct`: a draw is the product modulo the prime. `IsMapping`,
  `IsList`: refinements. `GentleVisits`: an iteration during which the program
  only asks for or deletes the key it has just been given visits every key once,
  but for those of the first list, which are visited twice, and of the last, which
  are not visited. `OpenIsCounted`: shared connections are open while used, and
  only those beyond the array leak. `EntryIsOpen`: the entry of a device names a
  descriptor that is open on it. `CommitIsRight`: the arrays a commit sends have
  room, name no object twice and set each property of the request to one of its
  values. `DevicesAreRight`: no device twice, no entry leaked on any way out, and
  all devices with all their nodes when nothing was plugged meanwhile. The run is also
  what found the leak: `drmGetDevice2` keeps the *last* entry that has the node of the
  descriptor (`xf86drm.c:4168`), and when a node went and came back as another
  device's while the directory was read, two have it and the first is lost.
  `NothingLeaks` excepts exactly this (`ReadTwice`).
* **`hb_buffer`**: `IsList`: the refinement. `TextCovered`: clusters that go up
  or down through the text still do, and its first cluster still belongs to a glyph
  as long as one is left, whatever was deleted and merged. `InplaceAgrees`: glyphs
  deleted in place leave the list that deleting them in a pass would.

Deadlock is checked in all of them. In the runs about scripts the user can do
something in every state, such as start a script or edit a config.

## 6. Fairness

`FairBuildSpec` assumes weak fairness of the steps of a console's scripts, one
condition per console. The justification is the shell: it executes
the commands of a script one after another without waiting for anything but the
command it has just started, and a compiler, an archiver or `rd` ends with or
without success. No fairness is assumed of the user: no script needs to be
started, no config needs to be edited, nothing needs to be interrupted. In
`SetLdr`, the fairness is that of the loader's own steps only, not of calls to it.

`BuildsEnd` is not about the tools, then, but about the control
flow: loops that end, failed `cd`s that do not send the loop around again, missing
labels that return, and nested scripts that their callers do get to see ending.

`ProgramsSpec` assumes weak fairness of `RunsOn`: the main thread of the test program
and the steps of a query. Both are threads the operating system schedules. The
step that waits for a message is enabled only when there is one, so no message is
assumed to come, and nothing is assumed of the other threads, of hotplug events or
of the calls that fail. `ExitEnds` starts from a request that is in the queue.
`QueryReturns` relies on the bound `MaxPlugs`: hotplug events stop some time. If
they never did, a query might retry for ever, and so might the code.

## 7. What the runs show: disagreements between documents and code

Three runs are expected to find a violation. Each states one sentence of the
repository's README.

* **`set_ldr_folder`, `FolderAsDocumented`.** README.md:29-30 promises `out-<platform>`
  and a suffix only if `LIBAROMA_CPU` is set. `_setldr.cmd:44` compares the text
  `LIBAROMA_CPU`, which is never empty, so the folder is `out-<platform>_` without it.
* **`build_doc_custom`, `CustomConfigLinks`.** README.md:21 promises that the config
  name may be passed "as the first argument in any build script". `atest.cmd:21`
  calls `abuild.cmd` without it. `abuild.cmd` loads `config.txt` over the custom
  settings and builds in that config's folder. The link in the custom folder fails.
  `ProgramOneCpu`, which holds, says that at least no wrong program comes of it.
* **`build_doc_libs`, `AbuildHasItsLibs`.** README.md:11 promises that `abuild.cmd`
  builds the libraries "if you didn't build libraries". `abuild.cmd:8` does so only
  if there is no `libadeps.a`. After `alibs.cmd zlib`, as README.md:38 suggests, the
  other libraries are missing and stay missing. The run needs no failure at all.

Some comments disagree with the code in ways that no run states, as they
concern what a comment of a library means by a word:

* `drm/xf86drmMode.c:1391` says that duplicates are filtered. Of three settings of
  one property, two are sent, as the loop goes on behind the one it kept.
  `CommitIsRight` says "once" of properties set at most twice.
* `drm/xf86drm.c:4204-4205` says that the number of devices returned is capped. The
  loop stores at most that many and returns the number it found.
* `zlib/src/zlib.h:510-512` has inflate return `Z_BUF_ERROR` "if no progress was
  possible". With `Z_BLOCK`, a call right after `inflateSetDictionary` returns it with
  input and room at hand, since it stops before the first block without having
  moved anything (`inflate.c:848-850`). `Progress`, a part of `IsText`, exempts that
  call and no other.

## 8. The proofs

TLAPS checks the following for all values of the constants: any number of
consoles, any config files, any command lines, any texts, any bounds on failures,
updates and retries. The assumptions on constants are named and stand in the
modules that declare them; TLC evaluates them in every run of these modules:

* names that the scripts use are texts, where `Text` is the constant that stands for
  strings, and config files are lists of lines: `TextAssumption`, `LibNames`,
  `UnitNames`, `AromaUnitNames`, `CommonAssumption`, `VersionsAssumption`,
  `ArgsAssumption`, `AppsAssumption`, `ConfigsAssumption`, `FilesAssumption`,
  `ConsoleAssumption`, `ArunAssumption`;
* bounds are numbers, and values that stand for nothing are not values:
  `BoundsAssumption`, `DrmRandomAssumption`, `DrmAtomicAssumption`,
  `NoReqAssumption`, `ConnectAssumption`, `DevicesAssumption`, `QueryAssumption`,
  `HbBufferAssumption`. The last also says that a text is glyphs and leaves a cell of memory free, as
  `hb_buffer_add` sees to, and that cluster 0 is in it;
* `HbTextAssumption`: the clusters of a text go up, or down if it was reversed, since
  `hb_buffer_add_utf` counts them from the start of the text. Only `TextStaysCovered`
  needs it;
* `ProgramsAssumption`: pictures have a height and the sampling factors and scales of
  JPEG; a stream is any sequence of units whose lengths are at most `MaxMatch` and
  whose distances at most `WSize` (32K, the longest there is, with the window of
  `inflateInit`), and `inflate_fast` is entered with two units of input, a length and its
  distance, at least. Nothing is said of the order of units, or of whether a distance has
  the text to reach back into: every one may be wrong where it is;
* `HashAssumption`: there are at least two lists, and the scattered number of a key
  is the number of one. The latter follows from the code's remainder, through a
  fold over the bytes of the key that was left alone.

What a fold computes is proved here by induction all the same. The library's
induction theorems have an operator for a parameter, which no installed prover can
instantiate. Instead, the numbers for which the claim holds are a set, and one that
lacks a number lacks a least one (`LeastElement`, `Upwards`); and the function that
the recursion describes is built from its finite beginnings, so that its equation is
a theorem and not an assumption (`StagesAre` and its likes).

**The loader** (`SettingsTheorems`, `SetLdrProofs`). The invariant behind
`LoaderCorrect` says what holds between two lines: the variables are
`LoadedVars(entry.var, file, ln - 1)`, what the lines read so far make of the
inherited ones. `NextLine` is the lemma that reading one more line extends it.
The declarative definition picks the *last* assignment, so the lemma has to show
that a new assignment becomes the last and that an ignored line changes
nothing. `ReloadStable` has two cases per variable: those a line sets get the
same value again; the others were inherited and are so again. The platform needs
care, as the first load may have turned `android` into `linux`: if the file sets
it, it is `android` again and resolved again; if not, `linux` is inherited and
stays. It is assumed that no config file assigns `LIBAROMA_PLATFORM_ANDROID`
(`LeavesDerived`), a variable that no document mentions: after such a line, the
second load would undo what the first one derived.

**The library builder** (`AlibsProofs`).

* *Types and sources.* `TypeOK` is not inductive as it stands: `cd ..` subtracts one
  from `cwd`. `BodyDepth` adds that in the loop body the script is two or three folders
  down. `SourcesKept` follows from `rd` happening at depth two only.
* *One cpu per archive.* `CpuInv` says of every object, on disk, in an archive or in
  an `ar`'s memory, that it was compiled for the cpu *its folder is named after*, and
  of every run that has loaded its settings, that the cpu among its flags is the one
  in its folder's name. From there on, each action moves objects within one folder.
  The key fact is `LoadedEnvOk`: flags and folder are computed from the same variables
  in the same load.
* *The abstract archive.* `PutsRefined` says that with one console, for any
  configs, command lines and failures, every step of `alibs.cmd` is a step of
  `Archive` or leaves the archives alone. The invariant `PutInv` adds to the types that
  objects are unique by name, and that what `ar` is about to write is the archive on
  disk with the objects of one library put into it, between the step that reads it and
  the step that writes it. A second console in the same folder breaks just that: the
  later write undoes the earlier one, and `Archive` is not implemented. `MembersKept`
  of `alibs_two` is what holds then, for runs that nothing disturbed.
* *Undisturbed runs.* `CalmInv` has three parts. `Exclusive`: two runs in one folder
  are both disturbed, so an undisturbed run is alone in its folder. This is what makes
  the proof modular: any other console's step is local to another folder
  (`OthersKeep`). `Position`: an archive in an `ar`'s memory belongs to the run's
  folder; without this a disturbed run might write into a folder it is not in.
  `CalmRun`: what the run has achieved at each block. After `AlibsPrepare`, the
  library's folder is empty; after `AlibsCompile`, it has exactly the objects of
  the library's units (`New`); the listed names are these units; what `ar` is about
  to write is the archive with them replaced; and after the write, the library is
  right, next to those before it in the list (`Past`). `ReplacedCurrent` and
  `ReplacedOther` are the facts about `ar -r`. `CalmRepairs` is then the case of a run
  that has passed all of its list; `MembersStay` shows that only the run's own write
  leads from `arWrite` to `up`, and that `Replace` keeps a member of each name.

**The chain of scripts** (`BuildProofs`). What `alibs.cmd` does inside `Build` is a step
of `Alibs` or a restart of its run (`Restarts`), so that the invariants of
`AlibsProofs` carry over and only the steps of the callers are new.

* `BuildTypeCorrect` needs `ArgsNamed`: the argument of a run names a config. That is
  more than a type, and what lets the load look the file up.
* `ProgramForOneCpu`: the cpu travels from the run that compiled an object to the
  run that links it in nothing but the folder's name. `BuildCpuInv` says so of the
  objects and archives of both libraries (`CpuInv`, `AromaCpu`), of the settings of
  all three scripts (`EnvsOk`) and of the programs (`ProgramsOk`). That `abuild.cmd`
  may load other settings than `atest.cmd` passed to it does no harm, since it then
  works in the other folder.
* `CalleesAgree` assumes `FilesLeaveDerived`, for the reason given under the loader.
  `SettledInv` says that the settings of an undisturbed run are a fixed point: to
  load its config again, in the environment they make, changes nothing (`AbSettled`,
  `TstSettled`, by `ReloadStable`). `Shape` is the chain itself: a caller waits
  while the script it called runs, and passes on the config's name or does not.
* `AbuildIsRight`: `Alone` is `Exclusive` for the two callers, and `Repairs` follows
  `abuild.cmd` from its empty folder to its archive as `CalmRun` does `alibs.cmd`.
* `DefaultLinks` puts all of this together. `LoopInv`: an undisturbed `alibs.cmd` with
  valid names gets to the end of its loop. `CalleeDone`: when it has ended, the
  libraries are in the archive; its caller finds them there because the folder is its
  own. `ScratchLibs` and `Hope` carry "there was nothing here at first, and what is
  here now is ours" through `abuild.cmd` and `atest.cmd` up to the link.

**The program runner** (`ProgramsProofs`). For `ArunTypes` the types need `OneFile`, an
out folder has one file of each name; otherwise two programs could be pushed as one.
`CalmInv` says what an undisturbed run knows at each command: which of the two ways it
is on, that the debugger is on the device and executable once it was pushed, and that
`/tmp/test` is the program as it is in the out folder. It holds because whoever writes
to the device, or to the folder, disturbs the others.

**Queries** (`ProgramsProofs`). For any number of lists and hotplug events.
`HeapInv` counts blocks: those in use are those the struct points to, so that
freeing what it points to leaves nothing. The one way to a dangling pointer is a
retry that goes on with the old struct (`Dangles`, only if not `fresh`), which is
the excuse that `HeapIsClean` names. `ListsInv`: unless a list has grown, what the
second ioctl has filled in is what the kernel had at that moment.

**The test program, rows and streams** (`ProgramsProofs`). `ProgramsTypeCorrect` puts five
invariants together, as only one of the five parts ever moves.

* *The test program.* Its calls come in their order, and its window is gone when it
  ends, whatever thread posts what.
* *Rows.* `RowsInv` relates the counters of three controllers. `InCall` says where a call
  is between two steps: the lines it will return have not been counted by the
  application yet. A context picture postpones its last row group until the next
  iMCU row is there; `Waits` says that such a group is one of the buffer's, which is what
  keeps the group counter within the buffer when the call goes on.
* *The window.* `TypeOK` of `Inflate` says that the circular window holds the end of the
  text whenever a call stops. `StreamRight` is what holds *within* a call: `Holds`, the
  window holds the end of `SoFar`, the text of the calls before, in each mode from
  which more text comes; and all of `buf` was written by this call. What
  `updatewindow` makes of both at the end is in `UpdateHolds`, with a case for each of
  its ways: the new text fills the window (`AllNew`), goes around its end
  (`AroundNew`) or fits behind the cursor (`BehindNew`).
* *The text.* `TextsComeOut` is the refinement of `Unpacked`, for streams and windows of
  any length. The reference reads a stream unit by unit (`Decode`), without calls,
  window or modes; its stages only ever add to the text, and nothing once it is over
  (`StagesGrow`, by induction). `ReadRight` says that a stream stands where the reference
  stands after the units that were taken: for each mode, what is read next, and what has
  come out (`Follows`), where a literal or the rest of a match may still be owed. Then
  each step keeps it, adds to the text or ends (`Reads`). The matches are the core of it.
  A match is one sequence to the reference (`Repeated`); `Match` copies it in pieces, over
  several calls, `inflate_fast` all at once, each from the window, from its start once it
  has wrapped around, and from the output, whose end the match may be itself. `Reach`
  says that a distance is refused exactly if it is longer than the dictionary and the
  text, and which byte is where otherwise; `PieceRepeats` and `FastRepeats`, that
  both ways of copying put out the same; `RepeatedOn`, that a part of a match first and
  the rest of it later is all of it. `WrittenAll` adds that the check value, which is
  summed over the returns, is that of all text, and `ReturnReads` that a call which
  did nothing lacked input or room.

**The picture** (`PictureProofs`). `PicturesComeOut` is the refinement of `Scanlines`. The
counts of `RowsInv` do not suffice for it: `PictureRight` says, as long as lines are to
come, which row of the image is where.

* *Sizes.* `ComponentSizes` and `PictureSizes` relate the divisions of
  `jpeg_calc_output_dimensions`: an iMCU row has `min_DCT_scaled_size` row groups of each
  component, and the last one the rows that remain. `LineHasRow` and `BottomIsAll`
  are the two inequalities that matter: a line that is in the picture is made of a row
  that is in the image, and the row groups which `set_bottom_pointers` takes from
  the first component are enough for all lines of all components.
* *The workspace.* `RowsThere`: the iMCU row is in its places of the list in use.
  `RowAbove` and `RowBelow`: so are the rows next to it, the first and the last one
  again at the top and bottom. `RowsBefore`: what the two lists are for, once they are
  swapped, the last two row groups of the iMCU row before lie where `decompress_data`
  does not write (`BeforeStays`, `RowsTurn`). `ListsRight` says what the lists are: one is
  the workspace as it is, the other has its last four row groups swapped (`Turn`), and
  after the first iMCU row both go around (`ListsTurn`). At the bottom one list is
  overwritten (`BottomRows`), which only another pass repairs.
* *Row groups.* In each state of the main controller the next row group is a certain one
  of the picture (`GroupNo`), and the rows it reads are those of the picture's lines:
  `GroupOfRows` for those of the iMCU row that is there, `GroupThatWaited` for the one
  that was postponed, whose row below is in the list's first place again.
* *Lines.* A row group may come out in several calls. What is left of it is in the
  conversion buffer, in the workspace itself for components in full size, of which only
  the pointer is kept, or in the merged upsampler's spare row. `OwedIs` says that these
  are the right lines; it holds on because the controller does not move on before they
  are out. `PostGoes` is one turn of an upsampler; `SimpleGoes`, `PrepareGoes`,
  `ProcessGoes` and `PostponedGoes` are the functions of the main controller, `FilledKeeps`
  and `SuspendedKeeps` the two ends of `decompress_data`, `StartGoes` another pass.

**Random numbers** (`LibdrmProofs`). `StaysLegal` and `DrawsProducts` are about the
constants of the source (`ParkMiller`: 48271 and 2147483647) in unsigned longs of 32
or of 64 bits (`WordSize`), where TLC cannot go. With `m = a * q + r`, the product is
`m * hi` plus Schrage's difference (`RestIsSeed`), so the two are congruent, and the
difference lies in the range once `m` is added to a negative one. `WordsOfSeed`
shows that unsigned arithmetic, which wraps around before `m` is added, comes to the
same. The prover is given the real numbers, as products of two variables are
beyond it.

**Atomic requests** (`LibdrmProofs`). The invariant is that of a well-formed request
(`Good`): the array is as long as `size_items` says, the cursor is inside, and every
cell below it was set. One lemma, `PutItems`, is about writing new items behind the
cursor into an array that may just have been made larger; adding, merging and
duplicating are its cases, and failing allocations leave the list as it was.

**The hash table** (`LibdrmProofs`). `HashTypes` says that no key is twice in its
list or in another one's, and that the iteration's pointer is to a bucket that is
still there or known to be freed. Four facts about one list carry the rest: what
becomes of the position of each key when a bucket is moved to the top, dropped, put
in front, or is given another value. `TableIsMapping` is then a case per call.
`GentleIterations` needs more: while the iteration is gentle, the pointer *splits*
the list it is in. What is before it has been returned, what is behind it has not
(`CountOk`), and the last key returned, the only one the program asks for, is before
it (`LastOk`), so that the look-up reorders only what is done. `Visits` has the two
exceptions, the first list and the last.

**Connections** (`LibdrmProofs`). `ConnInv` is inductive with little help: the types,
`EntryIsOpen` and `OpenIsCounted`. The work is in `drmCloseOnce`, which puts the last
element of the array in the place of the one that goes (`TookPlace`): each node and each
descriptor is still there once, and the counts of the others have moved with them.

**Commits** (`LibdrmProofs`). `CommitsRight` is about two loops over a sorted list, each
a fold. The first drops items: `Turned` is one of its turns, and `ItemsInv` says what a
turn keeps, that the list is sorted as before and each property is still there, and
that behind the cursor no property is left twice that was set twice. The code compares
an item with the *next* one only, and skips the one it has just moved up; so a property
that was set three times may be sent twice (`WereThree`), which the property excepts.
`CountInv` says that the objects counted are the places where the object changes, one
past those already behind the cursor. The second loop fills the arrays: `FillKeeps`
shows that the blocks of properties follow each other without a gap, one for each
change of object, so that the counts add up and no object is named twice. Nothing
is used of `qsort` but that it sorts (`Sorted`).

**Devices** (`LibdrmProofs`). `DevInv` follows the three loops: reading (`ReadInv`: one
entry for each name seen, and no more than `MAX_DRM_NODES`), folding (`IsFold`
relates the fold to positions: an entry takes over the types of the later
ones of its device, which become gaps) and handing out (`HandInv`: each entry
is the caller's, freed, or still to be handed out). `CalmInv` is the part for the
devices that stay: while nothing is plugged or unplugged, each name read is an entry,
each wanted name's device is in one, and in what has been handed out. The two
exceptions in the property are those of the code: the entry with which `MAX_DRM_NODES`
was exceeded is never freed, and neither is what `drmGetDevice2` kept first if the
node it looks for was read twice, as another device's the second time.

**The parts of libdrm** (`LibdrmProofs`). `PartsTypeCorrect` puts them together: each step
of `LibSpec` is a step of one part and leaves the others alone, so the behaviours of the
whole are behaviours of each part, and the type invariants carry over.

**The glyph buffer** (`HbProofs`). `BufferIsSafe`, for any text, growth and limit, and
whenever memory is refused. `Good(b, N)` says of a buffer with `N` cells in each block:
the input that is left is glyphs, the output is glyphs, and *as long as both are in one
block the output ends before the input begins*. The second and third are not in `TypeOK`
but are why it holds. `Ready` is what `make_room_for` establishes, and
`WrittenIsGood` that writing `n` glyphs for `m` that are read is harmless after it;
the operations are combinations of these with `EnsuredIs` (memory grows and keeps its
cells), `ClusteredIs` (setting clusters) and `ShiftedIs` (the input moves up).

* *The list.* `BufferIsList` says that every operation does to one list with a cursor
  what `GlyphList` says. `Holds(b, d, L)`: the buffer `b` has the list `L`, the first `d`
  glyphs in its output, the others in its input. One lemma per operation (`...Meets`)
  gives the list it leaves, provided that no memory was refused: the same one, cut
  elsewhere (`AlikeHolds`, `CopyHolds`, `BackHolds`), or the same with glyphs put in the
  place of others (`PutHolds`, `PutAt`). The hard ones are about clusters: a run of
  equal clusters in the list may lie in two blocks of memory, and the code follows it in
  one and then, if it gets to the end, in the other. `RunReach`, `CrossBack` and
  `CrossOn` show that this is the run in the list. `ToCuts` then hides the memory, and
  `MovesTo`, `Replaces`, `Inserts`, `Copies`, `Deletes`, `Merges` are the actions of
  `GlyphList`.
* *The clusters.* `TextStaysCovered` is proved of the list alone. As numbers, clusters
  that are `Clear` stay so in two cases that cover all: a stretch, with the equal ones
  next to it, gets its least (`JoinedIsClear`), and numbers go and others come that are
  as a neighbour, unless the last 0 would go (`PutIsClear`). A deletion is both:
  `UnledCovers` shows that once the neighbours have taken the cluster of the glyph over,
  it can go. Widening a merge to the equal clusters next to it is what the
  proof rests on; without it, the order would break at the edges.
* *Deletion in place.* `InplaceIsRight` compares two loops over one text, of which one
  has an output of its own and the other writes into the cells it reads. `Twins` is
  the simulation between them: same cursor, same length of output, and cells that are
  `Agree`d on, those of the output and those still to be read. The cells
  in between, which a merge in place may have gone back into, need not agree, and no
  turn reads them again (`Turn`). `TurnsAgree` is the induction over the text.

## 9. What is only model-checked, and what is not modelled

Only model-checked:

* liveness (`CallReturns`, `BuildsEnd`, `ExitEnds`, `QueryReturns`): outside what TLAPS
  can do here;
* the disagreements of section 7, which are counterexamples.

Simplifications to keep in mind:

* In `Build`, listing the objects of libaroma and archiving them is one step, and
  so is a link. The steps of `alibs.cmd`, where two consoles meet in practice, are
  split.
* The user's edits of a config are atomic, and so is a load.
* The settings for the paths of compiler and archiver are not followed: changing
  the compiler without changing the config name is a mistake that the scripts
  could not notice either.
* Flags that do not depend on settings are left out, and so are the log level and
  the log file.

Not modelled:

* libpng and freetype. libpng's row transformations and freetype's interpreter and
  rasterizer are computations on data, without the kind of state that a model
  would have to explore; `pngpread.c`, which reads a picture in pieces as they come,
  is the exception and in the plan.
* libdrm's wrappers of single ioctls, which hold no state, the parsing of sysfs
  texts and the reading of events.
* harfbuzz's lookups, font tables and Unicode data; positions and masks of the
  buffer.
* libjpeg's entropy decoding, transforms, colour conversion and quantization, tiles,
  the merged upsampler for one line at a time, and its compressor. Widths do not
  occur, so a picture is taken to be wide enough for the smooth upsamplers.
* zlib's codes and tables, gzip headers, `inflateSync`, `Z_TREES`, `INFLATE_STRICT`, and
  its compressor.
* libaroma, which is not in this repository.

The models cover the scripts and the test program line by line. Of the C code
they cover a small part: it is half a million lines of libraries, most of which
are tables, font formats and arithmetic on pixels. A model of these would repeat
the code without a behaviour to explore.

## 10. Plan

Done: the scripts, the abstract archive, the runner, the test program, libdrm's
stateful parts, harfbuzz's buffer, libjpeg's rows, inflate; the proofs of section 8.
To come, in order of importance:

1. **`PngPush`**, for `pngpread.c`: chunks that arrive in pieces, the saved and the
   current buffer, the order of chunks.
2. **`Deflate`**, for the window and the pending buffer of zlib's compressor, and a
   composition with `Inflate`: what was compressed comes out again.
3. **libjpeg's compressor**, whose main and preparation controllers mirror the
   modelled ones.
