# Verification of the Makeshift AUR manager

`aur_man` is a C program that lists, fetches, builds and installs packages of
the Arch User Repository. It is one process with no threads, but almost all of
its work is done by subprocesses (`git`, `makepkg`, `pacman`, `bash`,
`checkupdates`, `less`) it forks one at a time or leaves running beside itself,
on files it keeps between runs. What is hard about it is therefore not
concurrency of its own: it is what a failing, killed or late subprocess leaves
behind, what a forked child does when its `exec` fails, and whether the files
of several commands still fit together. The modules here are about that.

Paths below are relative to the repository; `src/aur/pkg_cache.c` is
`src/src/aur/pkg_cache.c` in `PROJECT.json`.

## 1. The system

| Part | Source | State | Operations |
| --- | --- | --- | --- |
| Command dispatch, arguments | `src/main.c`, `src/arg_parse/arg_commands.c` | the command and its lists | derive a mode and an action, call one of the parts below |
| Update selection | `filter_pkg_updates()`, `aur_fetch_updates()` in `src/aur/pkg_install_stages.c` | two cursors over two sorted lists | count, fill |
| Stages | `aur_perform_action()` in `src/aur/pkg_install_stages.c` | the list of packages, the position in it, what failed so far | fetch, patch versions, build, install |
| Package cache | `src/aur/pkg_cache.c` | `__pkg_cache__/<base>`: a clone of each base with the files built in it | clone, reset, clean, fetch, rebase, `makepkg` |
| Package files | `src/aur/pkg_info.c` | none | the version of a PKGBUILD, the path of the file it produces |
| Version cache | `src/aur/pkgver_cache.c` | `__pkg_cache__/versions.txt` | load, merge, save, discard |
| Update report | `src/aur/pkg_update_report.c` | none | walk the packages and the version cache, print |
| pacman interface | `src/pacman.c` | pipes | `pacman -Qm`, `checkupdates` in the background and its follow-up |
| Subprocess runner | `src/subprocess_unix.c` | pipes, exit status | fork, exec, wait |
| Package dictionary | `src/hashtable.c` | buckets over a caller's array | set, get |
| AUR client and answer | `src/aur.c`, `src/aur_pkg_parse.c` | a growing buffer; the dictionary | request, download the list of names, parse |
| Streams and directories | `src/file_utils.c` | growing buffers | read a pipe, list a directory |
| Logger, zlib wrapper, completion | `src/logger/`, `src/zlib_wrapper.c`, `completion/`, `dev/` | none | output, generated data |

How they interact. `main()` reads the foreign packages from `pacman -Qm`
through a pipe, asks the AUR about them and fills the dictionary. Without a
command it starts `checkupdates` beside that request, has a child write the
report into a pipe and runs `less` on it. With an update command it filters the
packages into a list and hands the list to `aur_perform_action()`; the
`aur-fetch`, `aur-build` and `aur-install` commands hand over their arguments.
`aur_perform_action()` drives the package cache one package and one subprocess
after the other, reads the versions of `-git` packages back and merges them
into `versions.txt`, which only the next report reads. The cache is all that
survives a command: the commands `fetch`, `build`, `install` are separate runs
of the program, with the user inspecting the checkout in between and the AUR
moving on meanwhile.

What is hard:

- **Failed `exec`.** The code that runs `git clone` and `makepkg` returns `-1`
  in the child when `exec` fails (`src/aur/pkg_cache.c:326`, `:617`, `:879`).
  The child then goes on with the rest of the command as a second copy of the
  program, up to and including `sudo pacman -U`, while its parent waits for it.
  A copy left by `makepkg` has changed its directory, where the relative path
  `__pkg_cache__` does not lead to the cache.
- **Ignored and misread exit statuses.** The status of `git clone`, of `git
  reset`, of `git clean` and of `makepkg` is ignored; any failure of `git
  status` reads as "no repository here"; `WEXITSTATUS` of a killed process is 0.
- **Pipes that are read after the wait.** Every reader of a pipe first waits
  for the writer.
- **State between commands.** A half-made clone, an old build, an interrupted
  write of `versions.txt`, all met by later commands.
- **Two lists walked together**: the exclude list, the merge of versions and the
  report over them, each with cursors that must stay together.
- **Instances side by side.** Nothing locks `versions.txt`, which is truncated
  when it is opened and written when it is closed.
- **Buffers filled piece by piece**, each with its own bookkeeping of what is
  allocated and of the place of the terminator.

What makes each part correct:

- *Selection*: keeps nothing but eligible packages, in order, drops none that is
  not excluded, honours the exclusions, and takes the arguments as written.
- *Stages and cache*: nothing outside the cache is reset or cleaned; pacman runs
  only over fetched bases, as often as the user would expect; what it installs
  was built from the checkout that was there to be inspected; a fetch reaches
  what the AUR had; every command ends.
- *Version cache*: stays sorted, forgets nothing but by an interrupted write or a
  save of another instance, records the version fetched last.
- *Report*: shows what was recorded, arrives in full, and `main()` ends and
  leaves no child behind.
- *Buffers*: nothing is written outside of them, and what was read is all there.
- *Dictionary and answer*: one entry for a name; the answer is applied to the
  packages it is about and to no other; what is looked up later is there.

## 2. The modules

| Module | What it is |
| --- | --- |
| `UpdateFilter` | mode of a command, `filter_pkg_updates()` and the two walks of `aur_fetch_updates()` |
| `MCUpdateFilter` | its instance: four kinds of packages |
| `CommandLine` | the two argument parsers and what `main()` collects, before the steps of `UpdateFilter`, which it extends |
| `MCCommandLine` | its instance: the argument lists |
| `UpdateFilterProofs` | theorems about both |
| `PackageLifecycle` | abstract: fetched before built before installed, one transaction |
| `InstallStages` | `aur_perform_action()` and all it calls, with failures, copies, crashes, the AUR and the user |
| `MCInstallStages` | its instances: an ordinary package, and a base with a `-git` package and another |
| `InstallStagesProofs` | theorems about it: types, safety, the fetch, and that it implements `PackageLifecycle` |
| `VersionStore` | abstract: a record of the version fetched last, and what may go wrong with it |
| `VersionLines` | the lines of `versions.txt`, how they are parsed, and their merge as one function |
| `VersionCache` | `versions.txt`: load, the loops of `zip_merge_sorted_list()`, save, interrupted save |
| `MCVersionCache` | its instance: every sorted list over three names |
| `VersionLinesProofs` | what the merge and the copying loop compute, for lists of any length; induction for the other proofs |
| `VersionCacheProofs` | theorems about `VersionCache`, and that it implements `VersionStore` |
| `SharedVersions` | instances that load, merge and save at the same time over one `versions.txt` |
| `GitReport` | the sections of the report and `aur_list_git()`, beside those instances, which it extends |
| `MCGitReport` | its instance: two that fetch, and four systems |
| `GitReportProofs` | theorems about both, for any number of instances |
| `StreamBuffers` | the four buffers that are filled piece by piece |
| `StreamBuffersProofs` | theorems about it |
| `PackageDict` | abstract: an entry for each package, put there first and completed by the AUR's answer |
| `PackageTable` | `hashtable.c`: chains of nodes in a stash |
| `AurQuery` | fills the dictionary, asks the AUR, walks over the tokens of the answer |
| `MCAurQuery` | its instance: requests, layouts of answers, hashes that collide |
| `AurQueryProofs` | theorems about the table, the walks over the answer and the dictionary, for any hash, size and answer; that `AurQuery` implements `PackageDict` |
| `ReportPipeline` | `main()` without a command: the processes, pipes and waits of the report |
| `ReportPipelineProofs` | theorems about it |

### UpdateFilter

`command`, `node`, `namelist` and `ignore` are the inputs: the command, what the
dictionary knows of each name, the sorted list of installed packages and the
sorted exclude list. `i` and `j` are the cursors of the same name in the code;
`kept` is what the current walk has counted, `limit` and `out` the array the
first walk sizes and the second one fills. `CatchUp` is the inner `while` of
the exclusion test, which never compares again once entered; `SkipExcluded`,
`SkipIneligible` and `Keep` are the three ways through the loop body;
`SecondWalk` and `Finish` are the two returns. Names are integers and `strcmp()`
is their order.

### CommandLine

`argv` is the argument list and `at` the parser's `i`; `excluded`, `pkgs`,
`options` and `reset` are what `opts_out` gets. `TakePacmanOption`, `TakeExclude`,
`TakePackage`, `TakeReset`, `EndParse` and `Refuse` are the ways through the loop
bodies of `parse_aur_update_args()` and `parse_aur_install_args()`, in the order
of their tests. `Collect` is the part of `main()` between the parser and the
filter: the sort of the excluded names, and the packages installed and what is
known of them, which are any. From then on the steps are those of `UpdateFilter`.
A list command ends here, and `InstallStages` starts from its list. An argument
is an integer like a name; an operand of `--exclude` may be any of them, also
another option, and is then an excluded name like others. `get_command()` is the
choice of `given`.

### InstallStages

A running command is a stack of frames of which the top one runs: frame 1 is
the program, and each failed `exec` pushes a copy of the frame that had
forked it (`Copy`), whose parent stays where it is until the copy has
returned. A frame has the stage and position it is at (`pc`, `i`), the positions
noted as missing (`failed`), the versions read (`vers`), and whether the process
has changed its directory (`moved`). Each action is one subprocess or one pass
of a loop: `SkipFetched`, `CloneBase` are `fetch_pkg_base()`; `CheckPwd`,
`ResetHard`, `CleanTree`, `GitFetch`, `Rebase` are the five processes of
`update_existing_pkg_base()`; `DownloadNamelist` ends the fetch stage;
`SkipNonGit`, `UpdateSources`, `ReadVersion`, `SaveVersions` are the patch
stage; `SkipBuild`, `Make`, `EndBuild` the build stage; `Install` the last one.
Each has a disjunct for the success, for what a failure of the subprocess or of
a system call leaves, and, where the child can return, for the copy. A stage
that ends the process is `Return`.

A directory in the cache is `absent`, `partial` (what a failed clone leaves) or
`full`, with the commit checked out, the one fetched and the upstream version
`makepkg` wrote into the PKGBUILD (`work`). A package file says whose it is, with
the version in its name, and remembers the commit and upstream version it was
built from, which the program itself cannot see: it only knows the name
(`Built`), and two commits may state the same version (`VerOf`). `git`, `makepkg`
and `pacman` are external and modelled by what the code relies on: `git rebase`
refuses a changed directory, one `makepkg` makes the files of all packages of a
base (`Group`) and refuses to when one of them exists (`Begun`), `pacman -U` is one
transaction. An interrupted `makepkg` or `git clean` leaves any part of the files
(`CutBuild`, `CutClean`); `torn` are the bases that had this happen and were not
cleaned since, and `dirty` those whose last `git clean` failed.

What fails is not only the subprocess itself. In `ReadVersion` a pipe or fork that
fails leaves the version the AUR gave, and a `bash` that prints nothing ends the
process or leaves an empty version. In `SaveVersions` a load that failed, a full
disk or a kill leaves any part of the merged versions (`Remains`); `VersionCache` has
that line by line.

Around the commands, `Release` and `Upstream` move the AUR and the upstreams at
any moment, also in the middle of a command; `DeleteCache` is the user between
commands; `Crash` kills the command, with what an interrupted step leaves.
`MaxFaults` bounds failures, copies and crashes together.

### VersionCache

`file` is the list of lines of `versions.txt`, `old`, `new` and `dest` are the
lists of `merge_in_ver_cache()`, `i` and `j` its cursors. `TakeOld`, `Replace`,
`TakeNew` are the cases of the merge loop, the two loops for the rest included.
`Save` writes the list; `Fail` is a kill or a full disk while the stream is
flushed, so that a front of the list is left with its last line cut. `Loaded`
is what `process_pacman_output()` makes of a file with a cut line: it gives
every line a place but counts the valid ones. Deleting the cache is `Delete`.

### SharedVersions and GitReport

Each instance has its `pc` and its `list`. `Load` is the load and the merge, as
one step that reads the file (the loops of the merge are in `VersionCache`, whose
`MergeKeepsAll` says that they end with `ZipMerge`); `Open` is `fopen("w")`, which
truncates; `Write` is `fclose()`, which writes the list from the start of the file
over what another instance has written since. To say what that leaves, a version
is its length and a name has two characters: `Behind` passes over what the list
covers and cuts the line it ends in (`Cut`), in the name, behind the space or
before the newline; `Ends` is where the lines end. A line that lost its space is invalid: the parser gives it a
place it never fills, so its name is anything (`Readings`), and valid lines behind
it are pushed off the list. `Misread` is a process that dies of such a name; it
may die at any comparison, and the model lets it die whenever there is one.
`Kill` ends an instance at any step. That a list is written at once assumes that it
fits into the buffer of stdio, 4096 bytes; `VersionCache` has the writes that stop
in between.

`GitReport` adds the report of another instance. `Begin` prints the sections for
updates and downgrades and loads the file; `ri` and `rj` are the `i` and `j` of
`aur_list_git()`. `Search` is the test in front of the inner loop, `Advance` a pass
of that loop, and then the package is shown with the version recorded
(`ShowRecorded`), read in its clone (`ShowClone`) or of the AUR (`ShowAur`).
`Entries` is what the comparison reads: one behind the list it is a line that was
pushed off, or memory that was never set, of which the process dies (`Garbage`)
or which it takes for anything. `ShowAndFree` and `NothingPrinted` are the two ways
to die of a package that is not recorded.

History variables say how well a save or a report was isolated: `seen` is the file
an instance loaded, damaged lines and all, unless another one had it open then or
opened it since; `settled` is what the last save merged when its instance was alone, `mixed` that two had the file open at once, `orderly` that all lists were
sorted.

### StreamBuffers

`reader` is which of the four buffers is filled. The lengths of the pieces are
chosen at the start: what `read()` returns each time, how libcurl divides the
answer, how long the arguments of the request are. `size` is what is allocated;
`counted` is `pacman_output_size`, which is not the same before the first piece.
`Double` is a pass of the loop in `stream_fd_content_alloc()`; the other buffers
grow within the step that stores a piece. `end` is where the last terminator was
written. A failed read or allocation is one of `MaxFaults`.

### PackageTable and AurQuery

`table` is the dictionary: `map` and `stash` with the `next_node` of each node,
a pointer being a place in the stash. `hashtable_set_item`, `Find`, `Remap` and
`Unmap` are the functions of `hashtable.c`; `main()` and
`pkg_list_manage_subseq()` call the first with a text that is in the dictionary
already or not, so the `Unmap` of another node with the same name is never
needed (`TableSound` says why: there is one node for a name).

`AurQuery` is what runs before any of the stages. `Fill` sets the packages, of
`pacman -Qm` or of the command line, where one may repeat. `Ask` is the query,
which may fail or never return. The answer is a sequence of jsmn tokens, each
with the number of tokens it spans, which is all that `find_next_sibling()` asks
of their positions. `pos` and `walk` are the `i` of `process_response_json()` and
of `find_and_update_pkg_info()`: `SearchOn`, `NoResults` and `Results` look for
the array, `Package`, `ReadField` and `PassToken` walk, `UpdateNode` writes.
Nothing stops the inner walk at the end of its object, and it compares values
with the keys too, so the object of a package has additional fields, whose values
may read like a key (`Misread`) or be a list that holds such a text; the walk passes
over lists and other objects. `k` counts the packages twice: those that `Fill` puts,
then those `filter_aur_pkgs()` looks up (`SelectKnown`, `PassUnknown`). A name that is
not in the dictionary ends the process (`UpdateNull`). Texts are an order of names or
versions, or `Junk`; each token has what its text counts as when it is compared with
the keys and what it counts as when it is taken as a value.

jsmn and the AUR are external. `Answers` is any set of answers that have the form of
`IsAnswer` (`AnswersAssumption`, which TLC evaluates for the instance): one object,
in which each key is followed by its value and only the value of "results", if there is
one, has something inside; that is an array of objects, each of a package that was
asked for and none of the same package twice; and such an object has the three keys,
followed by what the answer says of the package, among anything else. `told` is the
answer as its reader means it: what it says, and at which token. `UpdateFilter` and
`InstallStages` start from what this module ends with.

### ReportPipeline

`pc` is where `main()` is, and each child has a state, what it has still to
write, the content of its pipe and an exit code. Output is counted in units,
and a pipe holds `Cap`; a writer of a full pipe waits. The waits, reads and
forks of `main()` are actions of their own, because their order is what matters
here. `ForkOnly` and `WaitOnly` are `pacman-checkupdates`, whose child writes to
standard output itself when there is no pipe (`Direct`). Without a terminal `main()` writes the report itself, to standard output;
the "report" child then stands for that.

## 3. What is checked

Bounds are CONSTANTS given in the `.cfg` files. Deadlock checking is off in all
runs: each instance stops for good when its command counters are used up.

| Run | Instance | Shows |
| --- | --- | --- |
| `update_filter` | (`CommandLine`) all lists of up to 3 installed packages of 4 kinds, all update and list commands, all argument lists of up to 3 out of 3 names and 5 options, lists of 4 out of 4, and up to 3 `--exclude` with every name | `ArgsAsWritten`, `WalkSelects`, `ExactWhenInstalled`, `TypeOK` |
| `install_stages` | 2 commands over 3 packages in 2 bases, 3 package lists, 2 failures, fair | `InstallBound`, `InstallNeedsFetched`, `OuterRepoSafe`, `WholeTransaction`, `CommandEnds`, `TypeOK`, and that `InstallStages` implements `PackageLifecycle` (`StagesInOrder`) |
| `install_rebuild` | 4 commands over one or both packages of the split base, 2 commits with one version, 2 upstream versions, 1 failure | `FilesMatchCheckout`, `BuiltBeforeInstall`, `InstalledFromCheckout`, `GitReportFresh`, `FetchReachesAur` |
| `version_cache` | 3 commands, each with any sorted list over 3 names with 2 versions, 2 failures | `SortedOnDisk`, `MergeKeepsAll`, `TypeOK`, and that `VersionCache` implements `VersionStore` (`RecordsLastFetched`) |
| `git_report` | 2 instances, 3 fetch commands with sorted lists or one that is not, 2 names, 2 versions of different length, 1 killed; reports of 4 systems at any moment | `SortedUnlessMixed`, `SaveKeeps`, `FetchGitAccurate`, `ReportFollowsRecord`, `TypeOK` |
| `stream_buffers` | texts of up to 6 pieces of up to 3 units, a fragment of 3, 1 failure | `WithinBuffer`, `ReadsWhole` |
| `aur_query` | 4 lists of pacman and every list of up to 3 arguments, 3 names that collide in tables of 3 and 5, answers about any of them in any order, 3 choices of versions, 2 layouts, 5 additional fields, no array of packages, fair | `TableSound`, `NothingDropped`, `AnswerApplied`, `BaseBeforeUse`, `DiesOfMisreading`, `QueryEnds`, `TypeOK`, and that `AurQuery` implements `PackageDict` (`KeepsDictionary`) |
| `report_pipeline` | pipes of 2 units, programs that print up to 3, 2 failures, with and without a terminal, and `pacman-checkupdates`, fair | `ReportComplete`, `EndsOnlyWhenItFits`, `NoOrphan`, `EndsWhenItFits`, `TypeOK` |

Why these bounds are enough for the questions asked. *Selection*: the exclude
cursor goes wrong with one name that is not installed and another behind it,
and three names give every order of installed, absent and eligible ones.
*Stages*: two failures give a copy of a copy, a copy that fails, and a crash
after a failure; two commands give a fetch and a build or install after it; the
three package lists have one base, two bases, and one base twice. Four commands
are the shortest behaviour in which a base is fetched, built, fetched again at
a new commit and installed; with one package of the base or both of them, a file
can be there that another command, or an interrupted one, has made. *Version cache*: three commands merge into a
file that an interrupted command left, with every alignment of two sorted lists
of up to three names. *Instances and report*: two instances overlap in every
order, and the third command loads what they left, lines cut in a name, behind the
space and in the version included; the versions differ by two characters so that
a longer line shows behind a shorter one, and an invalid line can have a valid one
behind it. The systems have packages before, among and behind the recorded names.
*Buffers*: six pieces make a buffer of three units grow three times. *Arguments*:
three arguments have an option, its operand and one more, the fourth a second
operand behind `--` or an operand that is an option. *Dictionary and answer*: three nodes give a chain with a
first, an inner and a last node, each of which is set again; an answer with three
objects has one before and one behind any other. The names of a request are
numbered as they come, which loses nothing: the code does not order them.
*Report*: with pipes of two units and up to three printed,
every pipe is once empty, partly full, full and too small.

Exceptions the properties state, because the code has them:

- `FilesMatchCheckout` and `InstalledFromCheckout` except the commit of packages whose
  `git clean` failed and of users who set `PKGDEST`. Whose file it is, that its base
  is a working clone, and the upstream version hold for these too.
- `OuterRepoSafe` excepts a `git status` that failed (`pkg_cache.c:393`).
- `BuiltBeforeInstall` excepts commands in which something failed, directories that are
  no working clones, and split bases of which an earlier build or clean was
  interrupted (`torn`): `makepkg` builds none of a group when one file exists.
  `WholeTransaction` has none of these: it says that pacman then installs nothing. It
  excepts a path that cannot be read in the very step, which the code leaves out
  (`pkg_install_stages.c:188`).
- `FetchReachesAur` excepts a command that meets the remains of a clone, or is run
  inside a git repository. `GitReportFresh` is about working clones.
- `SaveKeeps` excepts, of a file with damaged lines, the valid lines in its last places,
  of which there are as many as damaged ones: `process_pacman_output()` gives an
  invalid line a place in the array and does not count it (`pacman.c:98`), so that
  as many lines are lost at the end. The fetched versions are never lost, nor
  is any other line. Like `FetchGitAccurate` it is about a fetch that no other one
  overlapped; both are about any file, damaged ones included.
- `ReportFollowsRecord` is about a file in order, and `SortedUnlessMixed` excepts
  instances that had `versions.txt` open at once.
- `SortedOnDisk` assumes sorted lists, which the update commands give and `aur-fetch`
  need not.
- `RecordsLastFetched` permits that a `versions.txt` that exists and cannot be read is
  taken for an empty one, so that the save drops the other packages
  (`FetchBlindly` of `VersionStore`): this is what the code does, and no property
  excludes it.
- `AnswerApplied` and `DiesOfMisreading` except answers with a value that reads like a
  key.
- `WithinBuffer` names two writes that do lie outside of their buffer: the terminator
  behind a list of `pacman -Qm` that fills its buffer exactly (2048 bytes read in
  whole fragments), and the one before an empty request.

What a fetch does depends on `--reset`, in a way the documentation does not tell, and
two properties have their condition from that. `FetchReachesAur` is about a fetch with
`--reset`: the clones come to the AUR's commit. Without it `fetch_pkg_base()` returns
at once when the directory exists, so a package that was fetched before is neither
cloned, as `README.md:15` says, nor updated. `GitReportFresh` is about `aur-fetchgit`
without `--reset`: the versions are read and recorded. With it they are not, and the
report stays as inaccurate as `README.md:13` says it is before. `README.md:17` names
a command `aur-installgit`, which `get_command()` does not know.

Four runs show a statement of the documentation that the code does not keep
(`findings` in `PROJECT.json`):

| Run | Statement | What happens |
| --- | --- | --- |
| `update_filter_excludes` | `--exclude` excludes packages (`README.md`) | one excluded name that is not installed disables the exclusions that sort behind it |
| `upgradegit_mode` | `aur-upgradegit` updates `-git` packages (usage text in `main.c`) | it runs on the non-`-git` upgrades |
| `report_stuck` | the program lists the updates (`README.md`) | with more output than a pipe holds it waits for a child that waits for it |
| `subprocess_code` | `run_subprocess()` returns the exit code (`subprocess_unix.c`) | it returns 0 |

Fairness. `InstallStages!FairSpec` is weak fairness of `Step`: every subprocess
the program waits for ends some day, and there is no other thing it waits for.
Nothing forces a command to start, the AUR to move or anything to fail.
`AurQuery!FairSpec` is weak fairness of `Compute`, the program's own loops; curl
has no time limit here, so nothing is assumed of `Ask`.
`ReportPipeline!FairSpec` is weak fairness of `main()`, of each child on its own
and of the user of `less`: independent processes each keep running, but a
process that waits for a pipe is not enabled and fairness does not help it.

## 4. What is proved

All theorems hold for every value of the constants that satisfies the modules'
`ASSUME`s, and so for lists, commands and failures of any number; TLC evaluates
those assumptions in the runs above.

`UpdateFilterProofs` (from the invariant `LoopInvariants`, which ties the cursors
to what has been kept and passed over): `TypeCorrect`, `OrderedSelection`
(`WalkSelects`) and `InstalledExcluded`
(`ExactWhenInstalled`: when the excluded names are installed and distinct the
cursor never has to catch up, so it never runs away). These are about
`UpdateFilter!Spec`, which starts where `Collect` of `CommandLine` ends;
`WalksOfCommand` carries all three over to `CommandSpec`: whatever the arguments are,
`main()` gives the filter nothing but sorted lists (`CollectIInv`). About the parsers
themselves, for argument lists of any length: `TakenAsWritten` (`ArgsAsWritten`),
from the invariant `ParseInv`: what was taken is what stands at the places behind
the cursor (`TakenUpto`), and the cursor is never at an operand of `--exclude`. The
property says which places are operands by counting the `--exclude` in front of them;
`OperandNext` turns that into what a parser sees, that a place is an operand
exactly when the one before is an `--exclude` that is none itself.

`InstallStagesProofs`:

- `TypeCorrect`. `TypeOK` is not inductive: the version `makepkg` states is only
  defined when a working clone has a commit, so the invariant is `Typed`, `TypeOK`
  with `FullTrees`. The proof splits `TypeOK` by what steps touch together, and
  every action is one of the three ways to go on (`ContinueRun`, `ReturnRun`,
  `CopyRun`) and a change of the disk.
- `OuterSafe` (`OuterRepoSafe`), from `CheckedFirst`: whichever frame, running or
  waiting, is at `git reset` or `git clean` inside a repository, `git status` has
  failed there.

`StepKinds` and `GoingFrames` of the same module say once what any step does to the
stack; each invariant is then about one frame:

- `InstallsBounded` (`InstallBound`): pacman runs and processes left in the
  original directory are counted together, so that a pacman run takes the place
  of the process that ends with it and a copy pays for itself.
- `InstallsFetched` (`InstallNeedsFetched`), from `FetchedFrames`: a build loop
  passes no missing directory without noting it, and no step of a command
  removes a directory.
- `FilesMatch` (`FilesMatchCheckout`), from `FilesInv`: files lie in working
  clones only; a frame at `git fetch` or `git rebase` has no files in its
  directory (`Emptied`); a copy that has changed its directory never fetches and
  a frame that waits is not in the middle of a reset (`StagesOfFrames`), which
  is what keeps a clone from being made over a directory that has files and a
  copy from building between another's `git clean` and `git rebase`.
- `InstalledMatches` (`InstalledFromCheckout`), from `FilesInv` and
  `VersionTells`: a file's version determines the upstream version it was built
  from, although not its commit, and tells that the directory is a working clone;
  the commit comes from `FilesInv`.
- `InstallsTogether` (`WholeTransaction`), from `FetchedFrames`: at pacman, every
  package of the command has a directory, so every path is handed over, and with
  a missing file the transaction changes nothing. Nothing is assumed of what failed
  before.
- `InstallsBuilt` (`BuiltBeforeInstall`), from two facts. `Whole`: a base that is not
  `torn` has, at any version, files of all its packages or of none, since a build
  makes all of them and a clean takes all (or, with `PKGDEST`, none). `BuiltSoFar`: while nothing has failed
  there is one frame, and it has a file for every package of a working clone it has
  passed in the build loop. A later `makepkg` of the same base may move its version;
  by `Whole` it then provides every package (`Provided`). Only a step of the
  fetch stage could take a file away, and that is over.
- `KeepsOrder` (`StagesInOrder`), the refinement of `PackageLifecycle` action by action
  (`LifecycleStep`): only a clone makes a base fetched (`CloneFetches`), no step of a
  command takes one away (`PresentStays`), and a pacman run is an install of packages
  whose bases are there (`PacmanInstalls`, from `InstallsFetched`).
- `FetchRecords` (`GitReportFresh`) and `FetchAdvances` (`FetchReachesAur`), from
  `FetchInv`: the AUR and the upstreams are never behind what they were when the
  command began (`CommandPast`), and as long as nothing has failed each clone the fetch loop
  has passed has the commit the AUR had then, or a later one (with `--reset`), or its
  version in memory (without), while the clone at the cursor is what its stage has made
  of it (`FetchSoFar`).

`ReportPipelineProofs`, for pipes and outputs of any size: `NoneLeft` (`NoOrphan`),
`CompleteReport` (`ReportComplete`) and `OnlyWhatFits` (`EndsOnlyWhenItFits`) follow
from one invariant that says of each place of `main()` which children it has
started and waited for, and that nobody reads a pipe before its writer has ended,
so that what was written is what the pipe holds.

`VersionLinesProofs` is about the two loops over the lines of `versions.txt`, whose
recursions are functions. That such a function is defined everywhere is proved
from the least element of a set of naturals (`SetInduction`, `CountInduction`): the
numbers of rounds for which there is a solution are all numbers. `MergeOfLists` then
says what `zip_merge_sorted_list()` makes of any two lists, sorted or not, and
`PickedLines` what the loop of `save_ver_cache()` copies.

`VersionCacheProofs`:

- `TypeCorrect`, `FileSorted` (`SortedOnDisk`: a front of a sorted list with a cut last
  line is sorted, and so is its merge) and `SaveForgetsNothing` (`MergeKeepsAll`), from
  an invariant by which the entries already taken, put before what the merge makes
  of the rest, are the merge of the whole lists.
- `ImplementsStore` (`RecordsLastFetched`), the refinement of `VersionStore`, step by
  step: a merge and its save are one step of the store, an interrupted save is a
  mishap. It has the hypothesis `SortedInputs`: `aur-fetch` with unsorted arguments
  is not covered.

`GitReportProofs`, for any number of instances, all names, versions and files:

- `TypeCorrect`. The invariant also has what a report holds; that damaged lines stay
  lines is the part of it with content (`CutLine`, `BehindLines`).
- `FileSortedAlone` (`SortedUnlessMixed`), from `Tidy`: while nothing was mixed, every
  list in memory is sorted too, and the file is empty while one instance has it open.
- `SaveForgetsNothing` (`SaveKeeps`), from `Held`: an instance that nobody disturbed
  holds the merge of what it read of the file it saw with what it fetched. Of a
  damaged file that is a front, as long as there are valid lines, with anything in the
  places of the invalid ones.
- `ShowsWhatWasFetched` (`FetchGitAccurate`): the file a walk begins with has every
  fetched line behind smaller names only (`Settled`, `Due`), whatever was loaded, for
  a line keeps that place when invalid ones are left out (`PickedLeads`),
  so that the cursor comes to each of them and passes none (`Finding`).
- `FollowsTheFile` (`ReportFollowsRecord`), from `Following`: all names behind the cursor
  are smaller than those of the packages to come.

The last two have the hypothesis `SortedSystems`: `pacman -Qm` lists packages by their
names, which `aur_list_git()` relies on and nothing in it establishes. The names and
versions are assumed to be finitely many, so that there is a name behind all others.

`StreamBuffersProofs`, for pieces and fragments of any length: `NoOverrun`
(`WithinBuffer`) and `WholeText` (`ReadsWhole`). The invariant relates what is counted,
what is allocated and where the last terminator lies, for each of the four readers.

`AurQueryProofs`, for a stash of any size and any hash of the names: `ChainsSound`
(`TableSound`) and `PlacesEnough` (`NothingDropped`). The table that `hashtable.c`
builds has a form of its own (`Linked`): a name that is new takes the next place of the
stash and the end of its bucket, so every bucket and every node points to the next
higher node of the same bucket. From this a chain goes up (`ChainGoesUp`) and therefore
ends, and passes no node of its bucket, so that each is found (`FindsNode`,
`FindsNothing`). A name that is there is set in place: `__unmap_node()` is never
reached. `NothingDropped` adds that each package of the request has taken one place at
most (`Filling`). Nothing is assumed of an answer for these two: `UpdateKeeps` only
needs that it is not written to names and pointers.

The same module proves what is written from an answer, for answers of any length and
layout that satisfy `AnswersAssumption`:

- `NextSibling` is what `find_next_sibling()` does: from a token directly inside of
  another one it comes to the next such token or to the end of the outer one. From it
  follows where the loops may be (`Outer`, `Walk`): the loop over the packages at
  one of them or, behind the array, at a key or value of the outer object; the walk of a
  package at a field of this one, at the object of a later one, or behind the array.
  It never enters another package's object, and what it passes outside of
  its own is none of the three keys.
- `Reading` says what the walk has read: of each key it has passed in its own object the
  text behind one of its occurrences, and nothing of the others. When the walk ends it
  has all three, and a loop that is behind the array has none (`WalkedReads`), so that
  the tokens there are no packages. `DiesOnlyMisread` (`DiesOfMisreading`) is a part of it.
- `Nodes` says what each node may hold at any moment; `BaseKnown` (`BaseBeforeUse`) is
  a part of it. `TypeCorrect` follows from the first two and `Linked`.
- `Written`, while no value reads like a key: the packages the loop has passed (`Passed`)
  are in their nodes, and all other nodes are as they were put. `Selection`: what is
  selected is the list of the known ones before `k`. Both give `AnswerWritten`
  (`AnswerApplied`).
- `DictionaryKept` (`KeepsDictionary`), the refinement of `PackageDict` step by step:
  `Fill` is a `Put` (`FillPuts`), `EndFill` is `Close`, `UpdateNode` is a `Learn` of the
  package it found (`UpdateLearns`) and all others are stutters. `AbsentAssumption` keeps
  the value for a missing entry apart from the entries.

Only model-checked: the liveness properties (`CommandEnds`, `EndsWhenItFits`,
`QueryEnds`), which are out of the prover's reach, and what the four runs with a
counterexample show.

## 5. What is not modelled

- An answer of the AUR that is not JSON: the tokeniser is a vendored library, and
  `AurQuery` starts from the tokens it gives.
- Two instances that clone, build or install in one `__pkg_cache__`: each directory
  has several processes of `git` and `makepkg` in it then, whose own locks decide
  what happens. Two instances over `versions.txt` are in `SharedVersions`.
- The listing of directories and `load_file_contents()` in `file_utils.c`, which
  only functions without a caller in `main()` use.
- The hint that the report prints when the list of package names is missing.
- Functions of `pkg_cache.c` and `pkg_info.c` without a caller in `main()`.
- `pacman-upgrade`, which runs one program, waits for it and returns.
- libcurl, the logger, zlib, the completion script and the code that generates
  its data: input and output without state of the manager.
- The tests under `test/`: drivers that print; read as documentation.

## 6. Plan

Order: what the user can lose first. Done: 1 to 9.

1. `UpdateFilter`: what is worked on. Theorems about both cursors.
2. `InstallStages`, implementing `PackageLifecycle`. Theorems on safety.
3. `VersionCache`, implementing `VersionStore`.
4. `ReportPipeline`.
5. `PackageTable` and `AurQuery`, implementing `PackageDict`: the table over its
   stash, the AUR's answer that writes into it and the filter that reads it.
6. `SharedVersions` and `GitReport`: instances over one `versions.txt`, and
   `aur_list_git()` over what they leave, damaged and unsorted files included.
7. `StreamBuffers`: the buffers of `file_utils.c`, `aur.c` and `pacman.c`.
8. `CommandLine`: `arg_commands.c` against a definition of what was written.
9. Proofs. Done: `VersionCache` with its refinement, `ReportPipeline`,
   `StreamBuffers`, `GitReport` and `SharedVersions`, all of `InstallStages`,
   `AurQuery` with its refinement, the parsers of `CommandLine`.
