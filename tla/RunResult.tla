------------------------------ MODULE RunResult ------------------------------
(***************************************************************************)
(* What a run reports: its output up to MAX_OUTPUT_SIZE, the files it      *)
(* changed and deleted (executor/podman_executor.py), the split into       *)
(* attachments and omitted files (routes/execute.py), and the sending of   *)
(* that answer, which goes on after the session's lock is released.        *)
(*                                                                         *)
(*   idle     the lock is free; answers may still be being sent            *)
(*   stamp    ExecutionEnvironment.__init__ walks the session              *)
(*   run      the container runs                                           *)
(*   drain    the reader takes the output (as if all at the end)           *)
(*   collect  collect_changes walks the session again                      *)
(*   attach   handle_execute opens the changed files in order              *)
(*   gone     DELETE /sessions removed the session                         *)
(*                                                                         *)
(* A walk finds its directories as it goes and opens each by its path from *)
(* the session directory, links on the way followed; then it takes the     *)
(* lstat of each entry, by path again.  A program whose container could    *)
(* not be removed goes on acting between any two of these calls.           *)
(***************************************************************************)
EXTENDS Naturals, FiniteSets, SequencesExt

CONSTANTS
  Paths,          \* a set of naturals: the order of the numbers is the order of the names
  Dirs,           \* the places of directories: their names from the session directory, <<>>, down
  Dir,            \* the directory of each path
  HiddenDirs,     \* those whose name starts with "."
  Inodes, Data, Size(_),   \* contents, and their lengths
  NoFile, Link,   \* what a path holds instead of a regular file
  Foreign,        \* signatures of files a link may lead to, in the session or out of it
  MaxEvents,      \* a bound on the changes of the tree and the runs
  MAX_RESULT_ATTACHMENTS, MAX_OUTPUT_SIZE,
  CHUNK,          \* the most one read of the pty returns (4096)
  Survivor        \* a program may outlive its run

ASSUME ResultAssumption ==
  /\ Paths \subseteq Nat /\ IsFiniteSet(Paths)
  /\ Dirs \subseteq Seq(STRING) /\ <<>> \in Dirs /\ \A d \in Dirs : Prefixes(d) \subseteq Dirs
  /\ Dir \in [Paths -> Dirs] /\ HiddenDirs \subseteq Dirs \ {<<>>}
  /\ {NoFile, Link} \cap Inodes = {} /\ NoFile # Link
  /\ \A d \in Data : Size(d) \in Nat
  /\ MaxEvents \in Nat /\ MAX_RESULT_ATTACHMENTS \in Nat \ {0} /\ MAX_OUTPUT_SIZE \in Nat \ {0}
  /\ CHUNK \in Nat \ {0} /\ Survivor \in BOOLEAN

VARIABLES
  kind,       \* what is at the place of each directory: "dir", "sealed" (no right to enter), "link", "none"
  fs,         \* the inode at each path, NoFile or Link, its directory being there or moved aside
  node,       \* data, mtime and ctime of each inode
  clock,      \* the time of the last change, in the file system's grains
  events,
  phase,
  pending,    \* directories the walk has found and not read
  names,      \* entries of the directory it is reading
  todo,       \* changed files still to open
  stamps,     \* input_files: path -> signature
  changed, deleted,            \* result.changed_files, result.deleted_files
  payloads, omitted, unread,   \* the split; changed files that could not be opened
  total, left, kept,           \* bytes of output: in all, not read yet, kept
  sending,    \* descriptors of answers being sent, with what they held when opened
  before,     \* history: the inode of each file there when the lock was taken
  touched,    \* history: inodes written, renamed or unlinked since the container started
  unsteady    \* history: paths that changed, or whose directories did, while a walk read

treeVars  == <<kind, fs, node, clock, events>>
walkVars  == <<pending, names>>
diffVars  == <<stamps, changed, deleted>>
splitVars == <<todo, payloads, omitted, unread>>
outVars   == <<total, left, kept>>
history   == <<before, touched, unsteady>>
vars      == <<treeVars, phase, walkVars, diffVars, splitVars, outVars, sending, history>>

\* A session that earlier requests have filled; names are sorted once and for all.
Init ==
  /\ kind = [d \in Dirs |-> "dir"]
  /\ fs \in [Paths -> Inodes \cup {NoFile}]
  /\ \A p, q \in Paths : fs[p] = fs[q] /\ fs[p] # NoFile => p = q
  /\ \E d \in Data : node = [i \in Inodes |-> [data |-> d, mtime |-> 0, ctime |-> 0]]
  /\ clock = 0 /\ events = 0
  /\ phase = "idle" /\ pending = {} /\ names = {} /\ todo = {}
  /\ stamps = <<>> /\ changed = {} /\ deleted = {}
  /\ payloads = {} /\ omitted = {} /\ unread = {}
  /\ total = 0 /\ left = 0 /\ kept = 0
  /\ sending = {} /\ before = <<>> /\ touched = {} /\ unsteady = {}

-----------------------------------------------------------------------------
(* The walk (_iter_session_files)                                            *)

\* Where the kernel comes to along the path of d: d itself, whatever the first
\* link on the way leads to, or an error.
Inside(d)  == \A a \in Prefixes(d) : kind[a] = "dir"
Outside(d) == \E a \in Prefixes(d) : kind[a] = "link" /\ \A b \in Prefixes(a) \ {a} : kind[b] = "dir"

Children(d) == {c \in Dirs \ HiddenDirs : c # <<>> /\ Front(c) = d}

\* os.scandir of the next directory: its sub-directories are found, hidden ones
\* and links to directories left out.
Scan(d) ==
  /\ phase \in {"stamp", "collect"} /\ names = {} /\ d \in pending
  /\ \/ /\ Inside(d)
        /\ names' = {p \in Paths : Dir[p] = d /\ fs[p] # NoFile}
        /\ pending' = (pending \ {d}) \cup {c \in Children(d) : kind[c] \in {"dir", "sealed"}}
     \/ /\ Outside(d)
        /\ names' \in SUBSET {p \in Paths : Dir[p] = d}
        /\ \E found \in SUBSET Children(d) : pending' = (pending \ {d}) \cup found
     \/ /\ ~Inside(d) /\ ~Outside(d)
        /\ names' = {} /\ pending' = pending \ {d}
  /\ UNCHANGED <<treeVars, phase, diffVars, splitVars, outVars, sending, history>>

Walked == pending = {} /\ names = {}

\* Seeded fault: size and mtime only.
BugSignature(i) == [size |-> Size(node[i].data), mtime |-> node[i].mtime]

\* _signature: st_ino, st_size, st_mtime_ns, st_ctime_ns
Signature(i) ==
  [ino |-> i, size |-> Size(node[i].data), mtime |-> node[i].mtime, ctime |-> node[i].ctime]

\* The signatures an lstat of p can find a regular file with, and when it finds
\* none: the entry has gone or is a link by now, or its directory is closed.
Lstat(p) ==
  IF Inside(Dir[p]) THEN {Signature(i) : i \in {fs[p]} \cap Inodes}
  ELSE IF Outside(Dir[p]) THEN Foreign ELSE {}
Misses(p) == ~Inside(Dir[p]) \/ fs[p] \notin Inodes

\* A regular file with no hidden directory above it, that can be come to.
Visible(p) == Inside(Dir[p]) /\ fs[p] \in Inodes /\ Prefixes(Dir[p]) \cap HiddenDirs = {}

\* The lock and a slot are taken: ExecutionEnvironment is constructed.
Execute ==
  /\ phase = "idle"
  /\ phase' = "stamp" /\ pending' = {<<>>}
  /\ before' = [p \in {q \in Paths : Visible(q)} |-> fs[p]]
  /\ UNCHANGED <<treeVars, names, diffVars, splitVars, outVars, sending, touched, unsteady>>

StampEntry(p) ==
  /\ phase = "stamp" /\ p \in names
  /\ names' = names \ {p}
  /\ \/ \E s \in Lstat(p) : stamps' = [q \in DOMAIN stamps \cup {p} |-> IF q = p THEN s ELSE stamps[q]]
     \/ Misses(p) /\ UNCHANGED stamps
  /\ UNCHANGED <<treeVars, phase, pending, changed, deleted, splitVars, outVars, sending, history>>

\* The container has started: podman takes longer than a grain of the clock.
Stamped ==
  /\ phase = "stamp" /\ Walked /\ events < MaxEvents
  /\ phase' = "run" /\ clock' = clock + 1 /\ events' = events + 1
  /\ UNCHANGED <<kind, fs, node, walkVars, diffVars, splitVars, outVars, sending, history>>

\* It has written as much as it likes.
RunEnds ==
  /\ phase = "run"
  /\ phase' = "drain"
  /\ \E n \in 0..(MAX_OUTPUT_SIZE + CHUNK) : total' = n /\ left' = n
  /\ UNCHANGED <<treeVars, walkVars, diffVars, splitVars, kept, sending, history>>

-----------------------------------------------------------------------------
(* The output                                                                *)

\* Seeded fault: the chunk that passes the limit is kept whole.
BugKept(chunk) == IF kept < MAX_OUTPUT_SIZE THEN chunk ELSE 0

\* chunk[:remaining_size]
Kept(chunk) == Min({chunk, MAX_OUTPUT_SIZE - kept})

\* read_max_and_close: reading goes on past the limit.
ReadChunk ==
  /\ phase = "drain"
  /\ \E chunk \in 1..Min({CHUNK, left}) :
       left' = left - chunk /\ kept' = kept + Kept(chunk)
  /\ UNCHANGED <<treeVars, phase, walkVars, diffVars, splitVars, total, sending, history>>

Drained ==
  /\ phase = "drain" /\ left = 0
  /\ phase' = "collect" /\ pending' = {<<>>}
  /\ deleted' = DOMAIN stamps
  /\ total' = 0 /\ left' = 0 /\ kept' = 0
  /\ UNCHANGED <<treeVars, names, stamps, changed, splitVars, sending, history>>

-----------------------------------------------------------------------------
(* collect_changes                                                           *)

\* A file that is found again is not missing, and changed when it has no stamp or
\* another one.
CollectEntry(p) ==
  /\ phase = "collect" /\ p \in names
  /\ names' = names \ {p}
  /\ \/ \E s \in Lstat(p) :
          /\ deleted' = deleted \ {p}
          /\ changed' = IF p \in DOMAIN stamps /\ stamps[p] = s THEN changed ELSE changed \cup {p}
     \/ Misses(p) /\ UNCHANGED <<changed, deleted>>
  /\ UNCHANGED <<treeVars, phase, pending, stamps, splitVars, outVars, sending, history>>

Collected ==
  /\ phase = "collect" /\ Walked
  /\ phase' = "attach" /\ todo' = changed
  /\ before' = <<>> /\ touched' = {} /\ unsteady' = {}
  /\ UNCHANGED <<treeVars, walkVars, diffVars, payloads, omitted, unread, outVars, sending>>

-----------------------------------------------------------------------------
(* The split, and the answer                                                 *)

\* Seeded fault: places are counted by the files tried, not by those opened.
BugPlaceLeft == Cardinality(payloads) + Cardinality(omitted) < MAX_RESULT_ATTACHMENTS

PlaceLeft == Cardinality(payloads) < MAX_RESULT_ATTACHMENTS

\* session.read_file may fail (a link or a missing file by now, a closed
\* directory, a name that is not UTF-8, no descriptors left).
OpenNext ==
  LET p == Min(todo) IN
  /\ phase = "attach" /\ todo # {}
  /\ todo' = todo \ {p}
  /\ \/ /\ ~PlaceLeft
        /\ omitted' = omitted \cup {p}
        /\ UNCHANGED <<payloads, unread>>
     \/ /\ PlaceLeft /\ fs[p] \in Inodes /\ Inside(Dir[p])
        /\ payloads' = payloads \cup {[path |-> p, inode |-> fs[p], data |-> node[fs[p]].data]}
        /\ UNCHANGED <<omitted, unread>>
     \/ /\ PlaceLeft
        /\ omitted' = omitted \cup {p} /\ unread' = unread \cup {p}
        /\ UNCHANGED payloads
  /\ UNCHANGED <<treeVars, phase, walkVars, diffVars, outVars, sending, history>>

\* The lock is released and aiohttp sends the parts.
Answer ==
  /\ phase = "attach" /\ todo = {}
  /\ phase' = "idle"
  /\ sending' = sending \cup payloads
  /\ stamps' = <<>> /\ changed' = {} /\ deleted' = {}
  /\ payloads' = {} /\ omitted' = {} /\ unread' = {}
  /\ UNCHANGED <<treeVars, walkVars, todo, outVars, history>>

Sent(x) ==
  /\ x \in sending
  /\ sending' = sending \ {x}
  /\ UNCHANGED <<treeVars, phase, walkVars, diffVars, splitVars, outVars, history>>

-----------------------------------------------------------------------------
(* Other requests on the session, between runs                               *)

\* An inode number nobody uses: no path, and no open descriptor.
Unused(i) == i \notin {fs[p] : p \in Paths} \cup {x.inode : x \in sending \cup payloads}

\* A change happens in the same grain of the clock as the last one, or later.
\* (Of the bound, the start of the container is left its share.)
Tick ==
  /\ events < IF phase = "stamp" THEN MaxEvents - 1 ELSE MaxEvents
  /\ events' = events + 1
  /\ clock' \in {clock, clock + 1}

\* A name of each inode of S comes or goes: its change time says so.
Relinks(S) == node' = [i \in Inodes |-> IF i \in S THEN [node[i] EXCEPT !.ctime = clock'] ELSE node[i]]

\* Content d is put at p, in the inode i, with modification time mt.
Writes(p, i, d, mt) ==
  /\ fs' = [fs EXCEPT ![p] = i]
  /\ node' = [j \in Inodes |-> CASE j = i     -> [data |-> d, mtime |-> mt, ctime |-> clock']
                               [] j # i /\ j = fs[p] -> [node[j] EXCEPT !.ctime = clock']
                               [] OTHER     -> node[j]]
  /\ UNCHANGED kind

\* Seeded fault: PUT writes into the file that is there.
BugPutInode(p, i) == IF fs[p] \in Inodes THEN i = fs[p] ELSE Unused(i)

\* os.replace of a new file
PutInode(p, i) == Unused(i)

\* Into a directory that is there (SessionFiles has those PUT makes).
Put(p) ==
  /\ phase = "idle" /\ Inside(Dir[p]) /\ Tick
  /\ \E i \in Inodes, d \in Data : PutInode(p, i) /\ Writes(p, i, d, clock')
  /\ UNCHANGED <<phase, walkVars, diffVars, splitVars, outVars, sending, history>>

DeleteFile(p) ==
  /\ phase = "idle" /\ Inside(Dir[p]) /\ fs[p] # NoFile /\ Tick
  /\ fs' = [fs EXCEPT ![p] = NoFile] /\ Relinks({fs[p]})
  /\ UNCHANGED <<kind, phase, walkVars, diffVars, splitVars, outVars, sending, history>>

DeleteSession ==
  /\ phase = "idle"
  /\ phase' = "gone"
  /\ fs' = [p \in Paths |-> NoFile]
  /\ UNCHANGED <<kind, node, clock, events, walkVars, diffVars, splitVars, outVars, sending, history>>

OtherRequest == DeleteSession \/ \E p \in Paths : Put(p) \/ DeleteFile(p)

-----------------------------------------------------------------------------
(* The program: at a path whose directory was closed or moved aside it acts   *)
(* through a descriptor, or under the directory's other name.                 *)

\* It may set a modification time back to what it was; the change time is the
\* kernel's.  A free inode number may be used again.
ProgramWrites(p, i) ==
  /\ i = fs[p] \/ Unused(i)
  /\ \E d \in Data, mt \in {clock'} \cup {node[j].mtime : j \in {fs[p]} \cap Inodes} : Writes(p, i, d, mt)

ProgramRenames(p, q) ==
  /\ fs[p] \in Inodes /\ p # q
  /\ fs' = [fs EXCEPT ![q] = fs[p], ![p] = NoFile] /\ Relinks({fs[p], fs[q]})
  /\ UNCHANGED kind

ProgramRemoves(p) ==
  /\ fs[p] # NoFile
  /\ fs' = [fs EXCEPT ![p] = NoFile] /\ Relinks({fs[p]})
  /\ UNCHANGED kind

ProgramLinks(p) ==
  /\ fs[p] = NoFile
  /\ fs' = [fs EXCEPT ![p] = Link]
  /\ UNCHANGED <<kind, node>>

\* chmod; or d is moved aside, for a link or for nothing; or a directory comes to
\* its place, d again or another one, whose files keep their times.  The session
\* directory is a mount point.
ProgramMoves(d) ==
  /\ \E k \in IF d = <<>> THEN {"dir", "sealed"} ELSE {"dir", "sealed", "link", "none"} :
       kind' = [kind EXCEPT ![d] = k]
  /\ \/ UNCHANGED fs
     \/ /\ d # <<>> /\ kind'[d] = "dir"
        /\ \E f \in [{p \in Paths : d \in Prefixes(Dir[p])} -> Inodes \cup {NoFile}] :
             fs' = [p \in Paths |-> IF p \in DOMAIN f THEN f[p] ELSE fs[p]]
  /\ UNCHANGED node

\* What the histories say of an act on the inodes S.
Noted(S) ==
  /\ touched' = IF phase \in {"run", "collect"} THEN touched \cup S ELSE touched
  /\ unsteady' = IF phase \notin {"stamp", "collect"} THEN unsteady
                 ELSE unsteady \cup {p \in Paths : fs'[p] # fs[p] \/ fs[p] \in S
                                                 \/ \E d \in Prefixes(Dir[p]) : kind'[d] # kind[d]}
  /\ UNCHANGED before

Program ==
  /\ phase = "run" \/ (Survivor /\ phase \notin {"drain", "gone"})   \* nobody looks at the tree in drain
  /\ Tick
  /\ \/ \E p \in Paths, i \in Inodes : ProgramWrites(p, i) /\ Noted({i, fs[p]})
     \/ \E p, q \in Paths : ProgramRenames(p, q) /\ Noted({fs[p], fs[q]})
     \/ \E p \in Paths : (ProgramRemoves(p) \/ ProgramLinks(p)) /\ Noted({fs[p]})
     \/ \E d \in Dirs \ HiddenDirs : ProgramMoves(d) /\ Noted({})
  /\ UNCHANGED <<phase, walkVars, diffVars, splitVars, outVars, sending>>

-----------------------------------------------------------------------------
Next ==
  \/ Execute \/ Stamped \/ RunEnds \/ ReadChunk \/ Drained \/ Collected \/ OpenNext \/ Answer
  \/ \E d \in Dirs : Scan(d)
  \/ \E p \in Paths : StampEntry(p) \/ CollectEntry(p)
  \/ \E x \in sending : Sent(x)
  \/ OtherRequest
  \/ Program

Spec == Init /\ [][Next]_vars

-----------------------------------------------------------------------------
(* Properties                                                                *)

\* A file that nobody disturbs while the two walks read is reported as changed
\* exactly when it is there at the end and was not at the beginning, or is another
\* one, or was written or renamed during the run, with its old size, modification
\* time or inode number or not; and as deleted exactly when it was there and is not.
\* Neither depends on what happens to other files or directories meanwhile, and
\* between the walks directories may be closed, moved, replaced and swapped for links.
ChangesReported ==
  phase = "collect" /\ Walked =>
    \A p \in Paths \ unsteady :
      /\ p \in changed <=>
           Visible(p) /\ (p \notin DOMAIN before \/ before[p] # fs[p] \/ fs[p] \in touched)
      /\ p \in deleted <=> p \in DOMAIN before /\ ~Visible(p)

\* Every changed file is attached or named as omitted, once; files that could be
\* read are omitted only when the attachments are full, and then from the end of
\* the sorted list.
SplitComplete ==
  phase = "attach" /\ todo = {} =>
    LET attached == {x.path : x \in payloads} IN
    /\ attached \cup omitted = changed /\ attached \cap omitted = {}
    /\ Cardinality(payloads) <= MAX_RESULT_ATTACHMENTS
    /\ omitted # unread => Cardinality(payloads) = MAX_RESULT_ATTACHMENTS
    /\ \A p \in attached, q \in omitted \ unread : p < q

\* The output is cut at MAX_OUTPUT_SIZE exactly, and all of it has been read.
OutputCut ==
  [][phase = "drain" /\ phase' # "drain" => kept = Min({total, MAX_OUTPUT_SIZE})]_vars

\* Requests that replace or delete a file, or its session, after the lock has been
\* released do not alter the answer that is still being sent.
AnswerSurvivesRequests ==
  [][OtherRequest => \A x \in sending : node'[x.inode].data = node[x.inode].data]_vars
=============================================================================
