----------------------------- MODULE SessionFiles -----------------------------
(***************************************************************************)
(* The file operations of one session, system call by system call, beside  *)
(* a program that outlived its run and rearranges the tree meanwhile:      *)
(* Session._open_parent, read_file, list_directory, delete_file and the    *)
(* staging half of write_file (sessions.py), with normalize_sub_path       *)
(* (validation.py) in front of them and the capped copy of file_helpers.py.*)
(* The session's lock makes the requests come one after the other.         *)
(*                                                                         *)
(* A request asks for a path as the client wrote it, split at "/".  phase: *)
(*   idle     no request; a payload may still be being sent                *)
(*   begun    the path is as the client sent it                            *)
(*   mkdir    _open_parent, to create: the next directory may be missing   *)
(*   walk     _open_parent: fd is the directory the walk has reached       *)
(*   last     the walk is over, the operation acts on the last component   *)
(*   unlink   delete_file: between its stat and its unlink                 *)
(*   copy     write_file_to_temp: the temporary file is open               *)
(*   entries  list_directory: between listdir and the last stat            *)
(***************************************************************************)
EXTENDS Naturals, Sequences, FiniteSets, SequencesExt

CONSTANTS
  Root,               \* the session directory
  SubDirs,            \* the other directories there can be in a session
  Files, Links, Others,   \* regular files, symbolic links, fifos and sockets
  Outside,            \* whatever a link or ".." leads to
  Names,              \* the names a path can hold
  None,
  RawPaths,           \* the paths clients ask for
  Modes,              \* the permission bits directories have, those of their owner
  MaxClosed,          \* how many directories lack one at a time (a bound)
  CAP,                \* CONTAINER_ULIMIT_FSIZE
  CHUNK               \* the most a stream yields at a time (8192)

Dirs  == {Root} \cup SubDirs
Nodes == SubDirs \cup Files \cup Links \cup Others
Places == Dirs \X Names

\* What a path can hold between its slashes; NUL stands for a component that holds one.
Components == Names \cup {"", ".", "..", "NUL"}

ASSUME SizesAssumption == CAP \in Nat /\ CHUNK \in Nat \ {0}

ASSUME NodesAssumption ==
  /\ Root \notin Nodes /\ Outside \notin Dirs \cup Nodes
  /\ None \notin ((Dirs \cup Nodes) \X Names) \cup Dirs \cup Nodes \cup {Outside}
  /\ (Files \cup Links \cup Others) \cap SubDirs = {}
  /\ Links \cap (Files \cup Others) = {} /\ Files \cap Others = {}
  /\ {"", ".", "..", "NUL"} \cap Names = {}

Full == {"r", "w", "x"}

ASSUME ModesAssumption == Full \in Modes /\ Modes \subseteq SUBSET Full

ASSUME PathsAssumption == RawPaths \subseteq Seq(Components)

VARIABLES
  at,       \* where each node is, or None
  mode,     \* what its permission bits let the server do in each directory
  phase, op,
  asked,    \* the path as the client wrote it
  path,     \* the components of the normalised path
  depth,    \* how many of them the walk has descended
  fd,       \* the directory the walk has reached
  held,     \* descriptors the server holds
  answer,   \* of the last request
  got,      \* the file whose descriptor an answer being sent holds
  listing,  \* entries still to be looked at, entries reported
  temp,     \* the directory the temporary file is in
  copy,     \* bytes of the upload: in all, copied so far
  calm      \* no program has touched the tree since the GET began

treeVars == <<at, mode, temp>>
reqVars  == <<phase, op, asked, path, depth, fd, held, answer, got, listing, copy, calm>>
vars     == <<treeVars, reqVars>>

Phases  == {"idle", "begun", "mkdir", "walk", "last", "unlink", "copy", "entries"}
NoListing == [todo |-> {}, entries |-> {}]
NoCopy    == [body |-> 0, written |-> 0]

Init ==
  /\ at = [n \in Nodes |-> None]
  /\ mode = [d \in Dirs |-> Full]
  /\ temp = None
  /\ phase = "idle" /\ op = "none" /\ answer = "none"
  /\ asked = <<>> /\ path = <<>> /\ depth = 0
  /\ fd = None /\ held = 0 /\ got = None
  /\ listing = NoListing /\ copy = NoCopy /\ calm = TRUE

-----------------------------------------------------------------------------
(* normalize_sub_path: posixpath.normpath of the name without its leading    *)
(* slashes, refused when it is empty or climbs out.  A component is "" where *)
(* the client wrote two slashes.                                             *)

Dot == "."
DotDot == ".."
Nul == "NUL"

\* One component: nothing to do for "" and ".", while ".." takes the last name back,
\* unless there is none to take.
Descend(done, c) ==
  CASE c \in {"", Dot} -> done
    [] c = DotDot /\ done # <<>> /\ Last(done) # DotDot -> Front(done)
    [] OTHER -> Append(done, c)

\* done[i] is what the first i components come to.
Normpath(raw) ==
  LET done[i \in 0..Len(raw)] == IF i = 0 THEN <<>> ELSE Descend(done[i - 1], raw[i])
  IN  done[Len(raw)]

\* Seeded fault: the climb is looked for in the path as it was written.
BugRefused(raw) == {Nul, DotDot} \cap ToSet(raw) # {} \/ Normpath(raw) = <<>>

Refused(raw) ==
  \/ Nul \in ToSet(raw)
  \/ Normpath(raw) = <<>>
  \/ IsPrefix(<<DotDot>>, Normpath(raw))

-----------------------------------------------------------------------------
(* The tree, and what the kernel answers                                     *)

At(d, c) == {n \in Nodes : at[n] = <<d, c>>}

\* Directories in which a process can create entries: a directory that has been
\* removed stays open for those who opened it, and empty.
Linked(d) == d = Root \/ (d \in SubDirs /\ at[d] # None)

Empty(d) == {n \in Nodes : at[n] # None /\ at[n][1] = d} = {}

\* Searching d takes "x", listing it "r", and making or removing entries "w" as well.
May(p, d) == d \in Dirs => p \in mode[d]

MayUnlink(d) == May("w", d) /\ May("x", d)

\* What a process that wants to create an entry in d is refused with: EACCES where it may
\* not search, ENOENT in a directory that is gone, EACCES again, or by the quota.
CanCreate(d) == May("x", d) /\ Linked(d) /\ May("w", d)
Refusal(d) ==
  CASE ~May("x", d) -> "error" [] May("x", d) /\ ~Linked(d) -> "notfound"
    [] May("x", d) /\ Linked(d) /\ ~May("w", d) -> "error" [] OTHER -> "quota"

\* Moving a directory below itself is refused: every directory still hangs on Root.
NoCycle(place) ==
  LET Above(d, i) == IF d = Root THEN d ELSE place[d][1]
  IN \A d \in SubDirs : place[d] # None =>
       FoldLeft(Above, d, [i \in 1..Cardinality(SubDirs) |-> i]) = Root

\* Opening component c of directory d with O_DIRECTORY | O_NOFOLLOW: a directory,
\* or None for ENOENT, ENOTDIR and ELOOP.  What ".." leads to from the session
\* directory is outside.
Lookup(d, c) ==
  CASE c = DotDot /\ d \in SubDirs /\ at[d] # None -> at[d][1]
    [] c = DotDot /\ ~(d \in SubDirs /\ at[d] # None) -> Outside
    [] c # DotDot /\ At(d, c) \cap SubDirs # {} -> CHOOSE n \in At(d, c) : TRUE
    [] OTHER -> None

\* Seeded fault: without O_NOFOLLOW a link is followed.
BugOpenDirectory(d, c) == IF At(d, c) \cap Links # {} THEN Outside ELSE Lookup(d, c)

OpenDirectory(d, c) == Lookup(d, c)

\* Opening directory n by its name in d is refused with EACCES.
Denied(d, n) == ~May("x", d) \/ (n # None /\ ~May("r", n))

-----------------------------------------------------------------------------
(* Requests                                                                  *)

\* GET, DELETE, and the uploads: PUT, seed files and attachments.  The descriptor of
\* an answer outlives the lock; it is closed before the next request (a bound).
Begin(o, raw) ==
  /\ phase = "idle" /\ got = None
  /\ phase' = "begun" /\ op' = o /\ asked' = raw
  /\ answer' = "none"
  /\ temp' = None
  /\ UNCHANGED <<at, mode, path, depth, fd, held, got, listing, copy, calm>>

\* The request ends, holding h descriptors; g is the file of its payload.
Ends(a, h, g) ==
  /\ phase' = "idle" /\ op' = "none" /\ answer' = a
  /\ held' = h /\ got' = g
  /\ asked' = <<>> /\ path' = <<>> /\ depth' = 0 /\ fd' = None
  /\ listing' = NoListing /\ copy' = NoCopy /\ calm' = TRUE

\* _open_parent's `finally` closes the directory reached.
Fails(a) == Ends(a, held - 1, got) /\ UNCHANGED treeVars

\* os.open(self.work_directory) succeeds: the walk of p starts, h descriptors held.
Enter(o, p, h) ==
  /\ op' = o /\ asked' = <<>> /\ path' = p /\ depth' = 0 /\ fd' = Root /\ held' = h + 1
  /\ phase' = IF Len(p) = 1 THEN "last" ELSE IF o = "stage" THEN "mkdir" ELSE "walk"

\* normalize_sub_path, or the session's root directory, which only GET can name.
Normalise ==
  /\ phase = "begun"
  /\ LET atRoot == op = "read" /\ ToSet(asked) \subseteq {""}
     IN \/ /\ atRoot /\ May("r", Root)
           /\ phase' = "entries" /\ op' = "list" /\ asked' = <<>> /\ fd' = Root /\ held' = 1
           /\ listing' = [todo |-> {c \in Names : At(Root, c) # {}}, entries |-> {}]
           /\ UNCHANGED <<treeVars, path, depth, answer, got, copy, calm>>
        \/ /\ ~atRoot /\ Refused(asked)
           /\ Ends("invalid", held, got)
           /\ UNCHANGED treeVars
        \/ /\ atRoot \/ ~Refused(asked)
           /\ ~May("r", Root)
           /\ Ends("error", held, got)
           /\ UNCHANGED treeVars
        \/ /\ ~atRoot /\ ~Refused(asked) /\ May("r", Root)
           /\ Enter(op, Normpath(asked), held)
           /\ UNCHANGED <<treeVars, answer, got, listing, copy, calm>>

NextComponent == path[depth + 1]

\* os.mkdir, FileExistsError ignored.  Whether the quota has room for it is not
\* the server's doing.
MkDir ==
  /\ phase = "mkdir"
  /\ \/ /\ May("x", fd) /\ At(fd, NextComponent) # {}
        /\ phase' = "walk"
        /\ UNCHANGED <<at, mode, answer, held, got, op, asked, path, depth, fd, listing, copy, calm>>
     \/ /\ CanCreate(fd) /\ At(fd, NextComponent) = {}
        /\ \E d \in SubDirs :
             /\ at[d] = None /\ d # fd
             /\ at' = [at EXCEPT ![d] = <<fd, NextComponent>>] /\ mode' = [mode EXCEPT ![d] = Full]
        /\ phase' = "walk"
        /\ UNCHANGED <<answer, held, got, op, asked, path, depth, fd, listing, copy, calm>>
     \/ /\ May("x", fd) => At(fd, NextComponent) = {}
        /\ Ends(Refusal(fd), held - 1, got)
        /\ UNCHANGED <<at, mode>>
  /\ UNCHANGED temp

\* One component further: next_fd is opened and the descriptor above it closed.
Walk ==
  LET d == OpenDirectory(fd, NextComponent) IN
  /\ phase = "walk"
  /\ \/ Denied(fd, d) /\ Fails("error")
     \/ ~Denied(fd, d) /\ d = None /\ Fails("notfound")
     \/ /\ ~Denied(fd, d) /\ d # None
        /\ fd' = d /\ depth' = depth + 1
        /\ phase' = IF depth + 2 = Len(path) THEN "last" ELSE IF op = "stage" THEN "mkdir" ELSE "walk"
        /\ UNCHANGED <<treeVars, op, asked, path, held, answer, got, listing, copy, calm>>

Filename == Last(path)

-----------------------------------------------------------------------------
(* GET                                                                       *)

\* Seeded fault: a descriptor that turns out not to be a file's is forgotten.
BugClosed(isFile) == IF isFile THEN 2 ELSE 1

\* Of the two descriptors, the file's is closed or goes to the payload, and the
\* parent's is closed.
Closed(isFile) == 2

\* read_file: open the last component without following it, and look at what was
\* opened.  What is there may not be readable, and preparing the payload of a file may
\* fail (a name that is not UTF-8).  For a directory the route asks list_directory,
\* which walks again.
ReadFile ==
  /\ phase = "last" /\ op = "read"
  /\ LET here == At(fd, Filename) IN
     \/ ~May("x", fd) /\ Fails("error")
     \/ /\ May("x", fd)
        /\ \E n \in here \cap Files, a \in {"ok", "error"} :
             Ends(a, held + 1 - Closed(TRUE), IF a = "ok" THEN n ELSE got)
        /\ UNCHANGED treeVars
     \/ /\ May("x", fd) /\ here \cap Others # {}
        /\ \E a \in {"notfound", "error"} : Ends(a, held + 1 - Closed(FALSE), got)
        /\ UNCHANGED treeVars
     \/ /\ May("x", fd) /\ here \cap (Files \cup SubDirs \cup Others) = {}
        /\ Fails("notfound")
     \/ /\ May("x", fd)
        /\ \E n \in here \cap SubDirs : ~May("r", n)
        /\ Fails("error")
     \/ /\ May("x", fd)
        /\ \E n \in here \cap SubDirs : May("r", n)
        /\ IF May("r", Root)
           THEN Enter("list", path, held + 1 - Closed(FALSE)) /\ UNCHANGED <<answer, got, listing, copy, calm>>
           ELSE Ends("error", held + 1 - Closed(FALSE), got)
        /\ UNCHANGED treeVars

-----------------------------------------------------------------------------
(* Listing a directory: entries whose stat fails are left out.               *)

Kind(n) ==
  CASE n \in Files -> "file" [] n \in SubDirs -> "directory" [] n \in Links -> "symlink" [] OTHER -> "other"

Entries(d) == UNION {{<<c, Kind(n)>> : n \in At(d, c)} : c \in Names}

ListDirectory ==
  LET d == OpenDirectory(fd, Filename) IN
  /\ phase = "last" /\ op = "list"
  /\ \/ Denied(fd, d) /\ Fails("error")
     \/ ~Denied(fd, d) /\ d = None /\ Fails("notfound")
     \/ /\ ~Denied(fd, d) /\ d # None
        /\ phase' = "entries" /\ fd' = d
        /\ listing' = [todo |-> {c \in Names : At(d, c) # {}}, entries |-> {}]
        /\ UNCHANGED <<treeVars, op, asked, path, depth, held, answer, got, copy, calm>>

\* Seeded fault: what is not a plain file or directory is left out.
BugStated(d, c) == {e \in Entries(d) : e[1] = c /\ e[2] \in {"file", "directory"} /\ May("x", d)}

\* os.stat fails on what has vanished, and on everything where the server may list but
\* not search.
Stated(d, c) == {e \in Entries(d) : e[1] = c /\ May("x", d)}

StatEntry(c) ==
  /\ phase = "entries" /\ c \in listing.todo
  /\ listing' = [todo |-> listing.todo \ {c}, entries |-> listing.entries \cup Stated(fd, c)]
  /\ UNCHANGED <<treeVars, phase, op, asked, path, depth, fd, held, answer, got, copy, calm>>

Listed ==
  /\ phase = "entries" /\ listing.todo = {}
  /\ Ends("ok", held - 1, got)
  /\ UNCHANGED treeVars

-----------------------------------------------------------------------------
(* DELETE: a stat, then an unlink; a program may act in between.             *)

DeleteStat ==
  /\ phase = "last" /\ op = "delete"
  /\ \/ ~May("x", fd) /\ Fails("error")
     \/ May("x", fd) /\ At(fd, Filename) = {} /\ Fails("notfound")
     \/ May("x", fd) /\ At(fd, Filename) \cap SubDirs # {} /\ Fails("isdir")
     \/ /\ May("x", fd) /\ At(fd, Filename) \ SubDirs # {}
        /\ phase' = "unlink"
        /\ UNCHANGED <<treeVars, op, asked, path, depth, fd, held, answer, got, listing, copy, calm>>

\* unlink(2) removes the link, never what it points to, and no directory.
Unlink ==
  /\ phase = "unlink"
  /\ \/ /\ May("x", fd) => At(fd, Filename) # {} /\ ~May("w", fd)
        /\ Fails("error")
     \/ May("x", fd) /\ At(fd, Filename) = {} /\ Fails("notfound")
     \/ MayUnlink(fd) /\ At(fd, Filename) \cap SubDirs # {} /\ Fails("isdir")
     \/ /\ MayUnlink(fd)
        /\ \E n \in At(fd, Filename) \ SubDirs : at' = [at EXCEPT ![n] = None]
        /\ Ends("ok", held - 1, got)
        /\ UNCHANGED <<mode, temp>>

-----------------------------------------------------------------------------
(* Uploads: write_file_to_temp in the directory the walk has opened, and the *)
(* capped copy.  A stream yields at most CHUNK bytes, a `bytes` object all   *)
(* of itself.                                                                *)

OpenTemp ==
  /\ phase = "last" /\ op = "stage"
  /\ \/ /\ CanCreate(fd)
        /\ temp' = fd /\ phase' = "copy" /\ held' = held + 1
        /\ \E b \in 0..(CAP + 2) : copy' = [body |-> b, written |-> 0]
        /\ UNCHANGED <<at, mode, op, asked, path, depth, fd, answer, got, listing, calm>>
     \/ /\ Fails(Refusal(fd))

Yields(left) == IF left = 0 THEN {} ELSE {left} \cup 1..CHUNK

\* Seeded fault: the size is checked before the chunk is added.
BugFits(chunk) == copy.written <= CAP

\* actual_size counts the chunk before it is written.
Fits(chunk) == copy.written + chunk <= CAP

\* Seeded fault: the temporary file is looked for by the name of its directory.
BugUnlinkTemp ==
  temp' = IF MayUnlink(fd) /\ (fd = Root \/ at[fd] = <<Root, path[1]>>) THEN None ELSE temp

\* os.unlink(temporary_name, dir_fd=parent_fd)
UnlinkTemp == temp' = IF MayUnlink(fd) THEN None ELSE temp

\* The file and the parent directory are closed.  Only FileNotFoundError is suppressed:
\* EACCES of the unlink takes the place of what went wrong.
StageFails(a) ==
  /\ UnlinkTemp
  /\ IF May("x", fd) /\ (temp # None => May("w", fd))
     THEN Ends(a, held - 2, got)
     ELSE Ends("error", held - 2, got)
  /\ UNCHANGED <<at, mode>>

CopyChunk ==
  /\ phase = "copy"
  /\ \E chunk \in Yields(copy.body - copy.written) :
       /\ copy.written + chunk <= copy.body
       /\ \/ /\ Fits(chunk)
             /\ copy' = [copy EXCEPT !.written = @ + chunk]
             /\ UNCHANGED <<treeVars, phase, op, asked, path, depth, fd, held, answer, got, listing, calm>>
          \/ /\ ~Fits(chunk)
             /\ StageFails("toolarge")

\* The quota refuses a write, or the client breaks off.
CopyFails ==
  /\ phase = "copy"
  /\ \E a \in {"quota", "error"} : StageFails(a)

\* at_eof(): the file is staged, and commit_staged_file is next (module Upload).
Staged ==
  /\ phase = "copy" /\ copy.written = copy.body
  /\ Ends("ok", held - 2, got)
  /\ UNCHANGED treeVars

-----------------------------------------------------------------------------
\* The payload has been sent and closed.
Sent ==
  /\ got # None
  /\ got' = None
  /\ UNCHANGED <<treeVars, phase, op, asked, path, depth, fd, held, answer, listing, copy, calm>>

(* A program that outlived its run: it makes, moves and removes what it      *)
(* likes inside the session, may remove a temporary file, and closes         *)
(* directories to the server, which runs as their owner.                     *)

\* rename, or creation when n is nowhere; a directory that is still held open is
\* another one than the one created.
ProgramPuts(n, d, c) ==
  /\ Linked(d) /\ At(d, c) = {}
  /\ at[n] = None => n \notin {fd, got}
  /\ at' = [at EXCEPT ![n] = <<d, c>>]
  /\ NoCycle(at')
  /\ mode' = IF n \in SubDirs /\ at[n] = None THEN [mode EXCEPT ![n] = Full] ELSE mode
  /\ UNCHANGED temp

ProgramRemoves(n) ==
  /\ at[n] # None /\ (n \in SubDirs => Empty(n) /\ temp # n)
  /\ at' = [at EXCEPT ![n] = None]
  /\ UNCHANGED <<mode, temp>>

ProgramRemovesTemp == temp # None /\ phase # "idle" /\ temp' = None /\ UNCHANGED <<at, mode>>

ProgramChmods(d, m) ==
  /\ Linked(d) \/ d = fd
  /\ mode' = [mode EXCEPT ![d] = m]
  /\ Cardinality({e \in Dirs : mode'[e] # Full}) <= MaxClosed
  /\ UNCHANGED <<at, temp>>

Program ==
  /\ phase # "begun"            \* the server has not looked at the tree yet
  /\ phase = "entries" => calm  \* once during a listing (a bound): nothing is asked of the others
  /\ \/ \E n \in Nodes, d \in Dirs, c \in Names : ProgramPuts(n, d, c)
     \/ \E n \in Nodes : ProgramRemoves(n)
     \/ ProgramRemovesTemp
     \/ \E d \in Dirs, m \in Modes : ProgramChmods(d, m)
  /\ calm' = (phase = "idle" \/ op \notin {"read", "list"})
  /\ UNCHANGED <<phase, op, asked, path, depth, fd, held, answer, got, listing, copy>>

Server ==
  \/ \E o \in {"read", "delete", "stage"}, raw \in RawPaths : Begin(o, raw)
  \/ Normalise \/ MkDir \/ Walk
  \/ ReadFile \/ ListDirectory \/ Listed \/ \E c \in Names : StatEntry(c)
  \/ DeleteStat \/ Unlink
  \/ OpenTemp \/ CopyChunk \/ CopyFails \/ Staged
  \/ Sent

Next == Server \/ Program

Spec == Init /\ [][Next]_vars

-----------------------------------------------------------------------------
(* Properties                                                                *)

\* However a surviving program swaps components under the walk, every directory
\* acted in and every file served belongs to the session, never what a link or
\* ".." leads to (the docstring of _open_parent).
Contained == fd # Outside /\ got # Outside /\ temp # Outside

\* The directory level a path has reached after its first i components.
Level(raw, i) ==
  Cardinality({j \in 1..i : raw[j] \notin {"", Dot, DotDot}}) - Cardinality({j \in 1..i : raw[j] = DotDot})

\* A name survives when no later prefix of the path climbs back above it.
Survives(raw, i) ==
  /\ raw[i] \notin {"", Dot, DotDot}
  /\ \A j \in (i + 1)..Len(raw) : Level(raw, j) >= Level(raw, i)

\* Paths are refused exactly when they hold a NUL, climb above the session
\* directory or name it, and otherwise lead where the client's path leads, read
\* from left to right.
NormalisesRight ==
  phase = "begun" =>
    /\ Refused(asked) <=> \/ Nul \in ToSet(asked)
                          \/ \E i \in 1..Len(asked) : Level(asked, i) < 0
                          \/ Level(asked, Len(asked)) = 0
    /\ ~Refused(asked) =>
         LET kept == {i \in 1..Len(asked) : Survives(asked, i)}
         IN Normpath(asked) = [k \in 1..Cardinality(kept) |->
              asked[CHOOSE i \in kept : Cardinality({j \in kept : j <= i}) = k]]

\* No request leaves a descriptor open, whatever it met on its way: what was not
\* a file after all, a name that cannot be sent, a tree changing under the walk.
NoDescriptorLeak == phase = "idle" => held = 0

\* Node n is where path p leads in the tree, links not followed.
Leads(p, n) ==
  \E f \in [0..Len(p) -> Nodes \cup {Root}] :
    /\ f[0] = Root /\ f[Len(p)] = n
    /\ \A i \in 1..Len(p) : f[i] \in Nodes /\ at[f[i]] = <<f[i - 1], p[i]>>

\* With no program about, GET answers what the tree holds: the file its path leads
\* to, or all the entries of the directory, links and the rest included, or 404
\* when it leads to neither; and fails only on a file it cannot send or in a tree with a
\* directory closed to it.  One it may list but not search it answers for with no entries.
AnswersTruly ==
  [][calm /\ phase # "idle" /\ phase' = "idle" /\ op \in {"read", "list"} =>
       /\ op = "read" /\ answer' = "ok" => got' \in Files /\ Leads(path, got')
       /\ op = "list" /\ answer' = "ok" =>
            \E d \in Dirs : Leads(path, d) /\ listing.entries = IF "x" \in mode[d] THEN Entries(d) ELSE {}
       /\ answer' = "notfound" => ~\E n \in Files \cup SubDirs : Leads(path, n)
       /\ answer' = "error" => \/ \E n \in Files \cup Others : Leads(path, n)
                               \/ \E d \in Dirs : ~({"r", "x"} \subseteq mode[d])]_vars

\* An upload is refused for its size exactly when it is larger than the cap, what
\* is staged is all of it, and nothing past the cap ever reaches the disk.
CappedCopy ==
  [][/\ copy'.written <= CAP
     /\ phase = "copy" /\ phase' = "idle" =>
          /\ answer' = "toolarge" => copy.body > CAP
          /\ answer' = "ok" => copy.written = copy.body]_vars

\* A request that fails leaves no temporary file, even when the directory it is in has been
\* moved meanwhile: it is removed through the descriptor.  It stays only where the directory
\* is closed by then, and that is answered with a 500, never with a refusal.
FailedCopyLeavesNothing ==
  [][phase # "idle" /\ phase' = "idle" /\ answer' # "ok" /\ temp' # None =>
       answer' = "error" /\ ~({"w", "x"} \subseteq mode[temp'])]_vars
=============================================================================
