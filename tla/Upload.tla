------------------------------- MODULE Upload -------------------------------
(***************************************************************************)
(* How uploads reach a session's directory: the attachments of /execute    *)
(* (routes/execute.py), PUT and DELETE of a file (routes/files.py), and    *)
(* stage_file, commit_staged_file and discard_staged_file (sessions.py).   *)
(*                                                                         *)
(* One session, whose lock serialises the requests: there is one request   *)
(* at a time, but the body of a request arrives piecemeal and may break    *)
(* off, the tree was left by earlier programs, and a program whose         *)
(* container could not be removed keeps writing beside later requests.     *)
(*                                                                         *)
(*   idle     nobody holds the lock; `answer` is what the last one got     *)
(*   parts    the next part of the multipart body is awaited               *)
(*   body     an upload is copied to its temporary file                    *)
(*   commit   the staged uploads are renamed into place, one by one        *)
(*   discard  refused: the staged uploads not yet in place are unlinked    *)
(*   slot     all uploads are in place; waiting for an execution slot      *)
(*   run      the program runs                                             *)
(*                                                                         *)
(* The k-th upload of a request is number k; its temporary file is known   *)
(* by that number (the code draws a random name).  A place is the sequence *)
(* of names that leads to it, <<>> being the session's directory.          *)
(***************************************************************************)
EXTENDS Naturals, Sequences, FiniteSets, SequencesExt

CONSTANTS
  Names,
  Places,           \* the paths of the tree, with all their prefixes
  MaxParts,         \* bound: uploads in one request
  ProgramSurvives   \* a removal of a container may fail

ASSUME PlacesAssumption ==
  /\ Places \subseteq Seq(Names)
  /\ <<>> \in Places
  /\ \A p \in Places : p = <<>> \/ Front(p) \in Places
  /\ MaxParts \in Nat \ {0}
  /\ ProgramSurvives \in BOOLEAN

VARIABLES
  phase, req, answer,     \* the request: where it is, its route, its status code
  text,                   \* the fields "language" and "code" of /execute
  paths, next, target,    \* staged paths, the first not yet in place, the one being copied
  kind, content, temps,   \* the tree, the upload a file came with, temporary files
  alive                   \* a program has the session's directory mounted

treeVars == <<kind, content, temps>>
reqVars  == <<phase, req, answer, text, paths, next, target>>
vars     == <<reqVars, treeVars, alive>>

Files  == Places \ {<<>>}
Parts  == 1..MaxParts
\* "sealed": a directory the program closed to its owner (mode 000).
Kinds  == {"absent", "dir", "sealed", "file", "link"}
Fields == {"language", "code"}

TypeOK ==
  /\ phase \in {"idle", "parts", "body", "commit", "discard", "slot", "run"}
  /\ req \in {"none", "execute", "put"}
  /\ answer \in {0, 200, 204, 400, 413, 500, 503}
  /\ text \in [Fields -> {"missing", "good", "bad"}]
  /\ paths \in Seq(Files) /\ Len(paths) <= MaxParts
  /\ next \in 1..(MaxParts + 1)
  /\ target \in Places
  /\ kind \in [Places -> Kinds]
  /\ content \in [Places -> 0..MaxParts]
  /\ temps \subseteq [part : Parts, dir : Places]
  /\ alive \in BOOLEAN

Init ==
  /\ phase = "idle" /\ req = "none" /\ answer = 0
  /\ text = [f \in Fields |-> "missing"]
  /\ paths = <<>> /\ next = 1 /\ target = <<>>
  /\ kind = [p \in Places |-> IF p = <<>> THEN "dir" ELSE "absent"]
  /\ content = [p \in Places |-> 0]
  /\ temps = {}
  /\ alive = FALSE

-----------------------------------------------------------------------------
(* The walk of _open_parent                                                *)

Parent(p) == Front(p)
Above(p)  == {q \in Places : IsStrictPrefix(q, p)}
Under(p)  == {q \in Places : IsPrefix(p, q)}

\* The walk to p's directory ends early at one of these.
Blockers(p, create) ==
  {q \in Above(p) : kind[q] # "dir" /\ ~(create /\ kind[q] = "absent")}

\* The error of a walk that ends early: mode 000 is a PermissionError that no route
\* answers, all else a FileNotFoundError.
WalkCode(p, create) ==
  LET first == CHOOSE q \in Blockers(p, create) : \A r \in Blockers(p, create) : IsPrefix(q, r)
  IN IF kind[first] = "sealed" THEN 500 ELSE 400

\* The directories made on the way, down to the n-th.
MkDirs(p, n) ==
  [q \in Places |-> IF q \in Above(p) /\ Len(q) <= n /\ kind[q] = "absent" THEN "dir" ELSE kind[q]]

-----------------------------------------------------------------------------
(* Receiving                                                               *)

\* A refusal passes by the `finally` that discards what is staged.
Refuse(code) ==
  /\ phase' = "discard"
  /\ answer' = code
  /\ UNCHANGED <<req, text, paths, next>>

\* stage_file(p) up to the first byte: the walk, then the temporary file.
Open(p) ==
  \/ /\ Blockers(p, TRUE) # {}
     /\ Refuse(WalkCode(p, TRUE))
     /\ UNCHANGED <<target, treeVars>>
  \/ /\ Blockers(p, TRUE) = {}
     /\ \E n \in 0..Len(p) : kind' = MkDirs(p, n)     \* the quota is reached
     /\ Refuse(413)
     /\ UNCHANGED <<target, content, temps>>
  \/ /\ Blockers(p, TRUE) = {}
     /\ kind' = MkDirs(p, Len(p))
     /\ temps' = temps \cup {[part |-> Len(paths) + 1, dir |-> Parent(p)]}
     /\ target' = p
     /\ phase' = "body"
     /\ UNCHANGED <<req, answer, text, paths, next, content>>

\* A request takes the lock.  Bound: none begins beside the leftovers of another.
Begin(r) ==
  /\ phase = "idle"
  /\ temps = {}
  /\ req' = r
  /\ answer' = 0
  /\ text' = [f \in Fields |-> "missing"]
  /\ paths' = <<>>
  /\ next' = 1
  /\ content' = [p \in Places |-> 0]
  /\ UNCHANGED <<target, kind, temps, alive>>

BeginExecute == Begin("execute") /\ phase' = "parts"

BeginPut == Begin("put") /\ phase' = "parts"

\* The body of a PUT, or an attachment.
Attach(p) ==
  /\ phase = "parts"
  /\ Len(paths) < MaxParts
  /\ Open(p)
  /\ UNCHANGED alive

Text(f) ==
  /\ phase = "parts"
  /\ req = "execute"
  /\ \/ /\ \E v \in {"good", "bad"} : text' = [text EXCEPT ![f] = v]
        /\ UNCHANGED <<phase, req, answer, paths, next>>
     \/ Refuse(IF f = "language" THEN 400 ELSE 413)   \* longer than its limit
  /\ UNCHANGED <<target, treeVars, alive>>

\* A malformed body, an unknown field, an attachment without a file name, a path
\* normalize_sub_path refuses.
BadPart ==
  /\ phase = "parts"
  /\ Refuse(400)
  /\ UNCHANGED <<target, treeVars, alive>>

Current == {t \in temps : t.part = Len(paths) + 1}

\* Over CONTAINER_ULIMIT_FSIZE or the quota, or the upload broke off: unlinked through
\* the open directory, wherever that is now, unless it has been closed meanwhile.
BodyFails ==
  /\ phase = "body"
  /\ target' = <<>>
  /\ \/ /\ \A t \in Current : kind[t.dir] # "sealed"
        /\ temps' = temps \ Current
        /\ \E code \in {400, 413} : Refuse(code)
     \/ /\ \E t \in Current : kind[t.dir] = "sealed"
        /\ Refuse(500)
        /\ UNCHANGED temps
  /\ UNCHANGED <<kind, content, alive>>

BodyEnds ==
  /\ phase = "body"
  /\ paths' = Append(paths, target)
  /\ target' = <<>>
  /\ phase' = IF req = "put" THEN "commit" ELSE "parts"
  /\ UNCHANGED <<req, answer, text, next, treeVars, alive>>

\* Seeded fault: the fields are not validated before the commits.
BugPartsEnd ==
  /\ phase = "parts"
  /\ req = "execute"
  /\ phase' = "commit"
  /\ UNCHANGED <<req, answer, text, paths, next, target, treeVars, alive>>

\* validate_language, validate_code.
PartsEnd ==
  /\ phase = "parts"
  /\ req = "execute"
  /\ \/ /\ \A f \in Fields : text[f] = "good"
        /\ phase' = "commit"
        /\ UNCHANGED <<req, answer, text, paths, next>>
     \/ /\ \E f \in Fields : text[f] # "good"
        /\ Refuse(400)
  /\ UNCHANGED <<target, treeVars, alive>>

-----------------------------------------------------------------------------
(* Commit and discard                                                      *)

\* The temporary file of upload i, if it is where its path leads.
Staged(i) == {t \in temps : t.part = i /\ t.dir = Parent(paths[i])}

\* The errors of commit_staged_file(paths[i], ...).  Renaming may reach the quota, which
\* the PUT route alone answers.
CommitCodes(i) ==
  LET p == paths[i]
  IN IF Blockers(p, FALSE) # {} THEN {WalkCode(p, FALSE)}
     ELSE IF Staged(i) = {} \/ kind[p] \in {"dir", "sealed"} THEN {400}
     ELSE {IF req = "put" THEN 413 ELSE 500}

Landing(i) ==
  /\ Blockers(paths[i], FALSE) = {}
  /\ Staged(i) # {}
  /\ kind[paths[i]] \notin {"dir", "sealed"}

Land(i) ==
  /\ kind' = [kind EXCEPT ![paths[i]] = "file"]
  /\ content' = [content EXCEPT ![paths[i]] = i]
  /\ temps' = temps \ Staged(i)

\* Seeded fault: the entry is dropped before its commit instead of after it.
BugCommit ==
  /\ phase = "commit"
  /\ next <= Len(paths)
  /\ next' = next + 1
  /\ \/ /\ Landing(next)
        /\ Land(next)
        /\ UNCHANGED <<phase, answer>>
     \/ /\ phase' = "discard"
        /\ answer' \in CommitCodes(next)
        /\ UNCHANGED treeVars
  /\ UNCHANGED <<req, text, paths, target, alive>>

Commit ==
  /\ phase = "commit"
  /\ next <= Len(paths)
  /\ \/ /\ Landing(next)
        /\ Land(next)
        /\ next' = next + 1
        /\ UNCHANGED <<phase, req, answer, text, paths>>
     \/ /\ \E code \in CommitCodes(next) : Refuse(code)
        /\ UNCHANGED treeVars
  /\ UNCHANGED <<target, alive>>

\* Seeded fault: one entry is committed, not all of them.
BugCommitted ==
  /\ phase = "commit"
  /\ next > 1 \/ paths = <<>>
  /\ \/ req = "put" /\ phase' = "idle" /\ answer' = 204
     \/ req = "execute" /\ phase' = "slot" /\ UNCHANGED answer
  /\ UNCHANGED <<req, text, paths, next, target, treeVars, alive>>

Committed ==
  /\ phase = "commit"
  /\ next > Len(paths)
  /\ \/ req = "put" /\ phase' = "idle" /\ answer' = 204
     \/ req = "execute" /\ phase' = "slot" /\ UNCHANGED answer
  /\ UNCHANGED <<req, text, paths, next, target, treeVars, alive>>

\* discard_staged_file, its errors suppressed.
Discard ==
  /\ phase = "discard"
  /\ next <= Len(paths)
  /\ next' = next + 1
  /\ temps' = IF Blockers(paths[next], FALSE) = {} THEN temps \ Staged(next) ELSE temps
  /\ UNCHANGED <<phase, req, answer, text, paths, target, kind, content, alive>>

Discarded ==
  /\ phase = "discard"
  /\ next > Len(paths)
  /\ phase' = "idle"
  /\ UNCHANGED <<req, answer, text, paths, next, target, treeVars, alive>>

-----------------------------------------------------------------------------
(* Slot and run                                                            *)

Finish(code) ==
  /\ phase' = "idle"
  /\ answer' = code
  /\ UNCHANGED <<req, text, paths, next, target>>

NoSlot == phase = "slot" /\ Finish(503) /\ UNCHANGED <<treeVars, alive>>

RunStarts ==
  /\ phase = "slot"
  /\ phase' = "run"
  /\ alive' = TRUE
  /\ UNCHANGED <<req, answer, text, paths, next, target, treeVars>>

\* A missing podman is a FileNotFoundError, answered as an invalid path.
RunFails == phase = "slot" /\ (Finish(400) \/ Finish(500)) /\ UNCHANGED <<treeVars, alive>>

\* The run is answered; its program is gone unless its container could not be removed.
RunEnds ==
  /\ phase = "run"
  /\ Finish(200)
  /\ alive' \in {FALSE, ProgramSurvives}
  /\ UNCHANGED treeVars

\* DELETE of a file or a link; anything else is not found, or not reachable.
DeleteFile(p) ==
  /\ phase = "idle"
  /\ Blockers(p, FALSE) = {}
  /\ kind[p] \in {"file", "link"}
  /\ kind' = [kind EXCEPT ![p] = "absent"]
  /\ content' = [content EXCEPT ![p] = 0]
  /\ req' = "none"
  /\ answer' = 204
  /\ UNCHANGED <<phase, text, paths, next, target, temps, alive>>

-----------------------------------------------------------------------------
(* The program, in a container on the session's directory                  *)

Reachable(p) == \A q \in Above(p) : kind[q] = "dir"

\* Writes or creates p.
ProgramMakes(p) ==
  /\ alive
  /\ Reachable(p)
  /\ \/ kind[p] = "absent" /\ \E k \in {"dir", "file", "link"} : kind' = [kind EXCEPT ![p] = k]
     \/ kind[p] = "file" /\ UNCHANGED kind
  /\ content' = [content EXCEPT ![p] = 0]
  /\ UNCHANGED <<reqVars, temps, alive>>

ProgramChmods(p) ==
  /\ alive
  /\ Reachable(p)
  /\ kind[p] \in {"dir", "sealed"}
  /\ kind' = [kind EXCEPT ![p] = IF @ = "dir" THEN "sealed" ELSE "dir"]
  /\ UNCHANGED <<reqVars, content, temps, alive>>

\* rm -rf p
ProgramRemoves(p) ==
  /\ alive
  /\ Reachable(p)
  /\ kind[p] # "absent"
  /\ kind' = [q \in Places |-> IF q \in Under(p) THEN "absent" ELSE kind[q]]
  /\ content' = [q \in Places |-> IF q \in Under(p) THEN 0 ELSE content[q]]
  /\ temps' = {t \in temps : t.dir \notin Under(p)}
  /\ UNCHANGED <<reqVars, alive>>

\* mv p q, of a directory with nothing in it but temporary files (a bound).
ProgramMoves(p, q) ==
  /\ alive
  /\ Reachable(p) /\ Reachable(q)
  /\ kind[p] = "dir" /\ kind[q] = "absent"
  /\ ~IsPrefix(p, q)
  /\ \A r \in Under(p) \ {p} : kind[r] = "absent"
  /\ kind' = [kind EXCEPT ![p] = "absent", ![q] = "dir"]
  /\ temps' = {IF t.dir = p THEN [t EXCEPT !.dir = q] ELSE t : t \in temps}
  /\ UNCHANGED <<reqVars, content, alive>>

-----------------------------------------------------------------------------
Execute ==
  \/ BeginExecute \/ PartsEnd \/ NoSlot \/ RunStarts \/ RunFails \/ RunEnds
  \/ \E f \in Fields : Text(f)

Put == BeginPut \/ BodyFails \/ BodyEnds \/ BadPart \/ \E p \in Files : Attach(p)

StagedList == Commit \/ Committed \/ Discard \/ Discarded

Program ==
  \/ \E p \in Places : ProgramChmods(p)
  \/ \E p \in Files : ProgramMakes(p) \/ ProgramRemoves(p)
  \/ \E p, q \in Files : ProgramMoves(p, q)

Next == Execute \/ Put \/ StagedList \/ (\E p \in Files : DeleteFile(p)) \/ Program

Spec == Init /\ [][Next]_vars

-----------------------------------------------------------------------------
(* Properties                                                              *)

Refused == phase = "idle" /\ answer \in {400, 413, 503}

\* Wherever a request fails - in the walk, in an upload, in the validation, between two
\* commits - it leaves no temporary file in the session, and none is there when the
\* program runs: every staged file is renamed into place or discarded.
NoDebris == phase \in {"idle", "slot", "run"} => temps = {}

\* The program starts, and a PUT is answered 204, with every upload in its place; of two
\* uploads to one path the later wins.
AllLanded ==
  phase = "slot" \/ (phase = "idle" /\ req = "put" /\ answer = 204) =>
    \A i \in DOMAIN paths :
      \E j \in DOMAIN paths : j >= i /\ paths[j] = paths[i] /\ content[paths[i]] = j

\* A refused PUT, and an /execute refused for its fields, put no file in place, though
\* uploads may have been staged before the refusal.
InvalidLeavesNothing ==
  Refused /\ (req = "put" \/ \E f \in Fields : text[f] # "good") =>
    \A p \in Places : content[p] = 0

\* README.md: "a rejected request leaves neither attachments nor session slots behind".
RejectedLeavesNothing == Refused => \A p \in Places : content[p] = 0

=============================================================================
