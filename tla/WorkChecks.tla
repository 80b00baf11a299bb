---- MODULE WorkChecks ----
(***************************************************************************)
(* The checks of a scenario that are asked of the agent's workspace:       *)
(* check/fs-verbs.ts and scenario-manifest.ts.  The agent writes, commits  *)
(* and goes back, and any state of its workspace may be what is checked.   *)
(***************************************************************************)
EXTENDS Integers, Sequences, FiniteSets

CONSTANTS
  Absent,       \* no repository, no branch, no noted commit and no declaration
  Paths,        \* sequences of names; a name's parent is a directory
  PathTools,    \* names looked up in the directory <<"bin">> of PATH
  Patterns,     \* sequences of names, of which * fits any and ** is for any number
  Baselines, Endings,
  MaxEntries, MaxCommits

VARIABLES
  tree,       \* what each path is: a file, plain or executable, a directory, a dangling link
  commits,    \* Absent outside a repository, or what each commit of the branch holds
  branch,     \* the branch, Absent when detached
  recorded,   \* the commit that was noted when the checkout was made
  made        \* how many commits there ever were

workVars == <<tree, commits, branch, recorded, made>>

Kinds == {"file", "exec", "dir", "dangling"}
Star == "*"
Deep == "**"

IsList(s) == s \in Seq({s[i] : i \in DOMAIN s})
IsPath(p) == IsList(p) /\ p # <<>>

\* One ** is what the globs support (fs-verbs.ts 85), and a status is a number.
ASSUME WorkAssumption ==
  /\ \A p \in Paths : IsPath(p)
  /\ \A g \in Patterns : IsList(g) /\ \A i, j \in DOMAIN g : g[i] = Deep /\ g[j] = Deep => i = j
  /\ \A d \in Baselines \ {Absent} : IsList(d.files)
  /\ \A e \in Endings : e.how \in {"code", "signal", "unstarted"} /\ e.code \in Nat
  /\ Absent # <<>> /\ Absent # "main"

\* The first names of a path.
Upto(path, n) == [i \in 1 .. n |-> path[i]]

IsThere(path) == path = <<>> \/ (path \in DOMAIN tree /\ tree[path] # "dangling")
IsFile(path) == path \in DOMAIN tree /\ tree[path] \in {"file", "exec"}
IsDir(path) == path = <<>> \/ (path \in DOMAIN tree /\ tree[path] = "dir")

----
(* file-exists and its globs. *)

SegmentFits(glob, name) == glob = Star \/ glob = name
AllFit(globs, path) ==
  Len(globs) = Len(path) /\ \A i \in DOMAIN globs : SegmentFits(globs[i], path[i])

Under(path, p) == Len(path) < Len(p) /\ Upto(p, Len(path)) = path

\* Mutant of Walk: the entries of the directory and no further.
WalkOnce(path) ==
  IF ~IsDir(path) THEN {} ELSE {p \in DOMAIN tree : Under(path, p) /\ Len(p) = Len(path) + 1}

\* walk: everything below a directory, links and all.
Walk(path) == IF ~IsDir(path) THEN {} ELSE {p \in DOMAIN tree : Under(path, p)}

HasDeep(pattern) == \E i \in DOMAIN pattern : pattern[i] = Deep
AtDeep(pattern) == CHOOSE i \in DOMAIN pattern : pattern[i] = Deep
Ahead(pattern) == AtDeep(pattern) - 1
Behind(pattern) == Len(pattern) - AtDeep(pattern)

\* The names behind ** are the last of the path.
EndsWith(pattern, p) ==
  \A i \in AtDeep(pattern) + 1 .. Len(pattern) : SegmentFits(pattern[i], p[Len(p) - Len(pattern) + i])

\* globPathRegex: the end of the path as text, with a name in front, where * goes across
\* slashes: cut is where each name of the pattern ends in the path.
EndsAcross(pattern, p) ==
  \E cut \in [AtDeep(pattern) .. Len(pattern) -> 1 .. Len(p)] :
    /\ cut[Len(pattern)] = Len(p)
    /\ \A i \in AtDeep(pattern) + 1 .. Len(pattern) :
         /\ cut[i - 1] < cut[i]
         /\ pattern[i] = Star \/ (cut[i] = cut[i - 1] + 1 /\ pattern[i] = p[cut[i]])

\* globStar: below a literal prefix, by the last name or by the last names.
GlobStar(pattern) ==
  LET prefix == Upto(pattern, Ahead(pattern))
  IN  IF ~IsThere(prefix) THEN {}
      ELSE {p \in Walk(prefix) :
              IF Behind(pattern) > 1 THEN EndsAcross(pattern, p) ELSE EndsWith(pattern, p)}

GlobMatch(pattern) ==
  IF HasDeep(pattern) THEN GlobStar(pattern)
  ELSE {p \in DOMAIN tree : AllFit(pattern, p) /\ IsThere(p)}

FileExists(pattern) ==
  IF pattern = <<>> THEN "broken" ELSE IF GlobMatch(pattern) # {} THEN "pass" ELSE "fail"

----
(* The other checks. *)

PassedIf(b) == IF b THEN "pass" ELSE "fail"

FilesExist(root, rels) ==
  IF rels = {} THEN "broken" ELSE PassedIf(\A r \in rels : IsFile(root \o r))

RequiresTool(names) ==
  IF names = {} THEN "broken"
  ELSE PassedIf(\A t \in names : <<"bin", t>> \in DOMAIN tree /\ tree[<<"bin", t>>] = "exec")

\* How a command ends: with a code, by a signal, or not started at all.
CommandSucceeds(ending) ==
  IF ending.how = "unstarted" THEN "throws"
  ELSE IF ending.how = "signal" \/ ending.code >= 126 THEN "broken"
  ELSE PassedIf(ending.code = 0)

\* A command of git that fails says nothing, which reads as clean, as detached and as 0.
GitRepo == PassedIf(commits # Absent)
Content == [p \in {q \in DOMAIN tree : tree[q] # "dir"} |-> tree[p]]
Tip == commits[Len(commits)]
Committed == IF commits = <<>> THEN [p \in {} |-> "file"] ELSE Tip.tree
Dirty == commits # Absent /\ Content # Committed
GitClean == PassedIf(~Dirty)
GitBranch(expected) ==
  LET current == IF commits = Absent THEN Absent ELSE branch
  IN  PassedIf(current = expected)
CommitCount == IF commits = Absent THEN 0 ELSE Len(commits)

\* assertCheckoutClean.
CheckoutClean ==
  PassedIf(/\ commits # Absent
           /\ ~Dirty
           /\ recorded # Absent => commits # <<>> /\ Tip.id = recorded)

----
(* baseline-manifest: the tree is what the scenario declares, file by file. *)

FilesOf(declared) == {declared.files[i] : i \in DOMAIN declared.files}

Problems(declared) ==
  LET names == {f.path : f \in FilesOf(declared)}
  IN  {<<"duplicate", declared.files[i].path>> :
         i \in {k \in DOMAIN declared.files : \E j \in 1 .. k - 1 : declared.files[j].path = declared.files[k].path}}
      \cup {<<"role", r>> : r \in declared.roles \ names}
      \cup {<<"missing", p>> : p \in {n \in names : n \notin DOMAIN tree}}
      \cup {<<"symlink", p>> : p \in {n \in DOMAIN tree : tree[n] = "dangling"}}
      \cup {<<"not regular", p>> : p \in {n \in names \cap DOMAIN tree : tree[n] = "dir"}}
      \cup {<<"mode", f.path>> : f \in {g \in FilesOf(declared) : IsFile(g.path) /\ tree[g.path] # g.mode}}
      \cup {<<"extra", p>> : p \in {n \in DOMAIN tree : IsFile(n) /\ n \notin names}}

BaselineManifest(declared) ==
  IF declared = Absent THEN "fail" ELSE PassedIf(Problems(declared) = {})

----
(* The agent. *)

WorkInit ==
  /\ tree = [p \in {} |-> "file"]
  /\ commits \in {Absent, <<>>}
  /\ branch = "main" /\ recorded = Absent /\ made = 0

Put(path, kind) ==
  /\ path \notin DOMAIN tree /\ Cardinality(DOMAIN tree) < MaxEntries
  /\ IsDir(Upto(path, Len(path) - 1))
  /\ tree' = [p \in DOMAIN tree \cup {path} |-> IF p = path THEN kind ELSE tree[p]]
  /\ UNCHANGED <<commits, branch, recorded, made>>

CommitWork ==
  /\ Dirty /\ made < MaxCommits
  /\ made' = made + 1
  /\ commits' = Append(commits, [id |-> made + 1, tree |-> Content])
  /\ UNCHANGED <<tree, branch, recorded>>

GoBack ==
  /\ commits # Absent /\ Len(commits) > 1
  /\ commits' = Upto(commits, Len(commits) - 1)
  /\ LET then == commits[Len(commits) - 1].tree
         dirs == UNION {{Upto(p, n) : n \in 1 .. Len(p) - 1} : p \in DOMAIN then}
     IN  tree' = [p \in DOMAIN then \cup dirs |-> IF p \in dirs THEN "dir" ELSE then[p]]
  /\ UNCHANGED <<branch, recorded, made>>

Detach ==
  /\ commits \notin {Absent, <<>>} /\ branch # Absent
  /\ branch' = Absent
  /\ UNCHANGED <<tree, commits, recorded, made>>

\* The harness notes the head when it has made the checkout.
NoteHead ==
  /\ recorded = Absent /\ commits \notin {Absent, <<>>}
  /\ recorded' = Tip.id
  /\ UNCHANGED <<tree, commits, branch, made>>

WorkNext ==
  \/ \E p \in Paths, k \in Kinds : Put(p, k)
  \/ CommitWork
  \/ GoBack
  \/ Detach
  \/ NoteHead

WorkSpec == WorkInit /\ [][WorkNext]_workVars

----
(* What a scenario's author means. *)

\* A pattern fits a path name by name, and ** any number of names.
FitsPath(pattern, path) ==
  IF ~HasDeep(pattern) THEN AllFit(pattern, path)
  ELSE /\ Ahead(pattern) + Behind(pattern) <= Len(path)
       /\ Behind(pattern) = 0 => Ahead(pattern) < Len(path)
       /\ \A i \in 1 .. Ahead(pattern) : SegmentFits(pattern[i], path[i])
       /\ EndsWith(pattern, path)

\* The ways in which ** is not what it says: it finds links that lead nowhere; two names
\* after it are not found at the top, may be found among those before it, and have a *
\* that goes across names; and a * before it is a name.
Odd(pattern) ==
  /\ HasDeep(pattern)
  /\ \/ \E p \in DOMAIN tree : tree[p] = "dangling"
     \/ Ahead(pattern) = 0 /\ Behind(pattern) > 1
     \/ \E n \in 1 .. Ahead(pattern) - 1 :
          n < Behind(pattern) /\ \A i \in 1 .. n : pattern[Ahead(pattern) - n + i] = pattern[AtDeep(pattern) + i]
     \/ Behind(pattern) > 1 /\ \E i \in AtDeep(pattern) + 1 .. Len(pattern) : pattern[i] = Star
     \/ \E i \in 1 .. Ahead(pattern) : pattern[i] = Star

\* A file is found where the pattern leads; a checkout is clean when its files are those
\* of the commit that was noted, whatever was committed and undone in between; the
\* baseline is met by its own files alone; and a command that did not come to an end
\* of its own never passes or fails (fs-verbs.ts 112, 336, 443, scenario-manifest.ts 61).
WorkChecksAreTrue ==
  /\ \A pattern \in Patterns :
       ~Odd(pattern) =>
         (FileExists(pattern) = "pass" <=> \E p \in DOMAIN tree : IsThere(p) /\ FitsPath(pattern, p))
  /\ CheckoutClean = "pass" /\ recorded # Absent =>
       \E i \in DOMAIN commits :
         commits[i].id = recorded /\ commits[i].tree = Content /\ i = Len(commits)
  /\ \A d \in Baselines :
       BaselineManifest(d) = "pass" =>
         /\ {p \in DOMAIN tree : tree[p] # "dir"} = {f.path : f \in FilesOf(d)}
         /\ \A f \in FilesOf(d) : tree[f.path] = f.mode
         /\ Len(d.files) = Cardinality({f.path : f \in FilesOf(d)})
  /\ \A e \in Endings : CommandSucceeds(e) \in {"pass", "fail"} => e.how = "code" /\ e.code < 126
  /\ commits # Absent /\ GitClean = "pass" /\ GitBranch("main") = "pass" =>
       branch = "main" /\ (commits = <<>> \/ Tip.tree = Content)
  /\ \A t \in PathTools : RequiresTool({t}) = "pass" => IsFile(<<"bin", t>>) /\ FilesExist(<<>>, {<<"bin", t>>}) = "pass"
====
