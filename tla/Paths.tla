-------------------------------- MODULE Paths --------------------------------
(***************************************************************************)
(* Paths of kernel/fs.c: walk_path, resolve_parent, the current directory  *)
(* and the text of it that pwd shows, over a tree of directories.  Calls   *)
(* are atomic here; their writes are in FatVolume.                         *)
(*                                                                         *)
(* A component of a path is characters lo..hi of a word w, so that cutting *)
(* it is arithmetic and two components are the same text exactly when they *)
(* are equal.  Words do not share characters and have no extension.        *)
(***************************************************************************)
EXTENDS Integers, SequencesExt

CONSTANTS
  NAME,      \* FS_NAME_FIELD_LEN: characters of a name that are kept
  COMPONENT, \* FS_COMPONENT_LEN - 1: longest component walk_path copies
  SHOWN,     \* FS_NAME_LEN - 1: characters of cwd_path that pwd prints
  DIRPART,   \* sizeof(dirpart) - 1: longest directory part of a path
  CWD,       \* sizeof(cwd_path) - 1
  NCLUSTERS, \* data clusters: bound on directories
  TypedPaths,\* the paths users type
  Ops        \* the operations users call

Words == UNION {{c.w : c \in Range(p.comps)} : p \in TypedPaths}
Component == [w : Words, lo : Nat, hi : Nat]

(* Users type components of at least one character.                        *)
ASSUME PathsAssumption ==
  /\ {NAME, COMPONENT, SHOWN, DIRPART, CWD, NCLUSTERS} \subseteq Nat \ {0}
  /\ NAME <= COMPONENT /\ COMPONENT <= SHOWN
  /\ SHOWN <= DIRPART /\ DIRPART <= CWD
  /\ "" \notin Words
  /\ \A p \in TypedPaths : p.comps \in Seq({c \in Component : c.lo <= c.hi})

VARIABLES
  entries,     \* the directory entries: where, name, directory or not, cluster
  dotdot,      \* first_cluster of the ".." entry of each directory cluster
  cwd,         \* cwd_is_root and cwd_cluster
  cwd_path,    \* the names in cwd_path, in order
  ret          \* what the last call returned

vars == <<entries, dotdot, cwd, cwd_path, ret>>

DataClusters == 2 .. NCLUSTERS + 1
ROOT == 0                              \* the root, as a value of dotdot
Root == [is_root |-> TRUE, cluster |-> 0]
Dir(d) == IF d = ROOT THEN Root ELSE [is_root |-> FALSE, cluster |-> d]
Place(ref) == IF ref.is_root THEN ROOT ELSE ref.cluster

Size(c) == c.hi - c.lo + 1
FirstOf(c, n) == [c EXCEPT !.hi = IF Size(c) > n THEN c.lo + n - 1 ELSE @]
Blank == [w |-> "", lo |-> 1, hi |-> 0]

(* split_name: names are cut at NAME characters.  "." becomes a blank name *)
(* and ".." a blank name with a dot for extension.                         *)
split_name(c) ==
  CASE c.w \in {"", "."} -> Blank
    [] c.w = ".."        -> [Blank EXCEPT !.w = "."]
    [] OTHER             -> FirstOf(c, NAME)

(* Characters before each part of a path text, after the last one too.     *)
Offsets(abs, comps) ==
  LET off[i \in 1 .. Len(comps) + 1] ==
        IF i = 1 THEN (IF abs THEN 1 ELSE 0) ELSE off[i - 1] + Size(comps[i - 1]) + 1
  IN  off

(* The first n characters of a path text.                                  *)
CutText(abs, comps, n) ==
  LET off  == Offsets(abs, comps)
      kept == {i \in 1 .. Len(comps) : off[i] < n}
  IN  [k \in 1 .. Cardinality(kept) |-> FirstOf(comps[k], n - off[k])]

(* The components the loop of walk_path sees: one that is longer than its  *)
(* buffer arrives in several pieces.                                       *)
Pieces(c) ==
  [k \in 1 .. (Size(c) + COMPONENT - 1) \div COMPONENT |->
     FirstOf([c EXCEPT !.lo = @ + (k - 1) * COMPONENT], COMPONENT)]

dir_scan(ref, n) == {e \in entries : e.dir = Place(ref) /\ e.name = n}

TextLen(text) == IF text = <<>> THEN 1 ELSE Offsets(TRUE, text)[Len(text) + 1] - 1

path_append(text, n) ==
  LET room == CWD - (IF text = <<>> THEN 1 ELSE TextLen(text) + 1)
  IN  IF room < 0 THEN text ELSE Append(text, FirstOf(n, room))

path_trim_last(text) == IF text = <<>> THEN text ELSE Front(text)

(* Variant: the way up is taken and the text stays.                        *)
GoUp_TextStays(w) ==
  [w EXCEPT !.dir = IF @.is_root \/ dotdot[@.cluster] = ROOT
                    THEN [@ EXCEPT !.is_root = TRUE]
                    ELSE [@ EXCEPT !.cluster = dotdot[w.dir.cluster]]]

(* "..": the entry is followed, except at the root.  The cluster of a      *)
(* dir_ref_t stays when it comes to mean the root.                         *)
GoUp(w) ==
  [w EXCEPT !.dir = IF @.is_root \/ dotdot[@.cluster] = ROOT
                    THEN [@ EXCEPT !.is_root = TRUE]
                    ELSE [@ EXCEPT !.cluster = dotdot[w.dir.cluster]],
            !.text = path_trim_last(@)]

GoDown(w, c) ==
  LET found == {e \in dir_scan(w.dir, split_name(c)) : e.isdir}
  IN  IF found = {} THEN [w EXCEPT !.ok = FALSE]
      ELSE LET e == CHOOSE e \in found : TRUE
           IN  [w EXCEPT !.dir = [is_root |-> FALSE, cluster |-> e.first],
                         !.text = path_append(@, e.name)]

walk_step(w, c) ==
  CASE ~w.ok \/ c.w = "." -> w
    [] w.ok /\ c.w = ".." -> GoUp(w)
    [] OTHER -> GoDown(w, c)

walk_path(abs, comps, ref, text) ==
  LET pieces == FlattenSeq([i \in 1 .. Len(comps) |-> Pieces(comps[i])])
      after[n \in 0 .. Len(pieces)] ==
        IF n = 0
        THEN [ok |-> TRUE, dir |-> IF abs THEN Root ELSE ref, text |-> IF abs THEN <<>> ELSE text]
        ELSE walk_step(after[n - 1], pieces[n])
  IN  after[Len(pieces)]

(* Variant: the directory part is walked from the root.                    *)
resolve_parent_FromRoot(p) ==
  LET leaf == IF p.comps = <<>> \/ p.slash THEN Blank ELSE FirstOf(Last(p.comps), COMPONENT)
      part == IF p.comps = <<>> \/ p.slash THEN p.comps ELSE Front(p.comps)
      w    == walk_path(p.abs, CutText(p.abs, part, DIRPART), Root, <<>>)
  IN  IF ~p.abs /\ ~p.slash /\ part = <<>>
      THEN [ok |-> p.comps # <<>>, dir |-> cwd, leaf |-> leaf]
      ELSE [ok |-> w.ok, dir |-> w.dir, leaf |-> leaf]

(* The leaf is what follows the last slash; a path without a slash has no  *)
(* directory part and is looked up in the current directory.               *)
resolve_parent(p) ==
  LET leaf == IF p.comps = <<>> \/ p.slash THEN Blank ELSE FirstOf(Last(p.comps), COMPONENT)
      part == IF p.comps = <<>> \/ p.slash THEN p.comps ELSE Front(p.comps)
      w    == walk_path(p.abs, CutText(p.abs, part, DIRPART), cwd, <<>>)
  IN  IF ~p.abs /\ ~p.slash /\ part = <<>>
      THEN [ok |-> p.comps # <<>>, dir |-> cwd, leaf |-> leaf]
      ELSE [ok |-> w.ok, dir |-> w.dir, leaf |-> leaf]

-----------------------------------------------------------------------------
Answer(r) == ret' = r

Fail == Answer(-1) /\ UNCHANGED <<entries, dotdot, cwd, cwd_path>>

Found(r) == dir_scan(r.dir, split_name(r.leaf))
IsDots(c) == c.w \in {".", ".."}

Init ==
  /\ entries = {} /\ dotdot = [c \in DataClusters |-> ROOT]
  /\ cwd = Root /\ cwd_path = <<>>
  /\ ret = 0

fs_create(p) ==
  LET r == resolve_parent(p)
      ok == r.ok /\ r.leaf.w # "" /\ Found(r) = {}
  IN  \/ ~ok /\ Fail
      \/ /\ ok
         /\ entries' = entries \cup {[dir |-> Place(r.dir), name |-> split_name(r.leaf),
                                      isdir |-> FALSE, first |-> 0]}
         /\ Answer(0) /\ UNCHANGED <<dotdot, cwd, cwd_path>>

fs_delete(p) ==
  LET r == resolve_parent(p)
      ok == r.ok /\ \E e \in Found(r) : ~e.isdir
  IN  \/ ~ok /\ Fail
      \/ /\ ok /\ entries' = entries \ Found(r)
         /\ Answer(0) /\ UNCHANGED <<dotdot, cwd, cwd_path>>

UsedClusters == {e.first : e \in {f \in entries : f.isdir}}
FreeClusters == DataClusters \ UsedClusters

(* Variant: ".." of every directory is the root.                           *)
DotDotOf_Root(ref) == ROOT

DotDotOf(ref) == IF ref.is_root THEN 0 ELSE ref.cluster

fs_mkdir(p) ==
  LET r == resolve_parent(p)
      ok == /\ r.ok /\ r.leaf.w # "" /\ ~IsDots(r.leaf)
            /\ Found(r) = {} /\ FreeClusters # {}
      c == Min(FreeClusters)
  IN  \/ ~ok /\ Fail
      \/ /\ ok
         /\ entries' = entries \cup {[dir |-> Place(r.dir), name |-> split_name(r.leaf),
                                      isdir |-> TRUE, first |-> c]}
         /\ dotdot' = [dotdot EXCEPT ![c] = DotDotOf(r.dir)]
         /\ Answer(0) /\ UNCHANGED <<cwd, cwd_path>>

(* Variant: without the test for the current directory.                    *)
Removable_Cwd(e) == e.isdir /\ \A f \in entries : f.dir # e.first

Removable(e) ==
  /\ e.isdir
  /\ cwd.is_root \/ cwd.cluster # e.first
  /\ \A f \in entries : f.dir # e.first

fs_rmdir(p) ==
  LET r == resolve_parent(p)
      ok == /\ r.ok /\ r.leaf.w # "" /\ ~IsDots(r.leaf)
            /\ \E e \in Found(r) : Removable(e)
  IN  \/ ~ok /\ Fail
      \/ /\ ok /\ entries' = entries \ Found(r)
         /\ Answer(0) /\ UNCHANGED <<dotdot, cwd, cwd_path>>

(* fs_rename accepts: the directories compared field by field.             *)
Renames(o, n) ==
  /\ o.ok /\ Found(o) # {} /\ n.ok /\ n.leaf.w # ""
  /\ n.dir.is_root = o.dir.is_root /\ n.dir.cluster = o.dir.cluster
  /\ Found(n) = {}

fs_rename(p, q) ==
  LET o == resolve_parent(p)
      n == resolve_parent(q)
  IN  \/ ~Renames(o, n) /\ Fail
      \/ /\ Renames(o, n)
         /\ entries' = {IF e \in Found(o) THEN [e EXCEPT !.name = split_name(n.leaf)] ELSE e :
                          e \in entries}
         /\ Answer(0) /\ UNCHANGED <<dotdot, cwd, cwd_path>>

fs_chdir(p) ==
  LET w == walk_path(p.abs, p.comps, cwd, cwd_path)
  IN  \/ ~w.ok /\ Fail
      \/ /\ w.ok /\ cwd' = w.dir /\ cwd_path' = w.text
         /\ Answer(0) /\ UNCHANGED <<entries, dotdot>>

(* fs_getcwd, as cmd_pwd calls it: what fits its buffer.                   *)
fs_getcwd == CutText(TRUE, cwd_path, SHOWN)

Next ==
  \E p \in TypedPaths :
    \/ "fs_create" \in Ops /\ fs_create(p)
    \/ "fs_delete" \in Ops /\ fs_delete(p)
    \/ "fs_mkdir" \in Ops /\ fs_mkdir(p)
    \/ "fs_rmdir" \in Ops /\ fs_rmdir(p)
    \/ "fs_rename" \in Ops /\ \E q \in TypedPaths : fs_rename(p, q)
    \/ "fs_chdir" \in Ops /\ fs_chdir(p)

Spec == Init /\ [][Next]_vars

-----------------------------------------------------------------------------
(* What a path means, from the tree alone: the directory that holds the    *)
(* entry of a directory, and the directory a list of components leads to   *)
(* from d (NOWHERE when there is none).                                    *)

NOWHERE == -1
HomeOf(d) == IF d = ROOT THEN ROOT ELSE (CHOOSE e \in entries : e.isdir /\ e.first = d).dir

Follow(d, c) ==
  LET sub == {e \in entries : e.dir = d /\ e.isdir /\ e.name = FirstOf(c, NAME)}
  IN  CASE d = NOWHERE \/ c.w = "." -> d
        [] d # NOWHERE /\ c.w = ".." -> HomeOf(d)
        [] OTHER -> IF sub = {} THEN NOWHERE ELSE (CHOOSE e \in sub : TRUE).first

Meaning(abs, comps) ==
  LET to[n \in 0 .. Len(comps)] ==
        IF n = 0 THEN (IF abs THEN ROOT ELSE Place(cwd)) ELSE Follow(to[n - 1], comps[n])
  IN  to[Len(comps)]

-----------------------------------------------------------------------------
(* Properties.                                                             *)

(* Names and cwd_path fit their buffers, whatever paths are typed.         *)
TypeOK ==
  /\ \A e \in entries : /\ e.dir \in {ROOT} \cup DataClusters /\ e.isdir \in BOOLEAN
                        /\ e.first \in {0} \cup DataClusters /\ Size(e.name) \in 0 .. NAME
  /\ dotdot \in [DataClusters -> {ROOT} \cup DataClusters]
  /\ cwd.is_root \in BOOLEAN /\ cwd.cluster \in {0} \cup DataClusters
  /\ TextLen(cwd_path) \in 1 .. CWD
  /\ ret \in {0, -1}

(* The shell never sits in a directory that is gone, nor in one that hangs *)
(* below one that is gone, so cwd_cluster and the ".." chain above it are  *)
(* never clusters that hold something else by now (fs_rmdir's refusals).   *)
CwdAttached ==
  LET up[k \in 0 .. NCLUSTERS] == IF k = 0 THEN Place(cwd) ELSE
        IF up[k - 1] \in UsedClusters THEN dotdot[up[k - 1]] ELSE up[k - 1]
  IN  up[NCLUSTERS] = ROOT

(* cd goes where the path says: to the directory the tree has under those  *)
(* names, ".." being the directory that holds the entry (walk_path).       *)
CdGoesThere ==
  \A p \in TypedPaths :
    LET w == walk_path(p.abs, p.comps, cwd, cwd_path)
    IN  (IF w.ok THEN Place(w.dir) ELSE NOWHERE) = Meaning(p.abs, p.comps)

(* The directory entries on the way from the root to directory d, and the  *)
(* path of d that they spell.                                              *)
EntriesTo(d) ==
  LET up[k \in 0 .. NCLUSTERS] ==
        IF k = 0 THEN [dir |-> d, below |-> <<>>]
        ELSE IF up[k - 1].dir = ROOT THEN up[k - 1]
        ELSE LET e == CHOOSE e \in entries : e.isdir /\ e.first = up[k - 1].dir
             IN  [dir |-> e.dir, below |-> <<e>> \o up[k - 1].below]
  IN  up[NCLUSTERS].below

PathTo(d) == LET es == EntriesTo(d) IN [k \in 1 .. Len(es) |-> es[k].name]

PwdRight == fs_getcwd = PathTo(Place(cwd))

(* A directory on the path of the current one gets another name.           *)
RenamesCwd ==
  \E e \in Range(EntriesTo(Place(cwd))), f \in entries' :
    f.isdir /\ f.first = e.first /\ f.name # e.name

(* A cd ends where the path is longer than pwd's buffer, or passes through *)
(* a directory whose path is longer than cwd_path.                         *)
OutgrowsText ==
  \E p \in TypedPaths : \E n \in 1 .. Len(p.comps) :
    /\ fs_chdir(p) /\ ret' = 0
    /\ LET length == TextLen(PathTo(Meaning(p.abs, SubSeq(p.comps, 1, n))))
       IN  length > CWD \/ (n = Len(p.comps) /\ length > SHOWN)

(* pwd stops showing the path of the current directory only when it, or a  *)
(* directory above it, is renamed, or when cd meets a path that does not   *)
(* fit: never by mkdir, rmdir, "..", or what is made under a name that was *)
(* in use before (path_append, path_trim_last, fs_getcwd).  Both happen,   *)
(* although "pwd" should "show current directory" (Command.md).            *)
PwdStaleOnlyByRenameOrLength ==
  [][PwdRight /\ ~PwdRight' => RenamesCwd \/ OutgrowsText]_vars

(* "Splits `path` into (parent directory, leaf component)" (above          *)
(* resolve_parent): the parent is the directory the whole path names.      *)
ParentIsNamed ==
  \A p \in TypedPaths :
    LET r == resolve_parent(p)
    IN  r.ok /\ p.comps # <<>> =>
          Place(r.dir) = Meaning(p.abs, IF p.slash THEN p.comps ELSE Front(p.comps))
=============================================================================
