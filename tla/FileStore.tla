------------------------------ MODULE FileStore ------------------------------
(***************************************************************************)
(* What kernel/fs.c promises its callers: a tree of directories that map   *)
(* names to files (byte sequences) and directories, changed by one call at *)
(* a time.  Clusters, FATs and entry slots do not appear here.             *)
(*                                                                         *)
(* fs_write, fs_delete and fs_rmdir free the clusters of their target      *)
(* before they rewrite its entry; until they return the target is Torn.    *)
(* Every other change is one step, and no step, a power failure included,  *)
(* touches a name other than the one the call is about.                    *)
(***************************************************************************)
EXTENDS Integers, SequencesExt

CONSTANTS Names, Payloads, MaxCrashes

ROOT == 0
File(bytes) == [kind |-> "file", bytes |-> bytes]
Dir(id)     == [kind |-> "dir", id |-> id]
Torn        == [kind |-> "torn"]
NoCall      == [what |-> "idle", dir |-> ROOT, name |-> "free", arg |-> <<>>, to |-> "free"]

VARIABLES
  tree,     \* directory -> (name -> file, directory or Torn)
  cwd,      \* the current directory
  req,      \* the call in progress, or NoCall
  ret,      \* what the last call returned
  crashes

vars == <<req, ret, crashes, cwd, tree>>

(* f with key k set to v, and f without key k.                             *)
Put(f, k, v) == [x \in DOMAIN f \cup {k} |-> IF x = k THEN v ELSE f[x]]
Drop(f, k)   == [x \in DOMAIN f \ {k} |-> f[x]]

Exists   == req.name \in DOMAIN tree[req.dir]
Target   == tree[req.dir][req.name]
Set(v)   == tree' = [tree EXCEPT ![req.dir] = Put(@, req.name, v)]
Is(kind) == Exists /\ Target.kind = kind

Init ==
  /\ tree = [d \in {ROOT} |-> [n \in {} |-> Torn]]
  /\ cwd = ROOT /\ req = NoCall /\ ret = 0 /\ crashes = 0

Begin ==
  /\ req = NoCall
  /\ req' \in [what : {"fs_create", "fs_write", "fs_append", "fs_delete",
                       "fs_rename", "fs_mkdir", "fs_rmdir"},
               dir : DOMAIN tree, name : Names,
               arg : Payloads \cup {<<>>}, to : Names \cup {"free"}]
  /\ ret' = 0
  /\ UNCHANGED <<crashes, cwd, tree>>

fs_chdir ==
  /\ req = NoCall /\ req' = NoCall /\ ret' = 0
  /\ cwd' \in DOMAIN tree
  /\ UNCHANGED <<crashes, tree>>

(* fs_write and fs_append create a file that does not exist yet.           *)
ImplicitCreate ==
  /\ req.what \in {"fs_write", "fs_append"} /\ UNCHANGED <<req, ret, crashes, cwd>>
  /\ ~Exists
  /\ Set(File(<<>>))

TearFile ==
  /\ req.what \in {"fs_write", "fs_delete"} /\ UNCHANGED <<req, ret, crashes, cwd>>
  /\ Is("file")
  /\ Set(Torn)

(* Only an empty directory other than the current one is removed.          *)
TearDir ==
  /\ req.what = "fs_rmdir" /\ UNCHANGED <<req, ret, crashes, cwd>>
  /\ Is("dir")
  /\ Target.id # cwd /\ DOMAIN tree[Target.id] = {}
  /\ tree' = Drop([tree EXCEPT ![req.dir] = Put(@, req.name, Torn)], Target.id)

(* The call returns 0 and has done all of what it says.                    *)
Effect ==
  \/ req.what = "fs_create" /\ ~Exists /\ Set(File(<<>>))
  \/ req.what = "fs_write" /\ Is("torn") /\ Set(File(req.arg))
  \/ req.what = "fs_append" /\ Is("file") /\ Set(File(Target.bytes \o req.arg))
  \/ /\ req.what \in {"fs_delete", "fs_rmdir"} /\ Is("torn")
     /\ tree' = [tree EXCEPT ![req.dir] = Drop(@, req.name)]
  \/ /\ req.what = "fs_rename" /\ Exists /\ req.to \notin DOMAIN tree[req.dir]
     /\ tree' = [tree EXCEPT ![req.dir] = Put(Drop(@, req.name), req.to, Target)]
  \/ /\ req.what = "fs_mkdir" /\ ~Exists
     /\ \E id \in (DOMAIN tree)' \ DOMAIN tree :
          tree' = Put([tree EXCEPT ![req.dir] = Put(@, req.name, Dir(id))],
                      id, [n \in {} |-> Torn])

Succeed ==
  /\ req # NoCall
  /\ req' = NoCall /\ ret' = 0 /\ UNCHANGED <<crashes, cwd>>
  /\ Effect

(* The call returns -1.  A write that runs out of space leaves the file    *)
(* empty, an append keeps what fitted; nothing else is changed.            *)
Fail ==
  /\ req # NoCall
  /\ req' = NoCall /\ ret' = -1 /\ UNCHANGED <<crashes, cwd>>
  /\ \/ ~Is("torn") /\ UNCHANGED tree
     \/ req.what = "fs_write" /\ Is("torn") /\ Set(File(<<>>))
     \/ /\ req.what = "fs_append" /\ Is("file")
        /\ \E n \in 0 .. Len(req.arg) - 1 :
             Set(File(Target.bytes \o SubSeq(req.arg, 1, n)))

(* A power failure ends the call.  What the call had torn comes back as    *)
(* anything, a directory that was being removed as an empty one; nothing   *)
(* else changes.                                                           *)
Crash ==
  /\ crashes < MaxCrashes /\ crashes' = crashes + 1
  /\ req' = NoCall /\ ret' = 0 /\ cwd' = ROOT
  /\ \A d \in DOMAIN tree :
       /\ DOMAIN tree'[d] = DOMAIN tree[d]
       /\ \A n \in DOMAIN tree[d] : tree[d][n] # Torn => tree'[d][n] = tree[d][n]
  /\ DOMAIN tree \subseteq (DOMAIN tree)'
  /\ \A id \in (DOMAIN tree)' \ DOMAIN tree :
       /\ DOMAIN tree'[id] = {}
       /\ \E d \in DOMAIN tree : \E n \in DOMAIN tree[d] :
            tree[d][n] = Torn /\ tree'[d][n] = Dir(id)

Next == \/ Begin \/ fs_chdir \/ ImplicitCreate \/ TearFile \/ TearDir
        \/ Succeed \/ Fail \/ Crash

Spec == Init /\ [][Next]_vars
=============================================================================
