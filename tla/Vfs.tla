-------------------------------- MODULE Vfs ---------------------------------
(***************************************************************************)
(* The virtual file system (fs/vfs.c) and the three file systems under it  *)
(* (fs/mem.c, fs/dev.c, fs/ext2/ext2.c) as trees of nodes: look-up, mount  *)
(* and unmount, as the commands of the debug shell use them.  What is in   *)
(* files is in File and Ext2.                                              *)
(*                                                                         *)
(* A node is <<fs, n>>, n = 0 for the root.  memfs nodes are in "node"; of *)
(* devfs only the devices' names matter; n is the inode in ext2, where     *)
(* every look-up makes a new node, so that <<e, 2>> is a node of the root  *)
(* directory other than <<e, 0>>, fs->root.  A name is a sequence of parts *)
(* of a path: "touch a/b" makes a file called a/b.                         *)
(***************************************************************************)
EXTENDS Integers, Sequences, SequencesExt, FiniteSets

CONSTANTS
    NULL,
    MemFss, Ext2Fss,    \* file systems the shell may mount
    Paths,              \* paths the shell is given: [abs, parts]
    image,              \* the ext2 file system: inode |-> [dir, entries]
    Prefix(_, _),       \* is a name a prefix of another?
    MaxNodes            \* bound on nodes made

VARIABLES
    node,               \* memfs nodes: [name, dir, up, kids]
    mounted,            \* node |-> fs, for nodes of type nt_mountpoint
    parent, parent_node,\* of each file system mounted
    unused,             \* file systems not made yet
    freed,              \* nodes and file systems freed
    cwd,
    covered, dangling,  \* history: was a root or the cwd mounted on; nodes a refused
                        \* mount has freed where they are linked
    state               \* "up"; "wild": a bad pointer was followed; "foreign": a node
                        \* of another file system was freed as a memfs one

vars == <<node, mounted, parent, parent_node, unused, freed, cwd, covered, dangling, state>>

root == "rootfs"
devfs == "devfs"
Kind(fs) == IF fs = devfs THEN "devfs" ELSE IF fs \in Ext2Fss THEN "ext2" ELSE "memfs"

get_root(fs) == <<fs, 0>>
Struct(fs) == <<fs, -1>>     \* the file system's own memory
vfs_get_root == get_root(root)

Dir(up, name) == [name |-> name, dir |-> TRUE, up |-> up, kids |-> <<>>]
DevDir == <<root, 1>>

\* After init has mounted the root and devfs on /dev.
Init ==
    /\ node = [n \in {vfs_get_root, DevDir} |->
                 IF n = DevDir THEN Dir(vfs_get_root, <<"dev">>)
                 ELSE [Dir(vfs_get_root, <<>>) EXCEPT !.kids = <<DevDir>>]]
    /\ mounted = [n \in {DevDir} |-> devfs]
    /\ parent = [fs \in {devfs} |-> root]
    /\ parent_node = [fs \in {devfs} |-> DevDir]
    /\ unused = MemFss \cup Ext2Fss
    /\ freed = {} /\ cwd = vfs_get_root /\ covered = FALSE /\ dangling = {} /\ state = "up"

(* ------------------------------- look-up -------------------------------- *)

Found(n) == [r |-> "ok", node |-> n]
Failed == [r |-> "error", node |-> NULL]
Wild == [r |-> "wild", node |-> NULL]

\* node->fs and node->type.
Fs(n) == IF n \in DOMAIN mounted THEN mounted[n] ELSE n[1]
Inode(n) == IF n[2] = 0 THEN 2 ELSE n[2]
IsMountpoint(n) == n \in DOMAIN mounted
IsDir(n) ==
    CASE Kind(n[1]) = "memfs" -> node[n].dir
      [] Kind(n[1]) = "devfs" -> n[2] = 0
      [] Kind(n[1]) = "ext2"  -> image[Inode(n)].dir

\* The list of children is walked up to the name, or to its end.
memfs_lookup(n, name) ==
    LET kids == node[n].kids
        at   == SelectInSeq(kids, LAMBDA k : node[k].name = name)
        seen == IF at = 0 THEN kids ELSE SubSeq(kids, 1, at)
    IN  CASE name = <<".">>  -> Found(n)
          [] name = <<"..">> -> Found(node[n].up)
          [] OTHER -> IF Range(seen) \cap freed # {} THEN Wild
                      ELSE IF at = 0 THEN Failed ELSE Found(kids[at])

devfs_lookup(n, name) ==
    CASE name = <<".">> -> Found(n)
      [] name = <<"..">> /\ n[2] = 0 -> Found(parent_node[devfs])
      [] OTHER -> IF name = <<"fd0">> THEN Found(<<devfs, 1>>) ELSE Failed

\* The entries iterate_dirents gives to lookup_cb, and which of them have a
\* name that is a prefix of the name looked for; the last one counts.
Entries(n) == image[Inode(n)].entries
Hits(n, name) == {k \in DOMAIN Entries(n) : Prefix(Entries(n)[k].name, name)}

ext2_lookup(n, name) ==
    LET hits == Hits(n, name) IN
    CASE name = <<".">> -> Found(n)
      [] name = <<"..">> /\ n[2] = 0 -> Found(parent_node[n[1]])
      [] OTHER -> IF hits = {} THEN Failed
                  ELSE Found(<<n[1], Entries(n)[CHOOSE k \in hits : \A j \in hits : j <= k].inode>>)

\* dir->fs->ops->lookup: fs is dir->fs.  A node that was freed, or that is
\* not one of fs's kind, is a bad pointer.
OpsLookup(n, fs, name) ==
    IF n \in freed \/ Struct(fs) \in freed \/ Kind(fs) # Kind(n[1]) THEN Wild
    ELSE CASE Kind(fs) = "memfs" -> memfs_lookup(n, name)
           [] Kind(fs) = "devfs" -> devfs_lookup(n, name)
           [] Kind(fs) = "ext2"  -> ext2_lookup(n, name)

\* vfs_lookup with fs as dir->fs.  ".." that ends at a mountpoint goes on
\* from there in the parent file system; where ".." is the directory itself
\* that has no end but the stack's.
RECURSIVE LookupIn(_, _, _)
LookupIn(n, fs, name) ==
    IF n \notin freed /\ ~IsDir(n) THEN Failed
    ELSE LET found == OpsLookup(n, fs, name) IN
         IF found.r # "ok" \/ ~IsMountpoint(found.node) THEN found
         ELSE IF name = <<"..">> /\ found.node = n /\ fs = parent[mounted[n]] THEN Wild
         ELSE IF name = <<"..">>
              THEN LookupIn(found.node, parent[mounted[found.node]], name)
              ELSE Found(get_root(mounted[found.node]))

vfs_lookup(n, name) == IF n \in freed THEN Wild ELSE LookupIn(n, Fs(n), name)

RECURSIVE Walk(_, _)
Walk(from, parts) ==
    IF parts = <<>> THEN Found(from)
    ELSE LET next == vfs_lookup(from, <<Head(parts)>>) IN
         IF next.r = "ok" THEN Walk(next.node, Tail(parts)) ELSE next

vfs_traverse(p) == Walk(IF p.abs THEN vfs_get_root ELSE cwd, p.parts)

dirname(p) == [p EXCEPT !.parts = Front(p.parts)]
basename(p) == <<Last(p.parts)>>

(* ------------------------------- commands ------------------------------- *)

trees == <<node, mounted, parent, parent_node, unused, freed, covered, dangling>>

\* What a command does when a look-up has failed, or gone wild.
Give_up(found) ==
    /\ found.r # "ok"
    /\ state' = (IF found.r = "wild" THEN "wild" ELSE state)
    /\ UNCHANGED <<trees, cwd>>

Refuse == UNCHANGED vars

vfs_chdir(p) ==
    \E new \in {vfs_traverse(p)} :
    \/ Give_up(new)
    \/ /\ new.r = "ok"
       /\ cwd' = (IF IsDir(new.node) /\ ~IsMountpoint(new.node) THEN new.node ELSE cwd)
       /\ UNCHANGED <<trees, state>>

\* memfs_create and memfs_mkdir: in the file system dir->fs, under dir.
memfs_node_create(dir, name, isdir) ==
    LET new == <<Fs(dir), Cardinality({n \in DOMAIN node : n[1] = Fs(dir)})>> IN
    /\ Cardinality({n \in DOMAIN node : n[2] # 0}) < MaxNodes
    /\ node' = [n \in DOMAIN node \cup {new} |->
                  IF n = new THEN [Dir(dir, name) EXCEPT !.dir = isdir]
                  ELSE IF n = dir THEN [node[n] EXCEPT !.kids = <<new>> \o @]
                  ELSE node[n]]
    /\ UNCHANGED <<mounted, parent, parent_node, unused, freed, cwd, covered, dangling, state>>

\* vfs_create, vfs_mkdir: only memfs can.  A look-up that fails because dir is
\* no directory counts as "not there yet".
Create(dir, name, isdir) ==
    IF Kind(Fs(dir)) # "memfs" THEN Refuse
    ELSE \E found \in {vfs_lookup(dir, name)} :
         \/ found.r = "ok" /\ Refuse
         \/ found.r = "error" /\ memfs_node_create(dir, name, isdir)
         \/ found.r = "wild" /\ Give_up(found)

\* mkdir; with -p, missing directories would be made from the cwd on, which
\* is a sequence of these.
mkdir(p) ==
    /\ p.parts # <<>>
    /\ \E dir \in {vfs_traverse(dirname(p))} :
       \/ Give_up(dir)
       \/ dir.r = "ok" /\ Create(dir.node, basename(p), TRUE)

\* touch gives the whole path as the file's name.
touch(p) ==
    /\ p.parts # <<>>
    /\ \E dir \in {vfs_traverse(dirname(p))} :
       \/ Give_up(dir)
       \/ dir.r = "ok" /\ Create(dir.node, p.parts, FALSE)

(* -------------------------- mount and unmount --------------------------- *)

\* The names vfs_readdir gives after "." and "..", and what a look-up finds.
Names(n) ==
    CASE Kind(n[1]) = "memfs" -> {node[k].name : k \in Range(node[n].kids)}
      [] Kind(n[1]) = "devfs" -> {<<"fd0">>}
      [] Kind(n[1]) = "ext2"  -> {Entries(n)[k].name : k \in 3..Len(Entries(n))}

Listed(n) == IF IsDir(n) THEN {vfs_lookup(n, name) : name \in Names(n)} ELSE {}

\* What memfs_recurse_free finds and frees: the result of a look-up of each
\* name, which at a mountpoint is the root of what is mounted.
RECURSIVE FoundUnder(_)
FoundUnder(dir) ==
    Listed(dir) \cup UNION {IF c.r = "ok" /\ Kind(c.node[1]) = "memfs" THEN FoundUnder(c.node) ELSE {}
                              : c \in Listed(dir)}

\* It takes whatever it finds for a memfs node.
memfs_recurse_free(dir, fs) ==
    \E gone \in {FoundUnder(dir)} :
    \/ /\ \A c \in gone : c.r = "ok" /\ Kind(c.node[1]) = "memfs"
       /\ freed' = freed \cup {c.node : c \in gone} \cup {Struct(fs)}
       /\ UNCHANGED state
    \/ /\ \E c \in gone : c.r # "ok"
       /\ state' = "wild" /\ UNCHANGED freed
    \/ /\ \A c \in gone : c.r = "ok"
       /\ \E c \in gone : Kind(c.node[1]) # "memfs"
       /\ state' = "foreign" /\ UNCHANGED freed

memfs_unmount(fs) == memfs_recurse_free(get_root(fs), fs) /\ UNCHANGED dangling

\* memfs_unmount of a file system that vfs_mount has refused: fs->root is NULL,
\* for which vfs_readdir and vfs_lookup take the cwd.  What is in the cwd is
\* freed, and stays linked.
Unmounted(fs) ==
    IF {cwd, Struct(Fs(cwd))} \cap freed # {} \/ Kind(Fs(cwd)) # Kind(cwd[1])
    THEN state' = "wild" /\ UNCHANGED <<freed, dangling>>
    ELSE /\ memfs_recurse_free(cwd, fs)
         /\ dangling' = dangling \cup (freed' \ (freed \cup {Struct(fs)}))


\* A node that ext2_lookup has made is found by nobody else: what is mounted
\* on it is not seen.
vfs_mount(fs, mp) ==
    /\ node' = (IF Kind(fs) = "memfs" THEN [n \in DOMAIN node \cup {get_root(fs)} |->
                   IF n = get_root(fs) THEN Dir(mp, <<>>) ELSE node[n]] ELSE node)
    /\ parent' = [f \in DOMAIN parent \cup {fs} |-> IF f = fs THEN Fs(mp) ELSE parent[f]]
    /\ parent_node' = [f \in DOMAIN parent_node \cup {fs} |-> IF f = fs THEN mp ELSE parent_node[f]]
    /\ mounted' = (IF Kind(mp[1]) = "ext2" /\ mp[2] # 0 THEN mounted
                   ELSE [n \in DOMAIN mounted \cup {mp} |-> IF n = mp THEN fs ELSE mounted[n]])

Mountable(mp) == IsDir(mp) /\ ~IsMountpoint(mp)

mount(fs, p) ==
    /\ fs \in unused
    /\ unused' = unused \ {fs}
    /\ \E mp \in {vfs_traverse(p)} :
       IF mp.r = "wild"
       THEN state' = "wild" /\ UNCHANGED <<node, mounted, parent, parent_node, freed, covered, dangling>>
       ELSE IF mp.r = "ok" /\ Mountable(mp.node)
       THEN /\ vfs_mount(fs, mp.node)
            /\ covered' = (covered \/ mp.node = cwd \/ mp.node = get_root(Fs(mp.node)))
            /\ UNCHANGED <<freed, dangling, state>>
       ELSE IF Kind(fs) = "memfs"
       THEN Unmounted(fs) /\ UNCHANGED <<node, mounted, parent, parent_node, covered>>
       ELSE UNCHANGED <<node, mounted, parent, parent_node, freed, covered, dangling, state>>
    /\ UNCHANGED cwd

\* The device is opened first; ext2_new or ext2_mount may refuse what it holds.
e2mount(fs, p) ==
    /\ vfs_traverse([abs |-> TRUE, parts |-> <<"dev", "fd0">>]).r = "ok"
    /\ \/ mount(fs, p)
       \/ /\ fs \in unused /\ unused' = unused \ {fs}
          /\ UNCHANGED <<node, mounted, parent, parent_node, freed, cwd, covered, dangling, state>>

\* Mutant: the mountpoint is left on its directory.
vfs_unmount_Covered(fs) ==
    /\ UNCHANGED mounted
    /\ IF Kind(fs) = "memfs" THEN memfs_unmount(fs) ELSE UNCHANGED <<freed, dangling, state>>
    /\ UNCHANGED <<node, parent, parent_node, unused, cwd, covered>>

\* vfs_unmount.  The directory is there again before fs->ops->unmount is asked,
\* which only memfs can do.
vfs_unmount(fs) ==
    /\ mounted' = [n \in DOMAIN mounted \ {parent_node[fs]} |-> mounted[n]]
    /\ IF Kind(fs) = "memfs" THEN memfs_unmount(fs) ELSE UNCHANGED <<freed, dangling, state>>
    /\ UNCHANGED <<node, parent, parent_node, unused, cwd, covered>>

\* The command unmounts the file system of a node whose ".." is in another.
unmount(p) ==
    \E n \in {vfs_traverse(p)} :
    \/ Give_up(n)
    \/ /\ n.r = "ok"
       /\ \E up \in {vfs_lookup(n.node, <<"..">>)} :
          \/ Give_up(up)
          \/ /\ up.r = "ok"
             /\ IF Fs(n.node) = Fs(up.node) THEN Refuse ELSE vfs_unmount(Fs(n.node))

-----------------------------------------------------------------------------

Next ==
    /\ state = "up"
    /\ \E p \in Paths :
          \/ vfs_chdir(p) \/ mkdir(p) \/ touch(p) \/ unmount(p)
          \/ \E fs \in MemFss : mount(fs, p)
          \/ \E fs \in Ext2Fss : e2mount(fs, p)

Spec == Init /\ [][Next]_vars

-----------------------------------------------------------------------------

\* What is found from a node by the names listed, however deep.
RECURSIVE Below(_)
Below(n) ==
    IF n \in freed THEN {n} ELSE {n} \cup UNION {Below(c.node) : c \in {c \in Listed(n) : c.r = "ok"}}

\* ext2 makes a node for every look-up: nodes of the same directory.
Same(a, b) == a = b \/ (a[1] = b[1] /\ Kind(a[1]) = "ext2" /\ Inode(a) = Inode(b))

\* The file system the cwd is in, or one that one is in, was unmounted.
Lost == \A n \in Below(vfs_get_root) : ~Same(n, cwd)

\* No command follows a bad pointer, except after one of three things: a mount
\* on the cwd or over another file system's root, a mount refused with the cwd
\* not empty, and the file system around the cwd unmounted.
OnlyKnownHarm == state = "wild" => covered \/ dangling # {} \/ Lost

\* Whatever is found from the root on is there: unmount frees only what can
\* no longer be reached, and a refused mount what is in the cwd.
ReachableAlive ==
    state = "up" /\ ~covered =>
        \A n \in Below(vfs_get_root) :
            /\ {n, Struct(n[1])} \cap freed \subseteq dangling
            /\ dangling = {} => \A c \in Listed(n) : c.r = "ok"

\* ".." goes back: of a directory found by its name in another, ".." is the
\* other one, also where one of them is a root and a mountpoint is between.
\* But ".." from a directory of ext2 is another node of the root's inode than
\* fs->root, and ".." of that is itself: from there the mountpoint is not found.
DotDotReturns ==
    state = "up" /\ ~covered =>
        \A d \in Below(vfs_get_root) \ dangling : \A c \in Listed(d) :
            c.r = "ok" /\ c.node \notin dangling /\ IsDir(c.node) =>
                LET up == vfs_lookup(c.node, <<"..">>) IN up.r = "ok" /\ Same(up.node, d)
=============================================================================
