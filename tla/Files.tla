------------------------------- MODULE Files -------------------------------
(***************************************************************************)
(* Inodes, directories and open files of xv6 (fs.c, sysfile.c, file.c):    *)
(* the system calls that make, link, open, enter and remove files, run by  *)
(* several processes.                                                      *)
(*                                                                         *)
(* A step goes from one ilock to the next, or to the iunlock before it: it *)
(* waits for the inode's lock, works under it, and changes the reference   *)
(* counts of the inode cache at most once.  What files hold and the        *)
(* transactions are left out, and an inode has one block at most; system   *)
(* calls of one process follow each other.  A directory is a function from *)
(* names, "." and ".." among them, to inodes.                              *)
(***************************************************************************)
EXTENDS Integers, Sequences, FiniteSets

CONSTANTS Proc, Name,
          Calls,             \* the calls made: records of op, path and new
          NINODES, NBLOCKS,  \* inodes and data blocks of the disk
          NFILE, NOFILE,     \* open files of the system, of a process
          Nobody             \* no process, nothing cached

ROOTINO == 1
Inum == 1 .. NINODES
File == 1 .. NFILE
Types == {"none", "file", "dir", "dev"}
Block == 1 .. NBLOCKS
Entry == Name \cup {".", ".."}
Inode == [type : Types, nlink : Int, addr : Block \cup {0}]
FreeInode == [type |-> "none", nlink |-> 0, addr |-> 0]

\* Relative and absolute paths: the first element may be "/".
IsPath(path) ==
  /\ path \in Seq(Entry \cup {"/"}) /\ path # <<>> /\ path # <<"/">>
  /\ \A k \in 2 .. Len(path) : path[k] # "/"

ASSUME FilesAssumption ==
  /\ NINODES \in Nat \ {0} /\ NBLOCKS \in Nat \ {0} /\ NFILE \in Nat /\ NOFILE \in Nat
  /\ IsFiniteSet(Proc) /\ IsFiniteSet(Name)
  /\ Name \cap {0, "/", ".", ".."} = {} /\ Nobody \notin Proc \cup Inode \cup Calls
  /\ \A c \in Calls :
       /\ c.op \in {"open", "creat", "mkdir", "mknod", "link", "unlink", "chdir"}
       /\ IsPath(c.path) /\ (c.op = "link" => IsPath(c.new))

VARIABLES
  disk,              \* the inodes of the disk, with type, nlink and a block or 0
  used,              \* blocks marked in the bitmap
  ent,               \* the entries of each directory
  mem,               \* the cached copy of each inode, or Nobody if it is not valid
  ref, lock,         \* ip->ref and the holder of ip->lock
  file, open,        \* inode of each open file, or 0; the files of each process
  cwd,
  pc, call, path,    \* where each process is, in which call, with what left of a path
  at, dp, ip, put,   \* the references it has: of namex, of the call, of iput
  ret,               \* where it goes after iput
  panicked,
  strays,            \* history: a directory in use was removed
  raced              \* history: inodes whose last two iputs overlapped

store == <<disk, used, ent>>
files == <<file, open, cwd>>
locals == <<call, path, at, dp, ip>>
ends == <<panicked, strays, raced>>
vars == <<store, mem, ref, lock, files, pc, locals, put, ret, ends>>

Init ==
  /\ disk = [i \in Inum |-> IF i = ROOTINO THEN [type |-> "dir", nlink |-> 1, addr |-> 1]
                                           ELSE FreeInode]
  /\ used = {1}
  /\ ent = [i \in Inum |-> [n \in Entry |-> IF i = ROOTINO /\ n \notin Name THEN i ELSE 0]]
  /\ mem = [i \in Inum |-> Nobody] /\ lock = [i \in Inum |-> Nobody]
  /\ ref = [i \in Inum |-> IF i = ROOTINO THEN Cardinality(Proc) ELSE 0]
  /\ file = [f \in File |-> 0] /\ open = [p \in Proc |-> {}]
  /\ cwd = [p \in Proc |-> ROOTINO]
  /\ pc = [p \in Proc |-> "out"] /\ ret = [p \in Proc |-> "out"]
  /\ call = [p \in Proc |-> Nobody] /\ path = [p \in Proc |-> <<>>]
  /\ at = [p \in Proc |-> 0] /\ dp = at /\ ip = at /\ put = at
  /\ panicked = "" /\ strays = FALSE /\ raced = {}

-----------------------------------------------------------------------------
(* The inode cache. *)

\* The copy that ilock leaves in memory.
Load(i) == IF mem[i] = Nobody THEN disk[i] ELSE mem[i]

CanLock(i) == lock[i] = Nobody /\ Load(i).type # "none"

Loads(i) == mem' = [mem EXCEPT ![i] = Load(i)]

\* A change of inode i in memory, and iupdate.
Updates(i, inode) ==
  /\ mem' = [mem EXCEPT ![i] = inode]
  /\ disk' = [disk EXCEPT ![i] = inode]

AddLinks(inode, k) == [inode EXCEPT !.nlink = @ + k]

\* The first free block of the bitmap.
Balloc == CHOOSE x \in Block \ used : \A y \in Block \ used : x <= y

Iget(i) == ref' = [ref EXCEPT ![i] = @ + 1]

Goto(p, l) == pc' = [pc EXCEPT ![p] = l] /\ UNCHANGED <<put, ret>>

\* Process p goes to iput(i), and then to l.
Iput(p, i, l) ==
  /\ pc' = [pc EXCEPT ![p] = "iput"]
  /\ put' = [put EXCEPT ![p] = i]
  /\ ret' = [ret EXCEPT ![p] = l]

\* The references to inode i are those of process p and of others at the end of iput.
OthersDone(p, i) ==
  ref[i] = 1 + Cardinality({q \in Proc \ {p} : put[q] = i /\ pc[q] = "deref"})

\* The first half of iput: is this the last reference to an inode without links?
IputTest(p) ==
  LET i == put[p]
      unlinked == mem[i] # Nobody /\ mem[i].nlink = 0
  IN /\ pc[p] = "iput" /\ lock[i] = Nobody
     /\ IF unlinked /\ ref[i] = 1
        THEN Goto(p, "ifree") /\ lock' = [lock EXCEPT ![i] = p]
        ELSE Goto(p, "deref") /\ UNCHANGED lock
     /\ raced' = IF unlinked /\ ref[i] > 1 /\ OthersDone(p, i) THEN raced \cup {i} ELSE raced
     /\ UNCHANGED <<store, mem, ref, files, locals, panicked, strays>>

\* If so, itrunc, and the inode is free on the disk.
IputFree(p) ==
  LET i == put[p]
  IN /\ pc[p] = "ifree"
     /\ used' = used \ {mem[i].addr}
     /\ disk' = [disk EXCEPT ![i] = FreeInode]
     /\ ent' = [ent EXCEPT ![i] = [n \in Entry |-> 0]]
     /\ mem' = [mem EXCEPT ![i] = Nobody]
     /\ lock' = [lock EXCEPT ![i] = Nobody]
     /\ raced' = raced \ {i}
     /\ Goto(p, "deref")
     /\ UNCHANGED <<ref, files, locals, panicked, strays>>

\* The second half.  iget never finds an entry without references, so that its
\* copy may be dropped here.
IputDeref(p) ==
  LET i == put[p]
  IN /\ pc[p] = "deref"
     /\ ref' = [ref EXCEPT ![i] = @ - 1]
     /\ mem' = IF ref[i] = 1 THEN [mem EXCEPT ![i] = Nobody] ELSE mem
     /\ pc' = [pc EXCEPT ![p] = ret[p]]
     /\ put' = [put EXCEPT ![p] = 0] /\ ret' = [ret EXCEPT ![p] = "out"]
     /\ IF ret[p] = "out"
        THEN call' = [call EXCEPT ![p] = Nobody] /\ path' = [path EXCEPT ![p] = <<>>]
        ELSE UNCHANGED <<call, path>>
     /\ UNCHANGED <<store, lock, files, at, dp, ip, ends>>

-----------------------------------------------------------------------------
(* Paths. *)

\* dirlookup
Lookup(d, n) == ent[d][n]

\* namex starts at the root or at the current directory.
Walk(p, whole) ==
  LET start == IF Head(whole) = "/" THEN ROOTINO ELSE cwd[p]
  IN /\ Iget(start)
     /\ at' = [at EXCEPT ![p] = start]
     /\ path' = [path EXCEPT ![p] = IF Head(whole) = "/" THEN Tail(whole) ELSE whole]
     /\ Goto(p, "namex")

Call(p, c) ==
  /\ pc[p] = "out"
  /\ call' = [call EXCEPT ![p] = c]
  /\ Walk(p, c.path)
  /\ UNCHANGED <<store, mem, lock, files, dp, ip, ends>>

\* link walks two paths, the second with an inode in hand.
SecondPath(p) == call[p].op = "link" /\ ip[p] # 0
WantsParent(p) == call[p].op \in {"creat", "mkdir", "mknod", "unlink"} \/ SecondPath(p)

\* Where the call goes on with what namex returns.
After(p) == CASE SecondPath(p) -> "linkat"
              [] call[p].op \in {"creat", "mkdir", "mknod"} -> "create"
              [] OTHER -> call[p].op

\* One element of the path, in the directory where namex is.
Namex(p) ==
  LET i == at[p]
      x == Lookup(i, Head(path[p]))
      rest == Tail(path[p])
      isdir == Load(i).type = "dir"
      stop == WantsParent(p) /\ rest = <<>>
  IN /\ pc[p] = "namex" /\ CanLock(i) /\ Loads(i)
     /\ \/ /\ ~isdir \/ (x = 0 /\ ~stop)
           /\ Iput(p, i, IF SecondPath(p) THEN "undo" ELSE "out")
           /\ at' = [at EXCEPT ![p] = 0]
           /\ UNCHANGED <<ref, path, dp, ip>>
        \/ /\ isdir /\ stop
           /\ Goto(p, After(p))
           /\ at' = [at EXCEPT ![p] = 0] /\ dp' = [dp EXCEPT ![p] = i]
           /\ UNCHANGED <<ref, path, ip>>
        \/ /\ isdir /\ ~stop /\ x # 0
           /\ Iget(x)
           /\ path' = [path EXCEPT ![p] = rest]
           /\ IF rest = <<>>
              THEN /\ at' = [at EXCEPT ![p] = 0] /\ ip' = [ip EXCEPT ![p] = x]
                   /\ Iput(p, i, After(p))
              ELSE /\ at' = [at EXCEPT ![p] = x] /\ UNCHANGED ip
                   /\ Iput(p, i, "namex")
           /\ UNCHANGED dp
     /\ UNCHANGED <<store, lock, files, call, ends>>

\* The call ends with iput(ip).
PutIp(p) == Iput(p, ip[p], "out") /\ ip' = [ip EXCEPT ![p] = 0]

\* It goes on at l after iput(dp).
PutDp(p, l) == Iput(p, dp[p], l) /\ dp' = [dp EXCEPT ![p] = 0]

-----------------------------------------------------------------------------
(* open and close *)

Room(p) == (\E f \in File : file[f] = 0) /\ Cardinality(open[p]) < NOFILE

\* The end of sys_open: filealloc and fdalloc, which take over the reference, or
\* failure.
Opens(p) ==
  IF Room(p)
  THEN LET f == CHOOSE f \in File : file[f] = 0 /\ \A g \in 1 .. (f - 1) : file[g] # 0
       IN /\ file' = [file EXCEPT ![f] = ip[p]]
          /\ open' = [open EXCEPT ![p] = @ \cup {f}]
          /\ ip' = [ip EXCEPT ![p] = 0]
          /\ call' = [call EXCEPT ![p] = Nobody] /\ path' = [path EXCEPT ![p] = <<>>]
          /\ Goto(p, "out")
  ELSE PutIp(p) /\ UNCHANGED <<file, open, call, path>>

\* A directory opens for reading only.
Open(p) ==
  /\ pc[p] = "open" /\ CanLock(ip[p]) /\ Loads(ip[p])
  /\ \/ Opens(p)
     \/ Load(ip[p]).type = "dir" /\ PutIp(p) /\ UNCHANGED <<file, open, call, path>>
  /\ UNCHANGED <<store, ref, lock, cwd, at, dp, ends>>

Close(p, f) ==
  /\ pc[p] = "out" /\ f \in open[p]
  /\ open' = [open EXCEPT ![p] = @ \ {f}] /\ file' = [file EXCEPT ![f] = 0]
  /\ Iput(p, file[f], "out")
  /\ UNCHANGED <<store, mem, ref, lock, cwd, locals, ends>>

\* filewrite: the block of the file, if it has none.
Write(p, f) ==
  LET i == file[f]
  IN /\ pc[p] = "out" /\ f \in open[p]
     /\ CanLock(i) /\ Load(i).type = "file" /\ Load(i).addr = 0
     /\ IF used = Block
        THEN panicked' = "balloc: out of blocks" /\ UNCHANGED <<mem, disk, used>>
        ELSE /\ Updates(i, [Load(i) EXCEPT !.addr = Balloc])
             /\ used' = used \cup {Balloc}
             /\ UNCHANGED panicked
     /\ UNCHANGED <<ent, ref, lock, files, pc, locals, put, ret, strays, raced>>

Chdir(p) ==
  /\ pc[p] = "chdir" /\ CanLock(ip[p]) /\ Loads(ip[p])
  /\ IF Load(ip[p]).type = "dir"
     THEN cwd' = [cwd EXCEPT ![p] = ip[p]] /\ Iput(p, cwd[p], "out")
     ELSE UNCHANGED cwd /\ Iput(p, ip[p], "out")
  /\ ip' = [ip EXCEPT ![p] = 0]
  /\ UNCHANGED <<store, ref, lock, file, open, call, path, at, dp, ends>>

-----------------------------------------------------------------------------
(* create, for open with O_CREATE, mkdir and mknod *)

NewType(p) == CASE call[p].op = "creat" -> "file"
                [] call[p].op = "mkdir" -> "dir"
                [] call[p].op = "mknod" -> "dev"

\* mutant: an inode that is there is locked before the directory is given up
CreateLookLocked(p) ==
  LET d == dp[p]
      x == Lookup(d, Head(path[p]))
  IN /\ pc[p] = "create" /\ CanLock(d) /\ Loads(d)
     /\ \/ /\ x # 0
           /\ Iget(x)
           /\ ip' = [ip EXCEPT ![p] = x]
           /\ lock' = [lock EXCEPT ![d] = p]
           /\ Goto(p, "exists") /\ UNCHANGED <<disk, dp>>
        \/ /\ x = 0
           /\ \E i \in Inum :
                /\ disk[i].type = "none"
                /\ disk' = [disk EXCEPT ![i] = [FreeInode EXCEPT !.type = NewType(p)]]
                /\ Iget(i)
                /\ ip' = [ip EXCEPT ![p] = i]
           /\ lock' = [lock EXCEPT ![d] = p]
           /\ Goto(p, "fill") /\ UNCHANGED dp
     /\ UNCHANGED <<used, ent, files, call, path, at, ends>>

\* The name is looked up and, if it is new, ialloc: any free inode, for lower ones
\* may have become free since they were looked at.
CreateLook(p) ==
  LET d == dp[p]
      x == Lookup(d, Head(path[p]))
  IN /\ pc[p] = "create" /\ CanLock(d) /\ Loads(d)
     /\ \/ /\ x # 0
           /\ Iget(x)
           /\ ip' = [ip EXCEPT ![p] = x]
           /\ PutDp(p, "exists") /\ UNCHANGED <<disk, lock>>
        \/ /\ x = 0
           /\ \E i \in Inum :
                /\ disk[i].type = "none"
                /\ disk' = [disk EXCEPT ![i] = [FreeInode EXCEPT !.type = NewType(p)]]
                /\ Iget(i)
                /\ ip' = [ip EXCEPT ![p] = i]
           /\ lock' = [lock EXCEPT ![d] = p]
           /\ Goto(p, "fill") /\ UNCHANGED dp
     /\ UNCHANGED <<used, ent, files, call, path, at, ends>>

\* Only a file may be there already, and only for open.
CreateExists(p) ==
  /\ pc[p] = "exists" /\ CanLock(ip[p]) /\ Loads(ip[p])
  /\ IF call[p].op = "creat" /\ Load(ip[p]).type = "file"
     THEN Opens(p)
     ELSE PutIp(p) /\ UNCHANGED <<file, open, call, path>>
  /\ UNCHANGED <<store, ref, lock, cwd, at, dp, ends>>

HasDots(i) == ent[i]["."] # 0 \/ ent[i][".."] # 0

\* The new inode gets its link, a directory its entries, and the parent the name.
\* The parent is put with the new inode locked.
CreateFill(p) ==
  LET d == dp[p]
      i == ip[p]
      isdir == NewType(p) = "dir"
      new == [disk EXCEPT ![i].nlink = 1, ![i].addr = IF isdir /\ @ = 0 THEN Balloc ELSE @,
                          ![d].nlink = @ + IF isdir THEN 1 ELSE 0]
      dots == IF isdir THEN [ent EXCEPT ![i]["."] = i, ![i][".."] = d] ELSE ent
  IN /\ pc[p] = "fill" /\ CanLock(i)
     /\ ~(isdir /\ HasDots(i)) /\ ~(isdir /\ Load(i).addr = 0 /\ used = Block)
     /\ disk' = new /\ used' = used \cup ({new[i].addr} \ {0})
     /\ mem' = [mem EXCEPT ![i] = new[i], ![d] = new[d]]
     /\ ent' = [dots EXCEPT ![d][Head(path[p])] = i]
     /\ lock' = [lock EXCEPT ![i] = p, ![d] = Nobody]
     /\ PutDp(p, "made")
     /\ UNCHANGED <<ref, files, call, path, at, ip, ends>>

CreateMade(p) ==
  /\ pc[p] = "made"
  /\ lock' = [lock EXCEPT ![ip[p]] = Nobody]
  /\ IF call[p].op = "creat" THEN Opens(p)
                             ELSE PutIp(p) /\ UNCHANGED <<file, open, call, path>>
  /\ UNCHANGED <<store, mem, ref, cwd, at, dp, ends>>

-----------------------------------------------------------------------------
(* link *)

\* The link is counted first.
LinkCount(p) ==
  LET i == ip[p]
  IN /\ pc[p] = "link" /\ CanLock(i)
     /\ \/ /\ Load(i).type = "dir"
           /\ Loads(i) /\ PutIp(p)
           /\ UNCHANGED <<disk, ref, path, at>>
        \/ /\ Load(i).type # "dir"
           /\ Updates(i, AddLinks(Load(i), 1))
           /\ Walk(p, call[p].new)
           /\ UNCHANGED ip
     /\ UNCHANGED <<used, ent, lock, files, call, dp, ends>>

\* dirlink.  If the name is there its inode is put with the directory locked.
LinkEnter(p) ==
  LET d == dp[p]
      x == Lookup(d, Head(path[p]))
  IN /\ pc[p] = "linkat" /\ CanLock(d) /\ Loads(d)
     /\ IF x # 0
        THEN /\ Iget(x)
             /\ lock' = [lock EXCEPT ![d] = p]
             /\ Iput(p, x, "linkdup")
             /\ UNCHANGED <<ent, dp>>
        ELSE /\ ent' = [ent EXCEPT ![d][Head(path[p])] = ip[p]]
             /\ PutDp(p, "linked")
             /\ UNCHANGED <<ref, lock>>
     /\ UNCHANGED <<disk, used, files, call, path, at, ip, ends>>

LinkDup(p) ==
  /\ pc[p] = "linkdup"
  /\ lock' = [lock EXCEPT ![dp[p]] = Nobody]
  /\ PutDp(p, "undo")
  /\ UNCHANGED <<store, mem, ref, files, call, path, at, ip, ends>>

LinkDone(p) ==
  /\ pc[p] = "linked" /\ PutIp(p)
  /\ UNCHANGED <<store, mem, ref, lock, files, call, path, at, dp, ends>>

\* mutant: a link that was not made stays counted
LinkUndoForgets(p) ==
  /\ pc[p] = "undo" /\ CanLock(ip[p])
  /\ Loads(ip[p]) /\ PutIp(p)
  /\ UNCHANGED <<store, ref, lock, files, call, path, at, dp, ends>>

LinkUndo(p) ==
  /\ pc[p] = "undo" /\ CanLock(ip[p])
  /\ Updates(ip[p], AddLinks(Load(ip[p]), -1)) /\ PutIp(p)
  /\ UNCHANGED <<used, ent, ref, lock, files, call, path, at, dp, ends>>

-----------------------------------------------------------------------------
(* unlink *)

UnlinkLook(p) ==
  LET d == dp[p]
      x == Lookup(d, Head(path[p]))
  IN /\ pc[p] = "unlink" /\ CanLock(d) /\ Loads(d)
     /\ IF Head(path[p]) \in {".", ".."} \/ x = 0
        THEN PutDp(p, "out") /\ UNCHANGED <<ref, lock, ip>>
        ELSE /\ Iget(x)
             /\ ip' = [ip EXCEPT ![p] = x]
             /\ lock' = [lock EXCEPT ![d] = p]
             /\ Goto(p, "unlinkip") /\ UNCHANGED dp
     /\ UNCHANGED <<store, files, call, path, at, ends>>

\* The entry goes first; then the parent is put with the inode locked.
UnlinkErase(p) ==
  LET d == dp[p]
      i == ip[p]
      isdir == Load(i).type = "dir"
      full == isdir /\ \E n \in Name : ent[i][n] # 0
      parent == AddLinks(mem[d], IF isdir THEN -1 ELSE 0)
  IN /\ pc[p] = "unlinkip" /\ CanLock(i) /\ Load(i).nlink >= 1
     /\ \/ /\ full
           /\ Loads(i)
           /\ Iput(p, i, "unlinkbad") /\ ip' = [ip EXCEPT ![p] = 0]
           /\ UNCHANGED <<disk, ent, lock, dp>>
        \/ /\ ~full
           /\ ent' = [ent EXCEPT ![d][Head(path[p])] = 0]
           /\ disk' = [disk EXCEPT ![d] = parent]
           /\ mem' = [mem EXCEPT ![i] = Load(i), ![d] = parent]
           /\ lock' = [lock EXCEPT ![i] = p, ![d] = Nobody]
           /\ PutDp(p, "unlinked")
           /\ UNCHANGED ip
     /\ UNCHANGED <<used, ref, files, call, path, at, ends>>

UnlinkBad(p) ==
  /\ pc[p] = "unlinkbad"
  /\ lock' = [lock EXCEPT ![dp[p]] = Nobody]
  /\ PutDp(p, "out")
  /\ UNCHANGED <<store, mem, ref, files, call, path, at, ip, ends>>

UnlinkCount(p) ==
  LET i == ip[p]
  IN /\ pc[p] = "unlinked"
     /\ Updates(i, AddLinks(mem[i], -1))
     /\ lock' = [lock EXCEPT ![i] = Nobody]
     /\ PutIp(p)
     /\ strays' = (strays \/ (mem[i].type = "dir" /\ ref[i] > 1))
     /\ UNCHANGED <<used, ent, ref, files, call, path, at, dp, panicked, raced>>

-----------------------------------------------------------------------------
(* Panics. *)

\* The inode whose lock a process waits for, or 0.
Wants(p) == CASE pc[p] = "namex" -> at[p]
              [] pc[p] \in {"create", "linkat", "unlink"} -> dp[p]
              [] pc[p] \in {"open", "exists", "fill", "link", "undo", "unlinkip", "chdir"} -> ip[p]
              [] pc[p] = "iput" -> put[p]
              [] OTHER -> 0

\* What the next step of a process panics with, if it does.
Fatal(p) ==
  IF Wants(p) = 0 \/ pc[p] = "iput" \/ lock[Wants(p)] # Nobody THEN ""
  ELSE IF Load(Wants(p)).type = "none" THEN "ilock: no type"
  ELSE CASE pc[p] = "create" /\ Lookup(dp[p], Head(path[p])) = 0
              /\ \A i \in Inum : disk[i].type # "none" -> "ialloc: no inodes"
         [] pc[p] = "fill" /\ NewType(p) = "dir" /\ HasDots(ip[p]) -> "create dots"
         [] pc[p] = "fill" /\ NewType(p) = "dir" /\ ~HasDots(ip[p])
              /\ Load(ip[p]).addr = 0 /\ used = Block -> "balloc: out of blocks"
         [] pc[p] = "unlinkip" /\ Load(ip[p]).nlink < 1 -> "unlink: nlink < 1"
         [] OTHER -> ""

Panic(p) ==
  /\ Fatal(p) # "" /\ panicked' = Fatal(p)
  /\ UNCHANGED <<store, mem, ref, lock, files, pc, locals, put, ret, strays, raced>>

-----------------------------------------------------------------------------
Step(p) ==
  \/ \E c \in Calls : Call(p, c)
  \/ \E f \in File : Close(p, f) \/ Write(p, f)
  \/ Namex(p) \/ IputTest(p) \/ IputFree(p) \/ IputDeref(p)
  \/ Open(p) \/ Chdir(p)
  \/ CreateLook(p) \/ CreateExists(p) \/ CreateFill(p) \/ CreateMade(p)
  \/ LinkCount(p) \/ LinkEnter(p) \/ LinkDup(p) \/ LinkDone(p) \/ LinkUndo(p)
  \/ UnlinkLook(p) \/ UnlinkErase(p) \/ UnlinkBad(p) \/ UnlinkCount(p)
  \/ Panic(p)

Next == panicked = "" /\ \E p \in Proc : Step(p)

Spec == Init /\ [][Next]_vars

-----------------------------------------------------------------------------
TypeOK ==
  /\ disk \in [Inum -> Inode] /\ mem \in [Inum -> Inode \cup {Nobody}]
  /\ used \subseteq Block
  /\ ent \in [Inum -> [Entry -> Inum \cup {0}]]
  /\ ref \in [Inum -> Nat] /\ lock \in [Inum -> Proc \cup {Nobody}]
  /\ file \in [File -> Inum \cup {0}] /\ open \in [Proc -> SUBSET File]
  /\ cwd \in [Proc -> Inum] /\ call \in [Proc -> Calls \cup {Nobody}]
  /\ {at, dp, ip, put} \subseteq [Proc -> Inum \cup {0}] /\ raced \subseteq Inum

Sum4(f, g, h, k, i) ==
  Cardinality({p \in Proc : f[p] = i}) + Cardinality({p \in Proc : g[p] = i})
  + Cardinality({p \in Proc : h[p] = i}) + Cardinality({p \in Proc : k[p] = i})

\* Where a process goes on, iput apart.
Stage(p) == IF pc[p] \in {"iput", "ifree", "deref"} THEN ret[p] ELSE pc[p]

\* ip->ref counts the open files, current directories and pointers of system calls
\* under way (fs.c:124-128); the copy of an inode in use is that on the disk; and a
\* lock has the holder that the code in between shows.
RefsCounted ==
  \A i \in Inum :
    /\ ref[i] = Sum4(at, dp, ip, put, i) + Cardinality({p \in Proc : cwd[p] = i})
                + Cardinality({f \in File : file[f] = i})
    /\ mem[i] \in {Nobody, disk[i]}
    /\ \A p \in Proc :
         lock[i] = p <=> \/ put[p] = i /\ pc[p] = "ifree"
                         \/ ip[p] = i /\ Stage(p) \in {"made", "unlinked"}
                         \/ dp[p] = i /\ Stage(p) \in {"fill", "linkdup", "unlinkip", "unlinkbad"}

\* nlink is the number of names of an inode, with the links that are counted and not
\* yet entered and the names that are erased and not yet counted, and of a directory
\* also that of its subdirectories, for their "..".
LinksMatch ==
  \A i \in Inum :
    disk[i].nlink =
      Cardinality({x \in Inum \X Name : ent[x[1]][x[2]] = i})
      + Cardinality({n \in Name : ent[i][n] # 0 /\ disk[ent[i][n]].type = "dir"})
      + Cardinality({p \in Proc : /\ ip[p] = i /\ call[p].op = "link"
                                  /\ Stage(p) \in {"namex", "linkat", "linkdup", "undo"}})
      + Cardinality({p \in Proc : ip[p] = i /\ Stage(p) = "unlinked"})
      + (IF i = ROOTINO THEN 1 ELSE 0)

\* A name, an open file, a current directory or a call under way never has a free inode.
InUseAllocated ==
  /\ \A x \in Inum \X Name : ent[x[1]][x[2]] # 0 => disk[ent[x[1]][x[2]]].type # "none"
  /\ \A f \in File : file[f] # 0 => disk[file[f]].type # "none"
  /\ \A p \in Proc : /\ disk[cwd[p]].type = "dir"
                     /\ \A i \in {at[p], dp[p], ip[p]} \ {0} : disk[i].type # "none"

\* The marked blocks are those of inodes, and no two inodes have the same.
BlocksOwned ==
  /\ used = {disk[i].addr : i \in Inum} \ {0}
  /\ \A i, j \in Inum : disk[i].addr = disk[j].addr /\ i # j => disk[i].addr = 0
  /\ \A i \in Inum : disk[i].type = "none" => disk[i].addr = 0

\* "iput() frees if the reference and link counts have fallen to zero" (fs.c:121-122),
\* unless two of them found each other's reference and neither freed the inode.
UnusedAreFree ==
  \A i \in Inum \ raced : disk[i].nlink = 0 /\ ref[i] = 0 => disk[i].type = "none"

\* While no directory in use has been removed, links are right, what is in use is
\* allocated, and nothing panics but for want of inodes or blocks.
FilesInv ==
  /\ TypeOK /\ RefsCounted /\ BlocksOwned /\ UnusedAreFree
  /\ strays \/ /\ LinksMatch /\ InUseAllocated
               /\ panicked \in {"", "ialloc: no inodes", "balloc: out of blocks"}

-----------------------------------------------------------------------------
\* Processes each of which waits for a lock that one of them has.
Deadlocked(S) ==
  S # {} /\ \A p \in S : Wants(p) # 0 /\ lock[Wants(p)] \in S

\* Deadlock needs an iput made under the lock of another inode: that of the parent
\* in create and unlink, or that of the inode dirlink found.
OnlyIputDeadlocks ==
  \A S \in SUBSET Proc :
    Deadlocked(S) => \E p \in S : pc[p] = "iput" /\ \E i \in Inum : lock[i] = p

=============================================================================
