---------------------------- MODULE FilesProofs ----------------------------
(***************************************************************************)
(* What holds of Files for any number of processes, inodes, names, blocks  *)
(* and open files, whatever calls are made.  The first half holds even     *)
(* after a directory in use was removed, and when calls go to its ".."     *)
(* afterwards: types, references, locks, blocks and the freeing of inodes. *)
(* The second half is about the time before: links, names and panics.      *)
(***************************************************************************)
EXTENDS Files, FiniteSetTheorems, SequenceTheorems, WellFoundedInduction, TLAPS

(* The inductive invariant. *)

Ends == {"iput", "ifree", "deref"}
HasDp == {"create", "unlink", "linkat", "linkdup", "fill", "unlinkip", "unlinkbad"}
HasIp == {"open", "chdir", "link", "linkat", "linkdup", "linked", "undo", "exists", "fill",
          "made", "unlinkip", "unlinked"}
Walks == {"namex", "create", "unlink", "linkat", "fill", "unlinkip"}
Links == {"link", "linkat", "linkdup", "linked", "undo"}
Stages == {"out", "namex"} \cup HasDp \cup HasIp

TypeInv ==
  /\ disk \in [Inum -> Inode] /\ mem \in [Inum -> Inode \cup {Nobody}]
  /\ used \subseteq Block /\ ent \in [Inum -> [Entry -> Inum \cup {0}]]
  /\ ref \in [Inum -> Nat] /\ lock \in [Inum -> Proc \cup {Nobody}]
  /\ file \in [File -> Inum \cup {0}] /\ open \in [Proc -> SUBSET File]
  /\ cwd \in [Proc -> Inum] /\ call \in [Proc -> Calls \cup {Nobody}]
  /\ at \in [Proc -> Inum \cup {0}] /\ dp \in [Proc -> Inum \cup {0}]
  /\ ip \in [Proc -> Inum \cup {0}] /\ put \in [Proc -> Inum \cup {0}]
  /\ pc \in [Proc -> Stages \cup Ends] /\ ret \in [Proc -> Stages]
  /\ path \in [Proc -> Seq(Entry)] /\ raced \subseteq Inum

\* What a process has in hand at each stage of a call.
Shape(p) ==
  /\ put[p] # 0 <=> pc[p] \in Ends
  /\ pc[p] \notin Ends => ret[p] = "out"
  /\ at[p] # 0 <=> Stage(p) = "namex"
  /\ dp[p] # 0 <=> Stage(p) \in HasDp
  /\ Stage(p) # "namex" => (ip[p] # 0 <=> Stage(p) \in HasIp)
  /\ Stage(p) = "namex" /\ ip[p] # 0 => call[p].op = "link"
  /\ Stage(p) # "out" => call[p] \in Calls
  /\ Stage(p) \in Walks => path[p] # <<>>
  /\ Stage(p) \in Links => call[p].op = "link"
  /\ Stage(p) \in {"create", "fill", "made", "exists"} => call[p].op \in {"creat", "mkdir", "mknod"}
  /\ Stage(p) = "unlinkip" => Head(path[p]) \in Name

\* An inode that iput is about to free, and one that stays as it is.
Freed(i) == \E r \in Proc : pc[r] = "ifree" /\ put[r] = i
Kept(i) == disk[i].type # "none" /\ ~Freed(i)
KeptDir(i) == disk[i].type = "dir" /\ ~Freed(i)
KeptLeaf(i) == disk[i].type \notin {"none", "dir"} /\ ~Freed(i)

\* What was seen of an inode under its lock is true as long as it is in hand.
Valid(p) ==
  /\ dp[p] # 0 => KeptDir(dp[p])
  /\ KeptDir(cwd[p])
  /\ Stage(p) \in {"fill", "made", "unlinked"} => Kept(ip[p])
  /\ Stage(p) = "fill" => disk[ip[p]].type = NewType(p)
  /\ ip[p] # 0 /\ Stage(p) \in {"namex", "linkat", "linkdup", "linked", "undo"} => KeptLeaf(ip[p])
  /\ Stage(p) = "unlinkip" => ent[dp[p]][Head(path[p])] = ip[p]

FilesOpen ==
  /\ \A f \in File : file[f] # 0 => Kept(file[f])
  /\ \A p \in Proc : \A f \in open[p] :
       file[f] # 0 /\ \A q \in Proc : f \in open[q] => q = p

Count(S, g, i) == Cardinality({x \in S : g[x] = i})
Held(g, i) == Count(Proc, g, i)

Refs ==
  \A i \in Inum : ref[i] = Held(at, i) + Held(dp, i) + Held(ip, i) + Held(put, i)
                           + Held(cwd, i) + Count(File, file, i)

Owner(p, i) ==
  \/ put[p] = i /\ pc[p] = "ifree"
  \/ ip[p] = i /\ Stage(p) \in {"made", "unlinked"}
  \/ dp[p] = i /\ Stage(p) \in {"fill", "linkdup", "unlinkip", "unlinkbad"}

Locks == \A i \in Inum : \A p \in Proc : lock[i] = p <=> Owner(p, i)

\* The copy in memory, and the entries.
Copied(i) ==
  /\ mem[i] \in {Nobody, disk[i]}
  /\ lock[i] # Nobody => mem[i] # Nobody
  /\ mem[i] # Nobody => disk[i].type # "none"
  /\ disk[i].type # "dir" => \A n \in Entry : ent[i][n] = 0

\* A directory has an edge to what is in it or will be.
Edge(i, j) ==
  \/ \E n \in Name : ent[i][n] = j
  \/ \E q \in Proc : Stage(q) = "fill" /\ dp[q] = i /\ ip[q] = j

Acyclic ==
  \A C \in SUBSET Inum : C # {} => \E i \in C : \A j \in C : ~Edge(i, j)

\* References that iput is about to give up.
Leaving(i) == Cardinality({q \in Proc : put[q] = i /\ pc[q] = "deref"})

\* An inode without links is still to be freed by one of those that refer to it.
ToBeFreed(i) ==
  disk[i].nlink = 0 /\ disk[i].type # "none" =>
    /\ ref[i] > Leaving(i)
    /\ mem[i] # Nobody \/ \E q \in Proc : Stage(q) = "fill" /\ ip[q] = i

IInv ==
  /\ TypeInv /\ (\A p \in Proc : Shape(p)) /\ (\A p \in Proc : Valid(p)) /\ FilesOpen
  /\ Refs /\ Locks /\ (\A i \in Inum : Copied(i)) /\ Acyclic
  /\ BlocksOwned /\ \A i \in Inum \ raced : ToBeFreed(i)

-----------------------------------------------------------------------------
(* Constants, and counting. *)

LEMMA Consts ==
  /\ 0 \notin Inum /\ 0 \notin File /\ ROOTINO \in Inum /\ Nobody \notin Proc /\ Nobody \notin Inode
  /\ Nobody \notin Calls /\ IsFiniteSet(Proc) /\ IsFiniteSet(File) /\ "." \notin Name /\ ".." \notin Name
  /\ Name \subseteq Entry /\ FreeInode \in Inode
<1>1. NINODES \in Nat /\ NINODES > 0 /\ NFILE \in Nat
  BY FilesAssumption DEF FilesAssumption
<1>2. IsFiniteSet(File)
  BY <1>1, FS_Interval DEF File
<1>3. 0 \notin Inum /\ 0 \notin File /\ ROOTINO \in Inum
  BY <1>1 DEF Inum, File, ROOTINO
<1>4. QED
  BY <1>2, <1>3, FilesAssumption DEF FilesAssumption, Entry, FreeInode, Inode, Types

Is(x, i) == IF x = i THEN 1 ELSE 0

\* A function that changes at x alone.
LEMMA CountMoves ==
  ASSUME NEW S, IsFiniteSet(S), NEW g, NEW h, NEW x \in S, \A y \in S \ {x} : h[y] = g[y], NEW i
  PROVE  /\ Count(S, g, i) \in Nat /\ Count(S, h, i) \in Nat
         /\ Count(S, h, i) = Count(S, g, i) + Is(h[x], i) - Is(g[x], i)
<1> DEFINE G == {y \in S : g[y] = i}
           H == {y \in S : h[y] = i}
<1>1. IsFiniteSet(G) /\ IsFiniteSet(H)
  BY FS_Subset
<1>2. Cardinality(G \ {x}) = Cardinality(G) - Is(g[x], i) /\ Cardinality(G) \in Nat
  <2>1. /\ Cardinality(G) \in Nat
        /\ Cardinality(G \ {x}) = IF x \in G THEN Cardinality(G) - 1 ELSE Cardinality(G)
    BY <1>1, FS_RemoveElement, FS_CardinalityType
  <2>2. x \in G <=> g[x] = i
    OBVIOUS
  <2>3. QED
    BY <2>1, <2>2 DEF Is
<1>3. Cardinality(H \ {x}) = Cardinality(H) - Is(h[x], i) /\ Cardinality(H) \in Nat
  <2>1. /\ Cardinality(H) \in Nat
        /\ Cardinality(H \ {x}) = IF x \in H THEN Cardinality(H) - 1 ELSE Cardinality(H)
    BY <1>1, FS_RemoveElement, FS_CardinalityType
  <2>2. x \in H <=> h[x] = i
    OBVIOUS
  <2>3. QED
    BY <2>1, <2>2 DEF Is
<1>4. G \ {x} = H \ {x}
  OBVIOUS
<1>5. QED
  BY <1>2, <1>3, <1>4 DEF Count, Is

LEMMA CountNat ==
  ASSUME NEW S, IsFiniteSet(S), NEW g, NEW i
  PROVE  Count(S, g, i) \in Nat /\ \A x \in S : g[x] = i => Count(S, g, i) >= 1
<1> DEFINE G == {y \in S : g[y] = i}
<1>1. IsFiniteSet(G)
  BY FS_Subset
<1>2. Cardinality(G) \in Nat /\ (G # {} => Cardinality(G) # 0)
  BY <1>1, FS_CardinalityType, FS_EmptySet
<1>3. ASSUME NEW x \in S, g[x] = i PROVE Cardinality(G) >= 1
  BY <1>2, <1>3
<1>4. QED
  BY <1>2, <1>3 DEF Count

LEMMA HeldMoves ==
  ASSUME NEW p \in Proc, NEW g, NEW h, \A q \in Proc \ {p} : h[q] = g[q], NEW i
  PROVE  Held(g, i) \in Nat /\ Held(h, i) = Held(g, i) + Is(h[p], i) - Is(g[p], i)
<1>1. IsFiniteSet(Proc)
  BY Consts
<1>2. Count(Proc, h, i) = Count(Proc, g, i) + Is(h[p], i) - Is(g[p], i)
  BY <1>1, CountMoves, SMTT(30)
<1>3. QED
  BY <1>1, <1>2, CountNat DEF Held

LEMMA FileMoves ==
  ASSUME NEW f \in File, NEW g, NEW h, \A e \in File \ {f} : h[e] = g[e], NEW i
  PROVE  /\ Count(File, g, i) \in Nat
         /\ Count(File, h, i) = Count(File, g, i) + Is(h[f], i) - Is(g[f], i)
<1>1. IsFiniteSet(File)
  BY Consts
<1>2. Count(File, h, i) = Count(File, g, i) + Is(h[f], i) - Is(g[f], i)
  BY <1>1, CountMoves, SMTT(30)
<1>3. QED
  BY <1>1, <1>2, CountNat

\* A set of blocks, or of numbers of files, has a least member.
LEMMA LeastExists ==
  ASSUME NEW S \in SUBSET Nat, S # {}
  PROVE  \E x \in S : \A y \in S : x <= y
<1> DEFINE R == OpToRel(<, Nat)
<1>1. PICK x \in S : \A y \in S : <<y, x>> \notin R
  BY NatLessThanWellFounded, WFMin
<1>2. ASSUME NEW y \in S PROVE x <= y
  <2>1. <<y, x>> \in Nat \X Nat /\ ~(y < x)
    BY <1>1 DEF OpToRel
  <2>2. QED
    BY <2>1
<1>3. QED
  BY <1>2

-----------------------------------------------------------------------------
(* A step of process p.                                                    *)

\* It changes no one else's variables.
Mine(p) ==
  \A q \in Proc \ {p} :
    /\ pc'[q] = pc[q] /\ call'[q] = call[q] /\ path'[q] = path[q] /\ ret'[q] = ret[q]
    /\ at'[q] = at[q] /\ dp'[q] = dp[q] /\ ip'[q] = ip[q] /\ put'[q] = put[q]
    /\ cwd'[q] = cwd[q] /\ open'[q] = open[q]

\* The references of p.
Has(p, i) == Is(at[p], i) + Is(dp[p], i) + Is(ip[p], i) + Is(put[p], i) + Is(cwd[p], i)

RefStep(p) ==
  \A i \in Inum :
    ref'[i] = ref[i] + Has(p, i)' - Has(p, i) + Count(File, file, i)' - Count(File, file, i)

\* Locks that are free or its own.
LockStep(p) ==
  \A i \in Inum :
    /\ lock'[i] = lock[i] \/ (lock[i] \in {Nobody, p} /\ lock'[i] \in {Nobody, p})
    /\ lock'[i] = p <=> Owner(p, i)'

TypeStep ==
  \A i \in Inum : /\ Kept(i) => disk'[i].type = disk[i].type
                  /\ Freed(i)' => Freed(i)

\* The entries of a directory that another process has locked.
EntStep(p) ==
  \A i \in Inum : lock[i] \notin {Nobody, p} /\ KeptDir(i) => ent'[i] = ent[i]

LEMMA StagesKept ==
  ASSUME NEW p \in Proc, Mine(p), NEW q \in Proc \ {p}
  PROVE  Stage(q)' = Stage(q) /\ \A i : Owner(q, i)' <=> Owner(q, i)
<1>1. pc'[q] = pc[q] /\ ret'[q] = ret[q] /\ put'[q] = put[q] /\ ip'[q] = ip[q] /\ dp'[q] = dp[q]
  BY DEF Mine
<1>2. Stage(q)' = Stage(q)
  BY <1>1 DEF Stage
<1>3. QED
  BY <1>1, <1>2 DEF Owner

LEMMA ShapeKept ==
  ASSUME \A q \in Proc : Shape(q), NEW p \in Proc, Mine(p), Shape(p)'
  PROVE  \A q \in Proc : Shape(q)'
<1>1. SUFFICES ASSUME NEW q \in Proc \ {p} PROVE Shape(q)'
  BY DEF Shape
<1>2. Stage(q)' = Stage(q) /\ Shape(q)
  BY StagesKept
<1>3. /\ pc'[q] = pc[q] /\ call'[q] = call[q] /\ path'[q] = path[q] /\ ret'[q] = ret[q]
      /\ at'[q] = at[q] /\ dp'[q] = dp[q] /\ ip'[q] = ip[q] /\ put'[q] = put[q]
  BY DEF Mine
<1>4. QED
  BY <1>2, <1>3 DEF Shape

LEMMA RefsKept ==
  ASSUME TypeInv, TypeInv', Refs, NEW p \in Proc, Mine(p), RefStep(p)
  PROVE  Refs'
<1>1. SUFFICES ASSUME NEW i \in Inum
               PROVE  ref'[i] = Held(at', i) + Held(dp', i) + Held(ip', i) + Held(put', i)
                                + Held(cwd', i) + Count(File, file', i)
  BY DEF Refs
<1>2. IsFiniteSet(Proc) /\ IsFiniteSet(File)
  BY Consts
<1>3. /\ \A q \in Proc \ {p} : at'[q] = at[q]
      /\ \A q \in Proc \ {p} : dp'[q] = dp[q]
      /\ \A q \in Proc \ {p} : ip'[q] = ip[q]
      /\ \A q \in Proc \ {p} : put'[q] = put[q]
      /\ \A q \in Proc \ {p} : cwd'[q] = cwd[q]
  BY DEF Mine
<1>4. Held(at, i) \in Nat /\ Held(at', i) = Held(at, i) + Is(at'[p], i) - Is(at[p], i)
  BY <1>3, HeldMoves
<1>5. Held(dp, i) \in Nat /\ Held(dp', i) = Held(dp, i) + Is(dp'[p], i) - Is(dp[p], i)
  BY <1>3, HeldMoves
<1>6. Held(ip, i) \in Nat /\ Held(ip', i) = Held(ip, i) + Is(ip'[p], i) - Is(ip[p], i)
  BY <1>3, HeldMoves
<1>7. Held(put, i) \in Nat /\ Held(put', i) = Held(put, i) + Is(put'[p], i) - Is(put[p], i)
  BY <1>3, HeldMoves
<1>8. Held(cwd, i) \in Nat /\ Held(cwd', i) = Held(cwd, i) + Is(cwd'[p], i) - Is(cwd[p], i)
  BY <1>3, HeldMoves
<1>9. Count(File, file, i) \in Nat /\ Count(File, file', i) \in Nat
  BY <1>2, CountNat
<1>10. ref[i] = Held(at, i) + Held(dp, i) + Held(ip, i) + Held(put, i) + Held(cwd, i)
               + Count(File, file, i)
  BY DEF Refs
<1>11. ref'[i] = ref[i] + Has(p, i)' - Has(p, i) + Count(File, file', i) - Count(File, file, i)
  BY DEF RefStep, Count
<1>12. QED
  BY <1>9, <1>10, <1>11, <1>4, <1>5, <1>6, <1>7, <1>8 DEF Has, Is

LEMMA LocksKept ==
  ASSUME TypeInv, TypeInv', Locks, NEW p \in Proc, Mine(p), LockStep(p)
  PROVE  Locks'
<1>1. SUFFICES ASSUME NEW i \in Inum, NEW q \in Proc PROVE lock'[i] = q <=> Owner(q, i)'
  BY DEF Locks
<1>2. CASE q = p
  BY <1>2 DEF LockStep
<1>3. CASE q # p
  <2>1. (Owner(q, i)' <=> Owner(q, i)) /\ (lock[i] = q <=> Owner(q, i))
    BY <1>3, StagesKept DEF Locks
  <2>2. lock'[i] = q <=> lock[i] = q
    BY <1>3, Consts DEF LockStep
  <2>3. QED
    BY <2>1, <2>2
<1>4. QED
  BY <1>2, <1>3

\* Who is about to free an inode has its lock.
LEMMA FreedLocked ==
  ASSUME TypeInv, Locks, NEW i \in Inum, Freed(i)
  PROVE  \E r \in Proc : lock[i] = r /\ pc[r] = "ifree" /\ put[r] = i
BY DEF Freed, Locks, Owner

LEMMA ValidKept ==
  ASSUME TypeInv, TypeInv', \A q \in Proc : Shape(q), \A q \in Proc : Valid(q), Locks,
         NEW p \in Proc, Mine(p), TypeStep, EntStep(p), Valid(p)'
  PROVE  \A q \in Proc : Valid(q)'
<1>1. SUFFICES ASSUME NEW q \in Proc \ {p} PROVE Valid(q)'
  BY DEF Valid
<1>2. Stage(q)' = Stage(q) /\ Valid(q) /\ Shape(q)
  BY StagesKept
<1>3. path'[q] = path[q] /\ dp'[q] = dp[q] /\ ip'[q] = ip[q] /\ cwd'[q] = cwd[q]
  BY DEF Mine
<1>4. ASSUME NEW i \in Inum
      PROVE  (KeptDir(i) => KeptDir(i)') /\ (Kept(i) => Kept(i)') /\ (KeptLeaf(i) => KeptLeaf(i)')
  BY DEF TypeStep, KeptDir, Kept, KeptLeaf
<1>5. ip[q] \in Inum \cup {0} /\ dp[q] \in Inum \cup {0} /\ cwd[q] \in Inum
  BY DEF TypeInv
<1>6. Stage(q) \in {"fill", "made", "unlinked"} => ip[q] \in Inum
  BY <1>2, <1>5 DEF Shape, HasIp
<1>7. ASSUME Stage(q) = "unlinkip" PROVE ent'[dp[q]][Head(path[q])] = ip[q]
  <2>1. dp[q] \in Inum /\ KeptDir(dp[q])
    BY <1>2, <1>5, <1>7 DEF Shape, Valid, HasDp
  <2>2. Owner(q, dp[q])
    BY <1>7 DEF Owner
  <2>3. lock[dp[q]] = q
    BY <2>1, <2>2 DEF Locks
  <2>4. ent'[dp[q]] = ent[dp[q]]
    BY <2>1, <2>3, Consts DEF EntStep
  <2>5. QED
    BY <1>2, <1>7, <2>4 DEF Valid
<1>8. Stage(q) = "fill" => disk'[ip[q]].type = NewType(q) /\ NewType(q)' = NewType(q)
  BY <1>2, <1>6 DEF Valid, TypeStep, NewType, Mine
<1>9. QED
  BY <1>2, <1>3, <1>4, <1>5, <1>6, <1>7, <1>8 DEF Valid

LEMMA AcyclicKept ==
  ASSUME Acyclic, \A i, j \in Inum : Edge(i, j)' => Edge(i, j)
  PROVE  Acyclic'
BY DEF Acyclic

\* New edges to an inode without edges of its own.
LEMMA AcyclicLeaf ==
  ASSUME Acyclic, NEW k \in Inum, \A i, j \in Inum : Edge(i, j)' => Edge(i, j) \/ j = k,
         \A j \in Inum : ~Edge(k, j)'
  PROVE  Acyclic'
<1>1. SUFFICES ASSUME NEW C \in SUBSET Inum, C # {}
               PROVE  \E i \in C : \A j \in C : ~Edge(i, j)'
  BY DEF Acyclic
<1>2. CASE k \in C
  BY <1>2
<1>3. CASE k \notin C
  BY <1>1, <1>3 DEF Acyclic
<1>4. QED
  BY <1>2, <1>3

LEMMA FilesKept ==
  ASSUME TypeInv, FilesOpen, TypeStep, file' = file, open' = open
  PROVE  FilesOpen'
<1>1. ASSUME NEW f \in File, file'[f] # 0 PROVE Kept(file[f])'
  <2>1. file[f] \in Inum /\ Kept(file[f])
    BY <1>1 DEF TypeInv, FilesOpen
  <2>2. disk'[file[f]].type = disk[file[f]].type /\ (Freed(file[f])' => Freed(file[f]))
    BY <2>1 DEF TypeStep
  <2>3. QED
    BY <2>1, <2>2 DEF Kept
<1>2. QED
  BY <1>1 DEF FilesOpen

\* Processes on their way out of iput are counted among those that put the inode.
LEMMA LeavingKept ==
  ASSUME NEW p \in Proc, Mine(p), NEW i,
         (put'[p] = i /\ pc'[p] = "deref") <=> (put[p] = i /\ pc[p] = "deref")
  PROVE  Leaving(i)' = Leaving(i)
<1>1. \A q \in Proc : (put'[q] = i /\ pc'[q] = "deref") <=> (put[q] = i /\ pc[q] = "deref")
  BY DEF Mine
<1>2. QED
  BY <1>1 DEF Leaving

\* Who has an inode in hand otherwise is counted on top of them.
InHand(p, i) ==
  at[p] = i \/ dp[p] = i \/ ip[p] = i \/ cwd[p] = i \/ (put[p] = i /\ pc[p] # "deref")

LEMMA Spare ==
  ASSUME TypeInv, Refs, NEW i \in Inum, NEW p \in Proc,
         InHand(p, i)
  PROVE  ref[i] > Leaving(i)
<1> DEFINE D == {q \in Proc : put[q] = i /\ pc[q] = "deref"}
           P == {q \in Proc : put[q] = i}
<1>1. IsFiniteSet(Proc) /\ IsFiniteSet(File)
  BY Consts
<1>2. /\ Held(at, i) \in Nat /\ (at[p] = i => Held(at, i) >= 1)
      /\ Held(dp, i) \in Nat /\ (dp[p] = i => Held(dp, i) >= 1)
  BY <1>1, CountNat DEF Held
<1>3. /\ Held(ip, i) \in Nat /\ (ip[p] = i => Held(ip, i) >= 1)
      /\ Held(cwd, i) \in Nat /\ (cwd[p] = i => Held(cwd, i) >= 1)
  BY <1>1, CountNat DEF Held
<1>4. Count(File, file, i) \in Nat /\ Held(put, i) \in Nat
  BY <1>1, CountNat DEF Held
<1>5. IsFiniteSet(P) /\ D \subseteq P /\ Cardinality(P) = Held(put, i)
  BY <1>1, FS_Subset DEF Held, Count
<1>6. IsFiniteSet(D) /\ Cardinality(D) \in Nat /\ Cardinality(D) <= Held(put, i)
  BY <1>5, FS_Subset, FS_CardinalityType
<1>7. put[p] = i /\ pc[p] # "deref" => Cardinality(D) < Held(put, i)
  <2>1. SUFFICES ASSUME put[p] = i, pc[p] # "deref" PROVE Cardinality(D) < Held(put, i)
    OBVIOUS
  <2>2. p \in P /\ p \notin D
    BY <2>1
  <2>3. D # P
    BY <2>2
  <2>4. QED
    BY <1>4, <1>5, <1>6, <2>3, FS_Subset
<1>8. ref[i] = Held(at, i) + Held(dp, i) + Held(ip, i) + Held(put, i) + Held(cwd, i)
               + Count(File, file, i)
  BY DEF Refs
<1>9. Leaving(i) = Cardinality(D)
  BY DEF Leaving
<1>10. QED
  BY <1>2, <1>3, <1>4, <1>6, <1>7, <1>8, <1>9 DEF InHand

-----------------------------------------------------------------------------
(* Steps that leave the disk alone. *)

Quiet(p) ==
  /\ disk' = disk /\ used' = used /\ ent' = ent /\ raced' = raced
  /\ \A i \in Inum : /\ mem'[i] = mem[i] \/ (mem'[i] = Load(i) /\ disk[i].type # "none")
                     /\ lock'[i] = p /\ lock[i] # p => mem'[i] # Nobody
                     /\ ref'[i] >= ref[i]
  /\ pc[p] \notin {"ifree", "deref", "fill"} /\ pc'[p] \notin {"ifree", "deref"}
  /\ Stage(p) # "fill" /\ Stage(p)' # "fill"

LEMMA CopiedLoad ==
  ASSUME NEW i, Copied(i)
  PROVE  Load(i) = disk[i] /\ (mem[i] # Nobody => mem[i] = disk[i])
BY DEF Copied, Load

LEMMA QuietFrees ==
  ASSUME NEW p \in Proc, Mine(p), pc'[p] # "ifree", disk' = disk
  PROVE  TypeStep
<1>1. ASSUME NEW i \in Inum, Freed(i)' PROVE Freed(i)
  <2>1. PICK r \in Proc : pc'[r] = "ifree" /\ put'[r] = i
    BY <1>1 DEF Freed
  <2>2. r # p
    BY <2>1
  <2>3. QED
    BY <2>1, <2>2 DEF Mine, Freed
<1>2. QED
  BY <1>1 DEF TypeStep

LEMMA QuietStep ==
  ASSUME IInv, TypeInv', NEW p \in Proc, Mine(p), Shape(p)', RefStep(p), LockStep(p),
         Valid(p)', FilesOpen', Quiet(p)
  PROVE  IInv'
<1>1. TypeStep
  BY QuietFrees DEF Quiet
<1>2. EntStep(p)
  BY DEF EntStep, Quiet
<1>3. /\ TypeInv /\ (\A q \in Proc : Shape(q)) /\ (\A q \in Proc : Valid(q)) /\ Refs /\ Locks
      /\ (\A i \in Inum : Copied(i)) /\ Acyclic /\ BlocksOwned /\ \A i \in Inum \ raced : ToBeFreed(i)
  BY DEF IInv
<1>4. (\A q \in Proc : Shape(q))' /\ (\A q \in Proc : Valid(q))' /\ Refs' /\ Locks'
  BY <1>1, <1>2, <1>3, ShapeKept, ValidKept, RefsKept, LocksKept
<1>5. ASSUME NEW i \in Inum PROVE Copied(i)'
  <2>1. Copied(i) /\ Load(i) = disk[i]
    BY <1>3, CopiedLoad
  <2>2. /\ disk'[i] = disk[i] /\ ent'[i] = ent[i]
        /\ mem'[i] = mem[i] \/ (mem'[i] = disk[i] /\ disk[i].type # "none")
    BY <2>1 DEF Quiet
  <2>3. lock'[i] # Nobody => mem'[i] # Nobody
    <3>1. SUFFICES ASSUME lock'[i] # Nobody PROVE mem'[i] # Nobody
      OBVIOUS
    <3>2. disk[i] # Nobody
      BY <1>3, Consts DEF TypeInv
    <3>3. CASE lock'[i] = lock[i]
      BY <2>1, <2>2, <3>1, <3>2, <3>3 DEF Copied
    <3>4. CASE lock'[i] = p
      BY <2>1, <2>2, <3>1, <3>2, <3>4 DEF Copied, Quiet
    <3>5. QED
      BY <3>1, <3>3, <3>4 DEF LockStep
  <2>4. QED
    BY <2>1, <2>2, <2>3 DEF Copied
<1>6. Acyclic'
  <2>1. ASSUME NEW i \in Inum, NEW j \in Inum, Edge(i, j)' PROVE Edge(i, j)
    <3>1. CASE \E n \in Name : ent'[i][n] = j
      BY <3>1 DEF Edge, Quiet
    <3>2. CASE \E q \in Proc : Stage(q)' = "fill" /\ dp'[q] = i /\ ip'[q] = j
      <4>1. PICK q \in Proc : Stage(q)' = "fill" /\ dp'[q] = i /\ ip'[q] = j
        BY <3>2
      <4>2. q # p
        BY <4>1 DEF Quiet
      <4>3. Stage(q) = "fill" /\ dp[q] = i /\ ip[q] = j
        BY <4>1, <4>2, StagesKept DEF Mine
      <4>4. QED
        BY <4>3 DEF Edge
    <3>3. QED
      BY <2>1, <3>1, <3>2 DEF Edge
  <2>2. QED
    BY <1>3, <2>1, AcyclicKept
<1>7. BlocksOwned'
  BY <1>3 DEF BlocksOwned, Quiet
<1>8. ASSUME NEW i \in Inum \ raced' PROVE ToBeFreed(i)'
  <2>1. ToBeFreed(i) /\ disk'[i] = disk[i] /\ Copied(i)'
    BY <1>3, <1>5, <1>8 DEF Quiet
  <2>2. SUFFICES ASSUME disk[i].nlink = 0, disk[i].type # "none"
                 PROVE  /\ ref'[i] > Leaving(i)'
                        /\ mem'[i] # Nobody \/ \E q \in Proc : Stage(q)' = "fill" /\ ip'[q] = i
    BY <2>1 DEF ToBeFreed
  <2>3. Leaving(i)' = Leaving(i)
    BY LeavingKept DEF Quiet
  <2>4. ref[i] > Leaving(i) /\ (mem[i] # Nobody \/ \E q \in Proc : Stage(q) = "fill" /\ ip[q] = i)
    BY <2>1, <2>2 DEF ToBeFreed
  <2>5. Leaving(i) \in Nat
    <3>1. IsFiniteSet({q \in Proc : put[q] = i /\ pc[q] = "deref"})
      BY Consts, FS_Subset
    <3>2. QED
      BY <3>1, FS_CardinalityType DEF Leaving
  <2>6. ref'[i] > Leaving(i)'
    BY <1>3, <2>3, <2>4, <2>5 DEF Quiet, TypeInv
  <2>7. CASE mem[i] # Nobody
    <3>1. Load(i) # Nobody
      BY <2>7 DEF Load
    <3>2. QED
      BY <2>6, <2>7, <3>1 DEF Quiet
  <2>8. CASE \E q \in Proc : Stage(q) = "fill" /\ ip[q] = i
    <3>1. PICK q \in Proc : Stage(q) = "fill" /\ ip[q] = i
      BY <2>8
    <3>2. q # p
      BY <3>1 DEF Quiet
    <3>3. Stage(q)' = "fill" /\ ip'[q] = i
      BY <3>1, <3>2, StagesKept DEF Mine
    <3>4. QED
      BY <2>6, <3>3
  <2>9. QED
    BY <2>4, <2>7, <2>8
<1>9. QED
  BY <1>4, <1>5, <1>6, <1>7, <1>8 DEF IInv

-----------------------------------------------------------------------------
(* Parts of steps. *)

\* A process that is not in iput.
LEMMA Outside ==
  ASSUME TypeInv, NEW p \in Proc, Shape(p), pc[p] \notin Ends
  PROVE  Stage(p) = pc[p] /\ put[p] = 0 /\ ret[p] = "out"
BY DEF Shape, Stage, Ends, TypeInv

\* What ilock finds is not about to be freed.
LEMMA LockedKept ==
  ASSUME TypeInv, Locks, NEW i \in Inum, Copied(i), CanLock(i)
  PROVE  Kept(i) /\ Load(i) = disk[i] /\ lock[i] = Nobody /\ disk[i] # Nobody
<1>1. Load(i) = disk[i]
  BY CopiedLoad
<1>2. ~Freed(i)
  BY FreedLocked, Consts DEF CanLock
<1>3. QED
  BY <1>1, <1>2, Consts DEF CanLock, Kept, TypeInv

LEMMA IputGoes ==
  ASSUME TypeInv, NEW p \in Proc, NEW i \in Inum, NEW l \in Stages, Iput(p, i, l)
  PROVE  /\ pc' \in [Proc -> Stages \cup Ends] /\ ret' \in [Proc -> Stages]
         /\ put' \in [Proc -> Inum \cup {0}]
         /\ pc'[p] = "iput" /\ put'[p] = i /\ ret'[p] = l /\ Stage(p)' = l
         /\ \A q \in Proc \ {p} : pc'[q] = pc[q] /\ put'[q] = put[q] /\ ret'[q] = ret[q]
BY DEF TypeInv, Iput, Ends, Stage

LEMMA GotoGoes ==
  ASSUME TypeInv, NEW p \in Proc, NEW l \in Stages, Goto(p, l)
  PROVE  /\ pc' \in [Proc -> Stages \cup Ends] /\ put' = put /\ ret' = ret
         /\ pc'[p] = l /\ Stage(p)' = l
         /\ \A q \in Proc \ {p} : pc'[q] = pc[q] /\ put'[q] = put[q] /\ ret'[q] = ret[q]
<1>1. l \notin Ends
  BY DEF Stages, Ends, HasDp, HasIp
<1>2. QED
  BY <1>1 DEF TypeInv, Goto, Stage, Ends

\* The type of what a step of p alone changes.
LocalTypes ==
  /\ file \in [File -> Inum \cup {0}] /\ open \in [Proc -> SUBSET File]
  /\ cwd \in [Proc -> Inum] /\ call \in [Proc -> Calls \cup {Nobody}]
  /\ at \in [Proc -> Inum \cup {0}] /\ dp \in [Proc -> Inum \cup {0}]
  /\ ip \in [Proc -> Inum \cup {0}] /\ put \in [Proc -> Inum \cup {0}]
  /\ pc \in [Proc -> Stages \cup Ends] /\ ret \in [Proc -> Stages]
  /\ path \in [Proc -> Seq(Entry)]

CacheTypes ==
  /\ disk \in [Inum -> Inode] /\ mem \in [Inum -> Inode \cup {Nobody}]
  /\ used \subseteq Block /\ ent \in [Inum -> [Entry -> Inum \cup {0}]]
  /\ ref \in [Inum -> Nat] /\ lock \in [Inum -> Proc \cup {Nobody}]
  /\ raced \subseteq Inum

LEMMA TypesApart == TypeInv <=> LocalTypes /\ CacheTypes
BY DEF TypeInv, LocalTypes, CacheTypes

\* The end of open: the reference goes to a file or to iput.
OpensOrNot(p) == Opens(p) \/ (PutIp(p) /\ UNCHANGED <<file, open, call, path>>)

LEMMA OpensStep ==
  ASSUME TypeInv, FilesOpen, NEW p \in Proc, Shape(p), Valid(p),
         pc[p] \in {"open", "exists", "made"},
         OpensOrNot(p), UNCHANGED <<disk, ref, cwd, at, dp>>, Kept(ip[p])
  PROVE  /\ LocalTypes' /\ Mine(p) /\ Shape(p)' /\ RefStep(p) /\ Valid(p)' /\ FilesOpen'
         /\ Stage(p)' = "out" /\ pc'[p] \in {"out", "iput"} /\ ip'[p] = 0 /\ dp'[p] = 0 /\ TypeStep
<1>1. Stage(p) = pc[p] /\ put[p] = 0 /\ ret[p] = "out"
  BY Outside DEF Ends
<1>2. ip[p] \in Inum /\ dp[p] = 0 /\ at[p] = 0
  BY <1>1 DEF TypeInv, Shape, HasIp, HasDp
<1>3. "out" \in Stages /\ "out" \notin Ends /\ "iput" \in Ends
  BY DEF Stages, Ends
<1>4. CASE PutIp(p) /\ UNCHANGED <<file, open, call, path>>
  <2>1. Iput(p, ip[p], "out") /\ ip' = [ip EXCEPT ![p] = 0] /\ UNCHANGED <<file, open, call, path>>
    BY <1>4 DEF PutIp
  <2>2. /\ pc' \in [Proc -> Stages \cup Ends] /\ ret' \in [Proc -> Stages]
        /\ put' \in [Proc -> Inum \cup {0}]
        /\ pc'[p] = "iput" /\ put'[p] = ip[p] /\ ret'[p] = "out" /\ Stage(p)' = "out"
        /\ \A q \in Proc \ {p} : pc'[q] = pc[q] /\ put'[q] = put[q] /\ ret'[q] = ret[q]
    BY <1>2, <1>3, <2>1, IputGoes
  <2>3. LocalTypes'
    BY <2>1, <2>2 DEF LocalTypes, TypeInv
  <2>4. Mine(p)
    BY <2>1, <2>2 DEF Mine, TypeInv
  <2>5. ip'[p] = 0 /\ at'[p] = 0 /\ dp'[p] = 0 /\ cwd'[p] = cwd[p]
    BY <1>2, <2>1 DEF TypeInv
  <2>6. Shape(p)'
    BY <1>2, <1>3, <2>2, <2>5, Consts DEF Shape, HasDp, HasIp, Walks, Links
  <2>7. RefStep(p)
    <3>1. file' = file /\ ref' = ref
      BY <2>1
    <3>2. \A i \in Inum : Has(p, i)' = Has(p, i)
      BY <1>1, <1>2, <2>2, <2>5, Consts DEF Has, Is
    <3>3. \A i \in Inum : Count(File, file, i)' = Count(File, file, i) /\ Count(File, file, i) \in Nat
      <4>1. IsFiniteSet(File)
        BY Consts
      <4>2. \A i \in Inum : Count(File, file, i) \in Nat
        BY <4>1, CountNat
      <4>3. QED
        BY <3>1, <4>2 DEF Count
    <3>4. \A i \in Inum : Has(p, i) \in Int /\ ref[i] \in Nat
      BY DEF Has, Is, TypeInv
    <3>5. QED
      BY <3>1, <3>2, <3>3, <3>4 DEF RefStep
  <2>8. TypeStep
    BY <2>2, <2>4, QuietFrees
  <2>9. Valid(p)'
    <3>1. KeptDir(cwd[p])' /\ cwd[p] \in Inum
      BY <2>8 DEF TypeStep, Valid, KeptDir, Kept, TypeInv
    <3>2. QED
      BY <2>2, <2>5, <3>1 DEF Valid
  <2>10. FilesOpen'
    BY <2>1, <2>8, FilesKept
  <2>11. QED
    BY <2>2, <2>3, <2>4, <2>5, <2>6, <2>7, <2>8, <2>9, <2>10
<1>5. CASE Opens(p) /\ Room(p)
  <2> DEFINE f == CHOOSE f \in File : file[f] = 0 /\ \A g \in 1 .. (f - 1) : file[g] # 0
  <2>1. /\ file' = [file EXCEPT ![f] = ip[p]]
        /\ open' = [open EXCEPT ![p] = @ \cup {f}]
        /\ ip' = [ip EXCEPT ![p] = 0]
        /\ call' = [call EXCEPT ![p] = Nobody] /\ path' = [path EXCEPT ![p] = <<>>]
        /\ Goto(p, "out")
    BY <1>5 DEF Opens
  <2>2. f \in File /\ file[f] = 0
    <3>1. {g \in File : file[g] = 0} # {} /\ {g \in File : file[g] = 0} \subseteq Nat
      BY <1>5 DEF Room, File
    <3>2. PICK g \in {h \in File : file[h] = 0} : \A h \in {h \in File : file[h] = 0} : g <= h
      BY <3>1, LeastExists
    <3>3. \A h \in 1 .. (g - 1) : h \in File /\ ~(g <= h)
      BY <3>2, FilesAssumption DEF File, FilesAssumption
    <3>4. file[g] = 0 /\ \A h \in 1 .. (g - 1) : file[h] # 0
      BY <3>2, <3>3
    <3>5. QED
      BY <3>2, <3>4
  <2> HIDE DEF f
  <2>3. /\ pc' \in [Proc -> Stages \cup Ends] /\ put' = put /\ ret' = ret
        /\ pc'[p] = "out" /\ Stage(p)' = "out"
        /\ \A q \in Proc \ {p} : pc'[q] = pc[q] /\ put'[q] = put[q] /\ ret'[q] = ret[q]
    BY <1>3, <2>1, GotoGoes
  <2>4. LocalTypes'
    <3>1. <<>> \in Seq(Entry) /\ Nobody \in Calls \cup {Nobody} /\ 0 \in Inum \cup {0}
      OBVIOUS
    <3>2. /\ file' \in [File -> Inum \cup {0}] /\ open' \in [Proc -> SUBSET File]
          /\ call' \in [Proc -> Calls \cup {Nobody}] /\ path' \in [Proc -> Seq(Entry)]
      BY <1>2, <2>1, <2>2, <3>1 DEF TypeInv
    <3>3. ip' \in [Proc -> Inum \cup {0}] /\ put' \in [Proc -> Inum \cup {0}]
      BY <2>1, <2>3 DEF TypeInv
    <3>4. QED
      BY <2>3, <3>2, <3>3 DEF LocalTypes, TypeInv
  <2>5. Mine(p)
    BY <2>1, <2>3 DEF Mine, TypeInv
  <2>6. ip'[p] = 0 /\ at'[p] = 0 /\ dp'[p] = 0 /\ cwd'[p] = cwd[p]
    BY <1>2, <2>1 DEF TypeInv
  <2>7. Shape(p)'
    BY <1>1, <1>2, <1>3, <2>3, <2>6, Consts DEF Shape, HasDp, HasIp, Walks, Links
  <2>8. RefStep(p)
    <3>1. ref' = ref /\ file'[f] = ip[p] /\ \A g \in File \ {f} : file'[g] = file[g]
      BY <2>1, <2>2 DEF TypeInv
    <3>2. \A i \in Inum : /\ Count(File, file, i) \in Nat
                          /\ Count(File, file', i) = Count(File, file, i) + Is(file'[f], i) - Is(file[f], i)
      BY <2>2, <3>1, FileMoves
    <3>3. \A i \in Inum : Has(p, i)' = Has(p, i) - Is(ip[p], i) /\ Is(file[f], i) = 0
      BY <1>1, <1>2, <2>2, <2>3, <2>6, Consts DEF Has, Is
    <3>4. \A i \in Inum : Has(p, i) \in Int /\ ref[i] \in Nat /\ Is(ip[p], i) \in Int
      BY DEF Has, Is, TypeInv
    <3>5. \A i \in Inum : Count(File, file, i)' = Count(File, file', i)
      BY DEF Count
    <3>6. QED
      BY <3>1, <3>2, <3>3, <3>4, <3>5 DEF RefStep
  <2>9. TypeStep
    BY <2>3, <2>5, QuietFrees
  <2>10. Valid(p)'
    <3>1. KeptDir(cwd[p])' /\ cwd[p] \in Inum
      BY <2>9 DEF TypeStep, Valid, KeptDir, Kept, TypeInv
    <3>2. QED
      BY <2>3, <2>6, <3>1 DEF Valid
  <2>11. FilesOpen'
    <3>1. ASSUME NEW g \in File, file'[g] # 0 PROVE Kept(file[g])'
      <4>1. file'[g] = (IF g = f THEN ip[p] ELSE file[g])
        BY <2>1, <2>2 DEF TypeInv
      <4>2. \A i \in Inum : Kept(i) => Kept(i)'
        BY <2>9 DEF TypeStep, Kept
      <4>3. QED
        BY <1>2, <3>1, <4>1, <4>2 DEF FilesOpen, TypeInv
    <3>2. ASSUME NEW q \in Proc, NEW g \in open'[q]
          PROVE  file'[g] # 0 /\ \A r \in Proc : g \in open'[r] => r = q
      <4>1. \A r \in Proc : open'[r] = (IF r = p THEN open[p] \cup {f} ELSE open[r])
        BY <2>1 DEF TypeInv
      <4>2. \A h \in File : file'[h] = (IF h = f THEN ip[p] ELSE file[h])
        BY <2>1, <2>2 DEF TypeInv
      <4>3. \A r \in Proc : f \notin open[r]
        BY <2>2 DEF FilesOpen
      <4>4. \A r \in Proc : open[r] \subseteq File
        BY DEF TypeInv
      <4>5. QED
        BY <1>2, <2>2, <3>2, <4>1, <4>2, <4>3, <4>4, Consts DEF FilesOpen
    <3>3. QED
      BY <3>1, <3>2 DEF FilesOpen
  <2>12. QED
    BY <2>3, <2>4, <2>5, <2>6, <2>7, <2>8, <2>9, <2>10, <2>11
<1>6. QED
  BY <1>4, <1>5 DEF OpensOrNot, Opens

LEMMA LoadsKeeps ==
  ASSUME TypeInv, NEW i \in Inum, Copied(i), Kept(i), Loads(i)
  PROVE  /\ mem' \in [Inum -> Inode \cup {Nobody}] /\ mem'[i] = disk[i] /\ mem'[i] # Nobody
         /\ \A j \in Inum : mem'[j] = mem[j] \/ (mem'[j] = Load(j) /\ disk[j].type # "none")
BY CopiedLoad, Consts DEF TypeInv, Loads, Kept

LEMMA SameLocks ==
  ASSUME Locks, NEW p \in Proc, lock' = lock, \A i \in Inum : Owner(p, i)' <=> Owner(p, i)
  PROVE  LockStep(p)
BY DEF Locks, LockStep

LEMMA RefsInFiles ==
  ASSUME NEW p \in Proc, file' = file,
         \A i \in Inum : ref'[i] = ref[i] + Has(p, i)' - Has(p, i), ref \in [Inum -> Nat]
  PROVE  RefStep(p)
<1>1. IsFiniteSet(File)
  BY Consts
<1>2. \A i \in Inum : Count(File, file, i) \in Nat
  BY <1>1, CountNat
<1>3. \A i \in Inum : Count(File, file, i)' = Count(File, file, i)
  BY DEF Count
<1>4. \A i \in Inum : ref[i] \in Nat /\ Has(p, i) \in Int /\ Has(p, i)' \in Int
  BY DEF Has, Is
<1>5. QED
  BY <1>2, <1>3, <1>4 DEF RefStep

-----------------------------------------------------------------------------
(* The steps that leave the disk alone. *)

LEMMA OpenStep ==
  ASSUME IInv, NEW p \in Proc,
         \/ Open(p)
         \/ CreateExists(p)
  PROVE  IInv'
<1>1. /\ TypeInv /\ Shape(p) /\ Valid(p) /\ Locks /\ FilesOpen /\ \A i \in Inum : Copied(i)
  BY DEF IInv
<1>2. /\ pc[p] \in {"open", "exists"} /\ CanLock(ip[p]) /\ Loads(ip[p]) /\ OpensOrNot(p)
      /\ UNCHANGED <<disk, used, ent, ref, lock, cwd, at, dp, raced>>
  BY DEF Open, CreateExists, OpensOrNot, store, ends
<1>3. Stage(p) = pc[p] /\ ip[p] \in Inum
  <2>1. Stage(p) = pc[p]
    BY <1>1, <1>2, Outside DEF Ends
  <2>2. QED
    BY <1>1, <1>2, <2>1 DEF TypeInv, Shape, HasIp
<1>4. Kept(ip[p])
  BY <1>1, <1>2, <1>3, LockedKept
<1>5. /\ LocalTypes' /\ Mine(p) /\ Shape(p)' /\ RefStep(p) /\ Valid(p)' /\ FilesOpen'
      /\ Stage(p)' = "out" /\ pc'[p] \in {"out", "iput"} /\ ip'[p] = 0 /\ dp'[p] = 0 /\ TypeStep
  BY <1>1, <1>2, <1>4, OpensStep
<1>6. /\ mem' \in [Inum -> Inode \cup {Nobody}]
      /\ \A j \in Inum : mem'[j] = mem[j] \/ (mem'[j] = Load(j) /\ disk[j].type # "none")
  BY <1>1, <1>2, <1>3, <1>4, LoadsKeeps
<1>7. TypeInv'
  BY <1>1, <1>2, <1>5, <1>6, TypesApart DEF CacheTypes, LocalTypes, TypeInv
<1>8. LockStep(p)
  <2>1. \A i \in Inum : ~Owner(p, i)' /\ ~Owner(p, i)
    BY <1>2, <1>3, <1>5 DEF Owner
  <2>2. QED
    BY <1>1, <1>2, <2>1, SameLocks
<1>9. Quiet(p)
  <2>1. \A i \in Inum : ref'[i] >= ref[i] /\ (lock'[i] = p /\ lock[i] # p => mem'[i] # Nobody)
    BY <1>1, <1>2 DEF TypeInv
  <2>2. pc[p] \notin {"ifree", "deref", "fill"} /\ pc'[p] \notin {"ifree", "deref"}
    BY <1>2, <1>5
  <2>3. Stage(p) # "fill" /\ Stage(p)' # "fill"
    BY <1>2, <1>3, <1>5
  <2>4. QED
    BY <1>2, <1>6, <2>1, <2>2, <2>3 DEF Quiet
<1>10. QED
  BY <1>5, <1>7, <1>8, <1>9, QuietStep

LEMMA CreateMadeStep ==
  ASSUME IInv, NEW p \in Proc, CreateMade(p)
  PROVE  IInv'
<1>1. /\ TypeInv /\ Shape(p) /\ Valid(p) /\ Locks /\ FilesOpen /\ \A i \in Inum : Copied(i)
  BY DEF IInv
<1>2. /\ pc[p] = "made" /\ OpensOrNot(p) /\ lock' = [lock EXCEPT ![ip[p]] = Nobody]
      /\ UNCHANGED <<disk, used, ent, mem, ref, cwd, at, dp, raced>>
  BY DEF CreateMade, OpensOrNot, store, ends
<1>3. Stage(p) = pc[p] /\ ip[p] \in Inum /\ put[p] = 0 /\ dp[p] = 0
  <2>1. Stage(p) = pc[p] /\ put[p] = 0
    BY <1>1, <1>2, Outside DEF Ends
  <2>2. QED
    BY <1>1, <1>2, <2>1 DEF TypeInv, Shape, HasIp, HasDp
<1>4. Kept(ip[p])
  BY <1>1, <1>2, <1>3 DEF Valid
<1>5. /\ LocalTypes' /\ Mine(p) /\ Shape(p)' /\ RefStep(p) /\ Valid(p)' /\ FilesOpen'
      /\ Stage(p)' = "out" /\ pc'[p] \in {"out", "iput"} /\ ip'[p] = 0 /\ dp'[p] = 0 /\ TypeStep
  BY <1>1, <1>2, <1>4, OpensStep
<1>6. TypeInv'
  <2>1. lock' \in [Inum -> Proc \cup {Nobody}]
    BY <1>1, <1>2 DEF TypeInv
  <2>2. QED
    BY <1>1, <1>2, <1>5, <2>1, TypesApart DEF CacheTypes, LocalTypes, TypeInv
<1>7. LockStep(p)
  <2>1. \A i \in Inum : ~Owner(p, i)'
    BY <1>2, <1>3, <1>5 DEF Owner
  <2>2. \A i \in Inum : lock[i] = p <=> i = ip[p]
    BY <1>1, <1>2, <1>3 DEF Owner, Locks
  <2>3. \A i \in Inum : lock'[i] = IF i = ip[p] THEN Nobody ELSE lock[i]
    BY <1>1, <1>2 DEF TypeInv
  <2>4. QED
    BY <2>1, <2>2, <2>3, Consts DEF LockStep
<1>8. Quiet(p)
  <2>1. \A i \in Inum : /\ ref'[i] >= ref[i] /\ mem'[i] = mem[i]
                        /\ lock'[i] = p => lock[i] = p
    BY <1>1, <1>2, Consts DEF TypeInv
  <2>2. pc[p] \notin {"ifree", "deref", "fill"} /\ pc'[p] \notin {"ifree", "deref"}
    BY <1>2, <1>5
  <2>3. Stage(p) # "fill" /\ Stage(p)' # "fill"
    BY <1>2, <1>3, <1>5
  <2>4. QED
    BY <1>2, <2>1, <2>2, <2>3 DEF Quiet
<1>9. QED
  BY <1>5, <1>6, <1>7, <1>8, QuietStep

\* Files and current directories apart, what a quiet step has to show is about p.
LEMMA PlainStep ==
  ASSUME IInv, LocalTypes', CacheTypes', NEW p \in Proc, Mine(p), Shape(p)', Valid(p)',
         file' = file, open' = open, LockStep(p), Quiet(p),
         \A i \in Inum : ref'[i] = ref[i] + Has(p, i)' - Has(p, i)
  PROVE  IInv'
<1>1. TypeInv' /\ TypeInv /\ FilesOpen
  BY TypesApart DEF IInv, TypeInv, LocalTypes, CacheTypes
<1>2. TypeStep
  BY QuietFrees DEF Quiet
<1>3. RefStep(p) /\ FilesOpen'
  BY <1>1, <1>2, FilesKept, RefsInFiles DEF TypeInv
<1>4. QED
  BY <1>1, <1>3, QuietStep

\* What was kept is kept.
LEMMA QuietKeeps ==
  ASSUME NEW p \in Proc, Mine(p), pc'[p] # "ifree", disk' = disk, NEW i \in Inum
  PROVE  /\ Kept(i) => Kept(i)'
         /\ KeptDir(i) => KeptDir(i)'
         /\ KeptLeaf(i) => KeptLeaf(i)'
BY QuietFrees DEF TypeStep, Kept, KeptDir, KeptLeaf

LEMMA ChdirStep ==
  ASSUME IInv, NEW p \in Proc, Chdir(p)
  PROVE  IInv'
<1>1. /\ TypeInv /\ Shape(p) /\ Valid(p) /\ Locks /\ \A i \in Inum : Copied(i)
  BY DEF IInv
<1>2. /\ pc[p] = "chdir" /\ CanLock(ip[p]) /\ Loads(ip[p]) /\ ip' = [ip EXCEPT ![p] = 0]
      /\ UNCHANGED <<disk, used, ent, ref, lock, file, open, call, path, at, dp, raced>>
  BY DEF Chdir, store, ends
<1>3. Stage(p) = pc[p] /\ ip[p] \in Inum /\ put[p] = 0 /\ dp[p] = 0 /\ at[p] = 0
  <2>1. Stage(p) = pc[p] /\ put[p] = 0
    BY <1>1, <1>2, Outside DEF Ends
  <2>2. QED
    BY <1>1, <1>2, <2>1 DEF TypeInv, Shape, HasIp, HasDp
<1>4. Kept(ip[p]) /\ Load(ip[p]) = disk[ip[p]]
  BY <1>1, <1>2, <1>3, LockedKept
<1>5. PICK i \in Inum :
        /\ Iput(p, i, "out") /\ i \in {ip[p], cwd[p]}
        /\ \/ i = ip[p] /\ cwd' = cwd
           \/ i = cwd[p] /\ cwd' = [cwd EXCEPT ![p] = ip[p]] /\ disk[ip[p]].type = "dir"
  BY <1>1, <1>3, <1>4 DEF Chdir, TypeInv
<1>6. /\ pc' \in [Proc -> Stages \cup Ends] /\ ret' \in [Proc -> Stages]
      /\ put' \in [Proc -> Inum \cup {0}]
      /\ pc'[p] = "iput" /\ put'[p] = i /\ ret'[p] = "out" /\ Stage(p)' = "out"
      /\ \A q \in Proc \ {p} : pc'[q] = pc[q] /\ put'[q] = put[q] /\ ret'[q] = ret[q]
  BY <1>1, <1>5, IputGoes DEF Stages
<1>7. ip'[p] = 0 /\ at'[p] = 0 /\ dp'[p] = 0
  BY <1>1, <1>2, <1>3 DEF TypeInv
<1>8. LocalTypes' /\ Mine(p)
  <2>1. cwd' \in [Proc -> Inum] /\ \A q \in Proc \ {p} : cwd'[q] = cwd[q]
    BY <1>1, <1>3, <1>5 DEF TypeInv
  <2>2. ip' \in [Proc -> Inum \cup {0}] /\ \A q \in Proc \ {p} : ip'[q] = ip[q]
    BY <1>1, <1>2 DEF TypeInv
  <2>3. QED
    BY <1>1, <1>2, <1>6, <2>1, <2>2 DEF LocalTypes, Mine, TypeInv
<1>9. Shape(p)'
  BY <1>6, <1>7, Consts DEF Shape, Ends, HasDp, HasIp, Walks, Links
<1>10. Valid(p)'
  <2>1. cwd'[p] \in Inum /\ KeptDir(cwd'[p])
    BY <1>1, <1>3, <1>4, <1>5 DEF Valid, TypeInv, Kept, KeptDir
  <2>2. \A j \in Inum : KeptDir(j) => KeptDir(j)'
    BY <1>2, <1>6, <1>8, QuietKeeps
  <2>3. KeptDir(cwd[p])'
    BY <2>1, <2>2 DEF KeptDir, Freed
  <2>4. QED
    BY <1>6, <1>7, <2>3 DEF Valid
<1>11. /\ mem' \in [Inum -> Inode \cup {Nobody}]
       /\ \A j \in Inum : mem'[j] = mem[j] \/ (mem'[j] = Load(j) /\ disk[j].type # "none")
  BY <1>1, <1>2, <1>3, <1>4, LoadsKeeps
<1>12. CacheTypes'
  BY <1>1, <1>2, <1>11 DEF CacheTypes, TypeInv
<1>13. LockStep(p)
  <2>1. \A j \in Inum : ~Owner(p, j)' /\ ~Owner(p, j)
    BY <1>2, <1>3, <1>6 DEF Owner
  <2>2. QED
    BY <1>1, <1>2, <2>1, SameLocks
<1>14. Quiet(p)
  <2>1. \A j \in Inum : ref'[j] >= ref[j] /\ (lock'[j] = p /\ lock[j] # p => mem'[j] # Nobody)
    BY <1>1, <1>2 DEF TypeInv
  <2>2. QED
    BY <1>2, <1>3, <1>6, <1>11, <2>1 DEF Quiet
<1>15. \A j \in Inum : ref'[j] = ref[j] + Has(p, j)' - Has(p, j)
  <2>1. cwd'[p] = (IF i = ip[p] /\ cwd' = cwd THEN cwd[p] ELSE ip[p])
    BY <1>1, <1>5 DEF TypeInv
  <2>2. \A j \in Inum : Has(p, j)' = Has(p, j) /\ Has(p, j) \in Int
    BY <1>1, <1>3, <1>5, <1>6, <1>7, <2>1, Consts DEF Has, Is, TypeInv
  <2>3. QED
    BY <1>1, <1>2, <2>2 DEF TypeInv
<1>16. QED
  BY <1>2, <1>8, <1>9, <1>10, <1>12, <1>13, <1>14, <1>15, PlainStep

LEMMA LinkDoneStep ==
  ASSUME IInv, NEW p \in Proc, LinkDone(p)
  PROVE  IInv'
<1>1. /\ TypeInv /\ Shape(p) /\ Valid(p) /\ Locks
  BY DEF IInv
<1>2. /\ pc[p] = "linked" /\ Iput(p, ip[p], "out") /\ ip' = [ip EXCEPT ![p] = 0]
      /\ UNCHANGED <<disk, used, ent, mem, ref, lock, file, open, cwd, call, path, at, dp, raced>>
  BY DEF LinkDone, PutIp, store, files, ends
<1>3. Stage(p) = pc[p] /\ ip[p] \in Inum /\ put[p] = 0 /\ dp[p] = 0 /\ at[p] = 0
  <2>1. Stage(p) = pc[p] /\ put[p] = 0
    BY <1>1, <1>2, Outside DEF Ends
  <2>2. QED
    BY <1>1, <1>2, <2>1 DEF TypeInv, Shape, HasIp, HasDp
<1>4. /\ pc' \in [Proc -> Stages \cup Ends] /\ ret' \in [Proc -> Stages]
      /\ put' \in [Proc -> Inum \cup {0}]
      /\ pc'[p] = "iput" /\ put'[p] = ip[p] /\ ret'[p] = "out" /\ Stage(p)' = "out"
      /\ \A q \in Proc \ {p} : pc'[q] = pc[q] /\ put'[q] = put[q] /\ ret'[q] = ret[q]
  BY <1>1, <1>2, <1>3, IputGoes DEF Stages
<1>5. ip'[p] = 0 /\ at'[p] = 0 /\ dp'[p] = 0 /\ cwd'[p] = cwd[p]
  BY <1>1, <1>2, <1>3 DEF TypeInv
<1>6. LocalTypes' /\ Mine(p) /\ CacheTypes'
  BY <1>1, <1>2, <1>4 DEF LocalTypes, CacheTypes, Mine, TypeInv
<1>7. Shape(p)'
  BY <1>3, <1>4, <1>5, Consts DEF Shape, Ends, HasDp, HasIp, Walks, Links
<1>8. Valid(p)'
  <2>1. KeptDir(cwd[p])'
    BY <1>1, <1>2, <1>4, <1>6, QuietKeeps DEF Valid, TypeInv, KeptDir, Freed
  <2>2. QED
    BY <1>4, <1>5, <2>1 DEF Valid
<1>9. LockStep(p)
  <2>1. \A j \in Inum : ~Owner(p, j)' /\ ~Owner(p, j)
    BY <1>2, <1>3, <1>4 DEF Owner
  <2>2. QED
    BY <1>1, <1>2, <2>1, SameLocks
<1>10. Quiet(p)
  <2>1. \A j \in Inum : ref'[j] >= ref[j]
    BY <1>1, <1>2 DEF TypeInv
  <2>2. QED
    BY <1>2, <1>3, <1>4, <2>1 DEF Quiet
<1>11. \A j \in Inum : ref'[j] = ref[j] + Has(p, j)' - Has(p, j)
  <2>1. \A j \in Inum : Has(p, j)' = Has(p, j) /\ Has(p, j) \in Int
    BY <1>3, <1>4, <1>5, Consts DEF Has, Is
  <2>2. QED
    BY <1>1, <1>2, <2>1 DEF TypeInv
<1>12. QED
  BY <1>2, <1>6, <1>7, <1>8, <1>9, <1>10, <1>11, PlainStep

\* The directory of link and unlink is unlocked and put.
LEMMA UnlockPutStep ==
  ASSUME IInv, NEW p \in Proc, LinkDup(p) \/ UnlinkBad(p)
  PROVE  IInv'
<1>1. /\ TypeInv /\ Shape(p) /\ Valid(p) /\ Locks
  BY DEF IInv
<1>2. PICK l \in {"undo", "out"} :
        /\ pc[p] = (IF l = "undo" THEN "linkdup" ELSE "unlinkbad") /\ Iput(p, dp[p], l)
        /\ dp' = [dp EXCEPT ![p] = 0] /\ lock' = [lock EXCEPT ![dp[p]] = Nobody]
        /\ UNCHANGED <<disk, used, ent, mem, ref, file, open, cwd, call, path, at, ip, raced>>
  BY DEF LinkDup, UnlinkBad, PutDp, store, files, ends
<1>3. Stage(p) = pc[p] /\ dp[p] \in Inum /\ put[p] = 0 /\ at[p] = 0 /\ (l = "undo" <=> ip[p] # 0)
  <2>1. Stage(p) = pc[p] /\ put[p] = 0
    BY <1>1, <1>2, Outside DEF Ends
  <2>2. QED
    BY <1>1, <1>2, <2>1 DEF TypeInv, Shape, HasIp, HasDp
<1>4. /\ pc' \in [Proc -> Stages \cup Ends] /\ ret' \in [Proc -> Stages]
      /\ put' \in [Proc -> Inum \cup {0}]
      /\ pc'[p] = "iput" /\ put'[p] = dp[p] /\ ret'[p] = l /\ Stage(p)' = l
      /\ \A q \in Proc \ {p} : pc'[q] = pc[q] /\ put'[q] = put[q] /\ ret'[q] = ret[q]
  <2>1. l \in Stages
    BY DEF Stages, HasDp, HasIp
  <2>2. QED
    BY <1>1, <1>2, <1>3, <2>1, IputGoes
<1>5. ip'[p] = ip[p] /\ at'[p] = 0 /\ dp'[p] = 0 /\ cwd'[p] = cwd[p] /\ call'[p] = call[p]
  BY <1>1, <1>2, <1>3 DEF TypeInv
<1>6. LocalTypes' /\ Mine(p) /\ CacheTypes'
  BY <1>1, <1>2, <1>4 DEF LocalTypes, CacheTypes, Mine, TypeInv
<1>7. Shape(p)'
  BY <1>1, <1>2, <1>3, <1>4, <1>5, Consts DEF Shape, Ends, HasDp, HasIp, Walks, Links
<1>8. Valid(p)'
  <2>1. \A i \in Inum : (KeptDir(i) => KeptDir(i)') /\ (KeptLeaf(i) => KeptLeaf(i)')
    BY <1>2, <1>4, <1>6, QuietKeeps
  <2>2. KeptDir(cwd[p]) /\ cwd[p] \in Inum /\ (l = "undo" => KeptLeaf(ip[p]) /\ ip[p] \in Inum)
    BY <1>1, <1>2, <1>3 DEF Valid, TypeInv
  <2>3. KeptDir(cwd[p])' /\ (l = "undo" => KeptLeaf(ip[p])')
    BY <1>5, <2>1, <2>2 DEF KeptDir, KeptLeaf, Freed
  <2>4. QED
    BY <1>3, <1>4, <1>5, <2>3 DEF Valid
<1>9. LockStep(p)
  <2>1. \A i \in Inum : ~Owner(p, i)'
    BY <1>4, <1>5 DEF Owner
  <2>2. \A i \in Inum : lock[i] = p <=> i = dp[p]
    BY <1>1, <1>2, <1>3 DEF Owner, Locks
  <2>3. \A i \in Inum : lock'[i] = IF i = dp[p] THEN Nobody ELSE lock[i]
    BY <1>1, <1>2 DEF TypeInv
  <2>4. QED
    BY <2>1, <2>2, <2>3, Consts DEF LockStep
<1>10. Quiet(p)
  <2>1. \A j \in Inum : ref'[j] >= ref[j] /\ (lock'[j] = p => lock[j] = p)
    BY <1>1, <1>2, Consts DEF TypeInv
  <2>2. QED
    BY <1>2, <1>3, <1>4, <2>1 DEF Quiet
<1>11. \A j \in Inum : ref'[j] = ref[j] + Has(p, j)' - Has(p, j)
  <2>1. \A j \in Inum : Has(p, j)' = Has(p, j) /\ Has(p, j) \in Int
    BY <1>3, <1>4, <1>5, Consts DEF Has, Is
  <2>2. QED
    BY <1>1, <1>2, <2>1 DEF TypeInv
<1>12. QED
  BY <1>2, <1>6, <1>7, <1>8, <1>9, <1>10, <1>11, PlainStep

\* Paths have names in them.
LEMMA HeadOf ==
  ASSUME TypeInv, NEW p \in Proc, path[p] # <<>>
  PROVE  /\ Head(path[p]) \in Entry /\ Tail(path[p]) \in Seq(Entry)
         /\ \A d \in Inum : Lookup(d, Head(path[p])) \in Inum \cup {0}
<1>1. path[p] \in Seq(Entry)
  BY DEF TypeInv
<1>2. Head(path[p]) \in Entry /\ Tail(path[p]) \in Seq(Entry)
  BY <1>1
<1>3. QED
  BY <1>2 DEF TypeInv, Lookup

LEMMA UnlinkLookStep ==
  ASSUME IInv, NEW p \in Proc, UnlinkLook(p)
  PROVE  IInv'
<1>0. PICK d, x : d = dp[p] /\ x = Lookup(d, Head(path[p]))
  OBVIOUS
<1>1. /\ TypeInv /\ Shape(p) /\ Valid(p) /\ Locks /\ \A i \in Inum : Copied(i)
  BY DEF IInv
<1>2. /\ pc[p] = "unlink" /\ CanLock(d) /\ Loads(d)
      /\ UNCHANGED <<disk, used, ent, file, open, cwd, call, path, at, raced>>
  BY <1>0 DEF UnlinkLook, store, files, ends
<1>3. /\ Stage(p) = pc[p] /\ d \in Inum /\ put[p] = 0 /\ at[p] = 0 /\ ip[p] = 0
      /\ path[p] # <<>> /\ call[p] \in Calls /\ ret[p] = "out"
  <2>1. Stage(p) = pc[p] /\ put[p] = 0 /\ ret[p] = "out"
    BY <1>1, <1>2, Outside DEF Ends
  <2>2. QED
    BY <1>0, <1>1, <1>2, <2>1 DEF TypeInv, Shape, HasIp, HasDp, Walks
<1>4. Head(path[p]) \in Entry /\ x \in Inum \cup {0}
  BY <1>0, <1>1, <1>3, HeadOf
<1>5. Kept(d) /\ Load(d) = disk[d] /\ lock[d] = Nobody
  BY <1>1, <1>2, <1>3, LockedKept
<1>6. /\ mem' \in [Inum -> Inode \cup {Nobody}] /\ mem'[d] # Nobody
      /\ \A j \in Inum : mem'[j] = mem[j] \/ (mem'[j] = Load(j) /\ disk[j].type # "none")
  BY <1>1, <1>2, <1>3, <1>5, LoadsKeeps
<1>7. CASE PutDp(p, "out") /\ UNCHANGED <<ref, lock, ip>>
  <2>1. Iput(p, d, "out") /\ dp' = [dp EXCEPT ![p] = 0] /\ UNCHANGED <<ref, lock, ip>>
    BY <1>0, <1>7 DEF PutDp
  <2>2. /\ pc' \in [Proc -> Stages \cup Ends] /\ ret' \in [Proc -> Stages]
        /\ put' \in [Proc -> Inum \cup {0}]
        /\ pc'[p] = "iput" /\ put'[p] = d /\ ret'[p] = "out" /\ Stage(p)' = "out"
        /\ \A q \in Proc \ {p} : pc'[q] = pc[q] /\ put'[q] = put[q] /\ ret'[q] = ret[q]
    BY <1>1, <1>3, <2>1, IputGoes DEF Stages
  <2>3. ip'[p] = 0 /\ at'[p] = 0 /\ dp'[p] = 0 /\ cwd'[p] = cwd[p]
    BY <1>1, <1>2, <1>3, <2>1 DEF TypeInv
  <2>4. LocalTypes' /\ Mine(p) /\ CacheTypes'
    BY <1>1, <1>2, <1>6, <2>1, <2>2 DEF LocalTypes, CacheTypes, Mine, TypeInv
  <2>5. Shape(p)'
    BY <1>3, <2>2, <2>3, Consts DEF Shape, Ends, HasDp, HasIp, Walks, Links
  <2>6. Valid(p)'
    <3>1. KeptDir(cwd[p])'
      BY <1>1, <1>2, <2>2, <2>4, QuietKeeps DEF Valid, TypeInv, KeptDir, Freed
    <3>2. QED
      BY <2>2, <2>3, <3>1 DEF Valid
  <2>7. LockStep(p)
    <3>1. \A j \in Inum : ~Owner(p, j)' /\ ~Owner(p, j)
      BY <1>2, <1>3, <2>2 DEF Owner
    <3>2. QED
      BY <1>1, <2>1, <3>1, SameLocks
  <2>8. Quiet(p)
    <3>1. \A j \in Inum : ref'[j] >= ref[j]
      BY <1>1, <2>1 DEF TypeInv
    <3>2. QED
      BY <1>2, <1>3, <1>6, <2>1, <2>2, <3>1 DEF Quiet
  <2>9. \A j \in Inum : ref'[j] = ref[j] + Has(p, j)' - Has(p, j)
    <3>1. \A j \in Inum : Has(p, j)' = Has(p, j) /\ Has(p, j) \in Int
      BY <1>0, <1>3, <2>2, <2>3, Consts DEF Has, Is
    <3>2. QED
      BY <1>1, <2>1, <3>1 DEF TypeInv
  <2>10. QED
    BY <1>2, <2>4, <2>5, <2>6, <2>7, <2>8, <2>9, PlainStep
<1>8. CASE /\ x # 0 /\ Head(path[p]) \notin {".", ".."} /\ Iget(x) /\ ip' = [ip EXCEPT ![p] = x]
           /\ lock' = [lock EXCEPT ![d] = p] /\ Goto(p, "unlinkip") /\ UNCHANGED dp
  <2>1. x \in Inum /\ Head(path[p]) \in Name /\ x = ent[d][Head(path[p])]
    BY <1>0, <1>4, <1>8 DEF Entry, Lookup
  <2>2. /\ pc' \in [Proc -> Stages \cup Ends] /\ put' = put /\ ret' = ret
        /\ pc'[p] = "unlinkip" /\ Stage(p)' = "unlinkip"
        /\ \A q \in Proc \ {p} : pc'[q] = pc[q] /\ put'[q] = put[q] /\ ret'[q] = ret[q]
    BY <1>1, <1>8, GotoGoes DEF Stages, HasDp
  <2>3. ip'[p] = x /\ at'[p] = 0 /\ dp'[p] = d /\ cwd'[p] = cwd[p] /\ put'[p] = 0
    BY <1>0, <1>1, <1>2, <1>3, <1>8, <2>2 DEF TypeInv
  <2>4. /\ ref' = [ref EXCEPT ![x] = ref[x] + 1] /\ ref' \in [Inum -> Nat]
        /\ lock' \in [Inum -> Proc \cup {Nobody}]
    <3>1. ref' = [ref EXCEPT ![x] = ref[x] + 1]
      BY <1>1, <1>8, <2>1 DEF Iget
    <3>2. ref[x] + 1 \in Nat
      BY <1>1, <2>1 DEF TypeInv
    <3>3. QED
      BY <1>1, <1>8, <3>1, <3>2 DEF TypeInv
  <2>5. LocalTypes' /\ Mine(p)
    BY <1>1, <1>2, <1>8, <2>1, <2>2 DEF LocalTypes, Mine, TypeInv
  <2>6. CacheTypes'
    BY <1>1, <1>2, <1>6, <2>4 DEF CacheTypes, TypeInv
  <2>7. Shape(p)'
    BY <1>2, <1>3, <2>1, <2>2, <2>3, Consts DEF Shape, Ends, HasDp, HasIp, Walks, Links
  <2>8. Valid(p)'
    <3>1. KeptDir(cwd[p]) /\ cwd[p] \in Inum /\ KeptDir(d)
      BY <1>0, <1>1, <1>3, Consts DEF Valid, TypeInv
    <3>2. \A i \in Inum : KeptDir(i) => KeptDir(i)'
      BY <1>2, <2>2, <2>5, QuietKeeps
    <3>3. KeptDir(cwd[p])' /\ KeptDir(dp[p])'
      BY <1>3, <2>3, <3>1, <3>2 DEF KeptDir, Freed
    <3>4. ent'[dp'[p]][Head(path'[p])] = ip'[p]
      BY <1>2, <2>1, <2>3
    <3>5. QED
      BY <2>2, <3>3, <3>4 DEF Valid
  <2>9. LockStep(p)
    <3>1. \A j \in Inum : Owner(p, j)' <=> j = d
      BY <1>3, <2>2, <2>3, Consts DEF Owner
    <3>2. \A j \in Inum : lock'[j] = IF j = d THEN p ELSE lock[j]
      BY <1>1, <1>8 DEF TypeInv
    <3>3. \A j \in Inum : lock[j] # p
      BY <1>1, <1>2, <1>3 DEF Locks, Owner
    <3>4. QED
      BY <1>5, <3>1, <3>2, <3>3 DEF LockStep
  <2>10. Quiet(p)
    <3>1. \A j \in Inum : ref'[j] >= ref[j]
      BY <1>1, <2>4 DEF TypeInv
    <3>2. \A j \in Inum : lock'[j] = p /\ lock[j] # p => mem'[j] # Nobody
      BY <1>1, <1>6, <1>8 DEF TypeInv
    <3>3. QED
      BY <1>2, <1>3, <1>6, <2>2, <3>1, <3>2 DEF Quiet
  <2>11. \A j \in Inum : ref'[j] = ref[j] + Has(p, j)' - Has(p, j)
    <3>1. \A j \in Inum : Has(p, j)' = Has(p, j) + Is(x, j) /\ Has(p, j) \in Int
      BY <1>0, <1>3, <2>2, <2>3, Consts DEF Has, Is
    <3>2. \A j \in Inum : ref'[j] = ref[j] + Is(x, j) /\ ref[j] \in Nat /\ Is(x, j) \in Int
      BY <1>1, <2>1, <2>4 DEF Is, TypeInv
    <3>3. QED
      BY <3>1, <3>2
  <2>12. QED
    BY <1>2, <2>5, <2>6, <2>7, <2>8, <2>9, <2>10, <2>11, PlainStep
<1>9. QED
  BY <1>0, <1>7, <1>8 DEF UnlinkLook

LEMMA IgetCounts ==
  ASSUME TypeInv, NEW x \in Inum, Iget(x)
  PROVE  /\ ref' \in [Inum -> Nat]
         /\ \A j \in Inum : ref'[j] = ref[j] + Is(x, j) /\ ref'[j] >= ref[j]
<1>1. ref' = [ref EXCEPT ![x] = ref[x] + 1] /\ ref \in [Inum -> Nat]
  BY DEF Iget, TypeInv
<1>2. ref[x] + 1 \in Nat
  BY <1>1
<1>3. QED
  BY <1>1, <1>2 DEF Is

\* create, of a name that is there.
LEMMA CreateFoundStep ==
  ASSUME IInv, NEW p \in Proc, CreateLook(p), Lookup(dp[p], Head(path[p])) # 0
  PROVE  IInv'
<1>0. PICK d, x : d = dp[p] /\ x = Lookup(d, Head(path[p]))
  OBVIOUS
<1>1. /\ TypeInv /\ Shape(p) /\ Valid(p) /\ Locks /\ \A i \in Inum : Copied(i)
  BY DEF IInv
<1>2. /\ pc[p] = "create" /\ CanLock(d) /\ Loads(d) /\ x # 0
      /\ Iget(x) /\ ip' = [ip EXCEPT ![p] = x]
      /\ Iput(p, d, "exists") /\ dp' = [dp EXCEPT ![p] = 0]
      /\ UNCHANGED <<disk, used, ent, lock, file, open, cwd, call, path, at, raced>>
  BY <1>0 DEF CreateLook, PutDp, files, ends
<1>3. /\ Stage(p) = pc[p] /\ d \in Inum /\ put[p] = 0 /\ at[p] = 0 /\ ip[p] = 0
      /\ path[p] # <<>> /\ call[p] \in Calls /\ ret[p] = "out" /\ dp[p] = d
  <2>1. Stage(p) = pc[p] /\ put[p] = 0 /\ ret[p] = "out"
    BY <1>1, <1>2, Outside DEF Ends
  <2>2. QED
    BY <1>0, <1>1, <1>2, <2>1 DEF TypeInv, Shape, HasIp, HasDp, Walks
<1>4. x \in Inum
  BY <1>0, <1>1, <1>2, <1>3, HeadOf
<1>5. Kept(d) /\ Load(d) = disk[d] /\ lock[d] = Nobody
  BY <1>1, <1>2, <1>3, LockedKept
<1>6. /\ mem' \in [Inum -> Inode \cup {Nobody}] /\ mem'[d] # Nobody
      /\ \A j \in Inum : mem'[j] = mem[j] \/ (mem'[j] = Load(j) /\ disk[j].type # "none")
  BY <1>1, <1>2, <1>3, <1>5, LoadsKeeps
<1>7. /\ pc' \in [Proc -> Stages \cup Ends] /\ ret' \in [Proc -> Stages]
      /\ put' \in [Proc -> Inum \cup {0}]
      /\ pc'[p] = "iput" /\ put'[p] = d /\ ret'[p] = "exists" /\ Stage(p)' = "exists"
      /\ \A q \in Proc \ {p} : pc'[q] = pc[q] /\ put'[q] = put[q] /\ ret'[q] = ret[q]
  BY <1>1, <1>2, <1>3, IputGoes DEF Stages, HasIp
<1>8. /\ ip'[p] = x /\ at'[p] = 0 /\ dp'[p] = 0 /\ cwd'[p] = cwd[p] /\ call'[p] = call[p]
      /\ path'[p] = path[p]
  BY <1>1, <1>2, <1>3 DEF TypeInv
<1>9. /\ ref' \in [Inum -> Nat]
      /\ \A j \in Inum : ref'[j] = ref[j] + Is(x, j) /\ ref'[j] >= ref[j]
  BY <1>1, <1>2, <1>4, IgetCounts
<1>10. LocalTypes' /\ Mine(p)
  BY <1>1, <1>2, <1>4, <1>7 DEF LocalTypes, Mine, TypeInv
<1>11. CacheTypes'
  BY <1>1, <1>2, <1>6, <1>9 DEF CacheTypes, TypeInv
<1>12. Shape(p)'
  BY <1>1, <1>2, <1>3, <1>4, <1>7, <1>8, Consts DEF Shape, Ends, HasDp, HasIp, Walks, Links
<1>13. Valid(p)'
  <2>1. KeptDir(cwd[p]) /\ cwd[p] \in Inum
    BY <1>1 DEF Valid, TypeInv
  <2>2. \A i \in Inum : KeptDir(i) => KeptDir(i)'
    BY <1>2, <1>7, <1>10, QuietKeeps
  <2>3. KeptDir(cwd[p])'
    BY <1>8, <2>1, <2>2 DEF KeptDir, Freed
  <2>4. QED
    BY <1>7, <1>8, <2>3 DEF Valid
<1>14. LockStep(p)
  <2>1. \A j \in Inum : ~Owner(p, j)' /\ ~Owner(p, j)
    BY <1>2, <1>3, <1>7 DEF Owner
  <2>2. QED
    BY <1>1, <1>2, <2>1, SameLocks
<1>15. Quiet(p)
  BY <1>2, <1>3, <1>6, <1>7, <1>9 DEF Quiet
<1>16. \A j \in Inum : ref'[j] = ref[j] + Has(p, j)' - Has(p, j)
  <2>1. \A j \in Inum : Has(p, j)' = Has(p, j) + Is(x, j) /\ Has(p, j) \in Int /\ Is(x, j) \in Int
    BY <1>3, <1>7, <1>8, Consts DEF Has, Is
  <2>2. QED
    BY <1>1, <1>9, <2>1 DEF TypeInv
<1>17. QED
  BY <1>2, <1>10, <1>11, <1>12, <1>13, <1>14, <1>15, <1>16, PlainStep

\* link, of a name that is there.
LEMMA LinkFoundStep ==
  ASSUME IInv, NEW p \in Proc, LinkEnter(p), Lookup(dp[p], Head(path[p])) # 0
  PROVE  IInv'
<1>0. PICK d, x : d = dp[p] /\ x = Lookup(d, Head(path[p]))
  OBVIOUS
<1>1. /\ TypeInv /\ Shape(p) /\ Valid(p) /\ Locks /\ \A i \in Inum : Copied(i)
  BY DEF IInv
<1>2. /\ pc[p] = "linkat" /\ CanLock(d) /\ Loads(d) /\ x # 0
      /\ Iget(x) /\ lock' = [lock EXCEPT ![d] = p] /\ Iput(p, x, "linkdup")
      /\ UNCHANGED <<disk, used, ent, file, open, cwd, call, path, at, dp, ip, raced>>
  BY <1>0 DEF LinkEnter, files, ends
<1>3. /\ Stage(p) = pc[p] /\ d \in Inum /\ put[p] = 0 /\ at[p] = 0 /\ ip[p] \in Inum
      /\ path[p] # <<>> /\ call[p] \in Calls /\ ret[p] = "out" /\ dp[p] = d
  <2>1. Stage(p) = pc[p] /\ put[p] = 0 /\ ret[p] = "out"
    BY <1>1, <1>2, Outside DEF Ends
  <2>2. QED
    BY <1>0, <1>1, <1>2, <2>1 DEF TypeInv, Shape, HasIp, HasDp, Walks
<1>4. x \in Inum
  BY <1>0, <1>1, <1>2, <1>3, HeadOf
<1>5. Kept(d) /\ Load(d) = disk[d] /\ lock[d] = Nobody
  BY <1>1, <1>2, <1>3, LockedKept
<1>6. /\ mem' \in [Inum -> Inode \cup {Nobody}] /\ mem'[d] # Nobody
      /\ \A j \in Inum : mem'[j] = mem[j] \/ (mem'[j] = Load(j) /\ disk[j].type # "none")
  BY <1>1, <1>2, <1>3, <1>5, LoadsKeeps
<1>7. /\ pc' \in [Proc -> Stages \cup Ends] /\ ret' \in [Proc -> Stages]
      /\ put' \in [Proc -> Inum \cup {0}]
      /\ pc'[p] = "iput" /\ put'[p] = x /\ ret'[p] = "linkdup" /\ Stage(p)' = "linkdup"
      /\ \A q \in Proc \ {p} : pc'[q] = pc[q] /\ put'[q] = put[q] /\ ret'[q] = ret[q]
  BY <1>1, <1>2, <1>4, IputGoes DEF Stages, HasIp
<1>8. /\ ip'[p] = ip[p] /\ at'[p] = 0 /\ dp'[p] = d /\ cwd'[p] = cwd[p] /\ call'[p] = call[p]
      /\ path'[p] = path[p]
  BY <1>1, <1>2, <1>3 DEF TypeInv
<1>9. /\ ref' \in [Inum -> Nat]
      /\ \A j \in Inum : ref'[j] = ref[j] + Is(x, j) /\ ref'[j] >= ref[j]
  BY <1>1, <1>2, <1>4, IgetCounts
<1>10. LocalTypes' /\ Mine(p)
  BY <1>1, <1>2, <1>4, <1>7 DEF LocalTypes, Mine, TypeInv
<1>11. \A j \in Inum : lock'[j] = IF j = d THEN p ELSE lock[j]
  BY <1>1, <1>2 DEF TypeInv
<1>12. CacheTypes'
  <2>1. lock' \in [Inum -> Proc \cup {Nobody}]
    BY <1>1, <1>2 DEF TypeInv
  <2>2. QED
    BY <1>1, <1>2, <1>6, <1>9, <2>1 DEF CacheTypes, TypeInv
<1>13. Shape(p)'
  BY <1>1, <1>2, <1>3, <1>4, <1>7, <1>8, Consts DEF Shape, Ends, HasDp, HasIp, Walks, Links
<1>14. Valid(p)'
  <2>1. KeptDir(cwd[p]) /\ cwd[p] \in Inum /\ KeptDir(d) /\ KeptLeaf(ip[p])
    BY <1>1, <1>2, <1>3, Consts DEF Valid, TypeInv
  <2>2. \A i \in Inum : (KeptDir(i) => KeptDir(i)') /\ (KeptLeaf(i) => KeptLeaf(i)')
    BY <1>2, <1>7, <1>10, QuietKeeps
  <2>3. KeptDir(cwd[p])' /\ KeptDir(dp[p])' /\ KeptLeaf(ip[p])'
    BY <1>3, <1>8, <2>1, <2>2 DEF KeptDir, KeptLeaf, Freed
  <2>4. QED
    BY <1>7, <1>8, <2>3 DEF Valid
<1>15. LockStep(p)
  <2>1. \A j \in Inum : (Owner(p, j)' <=> j = d) /\ lock[j] # p
    BY <1>1, <1>2, <1>3, <1>7, <1>8 DEF Owner, Locks
  <2>2. QED
    BY <1>5, <1>11, <2>1 DEF LockStep
<1>16. Quiet(p)
  <2>1. \A j \in Inum : lock'[j] = p /\ lock[j] # p => mem'[j] # Nobody
    BY <1>6, <1>11
  <2>2. QED
    BY <1>2, <1>3, <1>6, <1>7, <1>9, <2>1 DEF Quiet
<1>17. \A j \in Inum : ref'[j] = ref[j] + Has(p, j)' - Has(p, j)
  <2>1. \A j \in Inum : Has(p, j)' = Has(p, j) + Is(x, j) /\ Has(p, j) \in Int /\ Is(x, j) \in Int
    BY <1>3, <1>7, <1>8, Consts DEF Has, Is
  <2>2. QED
    BY <1>1, <1>9, <2>1 DEF TypeInv
<1>18. QED
  BY <1>2, <1>10, <1>12, <1>13, <1>14, <1>15, <1>16, <1>17, PlainStep

\* What is left of a path that begins with "/", or does not.
LEMMA PathOf ==
  ASSUME NEW w, IsPath(w)
  PROVE  LET rest == IF Head(w) = "/" THEN Tail(w) ELSE w
         IN  rest \in Seq(Entry) /\ rest # <<>>
<1>1. /\ w \in Seq(Entry \cup {"/"}) /\ w # <<>> /\ w # <<"/">>
      /\ \A k \in 2 .. Len(w) : w[k] # "/"
  BY DEF IsPath
<1>2. /\ Len(w) \in Nat /\ Len(w) >= 1 /\ Head(w) = w[1]
      /\ \A k \in 1 .. Len(w) : w[k] \in Entry \cup {"/"}
  BY <1>1
<1>3. CASE Head(w) = "/"
  <2>1. Len(w) # 1
    <3>1. SUFFICES ASSUME Len(w) = 1 PROVE w = <<"/">>
      BY <1>1
    <3>2. w \in Seq(Entry \cup {"/"}) /\ <<"/">> \in Seq(Entry \cup {"/"}) /\ Len(<<"/">>) = 1
      BY <1>1
    <3>3. \A k \in 1 .. Len(w) : w[k] = <<"/">>[k]
      BY <1>2, <1>3, <3>1
    <3>4. QED
      BY <3>1, <3>2, <3>3, SeqEqual
  <2>2. /\ Len(Tail(w)) = Len(w) - 1 /\ Tail(w) \in Seq(Entry \cup {"/"})
        /\ \A k \in 1 .. Len(w) - 1 : Tail(w)[k] = w[k + 1]
    BY <1>1
  <2>3. \A k \in 1 .. Len(Tail(w)) : Tail(w)[k] \in Entry
    <3>1. SUFFICES ASSUME NEW k \in 1 .. Len(w) - 1 PROVE w[k + 1] \in Entry
      BY <2>2
    <3>2. k + 1 \in 2 .. Len(w) /\ k + 1 \in 1 .. Len(w)
      BY <1>2
    <3>3. QED
      BY <1>1, <1>2, <3>2
  <2>4. Tail(w) \in Seq(Entry)
    <3>1. Tail(w) \in [1 .. Len(Tail(w)) -> Entry \cup {"/"}] /\ Len(Tail(w)) \in Nat
      BY <2>2, LenProperties
    <3>2. Tail(w) \in [1 .. Len(Tail(w)) -> Entry]
      BY ONLY <2>3, <3>1
    <3>3. QED
      BY <3>1, <3>2, SeqDef
  <2>5. Tail(w) # <<>>
    <3>1. Len(Tail(w)) # 0
      BY <1>2, <2>1, <2>2
    <3>2. Len(<<>>) = 0
      BY EmptySeq
    <3>3. QED
      BY <3>1, <3>2
  <2>6. QED
    BY <1>3, <2>4, <2>5
<1>4. CASE Head(w) # "/"
  <2>1. \A k \in 1 .. Len(w) : w[k] \in Entry
    <3>1. SUFFICES ASSUME NEW k \in 1 .. Len(w), k # 1 PROVE w[k] \in Entry
      BY <1>2, <1>4
    <3>2. k \in 2 .. Len(w)
      BY <1>2, <3>1
    <3>3. QED
      BY <1>1, <1>2, <3>2
  <2>2. w \in Seq(Entry)
    BY <1>1, <2>1, SeqDef
  <2>3. QED
    BY <1>1, <1>4, <2>2
<1>5. QED
  BY <1>3, <1>4

\* A path walk starts, of a call or of the second path of link.
LEMMA WalkGoes ==
  ASSUME TypeInv, NEW p \in Proc, NEW w, IsPath(w), Walk(p, w)
  PROVE  \E x \in Inum :
           /\ at' = [at EXCEPT ![p] = x]
           /\ path' \in [Proc -> Seq(Entry)] /\ path'[p] # <<>>
           /\ \A q \in Proc \ {p} : path'[q] = path[q]
           /\ ref' \in [Inum -> Nat]
           /\ \A j \in Inum : ref'[j] = ref[j] + Is(x, j) /\ ref'[j] >= ref[j]
           /\ pc' \in [Proc -> Stages \cup Ends] /\ put' = put /\ ret' = ret
           /\ pc'[p] = "namex" /\ Stage(p)' = "namex"
           /\ \A q \in Proc \ {p} : pc'[q] = pc[q] /\ put'[q] = put[q] /\ ret'[q] = ret[q]
<1>1. PICK x, rest : /\ x = IF Head(w) = "/" THEN ROOTINO ELSE cwd[p]
                     /\ rest = IF Head(w) = "/" THEN Tail(w) ELSE w
  OBVIOUS
<1>2. Iget(x) /\ at' = [at EXCEPT ![p] = x] /\ path' = [path EXCEPT ![p] = rest] /\ Goto(p, "namex")
  BY <1>1 DEF Walk
<1>3. x \in Inum /\ rest \in Seq(Entry) /\ rest # <<>>
  BY <1>1, PathOf, Consts DEF TypeInv
<1>4. /\ ref' \in [Inum -> Nat]
      /\ \A j \in Inum : ref'[j] = ref[j] + Is(x, j) /\ ref'[j] >= ref[j]
  BY <1>2, <1>3, IgetCounts
<1>5. /\ pc' \in [Proc -> Stages \cup Ends] /\ put' = put /\ ret' = ret
      /\ pc'[p] = "namex" /\ Stage(p)' = "namex"
      /\ \A q \in Proc \ {p} : pc'[q] = pc[q] /\ put'[q] = put[q] /\ ret'[q] = ret[q]
  BY <1>2, GotoGoes DEF Stages
<1>6. /\ path' \in [Proc -> Seq(Entry)] /\ path'[p] # <<>>
      /\ \A q \in Proc \ {p} : path'[q] = path[q]
  BY <1>2, <1>3 DEF TypeInv
<1>7. QED
  BY <1>2, <1>3, <1>4, <1>5, <1>6

LEMMA CallStep ==
  ASSUME IInv, NEW p \in Proc, NEW c \in Calls, Call(p, c)
  PROVE  IInv'
<1>1. /\ TypeInv /\ Shape(p) /\ Valid(p) /\ Locks
  BY DEF IInv
<1>2. /\ pc[p] = "out" /\ call' = [call EXCEPT ![p] = c] /\ Walk(p, c.path) /\ IsPath(c.path)
      /\ UNCHANGED <<disk, used, ent, mem, lock, file, open, cwd, dp, ip, raced>>
  BY FilesAssumption DEF Call, store, files, ends, FilesAssumption
<1>3. Stage(p) = pc[p] /\ put[p] = 0 /\ at[p] = 0 /\ ip[p] = 0 /\ ret[p] = "out" /\ dp[p] = 0
  <2>1. Stage(p) = pc[p] /\ put[p] = 0 /\ ret[p] = "out"
    BY <1>1, <1>2, Outside DEF Ends
  <2>2. QED
    BY <1>1, <1>2, <2>1 DEF TypeInv, Shape, HasIp, HasDp
<1>4. PICK x \in Inum :
        /\ at' = [at EXCEPT ![p] = x]
        /\ path' \in [Proc -> Seq(Entry)] /\ path'[p] # <<>>
        /\ \A q \in Proc \ {p} : path'[q] = path[q]
        /\ ref' \in [Inum -> Nat]
        /\ \A j \in Inum : ref'[j] = ref[j] + Is(x, j) /\ ref'[j] >= ref[j]
        /\ pc' \in [Proc -> Stages \cup Ends] /\ put' = put /\ ret' = ret
        /\ pc'[p] = "namex" /\ Stage(p)' = "namex"
        /\ \A q \in Proc \ {p} : pc'[q] = pc[q] /\ put'[q] = put[q] /\ ret'[q] = ret[q]
  BY <1>1, <1>2, WalkGoes
<1>5. /\ ip'[p] = 0 /\ at'[p] = x /\ dp'[p] = 0 /\ cwd'[p] = cwd[p] /\ call'[p] = c
      /\ put'[p] = 0 /\ ret'[p] = "out"
  BY <1>1, <1>2, <1>3, <1>4 DEF TypeInv
<1>6. LocalTypes' /\ Mine(p) /\ CacheTypes'
  BY <1>1, <1>2, <1>4 DEF LocalTypes, CacheTypes, Mine, TypeInv
<1>7. Shape(p)'
  BY <1>4, <1>5, Consts DEF Shape, Ends, HasDp, HasIp, Walks, Links
<1>8. Valid(p)'
  <2>1. KeptDir(cwd[p]) /\ cwd[p] \in Inum
    BY <1>1 DEF Valid, TypeInv
  <2>2. \A i \in Inum : KeptDir(i) => KeptDir(i)'
    BY <1>2, <1>4, <1>6, QuietKeeps
  <2>3. KeptDir(cwd[p])'
    BY <1>5, <2>1, <2>2 DEF KeptDir, Freed
  <2>4. QED
    BY <1>4, <1>5, <2>3 DEF Valid
<1>9. LockStep(p)
  <2>1. \A j \in Inum : ~Owner(p, j)' /\ ~Owner(p, j)
    BY <1>2, <1>3, <1>4 DEF Owner
  <2>2. QED
    BY <1>1, <1>2, <2>1, SameLocks
<1>10. Quiet(p)
  BY <1>2, <1>3, <1>4 DEF Quiet
<1>11. \A j \in Inum : ref'[j] = ref[j] + Has(p, j)' - Has(p, j)
  <2>1. \A j \in Inum : Has(p, j)' = Has(p, j) + Is(x, j) /\ Has(p, j) \in Int /\ Is(x, j) \in Int
    BY <1>3, <1>5, Consts DEF Has, Is
  <2>2. QED
    BY <1>1, <1>4, <2>1 DEF TypeInv
<1>12. QED
  BY <1>2, <1>6, <1>7, <1>8, <1>9, <1>10, <1>11, PlainStep

LEMMA CloseStep ==
  ASSUME IInv, NEW p \in Proc, NEW f \in File, Close(p, f)
  PROVE  IInv'
<1>1. /\ TypeInv /\ Shape(p) /\ Valid(p) /\ Locks /\ FilesOpen
  BY DEF IInv
<1>2. /\ pc[p] = "out" /\ f \in open[p]
      /\ open' = [open EXCEPT ![p] = @ \ {f}] /\ file' = [file EXCEPT ![f] = 0]
      /\ Iput(p, file[f], "out")
      /\ UNCHANGED <<disk, used, ent, mem, ref, lock, cwd, call, path, at, dp, ip, raced>>
  BY DEF Close, store, locals, ends
<1>3. Stage(p) = pc[p] /\ put[p] = 0 /\ at[p] = 0 /\ ip[p] = 0 /\ ret[p] = "out" /\ dp[p] = 0
  <2>1. Stage(p) = pc[p] /\ put[p] = 0 /\ ret[p] = "out"
    BY <1>1, <1>2, Outside DEF Ends
  <2>2. QED
    BY <1>1, <1>2, <2>1 DEF TypeInv, Shape, HasIp, HasDp
<1>4. PICK i \in Inum : file[f] = i /\ file'[f] = 0
  BY <1>1, <1>2 DEF FilesOpen, TypeInv
<1>5. /\ pc' \in [Proc -> Stages \cup Ends] /\ ret' \in [Proc -> Stages]
      /\ put' \in [Proc -> Inum \cup {0}]
      /\ pc'[p] = "iput" /\ put'[p] = i /\ ret'[p] = "out" /\ Stage(p)' = "out"
      /\ \A q \in Proc \ {p} : pc'[q] = pc[q] /\ put'[q] = put[q] /\ ret'[q] = ret[q]
  BY <1>1, <1>2, <1>4, IputGoes DEF Stages
<1>6. ip'[p] = 0 /\ at'[p] = 0 /\ dp'[p] = 0 /\ cwd'[p] = cwd[p]
  BY <1>2, <1>3
<1>7. TypeInv' /\ Mine(p)
  <2>1. /\ file' \in [File -> Inum \cup {0}] /\ open' \in [Proc -> SUBSET File]
        /\ \A q \in Proc \ {p} : open'[q] = open[q]
    BY <1>1, <1>2 DEF TypeInv
  <2>2. QED
    BY <1>1, <1>2, <1>5, <2>1 DEF Mine, TypeInv
<1>8. Shape(p)'
  BY <1>5, <1>6, Consts DEF Shape, Ends, HasDp, HasIp, Walks, Links
<1>9. \A j \in Inum : (Kept(j) => Kept(j)') /\ (KeptDir(j) => KeptDir(j)')
  BY <1>2, <1>5, <1>7, QuietKeeps
<1>10. Valid(p)'
  <2>1. KeptDir(cwd[p]) /\ cwd[p] \in Inum
    BY <1>1 DEF Valid, TypeInv
  <2>2. KeptDir(cwd[p])'
    BY <1>6, <1>9, <2>1 DEF KeptDir, Freed
  <2>3. QED
    BY <1>5, <1>6, <2>2 DEF Valid
<1>11. FilesOpen'
  <2>1. \A g \in File : file'[g] = IF g = f THEN 0 ELSE file[g]
    BY <1>1, <1>2 DEF TypeInv
  <2>2. \A r \in Proc : open'[r] = IF r = p THEN open[p] \ {f} ELSE open[r]
    BY <1>1, <1>2 DEF TypeInv
  <2>3. ASSUME NEW g \in File, file'[g] # 0 PROVE Kept(file[g])'
    <3>1. file'[g] = file[g] /\ file[g] \in Inum /\ Kept(file[g])
      BY <1>1, <2>1, <2>3 DEF FilesOpen, TypeInv
    <3>2. QED
      BY <1>9, <3>1 DEF Kept, Freed
  <2>4. ASSUME NEW q \in Proc, NEW g \in open'[q]
        PROVE  file'[g] # 0 /\ \A r \in Proc : g \in open'[r] => r = q
    <3>1. g \in open[q] /\ g # f /\ g \in File /\ \A r \in Proc : open'[r] \subseteq open[r]
      BY <1>1, <1>2, <2>2 DEF FilesOpen, TypeInv
    <3>2. QED
      BY <1>1, <2>1, <3>1 DEF FilesOpen
  <2>5. QED
    BY <2>3, <2>4 DEF FilesOpen
<1>12. LockStep(p)
  <2>1. \A j \in Inum : ~Owner(p, j)' /\ ~Owner(p, j)
    BY <1>2, <1>3, <1>5 DEF Owner
  <2>2. QED
    BY <1>1, <1>2, <2>1, SameLocks
<1>13. Quiet(p)
  <2>1. \A j \in Inum : ref'[j] >= ref[j]
    BY <1>1, <1>2 DEF TypeInv
  <2>2. QED
    BY <1>2, <1>3, <1>5, <2>1 DEF Quiet
<1>14. RefStep(p)
  <2>1. \A g \in File \ {f} : file'[g] = file[g]
    BY <1>1, <1>2 DEF TypeInv
  <2>2. \A j \in Inum : /\ Count(File, file, j) \in Nat
                        /\ Count(File, file', j) = Count(File, file, j) + Is(0, j) - Is(i, j)
    BY <1>4, <2>1, FileMoves
  <2>3. \A j \in Inum : /\ Has(p, j)' = Has(p, j) + Is(i, j) /\ Has(p, j) \in Int
                        /\ Is(0, j) = 0 /\ Is(i, j) \in Int
    BY <1>3, <1>5, <1>6, Consts DEF Has, Is
  <2>4. \A j \in Inum : Count(File, file, j)' = Count(File, file', j)
    BY DEF Count
  <2>5. \A j \in Inum : ref'[j] = ref[j] /\ ref[j] \in Nat
    BY <1>1, <1>2 DEF TypeInv
  <2>6. ASSUME NEW j \in Inum
        PROVE  ref'[j] = ref[j] + Has(p, j)' - Has(p, j) + Count(File, file, j)' - Count(File, file, j)
    BY <2>2, <2>3, <2>4, <2>5
  <2>7. QED
    BY <2>6 DEF RefStep
<1>15. QED
  BY <1>1, <1>7, <1>8, <1>10, <1>11, <1>12, <1>13, <1>14, QuietStep

\* Where a call goes after a path walk.
LEMMA AfterWalk ==
  ASSUME TypeInv, NEW p \in Proc, Shape(p), Stage(p) = "namex"
  PROVE  /\ call[p] \in Calls /\ (~SecondPath(p) => ip[p] = 0)
         /\ SecondPath(p) => WantsParent(p) /\ After(p) = "linkat" /\ call[p].op = "link" /\ ip[p] # 0
         /\ WantsParent(p) /\ ~SecondPath(p) =>
              \/ After(p) = "create" /\ call[p].op \in {"creat", "mkdir", "mknod"}
              \/ After(p) = "unlink"
         /\ ~WantsParent(p) => /\ After(p) = call[p].op
                               /\ call[p].op \in {"open", "chdir", "link"}
<1>1. call[p] \in Calls /\ (ip[p] # 0 => call[p].op = "link")
  BY DEF Shape
<1>2. call[p].op \in {"open", "creat", "mkdir", "mknod", "link", "unlink", "chdir"}
  BY <1>1, FilesAssumption DEF FilesAssumption
<1>3. QED
  BY <1>1, <1>2 DEF SecondPath, WantsParent, After

LEMMA NamexStep ==
  ASSUME IInv, NEW p \in Proc, Namex(p)
  PROVE  IInv'
<1>0. PICK i, x, rest : i = at[p] /\ x = Lookup(i, Head(path[p])) /\ rest = Tail(path[p])
  OBVIOUS
<1>1. /\ TypeInv /\ Shape(p) /\ Valid(p) /\ Locks /\ \A j \in Inum : Copied(j)
  BY DEF IInv
<1>2. /\ pc[p] = "namex" /\ CanLock(i) /\ Loads(i)
      /\ UNCHANGED <<disk, used, ent, lock, file, open, cwd, call, raced>>
  BY <1>0 DEF Namex, store, files, ends
<1>3. /\ Stage(p) = pc[p] /\ i \in Inum /\ put[p] = 0 /\ dp[p] = 0
      /\ path[p] # <<>> /\ ret[p] = "out"
  <2>1. Stage(p) = pc[p] /\ put[p] = 0 /\ ret[p] = "out"
    BY <1>1, <1>2, Outside DEF Ends
  <2>2. QED
    BY <1>0, <1>1, <1>2, <2>1 DEF TypeInv, Shape, HasDp, Walks
<1>4. x \in Inum \cup {0} /\ rest \in Seq(Entry)
  BY <1>0, <1>1, <1>3, HeadOf
<1>5. Kept(i) /\ Load(i) = disk[i] /\ lock[i] = Nobody
  BY <1>1, <1>2, <1>3, LockedKept
<1>6. /\ mem' \in [Inum -> Inode \cup {Nobody}]
      /\ \A j \in Inum : mem'[j] = mem[j] \/ (mem'[j] = Load(j) /\ disk[j].type # "none")
  BY <1>1, <1>2, <1>3, <1>5, LoadsKeeps
<1>7. /\ call[p] \in Calls /\ (~SecondPath(p) => ip[p] = 0)
      /\ SecondPath(p) => WantsParent(p) /\ After(p) = "linkat" /\ call[p].op = "link" /\ ip[p] # 0
      /\ WantsParent(p) /\ ~SecondPath(p) =>
           \/ After(p) = "create" /\ call[p].op \in {"creat", "mkdir", "mknod"}
           \/ After(p) = "unlink"
      /\ ~WantsParent(p) => /\ After(p) = call[p].op
                            /\ call[p].op \in {"open", "chdir", "link"}
  BY <1>1, <1>2, <1>3, AfterWalk
<1>8. KeptDir(cwd[p]) /\ cwd[p] \in Inum /\ (ip[p] # 0 => KeptLeaf(ip[p]) /\ ip[p] \in Inum)
  BY <1>1, <1>2, <1>3 DEF Valid, TypeInv
<1>9. cwd'[p] = cwd[p] /\ call'[p] = call[p]
  BY <1>2
\* The walk fails.
<1>10. ASSUME NEW l \in {"undo", "out"}, l = "undo" <=> SecondPath(p), Iput(p, i, l),
              at' = [at EXCEPT ![p] = 0], UNCHANGED <<ref, path, dp, ip>>
       PROVE  IInv'
  <2>1. /\ pc' \in [Proc -> Stages \cup Ends] /\ ret' \in [Proc -> Stages]
        /\ put' \in [Proc -> Inum \cup {0}]
        /\ pc'[p] = "iput" /\ put'[p] = i /\ ret'[p] = l /\ Stage(p)' = l
        /\ \A q \in Proc \ {p} : pc'[q] = pc[q] /\ put'[q] = put[q] /\ ret'[q] = ret[q]
    <3>1. l \in Stages
      BY DEF Stages, HasIp
    <3>2. QED
      BY <1>1, <1>3, <1>10, <3>1, IputGoes
  <2>2. ip'[p] = ip[p] /\ at'[p] = 0 /\ dp'[p] = 0
    BY <1>1, <1>3, <1>10 DEF TypeInv
  <2>3. LocalTypes' /\ Mine(p) /\ CacheTypes'
    BY <1>1, <1>2, <1>6, <1>10, <2>1 DEF LocalTypes, CacheTypes, Mine, TypeInv
  <2>4. Shape(p)'
    BY <1>3, <1>7, <1>9, <1>10, <2>1, <2>2, Consts DEF Shape, Ends, HasDp, HasIp, Walks, Links
  <2>5. Valid(p)'
    <3>1. \A j \in Inum : (KeptDir(j) => KeptDir(j)') /\ (KeptLeaf(j) => KeptLeaf(j)')
      BY <1>2, <2>1, <2>3, QuietKeeps
    <3>2. KeptDir(cwd[p])' /\ (ip[p] # 0 => KeptLeaf(ip[p])')
      BY <1>8, <1>9, <2>2, <3>1 DEF KeptDir, KeptLeaf, Freed
    <3>3. QED
      BY <2>1, <2>2, <3>2 DEF Valid
  <2>6. LockStep(p)
    <3>1. \A j \in Inum : ~Owner(p, j)' /\ ~Owner(p, j)
      BY <1>2, <1>3, <2>1 DEF Owner
    <3>2. QED
      BY <1>1, <1>2, <3>1, SameLocks
  <2>7. Quiet(p)
    <3>1. \A j \in Inum : ref'[j] >= ref[j]
      BY <1>1, <1>10 DEF TypeInv
    <3>2. QED
      BY <1>2, <1>3, <1>6, <2>1, <3>1 DEF Quiet
  <2>8. \A j \in Inum : ref'[j] = ref[j] + Has(p, j)' - Has(p, j)
    <3>1. \A j \in Inum : Has(p, j)' = Has(p, j) /\ Has(p, j) \in Int
      BY <1>0, <1>3, <1>9, <2>1, <2>2, Consts DEF Has, Is
    <3>2. QED
      BY <1>1, <1>10, <3>1 DEF TypeInv
  <2>9. QED
    BY <1>2, <2>3, <2>4, <2>5, <2>6, <2>7, <2>8, PlainStep
\* It stops at the directory of the last name.
<1>11. ASSUME WantsParent(p), disk[i].type = "dir", Goto(p, After(p)), at' = [at EXCEPT ![p] = 0],
              dp' = [dp EXCEPT ![p] = i], UNCHANGED <<ref, path, ip>>
       PROVE  IInv'
  <2>1. After(p) \in {"linkat", "create", "unlink"} /\ After(p) \in Stages
    BY <1>7, <1>11 DEF Stages, HasDp
  <2>2. PICK l \in Stages : l = After(p)
    BY <2>1
  <2>3. /\ pc' \in [Proc -> Stages \cup Ends] /\ put' = put /\ ret' = ret
        /\ pc'[p] = l /\ Stage(p)' = l
        /\ \A q \in Proc \ {p} : pc'[q] = pc[q] /\ put'[q] = put[q] /\ ret'[q] = ret[q]
    BY <1>1, <1>11, <2>2, GotoGoes
  <2>4. ip'[p] = ip[p] /\ at'[p] = 0 /\ dp'[p] = i /\ put'[p] = 0 /\ path'[p] = path[p] /\ ret'[p] = "out"
    BY <1>1, <1>3, <1>11, <2>3 DEF TypeInv
  <2>5. LocalTypes' /\ Mine(p) /\ CacheTypes'
    BY <1>1, <1>2, <1>3, <1>6, <1>11, <2>3 DEF LocalTypes, CacheTypes, Mine, TypeInv
  <2>6. Shape(p)'
    BY <1>3, <1>7, <1>9, <1>11, <2>1, <2>2, <2>3, <2>4, Consts DEF Shape, Ends, HasDp, HasIp, Walks, Links
  <2>7. Valid(p)'
    <3>1. \A j \in Inum : (KeptDir(j) => KeptDir(j)') /\ (KeptLeaf(j) => KeptLeaf(j)')
      BY <1>2, <2>1, <2>2, <2>3, <2>5, QuietKeeps
    <3>2. KeptDir(i)
      BY <1>5, <1>11 DEF Kept, KeptDir
    <3>3. KeptDir(cwd[p])' /\ KeptDir(dp[p])' /\ (ip[p] # 0 => KeptLeaf(ip[p])')
      BY <1>3, <1>8, <1>9, <2>4, <3>1, <3>2 DEF KeptDir, KeptLeaf, Freed
    <3>4. QED
      BY <2>1, <2>2, <2>3, <2>4, <3>3 DEF Valid
  <2>8. LockStep(p)
    <3>1. \A j \in Inum : ~Owner(p, j)' /\ ~Owner(p, j)
      BY <1>2, <1>3, <2>1, <2>2, <2>3 DEF Owner
    <3>2. QED
      BY <1>1, <1>2, <3>1, SameLocks
  <2>9. Quiet(p)
    <3>1. \A j \in Inum : ref'[j] >= ref[j]
      BY <1>1, <1>11 DEF TypeInv
    <3>2. QED
      BY <1>2, <1>3, <1>6, <2>1, <2>2, <2>3, <3>1 DEF Quiet
  <2>10. \A j \in Inum : ref'[j] = ref[j] + Has(p, j)' - Has(p, j)
    <3>1. \A j \in Inum : Has(p, j)' = Has(p, j) /\ Has(p, j) \in Int
      BY <1>0, <1>3, <1>9, <2>4, Consts DEF Has, Is
    <3>2. QED
      BY <1>1, <1>11, <3>1 DEF TypeInv
  <2>11. QED
    BY <1>2, <2>5, <2>6, <2>7, <2>8, <2>9, <2>10, PlainStep
\* It goes on with the inode of the name, or the path ends there.
<1>12. ASSUME x # 0, Iget(x), path' = [path EXCEPT ![p] = rest], UNCHANGED dp,
              \/ /\ rest = <<>> /\ ~WantsParent(p) /\ Iput(p, i, After(p))
                 /\ at' = [at EXCEPT ![p] = 0] /\ ip' = [ip EXCEPT ![p] = x]
              \/ /\ rest # <<>> /\ Iput(p, i, "namex")
                 /\ at' = [at EXCEPT ![p] = x] /\ ip' = ip
       PROVE  IInv'
  <2>1. PICK l \in Stages :
          /\ Iput(p, i, l)
          /\ \/ /\ l \in {"open", "chdir", "link"} /\ l = call[p].op /\ ip[p] = 0
                /\ at' = [at EXCEPT ![p] = 0] /\ ip' = [ip EXCEPT ![p] = x]
             \/ /\ l = "namex" /\ rest # <<>>
                /\ at' = [at EXCEPT ![p] = x] /\ ip' = ip
    BY <1>7, <1>12 DEF Stages, HasIp
  <2>2. /\ pc' \in [Proc -> Stages \cup Ends] /\ ret' \in [Proc -> Stages]
        /\ put' \in [Proc -> Inum \cup {0}]
        /\ pc'[p] = "iput" /\ put'[p] = i /\ ret'[p] = l /\ Stage(p)' = l
        /\ \A q \in Proc \ {p} : pc'[q] = pc[q] /\ put'[q] = put[q] /\ ret'[q] = ret[q]
    BY <1>1, <1>3, <2>1, IputGoes
  <2>3. /\ dp'[p] = 0 /\ path'[p] = rest
        /\ IF l = "namex" THEN ip'[p] = ip[p] /\ at'[p] = x ELSE ip'[p] = x /\ at'[p] = 0
    BY <1>1, <1>3, <1>12, <2>1 DEF TypeInv
  <2>4. /\ ref' \in [Inum -> Nat] /\ x \in Inum
        /\ \A j \in Inum : ref'[j] = ref[j] + Is(x, j) /\ ref'[j] >= ref[j]
    BY <1>1, <1>4, <1>12, IgetCounts
  <2>5. LocalTypes' /\ Mine(p) /\ CacheTypes'
    <3>1. /\ at' \in [Proc -> Inum \cup {0}] /\ ip' \in [Proc -> Inum \cup {0}]
          /\ path' \in [Proc -> Seq(Entry)]
      BY <1>1, <1>4, <1>12, <2>1, <2>4 DEF TypeInv
    <3>2. \A q \in Proc \ {p} : at'[q] = at[q] /\ ip'[q] = ip[q] /\ path'[q] = path[q]
      BY <1>1, <1>12, <2>1 DEF TypeInv
    <3>3. QED
      BY <1>1, <1>2, <1>6, <1>12, <2>2, <2>4, <3>1, <3>2 DEF LocalTypes, CacheTypes, Mine, TypeInv
  <2>6. Shape(p)'
    BY <1>1, <1>3, <1>7, <1>9, <2>1, <2>2, <2>3, <2>4, Consts
       DEF Shape, Ends, HasDp, HasIp, Walks, Links
  <2>7. Valid(p)'
    <3>1. \A j \in Inum : (KeptDir(j) => KeptDir(j)') /\ (KeptLeaf(j) => KeptLeaf(j)')
      BY <1>2, <2>2, <2>5, QuietKeeps
    <3>2. KeptDir(cwd[p])' /\ (l = "namex" /\ ip'[p] # 0 => KeptLeaf(ip[p])')
      BY <1>8, <1>9, <2>3, <3>1 DEF KeptDir, KeptLeaf, Freed
    <3>3. QED
      BY <2>1, <2>2, <2>3, <3>2 DEF Valid
  <2>8. LockStep(p)
    <3>1. \A j \in Inum : ~Owner(p, j)' /\ ~Owner(p, j)
      BY <1>2, <1>3, <2>1, <2>2 DEF Owner
    <3>2. QED
      BY <1>1, <1>2, <3>1, SameLocks
  <2>9. Quiet(p)
    BY <1>2, <1>3, <1>6, <2>1, <2>2, <2>4 DEF Quiet
  <2>10. \A j \in Inum : ref'[j] = ref[j] + Has(p, j)' - Has(p, j)
    <3>1. \A j \in Inum : Has(p, j)' = Has(p, j) + Is(x, j) /\ Has(p, j) \in Int /\ Is(x, j) \in Int
      BY <1>0, <1>3, <1>9, <2>1, <2>2, <2>3, Consts DEF Has, Is
    <3>2. QED
      BY <1>1, <2>4, <3>1 DEF TypeInv
  <2>11. QED
    BY <1>2, <2>5, <2>6, <2>7, <2>8, <2>9, <2>10, PlainStep
<1>13. \/ /\ Iput(p, i, IF SecondPath(p) THEN "undo" ELSE "out")
          /\ at' = [at EXCEPT ![p] = 0] /\ UNCHANGED <<ref, path, dp, ip>>
       \/ /\ WantsParent(p) /\ disk[i].type = "dir" /\ Goto(p, After(p))
          /\ at' = [at EXCEPT ![p] = 0] /\ dp' = [dp EXCEPT ![p] = i] /\ UNCHANGED <<ref, path, ip>>
       \/ /\ x # 0 /\ Iget(x) /\ path' = [path EXCEPT ![p] = rest] /\ UNCHANGED dp
          /\ \/ /\ rest = <<>> /\ ~WantsParent(p) /\ Iput(p, i, After(p))
                /\ at' = [at EXCEPT ![p] = 0] /\ ip' = [ip EXCEPT ![p] = x]
             \/ /\ rest # <<>> /\ Iput(p, i, "namex")
                /\ at' = [at EXCEPT ![p] = x] /\ ip' = ip
  BY <1>0, <1>5 DEF Namex
<1>14. QED
  BY <1>10, <1>11, <1>12, <1>13

\* link, of a directory.
LEMMA LinkDirStep ==
  ASSUME IInv, NEW p \in Proc, pc[p] = "link", CanLock(ip[p]), Loads(ip[p]), PutIp(p),
         UNCHANGED <<disk, ref, path, at, used, ent, lock, files, call, dp, ends>>
  PROVE  IInv'
<1>1. /\ TypeInv /\ Shape(p) /\ Valid(p) /\ Locks /\ \A i \in Inum : Copied(i)
  BY DEF IInv
<1>2. /\ pc[p] = "link" /\ Iput(p, ip[p], "out") /\ ip' = [ip EXCEPT ![p] = 0]
      /\ UNCHANGED <<disk, used, ent, ref, lock, file, open, cwd, call, path, at, dp, raced>>
  BY DEF PutIp, files, ends
<1>3. Stage(p) = pc[p] /\ ip[p] \in Inum /\ put[p] = 0 /\ dp[p] = 0 /\ at[p] = 0
  <2>1. Stage(p) = pc[p] /\ put[p] = 0
    BY <1>1, <1>2, Outside DEF Ends
  <2>2. QED
    BY <1>1, <1>2, <2>1 DEF TypeInv, Shape, HasIp, HasDp
<1>4. Kept(ip[p])
  BY <1>1, <1>3, LockedKept
<1>5. /\ mem' \in [Inum -> Inode \cup {Nobody}]
      /\ \A j \in Inum : mem'[j] = mem[j] \/ (mem'[j] = Load(j) /\ disk[j].type # "none")
  BY <1>1, <1>3, <1>4, LoadsKeeps
<1>6. /\ pc' \in [Proc -> Stages \cup Ends] /\ ret' \in [Proc -> Stages]
      /\ put' \in [Proc -> Inum \cup {0}]
      /\ pc'[p] = "iput" /\ put'[p] = ip[p] /\ ret'[p] = "out" /\ Stage(p)' = "out"
      /\ \A q \in Proc \ {p} : pc'[q] = pc[q] /\ put'[q] = put[q] /\ ret'[q] = ret[q]
  BY <1>1, <1>2, <1>3, IputGoes DEF Stages
<1>7. ip'[p] = 0 /\ at'[p] = 0 /\ dp'[p] = 0 /\ cwd'[p] = cwd[p]
  BY <1>1, <1>2, <1>3 DEF TypeInv
<1>8. LocalTypes' /\ Mine(p) /\ CacheTypes'
  BY <1>1, <1>2, <1>5, <1>6 DEF LocalTypes, CacheTypes, Mine, TypeInv
<1>9. Shape(p)'
  BY <1>3, <1>6, <1>7, Consts DEF Shape, Ends, HasDp, HasIp, Walks, Links
<1>10. Valid(p)'
  <2>1. KeptDir(cwd[p])'
    BY <1>1, <1>2, <1>6, <1>8, QuietKeeps DEF Valid, TypeInv, KeptDir, Freed
  <2>2. QED
    BY <1>6, <1>7, <2>1 DEF Valid
<1>11. LockStep(p)
  <2>1. \A j \in Inum : ~Owner(p, j)' /\ ~Owner(p, j)
    BY <1>2, <1>3, <1>6 DEF Owner
  <2>2. QED
    BY <1>1, <1>2, <2>1, SameLocks
<1>12. Quiet(p)
  <2>1. \A j \in Inum : ref'[j] >= ref[j]
    BY <1>1, <1>2 DEF TypeInv
  <2>2. QED
    BY <1>2, <1>3, <1>5, <1>6, <2>1 DEF Quiet
<1>13. \A j \in Inum : ref'[j] = ref[j] + Has(p, j)' - Has(p, j)
  <2>1. \A j \in Inum : Has(p, j)' = Has(p, j) /\ Has(p, j) \in Int
    BY <1>3, <1>6, <1>7, Consts DEF Has, Is
  <2>2. QED
    BY <1>1, <1>2, <2>1 DEF TypeInv
<1>14. QED
  BY <1>2, <1>8, <1>9, <1>10, <1>11, <1>12, <1>13, PlainStep

\* unlink, of a directory that is not empty.
LEMMA UnlinkFullStep ==
  ASSUME IInv, NEW p \in Proc, pc[p] = "unlinkip", CanLock(ip[p]), Loads(ip[p]),
         Iput(p, ip[p], "unlinkbad"), ip' = [ip EXCEPT ![p] = 0],
         UNCHANGED <<disk, ent, lock, dp, used, ref, files, call, path, at, ends>>
  PROVE  IInv'
<1>1. /\ TypeInv /\ Shape(p) /\ Valid(p) /\ Locks /\ \A i \in Inum : Copied(i)
  BY DEF IInv
<1>2. UNCHANGED <<disk, used, ent, ref, lock, file, open, cwd, call, path, at, dp, raced>>
  BY DEF files, ends
<1>3. /\ Stage(p) = pc[p] /\ ip[p] \in Inum /\ put[p] = 0 /\ dp[p] \in Inum /\ at[p] = 0
      /\ call[p] \in Calls
  <2>1. Stage(p) = pc[p] /\ put[p] = 0
    BY <1>1, <1>2, Outside DEF Ends
  <2>2. QED
    BY <1>1, <1>2, <2>1 DEF TypeInv, Shape, HasIp, HasDp
<1>4. Kept(ip[p])
  BY <1>1, <1>3, LockedKept
<1>5. /\ mem' \in [Inum -> Inode \cup {Nobody}]
      /\ \A j \in Inum : mem'[j] = mem[j] \/ (mem'[j] = Load(j) /\ disk[j].type # "none")
  BY <1>1, <1>3, <1>4, LoadsKeeps
<1>6. /\ pc' \in [Proc -> Stages \cup Ends] /\ ret' \in [Proc -> Stages]
      /\ put' \in [Proc -> Inum \cup {0}]
      /\ pc'[p] = "iput" /\ put'[p] = ip[p] /\ ret'[p] = "unlinkbad" /\ Stage(p)' = "unlinkbad"
      /\ \A q \in Proc \ {p} : pc'[q] = pc[q] /\ put'[q] = put[q] /\ ret'[q] = ret[q]
  BY <1>1, <1>3, IputGoes DEF Stages, HasDp
<1>7. ip'[p] = 0 /\ at'[p] = 0 /\ dp'[p] = dp[p] /\ cwd'[p] = cwd[p] /\ call'[p] = call[p]
  BY <1>1, <1>2, <1>3 DEF TypeInv
<1>8. LocalTypes' /\ Mine(p) /\ CacheTypes'
  BY <1>1, <1>2, <1>5, <1>6 DEF LocalTypes, CacheTypes, Mine, TypeInv
<1>9. Shape(p)'
  BY <1>3, <1>6, <1>7, Consts DEF Shape, Ends, HasDp, HasIp, Walks, Links
<1>10. Valid(p)'
  <2>1. KeptDir(cwd[p]) /\ cwd[p] \in Inum /\ KeptDir(dp[p])
    BY <1>1, <1>3, Consts DEF Valid, TypeInv
  <2>2. \A j \in Inum : KeptDir(j) => KeptDir(j)'
    BY <1>2, <1>6, <1>8, QuietKeeps
  <2>3. KeptDir(cwd[p])' /\ KeptDir(dp[p])'
    BY <1>3, <1>7, <2>1, <2>2 DEF KeptDir, Freed
  <2>4. QED
    BY <1>6, <1>7, <2>3 DEF Valid
<1>11. LockStep(p)
  <2>1. \A j \in Inum : Owner(p, j)' <=> Owner(p, j)
    BY <1>3, <1>6, <1>7 DEF Owner
  <2>2. QED
    BY <1>1, <1>2, <2>1, SameLocks
<1>12. Quiet(p)
  <2>1. \A j \in Inum : ref'[j] >= ref[j]
    BY <1>1, <1>2 DEF TypeInv
  <2>2. QED
    BY <1>2, <1>3, <1>5, <1>6, <2>1 DEF Quiet
<1>13. \A j \in Inum : ref'[j] = ref[j] + Has(p, j)' - Has(p, j)
  <2>1. \A j \in Inum : Has(p, j)' = Has(p, j) /\ Has(p, j) \in Int
    BY <1>3, <1>6, <1>7, Consts DEF Has, Is
  <2>2. QED
    BY <1>1, <1>2, <2>1 DEF TypeInv
<1>14. QED
  BY <1>2, <1>8, <1>9, <1>10, <1>11, <1>12, <1>13, PlainStep

\* A panic changes nothing but panicked.
LEMMA StutterStep ==
  ASSUME IInv, UNCHANGED <<store, mem, ref, lock, files, pc, locals, put, ret, raced>>
  PROVE  IInv'
<1>1. UNCHANGED <<disk, used, ent, mem, ref, lock, file, open, cwd, pc, call, path, at, dp, ip, put,
                  ret, raced>>
  BY DEF store, files, locals
<1>2. \A p \in Proc : Stage(p)' = Stage(p)
  BY <1>1 DEF Stage
<1>3. \A i : Freed(i)' = Freed(i)
  BY <1>1 DEF Freed
<1>4. TypeInv' /\ FilesOpen'
  BY <1>1, <1>3 DEF IInv, TypeInv, FilesOpen, Kept
<1>5. Refs'
  BY <1>1 DEF IInv, Refs, Held, Count
<1>6. BlocksOwned'
  BY <1>1 DEF IInv, BlocksOwned
<1>7. \A p \in Proc : Shape(p)' /\ Valid(p)'
  BY <1>1, <1>2, <1>3 DEF IInv, Shape, Valid, Kept, KeptDir, KeptLeaf, NewType
<1>8. Locks'
  BY <1>1, <1>2 DEF IInv, Locks, Owner
<1>9. \A i \in Inum : Copied(i)'
  BY <1>1 DEF IInv, Copied
<1>10. \A i, j \in Inum : Edge(i, j)' => Edge(i, j)
  BY <1>1, <1>2 DEF Edge
<1>11. Acyclic'
  BY <1>10, AcyclicKept DEF IInv
<1>12. \A i \in Inum \ raced : ToBeFreed(i)'
  BY <1>1, <1>2 DEF IInv, ToBeFreed, Leaving
<1>13. QED
  BY <1>1, <1>4, <1>5, <1>6, <1>7, <1>8, <1>9, <1>11, <1>12 DEF IInv

-----------------------------------------------------------------------------
(* The steps that write inodes and directories. *)

\* A step that leaves nothing unused: the links of an inode stay, or there are some,
\* or p itself still has to put it.
Marked(p, i) ==
  \/ /\ disk'[i].nlink = disk[i].nlink /\ disk'[i].type = disk[i].type
     /\ mem[i] # Nobody => mem'[i] # Nobody
     /\ ~(Stage(p) = "fill" /\ ip[p] = i)
  \/ disk'[i].nlink # 0
  \/ /\ mem'[i] # Nobody \/ (Stage(p)' = "fill" /\ ip'[p] = i)
     /\ at'[p] = i \/ dp'[p] = i \/ ip'[p] = i \/ put'[p] = i

LEMMA SpareAll ==
  TypeInv /\ Refs => \A i \in Inum, p \in Proc : InHand(p, i) => ref[i] > Leaving(i)
BY Spare DEF InHand

LEMMA SpareNext ==
  (TypeInv /\ Refs => \A i \in Inum, p \in Proc : InHand(p, i) => ref[i] > Leaving(i))'
BY SpareAll, PTL

LEMMA LoudStep ==
  ASSUME IInv, TypeInv', NEW p \in Proc, Mine(p), Shape(p)', RefStep(p), LockStep(p),
         Valid(p)', FilesOpen', TypeStep, EntStep(p), \A i \in Inum : Copied(i)', Acyclic',
         BlocksOwned', raced' = raced, \A i \in Inum : ref'[i] >= ref[i] /\ Marked(p, i),
         pc[p] # "deref", pc'[p] # "deref"
  PROVE  IInv'
<1>1. /\ TypeInv /\ (\A q \in Proc : Shape(q)) /\ (\A q \in Proc : Valid(q)) /\ Refs /\ Locks
      /\ \A i \in Inum \ raced : ToBeFreed(i)
  BY DEF IInv
<1>2. (\A q \in Proc : Shape(q))' /\ (\A q \in Proc : Valid(q))' /\ Refs' /\ Locks'
  BY <1>1, ShapeKept, ValidKept, RefsKept, LocksKept
<1>3. ASSUME NEW i \in Inum \ raced' PROVE ToBeFreed(i)'
  <2>1. SUFFICES ASSUME disk'[i].nlink = 0, disk'[i].type # "none"
                 PROVE  /\ ref'[i] > Leaving(i)'
                        /\ mem'[i] # Nobody \/ \E q \in Proc : Stage(q)' = "fill" /\ ip'[q] = i
    BY DEF ToBeFreed
  <2>2. CASE /\ disk'[i].nlink = disk[i].nlink /\ disk'[i].type = disk[i].type
             /\ mem[i] # Nobody => mem'[i] # Nobody
             /\ ~(Stage(p) = "fill" /\ ip[p] = i)
    <3>1. ref[i] > Leaving(i) /\ (mem[i] # Nobody \/ \E q \in Proc : Stage(q) = "fill" /\ ip[q] = i)
      BY <1>1, <2>1, <2>2 DEF ToBeFreed
    <3>2. Leaving(i)' = Leaving(i)
      BY LeavingKept
    <3>3. Leaving(i) \in Nat
      <4>1. IsFiniteSet({q \in Proc : put[q] = i /\ pc[q] = "deref"})
        BY Consts, FS_Subset
      <4>2. QED
        BY <4>1, FS_CardinalityType DEF Leaving
    <3>4. ref'[i] > Leaving(i)'
      BY <1>1, <3>1, <3>2, <3>3 DEF TypeInv
    <3>5. CASE mem[i] # Nobody
      BY <2>2, <3>4, <3>5
    <3>6. CASE \E q \in Proc : Stage(q) = "fill" /\ ip[q] = i
      <4>1. PICK q \in Proc : Stage(q) = "fill" /\ ip[q] = i
        BY <3>6
      <4>2. q # p
        BY <2>2, <4>1
      <4>3. Stage(q)' = "fill" /\ ip'[q] = i
        BY <4>1, <4>2, StagesKept DEF Mine
      <4>4. QED
        BY <3>4, <4>3
    <3>7. QED
      BY <3>1, <3>5, <3>6
  <2>3. CASE /\ mem'[i] # Nobody \/ (Stage(p)' = "fill" /\ ip'[p] = i)
             /\ at'[p] = i \/ dp'[p] = i \/ ip'[p] = i \/ put'[p] = i
    <3>1. /\ TypeInv' /\ Refs'
          /\ at'[p] = i \/ dp'[p] = i \/ ip'[p] = i \/ cwd'[p] = i \/ (put'[p] = i /\ pc'[p] # "deref")
      BY <1>2, <2>3
    <3>2. ref'[i] > Leaving(i)'
      BY <3>1, SpareNext DEF InHand
    <3>3. QED
      BY <2>3, <3>2
  <2>4. QED
    BY <2>1, <2>2, <2>3 DEF Marked
<1>4. QED
  BY <1>2, <1>3 DEF IInv

LEMMA AddLinksIs ==
  ASSUME NEW n \in Inode, NEW k \in Int
  PROVE  /\ AddLinks(n, k) \in Inode /\ AddLinks(n, k).nlink = n.nlink + k
         /\ AddLinks(n, k).type = n.type /\ AddLinks(n, k).addr = n.addr
BY DEF AddLinks, Inode

\* An inode is written; entries stay.
LEMMA UpdateKeeps ==
  ASSUME TypeInv, \A j \in Inum : Copied(j), NEW i \in Inum, NEW n \in Inode,
         n.type = disk[i].type, n.type # "none", Updates(i, n), ent' = ent,
         \A j \in Inum : lock'[j] # Nobody => lock[j] # Nobody \/ j = i
  PROVE  /\ disk' \in [Inum -> Inode] /\ mem' \in [Inum -> Inode \cup {Nobody}]
         /\ disk'[i] = n /\ mem'[i] = n /\ n # Nobody
         /\ \A j \in Inum \ {i} : disk'[j] = disk[j] /\ mem'[j] = mem[j]
         /\ \A j \in Inum : Copied(j)' /\ disk'[j].type = disk[j].type
<1>1. /\ disk' \in [Inum -> Inode] /\ mem' \in [Inum -> Inode \cup {Nobody}]
      /\ disk'[i] = n /\ mem'[i] = n /\ n # Nobody
      /\ \A j \in Inum \ {i} : disk'[j] = disk[j] /\ mem'[j] = mem[j]
  BY Consts DEF Updates, TypeInv
<1>2. ASSUME NEW j \in Inum PROVE Copied(j)' /\ disk'[j].type = disk[j].type
  BY <1>1 DEF Copied
<1>3. QED
  BY <1>1, <1>2

\* The same blocks.
LEMMA SameBlocks ==
  ASSUME BlocksOwned, used' = used,
         \A j \in Inum : /\ disk'[j].addr = disk[j].addr
                         /\ disk'[j].type = "none" => disk[j].type = "none"
  PROVE  BlocksOwned'
<1>1. {disk'[i].addr : i \in Inum} = {disk[i].addr : i \in Inum}
  OBVIOUS
<1>2. QED
  BY <1>1 DEF BlocksOwned

\* A block for inode k.
LEMMA OneMoreBlock ==
  ASSUME BlocksOwned, NEW k \in Inum, NEW b, b \notin used, b # 0, used' = used \cup {b},
         disk[k].addr = 0, disk'[k].addr = b, disk'[k].type # "none",
         \A j \in Inum \ {k} : /\ disk'[j].addr = disk[j].addr
                               /\ disk'[j].type = "none" => disk[j].type = "none"
  PROVE  BlocksOwned'
<1>1. used = {disk[i].addr : i \in Inum} \ {0}
  BY DEF BlocksOwned
<1>2. \A j \in Inum : disk[j].addr # b
  BY <1>1
<1>3. used' = {disk'[i].addr : i \in Inum} \ {0}
  <2>1. ASSUME NEW x PROVE x \in used' <=> (x # 0 /\ \E i \in Inum : disk'[i].addr = x)
    BY <1>1
  <2>2. QED
    BY <2>1
<1>4. \A i, j \in Inum : disk'[i].addr = disk'[j].addr /\ i # j => disk'[i].addr = 0
  BY <1>2 DEF BlocksOwned
<1>5. \A i \in Inum : disk'[i].type = "none" => disk'[i].addr = 0
  BY DEF BlocksOwned
<1>6. QED
  BY <1>3, <1>4, <1>5 DEF BlocksOwned

\* balloc finds a block.
LEMMA BallocFree ==
  ASSUME used \subseteq Block, used # Block
  PROVE  Balloc \in Block /\ Balloc \notin used /\ Balloc # 0
<1>1. Block \subseteq Nat /\ 0 \notin Block
  BY FilesAssumption DEF Block, FilesAssumption
<1>2. \E x \in Block \ used : \A y \in Block \ used : x <= y
  <2>1. Block \ used # {} /\ Block \ used \subseteq Nat
    BY <1>1
  <2>2. QED
    BY <2>1, LeastExists
<1>3. QED
  BY <1>1, <1>2 DEF Balloc

\* The edges of the graph when entries stay and p does not come to "fill".
LEMMA SameEdges ==
  ASSUME Acyclic, NEW p \in Proc, Mine(p), Stage(p)' # "fill", ent' = ent
  PROVE  Acyclic'
<1>1. ASSUME NEW i \in Inum, NEW j \in Inum, Edge(i, j)' PROVE Edge(i, j)
  <2>1. CASE \E n \in Name : ent'[i][n] = j
    BY <2>1 DEF Edge
  <2>2. CASE \E q \in Proc : Stage(q)' = "fill" /\ dp'[q] = i /\ ip'[q] = j
    <3>1. PICK q \in Proc : Stage(q)' = "fill" /\ dp'[q] = i /\ ip'[q] = j
      BY <2>2
    <3>2. Stage(q) = "fill" /\ dp[q] = i /\ ip[q] = j
      BY <3>1, StagesKept DEF Mine
    <3>3. QED
      BY <3>2 DEF Edge
  <2>3. QED
    BY <1>1, <2>1, <2>2 DEF Edge
<1>2. QED
  BY <1>1, AcyclicKept

\* No new step of iput that frees.
LEMMA LoudKeeps ==
  ASSUME NEW p \in Proc, Mine(p), pc'[p] # "ifree",
         \A i \in Inum : Kept(i) => disk'[i].type = disk[i].type
  PROVE  /\ TypeStep
         /\ \A i \in Inum : /\ Kept(i) => Kept(i)'
                            /\ KeptDir(i) => KeptDir(i)'
                            /\ KeptLeaf(i) => KeptLeaf(i)'
<1>1. ASSUME NEW i \in Inum, Freed(i)' PROVE Freed(i)
  <2>1. PICK r \in Proc : pc'[r] = "ifree" /\ put'[r] = i
    BY <1>1 DEF Freed
  <2>2. r # p
    BY <2>1
  <2>3. QED
    BY <2>1, <2>2 DEF Mine, Freed
<1>2. TypeStep
  BY <1>1 DEF TypeStep
<1>3. QED
  BY <1>2 DEF TypeStep, Kept, KeptDir, KeptLeaf

LEMMA WriteStep ==
  ASSUME IInv, NEW p \in Proc, NEW f \in File, Write(p, f)
  PROVE  IInv'
<1>1. /\ TypeInv /\ Shape(p) /\ Valid(p) /\ Locks /\ FilesOpen /\ (\A j \in Inum : Copied(j))
      /\ Acyclic /\ BlocksOwned
  BY DEF IInv
<1>2. CASE used = Block
  <2>1. UNCHANGED <<store, mem, ref, lock, files, pc, locals, put, ret, raced>>
    BY <1>2 DEF Write, store
  <2>2. QED
    BY <2>1, StutterStep
<1>3. CASE used # Block
  <2>1. PICK i, b : i = file[f] /\ b = Balloc
    OBVIOUS
  <2>2. /\ pc[p] = "out" /\ f \in open[p] /\ CanLock(i) /\ Load(i).type = "file" /\ Load(i).addr = 0
        /\ Updates(i, [Load(i) EXCEPT !.addr = b]) /\ used' = used \cup {b}
        /\ UNCHANGED <<ent, ref, lock, file, open, cwd, pc, call, path, at, dp, ip, put, ret, raced>>
    BY <1>3, <2>1 DEF Write, files, locals
  <2>3. i \in Inum
    BY <1>1, <2>1, <2>2 DEF FilesOpen, TypeInv
  <2>4. Load(i) = disk[i] /\ disk[i] \in Inode
    BY <1>1, <2>2, <2>3, LockedKept DEF TypeInv
  <2>5. b \in Block /\ b \notin used /\ b # 0
    BY <1>1, <1>3, <2>1, BallocFree DEF TypeInv
  <2>6. PICK n \in Inode : /\ n.type = disk[i].type /\ n.nlink = disk[i].nlink /\ n.addr = b
                           /\ Updates(i, n)
    BY <2>2, <2>4, <2>5 DEF Inode
  <2>7. /\ disk' \in [Inum -> Inode] /\ mem' \in [Inum -> Inode \cup {Nobody}]
        /\ disk'[i] = n /\ mem'[i] = n /\ n # Nobody
        /\ \A j \in Inum \ {i} : disk'[j] = disk[j] /\ mem'[j] = mem[j]
        /\ \A j \in Inum : Copied(j)' /\ disk'[j].type = disk[j].type
    BY <1>1, <2>2, <2>3, <2>4, <2>6, UpdateKeeps
  <2>8. TypeInv' /\ Mine(p)
    <3>1. used' \subseteq Block
      BY <1>1, <2>2, <2>5 DEF TypeInv
    <3>2. QED
      BY <1>1, <2>2, <2>7, <3>1 DEF TypeInv, Mine
  <2>9. Stage(p) = "out" /\ Stage(p)' = "out"
    BY <2>2 DEF Stage
  <2>10. /\ TypeStep
         /\ \A j \in Inum : KeptDir(j) => KeptDir(j)'
    BY <2>2, <2>7, <2>8, LoudKeeps
  <2>11. Shape(p)'
    BY <1>1, <2>2, <2>9 DEF Shape
  <2>12. Valid(p)'
    <3>1. KeptDir(cwd[p]) /\ cwd[p] \in Inum /\ dp[p] = 0 /\ ip[p] = 0
      BY <1>1, <2>9 DEF Valid, Shape, TypeInv, HasDp, HasIp
    <3>2. KeptDir(cwd[p])'
      BY <2>2, <2>10, <3>1 DEF KeptDir, Freed
    <3>3. QED
      BY <2>2, <2>9, <3>1, <3>2 DEF Valid
  <2>13. LockStep(p)
    <3>1. \A j \in Inum : Owner(p, j)' <=> Owner(p, j)
      BY <2>2, <2>9 DEF Owner
    <3>2. QED
      BY <1>1, <2>2, <3>1, SameLocks
  <2>14. RefStep(p)
    <3>1. \A j \in Inum : Has(p, j)' = Has(p, j) /\ Has(p, j) \in Int
      BY <2>2 DEF Has, Is
    <3>2. \A j \in Inum : ref'[j] = ref[j] + Has(p, j)' - Has(p, j)
      BY <1>1, <2>2, <3>1 DEF TypeInv
    <3>3. QED
      BY <1>1, <2>2, <3>2, RefsInFiles DEF TypeInv
  <2>15. FilesOpen' /\ EntStep(p)
    BY <1>1, <2>2, <2>10, FilesKept DEF EntStep
  <2>16. Acyclic'
    BY <1>1, <2>2, <2>8, <2>9, SameEdges
  <2>17. BlocksOwned'
    BY <1>1, <2>2, <2>3, <2>4, <2>5, <2>6, <2>7, OneMoreBlock
  <2>18. \A j \in Inum : ref'[j] >= ref[j] /\ Marked(p, j)
    <3>1. \A j \in Inum : ref'[j] >= ref[j]
      BY <1>1, <2>2 DEF TypeInv
    <3>2. \A j \in Inum : /\ disk'[j].nlink = disk[j].nlink /\ disk'[j].type = disk[j].type
                          /\ mem[j] # Nobody => mem'[j] # Nobody
      BY <2>6, <2>7
    <3>3. QED
      BY <2>9, <3>1, <3>2 DEF Marked
  <2>19. QED
    BY <2>2, <2>7, <2>8, <2>10, <2>11, <2>12, <2>13, <2>14, <2>15, <2>16, <2>17, <2>18, LoudStep
<1>4. QED
  BY <1>2, <1>3

\* link counts, of an inode that is no directory.
LEMMA LinkCountStep ==
  ASSUME IInv, NEW p \in Proc, LinkCount(p), Load(ip[p]).type # "dir"
  PROVE  IInv'
<1>1. /\ TypeInv /\ Shape(p) /\ Valid(p) /\ Locks /\ FilesOpen /\ (\A j \in Inum : Copied(j))
      /\ Acyclic /\ BlocksOwned
  BY DEF IInv
<1>2. PICK i : i = ip[p]
  OBVIOUS
<1>3. /\ pc[p] = "link" /\ CanLock(i) /\ Updates(i, AddLinks(Load(i), 1)) /\ Walk(p, call[p].new)
      /\ UNCHANGED <<used, ent, lock, file, open, cwd, call, dp, ip, raced>>
  BY <1>2 DEF LinkCount, files, ends
<1>4. /\ Stage(p) = pc[p] /\ i \in Inum /\ put[p] = 0 /\ dp[p] = 0 /\ at[p] = 0 /\ ret[p] = "out"
      /\ call[p] \in Calls /\ call[p].op = "link"
  <2>1. Stage(p) = pc[p] /\ put[p] = 0 /\ ret[p] = "out"
    BY <1>1, <1>3, Outside DEF Ends
  <2>2. QED
    BY <1>1, <1>2, <1>3, <2>1 DEF TypeInv, Shape, HasIp, HasDp, Links
<1>5. Kept(i) /\ Load(i) = disk[i] /\ disk[i] \in Inode
  BY <1>1, <1>3, <1>4, LockedKept DEF TypeInv
<1>6. PICK n \in Inode : n.type = disk[i].type /\ n.addr = disk[i].addr /\ Updates(i, n)
  BY <1>3, <1>5, AddLinksIs
<1>7. /\ disk' \in [Inum -> Inode] /\ mem' \in [Inum -> Inode \cup {Nobody}]
      /\ disk'[i] = n /\ mem'[i] = n /\ n # Nobody
      /\ \A j \in Inum \ {i} : disk'[j] = disk[j] /\ mem'[j] = mem[j]
      /\ \A j \in Inum : Copied(j)' /\ disk'[j].type = disk[j].type
  BY <1>1, <1>3, <1>4, <1>5, <1>6, UpdateKeeps DEF Kept
<1>8. PICK x \in Inum :
        /\ at' = [at EXCEPT ![p] = x]
        /\ path' \in [Proc -> Seq(Entry)] /\ path'[p] # <<>>
        /\ \A q \in Proc \ {p} : path'[q] = path[q]
        /\ ref' \in [Inum -> Nat]
        /\ \A j \in Inum : ref'[j] = ref[j] + Is(x, j) /\ ref'[j] >= ref[j]
        /\ pc' \in [Proc -> Stages \cup Ends] /\ put' = put /\ ret' = ret
        /\ pc'[p] = "namex" /\ Stage(p)' = "namex"
        /\ \A q \in Proc \ {p} : pc'[q] = pc[q] /\ put'[q] = put[q] /\ ret'[q] = ret[q]
  <2>1. IsPath(call[p].new)
    BY <1>4, FilesAssumption DEF FilesAssumption
  <2>2. QED
    BY <1>1, <1>3, <2>1, WalkGoes
<1>9. /\ ip'[p] = i /\ at'[p] = x /\ dp'[p] = 0 /\ cwd'[p] = cwd[p] /\ call'[p] = call[p]
      /\ put'[p] = 0 /\ ret'[p] = "out"
  BY <1>1, <1>2, <1>3, <1>4, <1>8 DEF TypeInv
<1>10. TypeInv' /\ Mine(p)
  <2>1. at' \in [Proc -> Inum \cup {0}] /\ \A q \in Proc \ {p} : at'[q] = at[q]
    BY <1>1, <1>8 DEF TypeInv
  <2>2. QED
    BY <1>1, <1>3, <1>7, <1>8, <2>1 DEF Mine, TypeInv
<1>11. /\ TypeStep
       /\ \A j \in Inum : (KeptDir(j) => KeptDir(j)') /\ (KeptLeaf(j) => KeptLeaf(j)')
  BY <1>7, <1>8, <1>10, LoudKeeps
<1>12. Shape(p)'
  BY <1>4, <1>8, <1>9, Consts DEF Shape, Ends, HasDp, HasIp, Walks, Links
<1>13. Valid(p)'
  <2>1. KeptDir(cwd[p]) /\ cwd[p] \in Inum /\ KeptLeaf(i)
    BY <1>1, <1>2, <1>5 DEF Valid, TypeInv, Kept, KeptLeaf
  <2>2. KeptDir(cwd[p])' /\ KeptLeaf(ip[p])'
    BY <1>4, <1>9, <1>11, <2>1 DEF KeptDir, KeptLeaf, Freed
  <2>3. QED
    BY <1>8, <1>9, <2>2 DEF Valid
<1>14. LockStep(p)
  <2>1. \A j \in Inum : ~Owner(p, j)' /\ ~Owner(p, j)
    BY <1>3, <1>4, <1>8 DEF Owner
  <2>2. QED
    BY <1>1, <1>3, <2>1, SameLocks
<1>15. RefStep(p)
  <2>1. \A j \in Inum : Has(p, j)' = Has(p, j) + Is(x, j) /\ Has(p, j) \in Int /\ Is(x, j) \in Int
    BY <1>2, <1>4, <1>9, Consts DEF Has, Is
  <2>2. \A j \in Inum : ref'[j] = ref[j] + Has(p, j)' - Has(p, j)
    BY <1>1, <1>8, <2>1 DEF TypeInv
  <2>3. QED
    BY <1>1, <1>3, <2>2, RefsInFiles DEF TypeInv
<1>16. FilesOpen' /\ EntStep(p)
  BY <1>1, <1>3, <1>11, FilesKept DEF EntStep
<1>17. Acyclic'
  BY <1>1, <1>3, <1>8, <1>10, SameEdges
<1>18. BlocksOwned'
  BY <1>1, <1>3, <1>6, <1>7, SameBlocks
<1>19. \A j \in Inum : Marked(p, j)
  BY <1>3, <1>4, <1>7, <1>9 DEF Marked
<1>20. QED
  BY <1>3, <1>7, <1>8, <1>10, <1>11, <1>12, <1>13, <1>14, <1>15, <1>16, <1>17, <1>18, <1>19, LoudStep

\* A link is counted off, and its inode put.
LEMMA CountOffStep ==
  ASSUME IInv, NEW p \in Proc, LinkUndo(p) \/ UnlinkCount(p)
  PROVE  IInv'
<1>1. /\ TypeInv /\ Shape(p) /\ Valid(p) /\ Locks /\ FilesOpen /\ (\A j \in Inum : Copied(j))
      /\ Acyclic /\ BlocksOwned
  BY DEF IInv
<1>2. PICK i : i = ip[p]
  OBVIOUS
<1>3. /\ pc[p] \in {"undo", "unlinked"} /\ PutIp(p)
      /\ UNCHANGED <<used, ent, ref, file, open, cwd, call, path, at, dp, raced>>
  BY DEF LinkUndo, UnlinkCount, files, ends
<1>4. /\ Stage(p) = pc[p] /\ i \in Inum /\ put[p] = 0 /\ dp[p] = 0 /\ at[p] = 0 /\ ret[p] = "out"
  <2>1. Stage(p) = pc[p] /\ put[p] = 0 /\ ret[p] = "out"
    BY <1>1, <1>3, Outside DEF Ends
  <2>2. QED
    BY <1>1, <1>2, <1>3, <2>1 DEF TypeInv, Shape, HasIp, HasDp, Links
<1>5. /\ Updates(i, AddLinks(disk[i], -1)) /\ Kept(i)
      /\ \/ pc[p] = "undo" /\ lock' = lock
         \/ pc[p] = "unlinked" /\ lock[i] = p /\ lock' = [lock EXCEPT ![i] = Nobody]
  <2>1. CASE LinkUndo(p)
    <3>1. CanLock(i) /\ Updates(i, AddLinks(Load(i), -1)) /\ lock' = lock /\ pc[p] = "undo"
      BY <1>2, <2>1 DEF LinkUndo
    <3>2. QED
      BY <1>1, <1>4, <3>1, LockedKept
  <2>2. CASE UnlinkCount(p)
    <3>1. Updates(i, AddLinks(mem[i], -1)) /\ lock' = [lock EXCEPT ![i] = Nobody] /\ pc[p] = "unlinked"
      BY <1>2, <2>2 DEF UnlinkCount
    <3>2. lock[i] = p /\ Kept(i)
      BY <1>1, <1>2, <1>4, <3>1 DEF Locks, Owner, Valid
    <3>3. mem[i] = disk[i]
      BY <1>1, <1>4, <3>2, Consts DEF Copied
    <3>4. QED
      BY <3>1, <3>2, <3>3
  <2>3. QED
    BY <2>1, <2>2
<1>6. PICK n \in Inode : n.type = disk[i].type /\ n.addr = disk[i].addr /\ Updates(i, n)
  <2>1. disk[i] \in Inode
    BY <1>1, <1>4 DEF TypeInv
  <2>2. QED
    BY <1>5, <2>1, AddLinksIs
<1>7. \A j \in Inum : lock'[j] # Nobody => lock[j] # Nobody /\ lock'[j] = lock[j]
  BY <1>1, <1>5 DEF TypeInv
<1>8. /\ disk' \in [Inum -> Inode] /\ mem' \in [Inum -> Inode \cup {Nobody}]
      /\ disk'[i] = n /\ mem'[i] = n /\ n # Nobody
      /\ \A j \in Inum \ {i} : disk'[j] = disk[j] /\ mem'[j] = mem[j]
      /\ \A j \in Inum : Copied(j)' /\ disk'[j].type = disk[j].type
  BY <1>1, <1>3, <1>4, <1>5, <1>6, <1>7, UpdateKeeps DEF Kept
<1>9. /\ pc' \in [Proc -> Stages \cup Ends] /\ ret' \in [Proc -> Stages]
      /\ put' \in [Proc -> Inum \cup {0}]
      /\ pc'[p] = "iput" /\ put'[p] = i /\ ret'[p] = "out" /\ Stage(p)' = "out"
      /\ \A q \in Proc \ {p} : pc'[q] = pc[q] /\ put'[q] = put[q] /\ ret'[q] = ret[q]
  BY <1>1, <1>2, <1>3, <1>4, IputGoes DEF Stages, PutIp
<1>10. ip' = [ip EXCEPT ![p] = 0] /\ ip'[p] = 0 /\ at'[p] = 0 /\ dp'[p] = 0 /\ cwd'[p] = cwd[p]
  BY <1>1, <1>3, <1>4 DEF TypeInv, PutIp
<1>11. TypeInv' /\ Mine(p)
  <2>1. lock' \in [Inum -> Proc \cup {Nobody}]
    BY <1>1, <1>5 DEF TypeInv
  <2>2. ip' \in [Proc -> Inum \cup {0}] /\ \A q \in Proc \ {p} : ip'[q] = ip[q]
    BY <1>1, <1>10 DEF TypeInv
  <2>3. QED
    BY <1>1, <1>3, <1>8, <1>9, <2>1, <2>2 DEF Mine, TypeInv
<1>12. /\ TypeStep
       /\ \A j \in Inum : KeptDir(j) => KeptDir(j)'
  BY <1>8, <1>9, <1>11, LoudKeeps
<1>13. Shape(p)'
  BY <1>4, <1>9, <1>10, Consts DEF Shape, Ends, HasDp, HasIp, Walks, Links
<1>14. Valid(p)'
  <2>1. KeptDir(cwd[p]) /\ cwd[p] \in Inum
    BY <1>1 DEF Valid, TypeInv
  <2>2. KeptDir(cwd[p])'
    BY <1>10, <1>12, <2>1 DEF KeptDir, Freed
  <2>3. QED
    BY <1>9, <1>10, <2>2 DEF Valid
<1>15. LockStep(p)
  <2>1. \A j \in Inum : ~Owner(p, j)'
    BY <1>9, <1>10 DEF Owner
  <2>2. \A j \in Inum : lock[j] = p <=> j = i /\ pc[p] = "unlinked"
    BY <1>1, <1>2, <1>3, <1>4 DEF Locks, Owner
  <2>3. \A j \in Inum : lock'[j] = lock[j] \/ (lock[j] = p /\ lock'[j] = Nobody)
    BY <1>1, <1>5 DEF TypeInv
  <2>4. \A j \in Inum : lock'[j] # p
    BY <1>1, <1>4, <1>5, <2>2, Consts DEF TypeInv
  <2>5. QED
    BY <2>1, <2>3, <2>4 DEF LockStep
<1>16. RefStep(p)
  <2>1. \A j \in Inum : Has(p, j)' = Has(p, j) /\ Has(p, j) \in Int
    BY <1>2, <1>4, <1>9, <1>10, Consts DEF Has, Is
  <2>2. \A j \in Inum : ref'[j] = ref[j] + Has(p, j)' - Has(p, j)
    BY <1>1, <1>3, <2>1 DEF TypeInv
  <2>3. QED
    BY <1>1, <1>3, <2>2, RefsInFiles DEF TypeInv
<1>17. FilesOpen' /\ EntStep(p)
  BY <1>1, <1>3, <1>12, FilesKept DEF EntStep
<1>18. Acyclic'
  BY <1>1, <1>3, <1>9, <1>11, SameEdges
<1>19. BlocksOwned'
  BY <1>1, <1>3, <1>6, <1>8, SameBlocks
<1>20. \A j \in Inum : ref'[j] >= ref[j] /\ Marked(p, j)
  <2>1. \A j \in Inum : ref'[j] >= ref[j]
    BY <1>1, <1>3 DEF TypeInv
  <2>2. \A j \in Inum : Marked(p, j)
    BY <1>3, <1>4, <1>8, <1>9 DEF Marked
  <2>3. QED
    BY <2>1, <2>2
<1>21. QED
  BY <1>3, <1>8, <1>9, <1>11, <1>12, <1>13, <1>14, <1>15, <1>16, <1>17, <1>18, <1>19, <1>20, LoudStep

\* No directory is being filled or entered that is not one.
LEMMA LeafEdges ==
  ASSUME TypeInv, \A q \in Proc : Shape(q), \A q \in Proc : Valid(q), NEW i \in Inum, Copied(i),
         disk[i].type # "dir"
  PROVE  \A j \in Inum : ~Edge(i, j)
<1>1. \A n \in Name : ent[i][n] = 0
  BY Consts DEF Copied
<1>2. \A q \in Proc : dp[q] # i
  <2>1. \A q \in Proc : dp[q] # 0 => disk[dp[q]].type = "dir"
    BY DEF Valid, KeptDir
  <2>2. QED
    BY <2>1, Consts
<1>3. QED
  BY <1>1, <1>2, Consts DEF Edge

\* link, of a new name.
LEMMA LinkEnterStep ==
  ASSUME IInv, NEW p \in Proc, LinkEnter(p), Lookup(dp[p], Head(path[p])) = 0
  PROVE  IInv'
<1>1. /\ TypeInv /\ Shape(p) /\ Valid(p) /\ Locks /\ FilesOpen /\ (\A j \in Inum : Copied(j))
      /\ Acyclic /\ BlocksOwned /\ (\A q \in Proc : Shape(q)) /\ (\A q \in Proc : Valid(q))
  BY DEF IInv
<1>2. PICK d, i, h : d = dp[p] /\ i = ip[p] /\ h = Head(path[p])
  OBVIOUS
<1>3. /\ pc[p] = "linkat" /\ CanLock(d) /\ Loads(d) /\ ent' = [ent EXCEPT ![d][h] = i]
      /\ Iput(p, d, "linked") /\ dp' = [dp EXCEPT ![p] = 0]
      /\ UNCHANGED <<disk, used, ref, lock, file, open, cwd, call, path, at, ip, raced>>
  BY <1>2 DEF LinkEnter, PutDp, files, ends
<1>4. /\ Stage(p) = pc[p] /\ d \in Inum /\ i \in Inum /\ put[p] = 0 /\ at[p] = 0 /\ ret[p] = "out"
      /\ path[p] # <<>> /\ call[p] \in Calls /\ call[p].op = "link"
  <2>1. Stage(p) = pc[p] /\ put[p] = 0 /\ ret[p] = "out"
    BY <1>1, <1>3, Outside DEF Ends
  <2>2. QED
    BY <1>1, <1>2, <1>3, <2>1 DEF TypeInv, Shape, HasIp, HasDp, Walks, Links
<1>5. h \in Entry
  BY <1>1, <1>2, <1>4, HeadOf
<1>6. Kept(d) /\ Load(d) = disk[d] /\ lock[d] = Nobody /\ KeptDir(d) /\ KeptLeaf(i) /\ d # i
  <2>1. Kept(d) /\ Load(d) = disk[d] /\ lock[d] = Nobody
    BY <1>1, <1>3, <1>4, LockedKept
  <2>2. KeptDir(d) /\ KeptLeaf(i)
    BY <1>1, <1>2, <1>3, <1>4, Consts DEF Valid
  <2>3. QED
    BY <2>1, <2>2 DEF KeptDir, KeptLeaf
<1>7. /\ mem' \in [Inum -> Inode \cup {Nobody}] /\ mem'[d] # Nobody
      /\ \A j \in Inum : mem'[j] = mem[j] \/ (mem'[j] = Load(j) /\ disk[j].type # "none")
  BY <1>1, <1>3, <1>4, <1>6, LoadsKeeps
<1>8. /\ pc' \in [Proc -> Stages \cup Ends] /\ ret' \in [Proc -> Stages]
      /\ put' \in [Proc -> Inum \cup {0}]
      /\ pc'[p] = "iput" /\ put'[p] = d /\ ret'[p] = "linked" /\ Stage(p)' = "linked"
      /\ \A q \in Proc \ {p} : pc'[q] = pc[q] /\ put'[q] = put[q] /\ ret'[q] = ret[q]
  BY <1>1, <1>3, <1>4, IputGoes DEF Stages, HasIp
<1>9. /\ ip'[p] = i /\ at'[p] = 0 /\ dp'[p] = 0 /\ cwd'[p] = cwd[p] /\ call'[p] = call[p]
      /\ path'[p] = path[p]
  BY <1>1, <1>2, <1>3, <1>4 DEF TypeInv
<1>10. /\ ent' \in [Inum -> [Entry -> Inum \cup {0}]]
       /\ \A j \in Inum \ {d} : ent'[j] = ent[j]
       /\ \A n \in Entry : ent'[d][n] = IF n = h THEN i ELSE ent[d][n]
  BY <1>1, <1>3, <1>4, <1>5 DEF TypeInv
<1>11. TypeInv' /\ Mine(p)
  <2>1. dp' \in [Proc -> Inum \cup {0}] /\ \A q \in Proc \ {p} : dp'[q] = dp[q]
    BY <1>1, <1>3 DEF TypeInv
  <2>2. QED
    BY <1>1, <1>3, <1>7, <1>8, <1>10, <2>1 DEF Mine, TypeInv
<1>12. /\ TypeStep
       /\ \A j \in Inum : (KeptDir(j) => KeptDir(j)') /\ (KeptLeaf(j) => KeptLeaf(j)')
  BY <1>3, <1>8, <1>11, LoudKeeps
<1>13. Shape(p)'
  BY <1>4, <1>8, <1>9, Consts DEF Shape, Ends, HasDp, HasIp, Walks, Links
<1>14. Valid(p)'
  <2>1. KeptDir(cwd[p]) /\ cwd[p] \in Inum
    BY <1>1 DEF Valid, TypeInv
  <2>2. KeptDir(cwd[p])' /\ KeptLeaf(ip[p])'
    BY <1>4, <1>6, <1>9, <1>12, <2>1 DEF KeptDir, KeptLeaf, Freed
  <2>3. QED
    BY <1>8, <1>9, <2>2 DEF Valid
<1>15. LockStep(p)
  <2>1. \A j \in Inum : ~Owner(p, j)' /\ ~Owner(p, j)
    BY <1>3, <1>4, <1>8 DEF Owner
  <2>2. QED
    BY <1>1, <1>3, <2>1, SameLocks
<1>16. RefStep(p)
  <2>1. \A j \in Inum : Has(p, j)' = Has(p, j) /\ Has(p, j) \in Int
    BY <1>2, <1>4, <1>8, <1>9, Consts DEF Has, Is
  <2>2. \A j \in Inum : ref'[j] = ref[j] + Has(p, j)' - Has(p, j)
    BY <1>1, <1>3, <2>1 DEF TypeInv
  <2>3. QED
    BY <1>1, <1>3, <2>2, RefsInFiles DEF TypeInv
<1>17. FilesOpen' /\ EntStep(p)
  BY <1>1, <1>3, <1>6, <1>10, <1>12, FilesKept DEF EntStep
<1>18. \A j \in Inum : Copied(j)'
  <2>1. ASSUME NEW j \in Inum PROVE Copied(j)'
    <3>1. Copied(j) /\ Load(j) = disk[j] /\ disk'[j] = disk[j] /\ lock'[j] = lock[j]
      BY <1>1, <1>3, CopiedLoad
    <3>2. j = d => disk[j].type = "dir"
      BY <1>6 DEF KeptDir
    <3>3. disk[j] # Nobody
      BY <1>1, Consts DEF TypeInv
    <3>4. QED
      BY <1>7, <1>10, <3>1, <3>2, <3>3 DEF Copied
  <2>2. QED
    BY <2>1
<1>19. Acyclic'
  <2>1. ASSUME NEW a \in Inum, NEW b \in Inum, Edge(a, b)' PROVE Edge(a, b) \/ (a = d /\ b = i)
    <3>1. CASE \E n \in Name : ent'[a][n] = b
      BY <1>10, <3>1, Consts DEF Edge
    <3>2. CASE \E q \in Proc : Stage(q)' = "fill" /\ dp'[q] = a /\ ip'[q] = b
      <4>1. PICK q \in Proc : Stage(q)' = "fill" /\ dp'[q] = a /\ ip'[q] = b
        BY <3>2
      <4>2. q # p
        BY <1>8, <4>1
      <4>3. Stage(q) = "fill" /\ dp[q] = a /\ ip[q] = b
        BY <1>11, <4>1, <4>2, StagesKept DEF Mine
      <4>4. QED
        BY <4>3 DEF Edge
    <3>3. QED
      BY <2>1, <3>1, <3>2 DEF Edge
  <2>2. \A j \in Inum : ~Edge(i, j)
    BY <1>1, <1>4, <1>6, LeafEdges DEF KeptLeaf
  <2>3. \A j \in Inum : ~Edge(i, j)'
    BY <1>4, <1>6, <2>1, <2>2
  <2>4. QED
    BY <1>1, <1>4, <2>1, <2>3, AcyclicLeaf
<1>20. BlocksOwned'
  BY <1>1, <1>3, SameBlocks
<1>21. \A j \in Inum : ref'[j] >= ref[j] /\ Marked(p, j)
  <2>1. \A j \in Inum : ref'[j] >= ref[j]
    BY <1>1, <1>3 DEF TypeInv
  <2>2. \A j \in Inum : mem[j] # Nobody => mem'[j] # Nobody
    BY <1>7 DEF Load
  <2>3. \A j \in Inum : Marked(p, j)
    BY <1>3, <1>4, <2>2 DEF Marked
  <2>4. QED
    BY <2>1, <2>3
<1>22. QED
  BY <1>3, <1>8, <1>11, <1>12, <1>13, <1>14, <1>15, <1>16, <1>17, <1>18, <1>19, <1>20, <1>21, LoudStep

\* create, of a new name: ialloc.
LEMMA CreateNewStep ==
  ASSUME IInv, NEW p \in Proc, CreateLook(p), Lookup(dp[p], Head(path[p])) = 0
  PROVE  IInv'
<1>1. /\ TypeInv /\ Shape(p) /\ Valid(p) /\ Locks /\ FilesOpen /\ (\A j \in Inum : Copied(j))
      /\ Acyclic /\ BlocksOwned /\ (\A q \in Proc : Shape(q)) /\ (\A q \in Proc : Valid(q))
  BY DEF IInv
<1>2. PICK d, t : d = dp[p] /\ t = NewType(p)
  OBVIOUS
<1>3. PICK i \in Inum :
        /\ disk[i].type = "none" /\ disk' = [disk EXCEPT ![i] = [FreeInode EXCEPT !.type = t]]
        /\ Iget(i) /\ ip' = [ip EXCEPT ![p] = i]
  BY <1>2 DEF CreateLook
<1>4. /\ pc[p] = "create" /\ CanLock(d) /\ Loads(d) /\ lock' = [lock EXCEPT ![d] = p]
      /\ Goto(p, "fill")
      /\ UNCHANGED <<used, ent, file, open, cwd, call, path, at, dp, raced>>
  BY <1>2 DEF CreateLook, files, ends
<1>5. /\ Stage(p) = pc[p] /\ d \in Inum /\ put[p] = 0 /\ at[p] = 0 /\ ip[p] = 0 /\ ret[p] = "out"
      /\ path[p] # <<>> /\ call[p] \in Calls /\ call[p].op \in {"creat", "mkdir", "mknod"}
  <2>1. Stage(p) = pc[p] /\ put[p] = 0 /\ ret[p] = "out"
    BY <1>1, <1>4, Outside DEF Ends
  <2>2. QED
    BY <1>1, <1>2, <1>4, <2>1 DEF TypeInv, Shape, HasIp, HasDp, Walks
<1>6. Kept(d) /\ Load(d) = disk[d] /\ lock[d] = Nobody /\ KeptDir(d) /\ d # i
  <2>1. Kept(d) /\ Load(d) = disk[d] /\ lock[d] = Nobody
    BY <1>1, <1>4, <1>5, LockedKept
  <2>2. KeptDir(d)
    BY <1>1, <1>2, <1>5, Consts DEF Valid
  <2>3. QED
    BY <1>3, <2>1, <2>2 DEF KeptDir
<1>7. t \in {"file", "dir", "dev"}
  BY <1>2, <1>5 DEF NewType
<1>8. PICK n \in Inode : n.type = t /\ n.nlink = 0 /\ n.addr = 0 /\ disk' = [disk EXCEPT ![i] = n]
  <2>1. PICK free \in Inode : free = FreeInode
    BY Consts
  <2>2. free.nlink = 0 /\ free.addr = 0
    BY <2>1 DEF FreeInode
  <2>3. /\ [free EXCEPT !.type = t] \in Inode /\ [free EXCEPT !.type = t].type = t
        /\ [free EXCEPT !.type = t].nlink = 0 /\ [free EXCEPT !.type = t].addr = 0
    BY <1>7, <2>2 DEF Inode, Types
  <2>4. QED
    BY <1>3, <2>1, <2>3
<1>9. /\ disk' \in [Inum -> Inode] /\ disk'[i] = n /\ \A j \in Inum \ {i} : disk'[j] = disk[j]
  BY <1>1, <1>8 DEF TypeInv
<1>10. mem[i] = Nobody /\ lock[i] = Nobody /\ disk[i].addr = 0 /\ \A m \in Entry : ent[i][m] = 0
  BY <1>1, <1>3 DEF Copied, BlocksOwned
<1>11. /\ mem' \in [Inum -> Inode \cup {Nobody}] /\ mem'[d] # Nobody /\ mem'[i] = Nobody
       /\ \A j \in Inum : mem'[j] = mem[j] \/ (mem'[j] = Load(j) /\ disk[j].type # "none")
  <2>1. /\ mem' \in [Inum -> Inode \cup {Nobody}] /\ mem'[d] # Nobody
        /\ \A j \in Inum : mem'[j] = mem[j] \/ (mem'[j] = Load(j) /\ disk[j].type # "none")
    BY <1>1, <1>4, <1>5, <1>6, LoadsKeeps
  <2>2. QED
    BY <1>3, <1>10, <2>1
<1>12. /\ pc' \in [Proc -> Stages \cup Ends] /\ put' = put /\ ret' = ret
       /\ pc'[p] = "fill" /\ Stage(p)' = "fill"
       /\ \A q \in Proc \ {p} : pc'[q] = pc[q] /\ put'[q] = put[q] /\ ret'[q] = ret[q]
  BY <1>1, <1>4, GotoGoes DEF Stages, HasDp
<1>13. /\ ip'[p] = i /\ at'[p] = 0 /\ dp'[p] = d /\ cwd'[p] = cwd[p] /\ call'[p] = call[p]
       /\ path'[p] = path[p] /\ put'[p] = 0 /\ ret'[p] = "out"
  BY <1>1, <1>2, <1>3, <1>4, <1>5, <1>12 DEF TypeInv
<1>14. /\ ref' \in [Inum -> Nat]
       /\ \A j \in Inum : ref'[j] = ref[j] + Is(i, j) /\ ref'[j] >= ref[j]
  BY <1>1, <1>3, IgetCounts
<1>15. /\ lock' \in [Inum -> Proc \cup {Nobody}]
       /\ \A j \in Inum : lock'[j] = IF j = d THEN p ELSE lock[j]
  BY <1>1, <1>4 DEF TypeInv
<1>16. TypeInv' /\ Mine(p)
  <2>1. ip' \in [Proc -> Inum \cup {0}] /\ \A q \in Proc \ {p} : ip'[q] = ip[q]
    BY <1>1, <1>3 DEF TypeInv
  <2>2. QED
    BY <1>1, <1>4, <1>9, <1>11, <1>12, <1>14, <1>15, <2>1 DEF Mine, TypeInv
<1>17. /\ TypeStep
       /\ \A j \in Inum : (Kept(j) => Kept(j)') /\ (KeptDir(j) => KeptDir(j)')
  <2>1. \A j \in Inum : Kept(j) => disk'[j].type = disk[j].type
    BY <1>3, <1>9 DEF Kept
  <2>2. QED
    BY <1>12, <1>16, <2>1, LoudKeeps
<1>18. Shape(p)'
  BY <1>5, <1>12, <1>13, Consts DEF Shape, Ends, HasDp, HasIp, Walks, Links
<1>19. Valid(p)'
  <2>1. KeptDir(cwd[p]) /\ cwd[p] \in Inum
    BY <1>1 DEF Valid, TypeInv
  <2>2. ~Freed(i) /\ (Freed(i)' => Freed(i))
    BY <1>1, <1>10, <1>17, FreedLocked, Consts DEF TypeStep
  <2>3. KeptDir(cwd[p])' /\ KeptDir(dp[p])'
    BY <1>5, <1>6, <1>13, <1>17, <2>1 DEF KeptDir, Freed
  <2>4. Kept(ip[p])'
    BY <1>7, <1>8, <1>9, <1>13, <2>2 DEF Kept, Freed
  <2>5. disk'[ip'[p]].type = NewType(p)'
    BY <1>2, <1>8, <1>9, <1>13 DEF NewType
  <2>6. QED
    BY <1>12, <2>3, <2>4, <2>5 DEF Valid
<1>20. LockStep(p)
  <2>1. \A j \in Inum : Owner(p, j)' <=> j = d
    BY <1>12, <1>13, Consts DEF Owner
  <2>2. \A j \in Inum : lock[j] # p
    BY <1>1, <1>4, <1>5 DEF Locks, Owner
  <2>3. QED
    BY <1>6, <1>15, <2>1, <2>2 DEF LockStep
<1>21. RefStep(p)
  <2>1. \A j \in Inum : Has(p, j)' = Has(p, j) + Is(i, j) /\ Has(p, j) \in Int /\ Is(i, j) \in Int
    BY <1>2, <1>5, <1>13, Consts DEF Has, Is
  <2>2. \A j \in Inum : ref'[j] = ref[j] + Has(p, j)' - Has(p, j)
    BY <1>1, <1>14, <2>1 DEF TypeInv
  <2>3. QED
    BY <1>1, <1>4, <2>2, RefsInFiles DEF TypeInv
<1>22. FilesOpen' /\ EntStep(p)
  BY <1>1, <1>4, <1>17, FilesKept DEF EntStep
<1>23. \A j \in Inum : Copied(j)'
  <2>1. ASSUME NEW j \in Inum PROVE Copied(j)'
    <3>1. CASE j = i
      BY <1>4, <1>6, <1>10, <1>11, <1>15, <3>1 DEF Copied
    <3>2. CASE j # i
      <4>1. Copied(j) /\ Load(j) = disk[j] /\ disk'[j] = disk[j]
        BY <1>1, <1>9, <3>2, CopiedLoad
      <4>2. disk[j] # Nobody
        BY <1>1, Consts DEF TypeInv
      <4>3. QED
        BY <1>4, <1>11, <1>15, <4>1, <4>2 DEF Copied
    <3>3. QED
      BY <3>1, <3>2
  <2>2. QED
    BY <2>1
<1>24. Acyclic'
  <2>1. ASSUME NEW a \in Inum, NEW b \in Inum, Edge(a, b)' PROVE Edge(a, b) \/ (a = d /\ b = i)
    <3>1. CASE \E m \in Name : ent'[a][m] = b
      BY <1>4, <3>1 DEF Edge
    <3>2. CASE \E q \in Proc : Stage(q)' = "fill" /\ dp'[q] = a /\ ip'[q] = b
      <4>1. PICK q \in Proc : Stage(q)' = "fill" /\ dp'[q] = a /\ ip'[q] = b
        BY <3>2
      <4>2. CASE q = p
        BY <1>13, <4>1, <4>2
      <4>3. CASE q # p
        <5>1. Stage(q) = "fill" /\ dp[q] = a /\ ip[q] = b
          BY <1>16, <4>1, <4>3, StagesKept DEF Mine
        <5>2. QED
          BY <5>1 DEF Edge
      <4>4. QED
        BY <4>2, <4>3
    <3>3. QED
      BY <2>1, <3>1, <3>2 DEF Edge
  <2>2. \A j \in Inum : ~Edge(i, j)
    BY <1>1, <1>3, LeafEdges
  <2>3. \A j \in Inum : ~Edge(i, j)'
    BY <1>6, <2>1, <2>2
  <2>4. QED
    BY <1>1, <2>1, <2>3, AcyclicLeaf
<1>25. BlocksOwned'
  <2>1. \A j \in Inum : /\ disk'[j].addr = disk[j].addr
                        /\ disk'[j].type = "none" => disk[j].type = "none"
    BY <1>3, <1>8, <1>9, <1>10
  <2>2. QED
    BY <1>1, <1>4, <2>1, SameBlocks
<1>26. \A j \in Inum : Marked(p, j)
  <2>1. \A j \in Inum : mem[j] # Nobody => mem'[j] # Nobody
    BY <1>11 DEF Load
  <2>2. QED
    BY <1>4, <1>5, <1>9, <1>12, <1>13, <2>1 DEF Marked
<1>27. QED
  BY <1>4, <1>12, <1>14, <1>16, <1>17, <1>18, <1>19, <1>20, <1>21, <1>22, <1>23, <1>24, <1>25, <1>26,
     LoudStep

\* The inode that create made is entered.
LEMMA CreateFillStep ==
  ASSUME IInv, NEW p \in Proc, CreateFill(p)
  PROVE  IInv'
<1>1. /\ TypeInv /\ Shape(p) /\ Valid(p) /\ Locks /\ FilesOpen /\ (\A j \in Inum : Copied(j))
      /\ Acyclic /\ BlocksOwned
  BY DEF IInv
<1>2. PICK d, i, h, b, t :
        /\ d = dp[p] /\ i = ip[p] /\ h = Head(path[p]) /\ b = Balloc /\ t = NewType(p)
  OBVIOUS
<1>3. PICK new, dots :
        /\ new = [disk EXCEPT ![i].nlink = 1, ![i].addr = IF t = "dir" /\ @ = 0 THEN b ELSE @,
                              ![d].nlink = @ + IF t = "dir" THEN 1 ELSE 0]
        /\ dots = IF t = "dir" THEN [ent EXCEPT ![i]["."] = i, ![i][".."] = d] ELSE ent
  OBVIOUS
<1>4. /\ pc[p] = "fill" /\ CanLock(i) /\ ~(t = "dir" /\ Load(i).addr = 0 /\ used = Block)
      /\ disk' = new /\ used' = used \cup ({new[i].addr} \ {0})
      /\ mem' = [mem EXCEPT ![i] = new[i], ![d] = new[d]]
      /\ ent' = [dots EXCEPT ![d][h] = i]
      /\ lock' = [lock EXCEPT ![i] = p, ![d] = Nobody]
      /\ Iput(p, d, "made") /\ dp' = [dp EXCEPT ![p] = 0]
      /\ UNCHANGED <<ref, file, open, cwd, call, path, at, ip, raced>>
  BY <1>2, <1>3 DEF CreateFill, PutDp, files, ends
<1>5. /\ Stage(p) = pc[p] /\ d \in Inum /\ i \in Inum /\ put[p] = 0 /\ at[p] = 0 /\ ret[p] = "out"
      /\ path[p] # <<>> /\ call[p] \in Calls /\ call[p].op \in {"creat", "mkdir", "mknod"}
  <2>1. Stage(p) = pc[p] /\ put[p] = 0 /\ ret[p] = "out"
    BY <1>1, <1>4, Outside DEF Ends
  <2>2. QED
    BY <1>1, <1>2, <1>4, <2>1 DEF TypeInv, Shape, HasIp, HasDp, Walks
<1>6. h \in Entry /\ "." \in Entry /\ ".." \in Entry
  BY <1>1, <1>2, <1>5, HeadOf DEF Entry
<1>7. /\ Kept(i) /\ Load(i) = disk[i] /\ lock[i] = Nobody /\ KeptDir(d) /\ lock[d] = p /\ d # i
      /\ (t = "dir" => disk[i].type = "dir") /\ disk[d] \in Inode /\ disk[i] \in Inode
  <2>1. Kept(i) /\ Load(i) = disk[i] /\ lock[i] = Nobody
    BY <1>1, <1>4, <1>5, LockedKept
  <2>2. KeptDir(d) /\ lock[d] = p
    BY <1>1, <1>2, <1>4, <1>5, Consts DEF Valid, Locks, Owner
  <2>3. t = "dir" => disk[i].type = "dir"
    BY <1>1, <1>2, <1>4, <1>5 DEF Valid
  <2>4. QED
    BY <1>1, <1>5, <2>1, <2>2, <2>3, Consts DEF TypeInv
<1>8. t = "dir" /\ disk[i].addr = 0 => b \in Block /\ b \notin used /\ b # 0
  BY <1>1, <1>2, <1>4, <1>7, BallocFree DEF TypeInv
<1>9. PICK n \in Inode, m \in Inode :
        /\ n.type = disk[i].type /\ n.nlink = 1
        /\ n.addr = IF t = "dir" /\ disk[i].addr = 0 THEN b ELSE disk[i].addr
        /\ m.type = disk[d].type /\ m.addr = disk[d].addr
        /\ new \in [Inum -> Inode] /\ new[i] = n /\ new[d] = m
        /\ \A j \in Inum \ {i, d} : new[j] = disk[j]
  <2>1. PICK n, m : /\ n = [disk[i] EXCEPT !.nlink = 1, !.addr = IF t = "dir" /\ @ = 0 THEN b ELSE @]
                    /\ m = [disk[d] EXCEPT !.nlink = @ + IF t = "dir" THEN 1 ELSE 0]
    OBVIOUS
  <2>2. /\ n \in Inode /\ n.type = disk[i].type /\ n.nlink = 1
        /\ n.addr = IF t = "dir" /\ disk[i].addr = 0 THEN b ELSE disk[i].addr
    <3>1. PICK w : w = [disk[i] EXCEPT !.nlink = 1]
      OBVIOUS
    <3>2. w \in Inode /\ w.type = disk[i].type /\ w.nlink = 1 /\ w.addr = disk[i].addr
      BY <1>7, <3>1 DEF Inode
    <3>3. n = [w EXCEPT !.addr = IF t = "dir" /\ @ = 0 THEN b ELSE @]
      BY <2>1, <3>1
    <3>4. PICK v \in Block \cup {0} : v = IF t = "dir" /\ w.addr = 0 THEN b ELSE w.addr
      BY <1>8, <3>2 DEF Inode
    <3>5. n = [w EXCEPT !.addr = v]
      BY <3>3, <3>4
    <3>6. QED
      BY <3>2, <3>4, <3>5 DEF Inode
  <2>3. m \in Inode /\ m.type = disk[d].type /\ m.addr = disk[d].addr
    BY <1>7, <2>1 DEF Inode
  <2>4. new = [disk EXCEPT ![i] = n, ![d] = m]
    BY <1>1, <1>3, <1>5, <1>7, <2>1 DEF TypeInv
  <2>5. QED
    BY <1>1, <1>5, <1>7, <2>2, <2>3, <2>4 DEF TypeInv
<1>10. /\ disk' \in [Inum -> Inode] /\ disk'[i] = n /\ disk'[d] = m
       /\ mem' \in [Inum -> Inode \cup {Nobody}] /\ mem'[i] = n /\ mem'[d] = m
       /\ \A j \in Inum \ {i, d} : disk'[j] = disk[j] /\ mem'[j] = mem[j]
       /\ n # Nobody /\ m # Nobody
  BY <1>1, <1>4, <1>5, <1>7, <1>9, Consts DEF TypeInv
<1>11. /\ ent' \in [Inum -> [Entry -> Inum \cup {0}]]
       /\ \A j \in Inum \ {i, d} : ent'[j] = ent[j]
       /\ \A x \in Entry : ent'[d][x] = IF x = h THEN i ELSE ent[d][x]
       /\ \A x \in Name : ent'[i][x] = ent[i][x]
       /\ t # "dir" => ent'[i] = ent[i]
  <2>1. /\ dots \in [Inum -> [Entry -> Inum \cup {0}]] /\ dots[d] = ent[d]
        /\ \A j \in Inum \ {i, d} : dots[j] = ent[j]
        /\ \A x \in Name : dots[i][x] = ent[i][x]
        /\ t # "dir" => dots[i] = ent[i]
    <3>1. CASE t = "dir"
      BY <1>1, <1>3, <1>5, <1>6, <1>7, <3>1, Consts DEF TypeInv
    <3>2. CASE t # "dir"
      BY <1>1, <1>3, <1>5, <3>2 DEF TypeInv
    <3>3. QED
      BY <3>1, <3>2
  <2>2. QED
    BY <1>4, <1>5, <1>6, <1>7, <2>1
<1>12. /\ lock' \in [Inum -> Proc \cup {Nobody}]
       /\ \A j \in Inum : lock'[j] = IF j = i THEN p ELSE IF j = d THEN Nobody ELSE lock[j]
  BY <1>1, <1>4, <1>5, <1>7 DEF TypeInv
<1>13. /\ pc' \in [Proc -> Stages \cup Ends] /\ ret' \in [Proc -> Stages]
       /\ put' \in [Proc -> Inum \cup {0}]
       /\ pc'[p] = "iput" /\ put'[p] = d /\ ret'[p] = "made" /\ Stage(p)' = "made"
       /\ \A q \in Proc \ {p} : pc'[q] = pc[q] /\ put'[q] = put[q] /\ ret'[q] = ret[q]
  BY <1>1, <1>4, <1>5, IputGoes DEF Stages, HasIp
<1>14. /\ ip'[p] = i /\ at'[p] = 0 /\ dp'[p] = 0 /\ cwd'[p] = cwd[p] /\ call'[p] = call[p]
       /\ path'[p] = path[p]
  BY <1>1, <1>2, <1>4, <1>5 DEF TypeInv
<1>15. TypeInv' /\ Mine(p)
  <2>1. dp' \in [Proc -> Inum \cup {0}] /\ \A q \in Proc \ {p} : dp'[q] = dp[q]
    BY <1>1, <1>4 DEF TypeInv
  <2>2. used' \subseteq Block
    <3>1. n.addr \in Block \cup {0}
      BY DEF Inode
    <3>2. QED
      BY <1>1, <1>4, <1>9, <3>1 DEF TypeInv
  <2>3. QED
    BY <1>1, <1>4, <1>10, <1>11, <1>12, <1>13, <2>1, <2>2 DEF Mine, TypeInv
<1>16. \A j \in Inum : disk'[j].type = disk[j].type
  BY <1>9, <1>10
<1>17. /\ TypeStep
       /\ \A j \in Inum : (Kept(j) => Kept(j)') /\ (KeptDir(j) => KeptDir(j)')
  BY <1>13, <1>15, <1>16, LoudKeeps
<1>18. Shape(p)'
  BY <1>5, <1>13, <1>14, Consts DEF Shape, Ends, HasDp, HasIp, Walks, Links
<1>19. Valid(p)'
  <2>1. KeptDir(cwd[p]) /\ cwd[p] \in Inum
    BY <1>1 DEF Valid, TypeInv
  <2>2. KeptDir(cwd[p])' /\ Kept(ip[p])'
    BY <1>5, <1>7, <1>14, <1>17, <2>1 DEF Kept, KeptDir, Freed
  <2>3. QED
    BY <1>13, <1>14, <2>2 DEF Valid
<1>20. LockStep(p)
  <2>1. \A j \in Inum : Owner(p, j)' <=> j = i
    BY <1>13, <1>14, Consts DEF Owner
  <2>2. \A j \in Inum : lock[j] = p => j = d
    BY <1>1, <1>2, <1>4, <1>5 DEF Locks, Owner
  <2>3. QED
    BY <1>7, <1>12, <2>1, <2>2, Consts DEF LockStep
<1>21. RefStep(p)
  <2>1. \A j \in Inum : Has(p, j)' = Has(p, j) /\ Has(p, j) \in Int
    BY <1>2, <1>5, <1>13, <1>14, Consts DEF Has, Is
  <2>2. \A j \in Inum : ref'[j] = ref[j] + Has(p, j)' - Has(p, j)
    BY <1>1, <1>4, <2>1 DEF TypeInv
  <2>3. QED
    BY <1>1, <1>4, <2>2, RefsInFiles DEF TypeInv
<1>22. FilesOpen' /\ EntStep(p)
  <2>1. EntStep(p)
    BY <1>7, <1>11 DEF EntStep
  <2>2. QED
    BY <1>1, <1>4, <1>17, <2>1, FilesKept
<1>23. \A j \in Inum : Copied(j)'
  <2>1. ASSUME NEW j \in Inum PROVE Copied(j)'
    <3>1. Copied(j)
      BY <1>1
    <3>2. CASE j = i
      <4>1. n.type # "none" /\ (n.type # "dir" => \A x \in Entry : ent'[i][x] = 0)
        BY <1>7, <1>9, <1>11, <3>1, <3>2 DEF Kept, Copied
      <4>2. QED
        BY <1>10, <3>2, <4>1 DEF Copied
    <3>3. CASE j = d
      <4>1. m.type = "dir"
        BY <1>7, <1>9 DEF KeptDir
      <4>2. QED
        BY <1>10, <3>3, <4>1 DEF Copied
    <3>4. CASE j \notin {i, d}
      BY <1>10, <1>11, <1>12, <3>1, <3>4 DEF Copied
    <3>5. QED
      BY <3>2, <3>3, <3>4
  <2>2. QED
    BY <2>1
<1>24. Acyclic'
  <2>1. ASSUME NEW a \in Inum, NEW c \in Inum, Edge(a, c)' PROVE Edge(a, c)
    <3>1. CASE \E x \in Name : ent'[a][x] = c
      <4>1. PICK x \in Name : ent'[a][x] = c
        BY <3>1
      <4>2. ent[a][x] = c \/ (a = d /\ c = i)
        BY <1>11, <4>1, Consts
      <4>3. QED
        BY <1>2, <1>4, <1>5, <4>2 DEF Edge
    <3>2. CASE \E q \in Proc : Stage(q)' = "fill" /\ dp'[q] = a /\ ip'[q] = c
      <4>1. PICK q \in Proc : Stage(q)' = "fill" /\ dp'[q] = a /\ ip'[q] = c
        BY <3>2
      <4>2. q # p
        BY <1>13, <4>1
      <4>3. Stage(q) = "fill" /\ dp[q] = a /\ ip[q] = c
        BY <1>15, <4>1, <4>2, StagesKept DEF Mine
      <4>4. QED
        BY <4>3 DEF Edge
    <3>3. QED
      BY <2>1, <3>1, <3>2 DEF Edge
  <2>2. QED
    BY <1>1, <2>1, AcyclicKept
<1>25. BlocksOwned'
  <2>1. CASE t = "dir" /\ disk[i].addr = 0
    <3>1. used' = used \cup {b} /\ b \notin used /\ b # 0 /\ n.addr = b
      BY <1>4, <1>8, <1>9, <2>1
    <3>2. disk'[i].type # "none"
      BY <1>5, <1>7, <1>16 DEF Kept
    <3>3. \A j \in Inum \ {i} : /\ disk'[j].addr = disk[j].addr
                                /\ disk'[j].type = "none" => disk[j].type = "none"
      BY <1>9, <1>10
    <3>4. QED
      BY <1>1, <1>5, <1>10, <2>1, <3>1, <3>2, <3>3, OneMoreBlock
  <2>2. CASE ~(t = "dir" /\ disk[i].addr = 0)
    <3>1. n.addr = disk[i].addr
      BY <1>9, <2>2
    <3>2. used' = used
      BY <1>1, <1>4, <1>5, <1>9, <3>1 DEF BlocksOwned
    <3>3. QED
      BY <1>1, <1>9, <1>10, <3>1, <3>2, SameBlocks
  <2>3. QED
    BY <2>1, <2>2
<1>26. \A j \in Inum : ref'[j] >= ref[j] /\ Marked(p, j)
  <2>1. \A j \in Inum : ref'[j] >= ref[j]
    BY <1>1, <1>4 DEF TypeInv
  <2>2. Marked(p, i)
    BY <1>9, <1>10 DEF Marked
  <2>3. Marked(p, d)
    BY <1>10, <1>13 DEF Marked
  <2>4. \A j \in Inum \ {i, d} : Marked(p, j)
    BY <1>2, <1>10 DEF Marked
  <2>5. QED
    BY <2>1, <2>2, <2>3, <2>4
<1>27. QED
  BY <1>4, <1>13, <1>15, <1>17, <1>18, <1>19, <1>20, <1>21, <1>22, <1>23, <1>24, <1>25, <1>26, LoudStep

\* unlink erases a name.
LEMMA UnlinkEraseStep ==
  ASSUME IInv, NEW p \in Proc, NEW k \in {-1, 0}, pc[p] = "unlinkip", CanLock(ip[p]),
         ent' = [ent EXCEPT ![dp[p]][Head(path[p])] = 0],
         disk' = [disk EXCEPT ![dp[p]] = AddLinks(mem[dp[p]], k)],
         mem' = [mem EXCEPT ![ip[p]] = Load(ip[p]), ![dp[p]] = AddLinks(mem[dp[p]], k)],
         lock' = [lock EXCEPT ![ip[p]] = p, ![dp[p]] = Nobody],
         PutDp(p, "unlinked"),
         UNCHANGED <<ip, used, ref, files, call, path, at, ends>>
  PROVE  IInv'
<1>1. /\ TypeInv /\ Shape(p) /\ Valid(p) /\ Locks /\ FilesOpen /\ (\A j \in Inum : Copied(j))
      /\ Acyclic /\ BlocksOwned
  BY DEF IInv
<1>2. PICK d, i, h : d = dp[p] /\ i = ip[p] /\ h = Head(path[p])
  OBVIOUS
<1>3. /\ ent' = [ent EXCEPT ![d][h] = 0] /\ lock' = [lock EXCEPT ![i] = p, ![d] = Nobody]
      /\ Iput(p, d, "unlinked") /\ dp' = [dp EXCEPT ![p] = 0] /\ CanLock(i)
      /\ UNCHANGED <<used, ref, file, open, cwd, call, path, at, ip, raced>>
  BY <1>2 DEF PutDp, files, ends
<1>4. /\ Stage(p) = pc[p] /\ d \in Inum /\ i \in Inum /\ put[p] = 0 /\ at[p] = 0 /\ ret[p] = "out"
      /\ path[p] # <<>> /\ call[p] \in Calls /\ h \in Name
  <2>1. Stage(p) = pc[p] /\ put[p] = 0 /\ ret[p] = "out"
    BY <1>1, Outside DEF Ends
  <2>2. QED
    BY <1>1, <1>2, <2>1 DEF TypeInv, Shape, HasIp, HasDp, Walks
<1>5. h \in Entry
  BY <1>4, Consts
<1>6. /\ Kept(i) /\ Load(i) = disk[i] /\ lock[i] = Nobody /\ KeptDir(d) /\ lock[d] = p /\ d # i
      /\ mem[d] = disk[d] /\ disk[d] \in Inode /\ disk[i] \in Inode
  <2>1. Kept(i) /\ Load(i) = disk[i] /\ lock[i] = Nobody
    BY <1>1, <1>3, <1>4, LockedKept
  <2>2. KeptDir(d) /\ lock[d] = p
    BY <1>1, <1>2, <1>4, Consts DEF Valid, Locks, Owner
  <2>3. mem[d] = disk[d]
    BY <1>1, <1>4, <2>2, Consts DEF Copied
  <2>4. QED
    BY <1>1, <1>4, <2>1, <2>2, <2>3, Consts DEF TypeInv
<1>7. PICK m \in Inode : /\ m.type = disk[d].type /\ m.addr = disk[d].addr
                         /\ disk' = [disk EXCEPT ![d] = m]
                         /\ mem' = [mem EXCEPT ![i] = disk[i], ![d] = m]
  <2>1. PICK m : m = AddLinks(disk[d], k)
    OBVIOUS
  <2>2. m \in Inode /\ m.type = disk[d].type /\ m.addr = disk[d].addr
    BY <1>6, <2>1, AddLinksIs
  <2>3. QED
    BY <1>2, <1>6, <2>1, <2>2
<1>8. /\ disk' \in [Inum -> Inode] /\ disk'[d] = m
      /\ \A j \in Inum \ {d} : disk'[j] = disk[j]
      /\ mem' \in [Inum -> Inode \cup {Nobody}] /\ mem'[i] = disk[i] /\ mem'[d] = m
      /\ \A j \in Inum \ {i, d} : mem'[j] = mem[j]
      /\ disk[i] # Nobody /\ m # Nobody
  <2>1. disk \in [Inum -> Inode] /\ mem \in [Inum -> Inode \cup {Nobody}]
    BY <1>1 DEF TypeInv
  <2>2. disk[i] # Nobody /\ m # Nobody
    BY <1>6, Consts
  <2>3. disk' \in [Inum -> Inode] /\ disk'[d] = m /\ \A j \in Inum \ {d} : disk'[j] = disk[j]
    BY <1>4, <1>7, <2>1
  <2>4. mem' \in [Inum -> Inode \cup {Nobody}]
    BY <1>4, <1>6, <1>7, <2>1
  <2>5. mem'[i] = disk[i] /\ mem'[d] = m /\ \A j \in Inum \ {i, d} : mem'[j] = mem[j]
    BY <1>4, <1>6, <1>7, <2>1
  <2>6. QED
    BY <2>2, <2>3, <2>4, <2>5
<1>9. /\ ent' \in [Inum -> [Entry -> Inum \cup {0}]]
      /\ \A j \in Inum \ {d} : ent'[j] = ent[j]
      /\ \A x \in Entry : ent'[d][x] = IF x = h THEN 0 ELSE ent[d][x]
  <2>1. ent \in [Inum -> [Entry -> Inum \cup {0}]]
    BY <1>1 DEF TypeInv
  <2>2. PICK e : e = [ent[d] EXCEPT ![h] = 0]
    OBVIOUS
  <2>3. e \in [Entry -> Inum \cup {0}] /\ \A x \in Entry : e[x] = IF x = h THEN 0 ELSE ent[d][x]
    BY <1>4, <1>5, <2>1, <2>2
  <2>4. ent' = [ent EXCEPT ![d] = e]
    BY <1>3, <2>2
  <2>5. QED
    BY <1>4, <2>1, <2>3, <2>4
<1>10. /\ lock' \in [Inum -> Proc \cup {Nobody}]
       /\ \A j \in Inum : lock'[j] = IF j = i THEN p ELSE IF j = d THEN Nobody ELSE lock[j]
  BY <1>1, <1>3, <1>4, <1>6 DEF TypeInv
<1>11. /\ pc' \in [Proc -> Stages \cup Ends] /\ ret' \in [Proc -> Stages]
       /\ put' \in [Proc -> Inum \cup {0}]
       /\ pc'[p] = "iput" /\ put'[p] = d /\ ret'[p] = "unlinked" /\ Stage(p)' = "unlinked"
       /\ \A q \in Proc \ {p} : pc'[q] = pc[q] /\ put'[q] = put[q] /\ ret'[q] = ret[q]
  BY <1>1, <1>3, <1>4, IputGoes DEF Stages, HasIp
<1>12. /\ ip'[p] = i /\ at'[p] = 0 /\ dp'[p] = 0 /\ cwd'[p] = cwd[p] /\ call'[p] = call[p]
       /\ path'[p] = path[p]
  BY <1>1, <1>2, <1>3, <1>4 DEF TypeInv
<1>13. TypeInv' /\ Mine(p)
  <2>1. dp' \in [Proc -> Inum \cup {0}] /\ \A q \in Proc \ {p} : dp'[q] = dp[q]
    BY <1>1, <1>3 DEF TypeInv
  <2>2. LocalTypes'
    BY <1>1, <1>3, <1>11, <2>1 DEF LocalTypes, TypeInv
  <2>3. CacheTypes'
    BY <1>1, <1>3, <1>8, <1>9, <1>10 DEF CacheTypes, TypeInv
  <2>4. TypeInv'
    BY <2>2, <2>3 DEF TypeInv, LocalTypes, CacheTypes
  <2>5. Mine(p)
    BY <1>3, <1>11, <2>1 DEF Mine
  <2>6. QED
    BY <2>4, <2>5
<1>14. \A j \in Inum : disk'[j].type = disk[j].type /\ disk'[j].addr = disk[j].addr
  BY <1>7, <1>8
<1>15. /\ TypeStep
       /\ \A j \in Inum : (Kept(j) => Kept(j)') /\ (KeptDir(j) => KeptDir(j)')
  BY <1>11, <1>13, <1>14, LoudKeeps
<1>16. Shape(p)'
  BY <1>4, <1>11, <1>12, Consts DEF Shape, Ends, HasDp, HasIp, Walks, Links
<1>17. Valid(p)'
  <2>1. KeptDir(cwd[p]) /\ cwd[p] \in Inum
    BY <1>1 DEF Valid, TypeInv
  <2>2. KeptDir(cwd[p])' /\ Kept(ip[p])'
    BY <1>4, <1>6, <1>12, <1>15, <2>1 DEF Kept, KeptDir, Freed
  <2>3. QED
    BY <1>11, <1>12, <2>2 DEF Valid
<1>18. LockStep(p)
  <2>1. \A j \in Inum : Owner(p, j)' <=> j = i
    BY <1>11, <1>12, Consts DEF Owner
  <2>2. \A j \in Inum : lock[j] = p => j = d
    BY <1>1, <1>2, <1>4 DEF Locks, Owner
  <2>3. QED
    BY <1>6, <1>10, <2>1, <2>2, Consts DEF LockStep
<1>19. RefStep(p)
  <2>1. \A j \in Inum : Has(p, j)' = Has(p, j) /\ Has(p, j) \in Int
    BY <1>2, <1>4, <1>11, <1>12, Consts DEF Has, Is
  <2>2. \A j \in Inum : ref'[j] = ref[j] + Has(p, j)' - Has(p, j)
    BY <1>1, <1>3, <2>1 DEF TypeInv
  <2>3. QED
    BY <1>1, <1>3, <2>2, RefsInFiles DEF TypeInv
<1>20. FilesOpen' /\ EntStep(p)
  <2>1. EntStep(p)
    BY <1>6, <1>9 DEF EntStep
  <2>2. QED
    BY <1>1, <1>3, <1>15, <2>1, FilesKept
<1>21. \A j \in Inum : Copied(j)'
  <2>1. ASSUME NEW j \in Inum PROVE Copied(j)'
    <3>1. Copied(j)
      BY <1>1
    <3>2. CASE j = i
      BY <1>6, <1>8, <1>9, <3>1, <3>2 DEF Copied, Kept
    <3>3. CASE j = d
      <4>1. m.type = "dir"
        BY <1>6, <1>7 DEF KeptDir
      <4>2. QED
        BY <1>8, <3>3, <4>1 DEF Copied
    <3>4. CASE j \notin {i, d}
      BY <1>8, <1>9, <1>10, <3>1, <3>4 DEF Copied
    <3>5. QED
      BY <3>2, <3>3, <3>4
  <2>2. QED
    BY <2>1
<1>22. Acyclic'
  <2>1. ASSUME NEW a \in Inum, NEW c \in Inum, Edge(a, c)' PROVE Edge(a, c)
    <3>1. CASE \E x \in Name : ent'[a][x] = c
      <4>1. PICK x \in Name : ent'[a][x] = c
        BY <3>1
      <4>2. ent[a][x] = c
        BY <1>9, <4>1, Consts
      <4>3. QED
        BY <4>2 DEF Edge
    <3>2. CASE \E q \in Proc : Stage(q)' = "fill" /\ dp'[q] = a /\ ip'[q] = c
      <4>1. PICK q \in Proc : Stage(q)' = "fill" /\ dp'[q] = a /\ ip'[q] = c
        BY <3>2
      <4>2. q # p
        BY <1>11, <4>1
      <4>3. Stage(q) = "fill" /\ dp[q] = a /\ ip[q] = c
        BY <1>13, <4>1, <4>2, StagesKept DEF Mine
      <4>4. QED
        BY <4>3 DEF Edge
    <3>3. QED
      BY <2>1, <3>1, <3>2 DEF Edge
  <2>2. QED
    BY <1>1, <2>1, AcyclicKept
<1>23. BlocksOwned'
  BY <1>1, <1>3, <1>14, SameBlocks
<1>24. \A j \in Inum : ref'[j] >= ref[j] /\ Marked(p, j)
  <2>1. \A j \in Inum : ref'[j] >= ref[j]
    BY <1>1, <1>3 DEF TypeInv
  <2>2. Marked(p, d)
    BY <1>8, <1>11 DEF Marked
  <2>3. \A j \in Inum \ {d} : Marked(p, j)
    BY <1>4, <1>8 DEF Marked
  <2>4. QED
    BY <2>1, <2>2, <2>3
<1>25. QED
  BY <1>3, <1>11, <1>13, <1>15, <1>16, <1>17, <1>18, <1>19, <1>20, <1>21, <1>22, <1>23, <1>24, LoudStep

-----------------------------------------------------------------------------
(* iput. *)

\* Who puts an inode has a reference to it, perhaps the last one.
LEMMA OneRef ==
  ASSUME TypeInv, Refs, NEW i \in Inum, NEW p \in Proc, put[p] = i
  PROVE  /\ ref[i] >= 1
         /\ ref[i] = 1 => /\ \A q \in Proc : at[q] # i /\ dp[q] # i /\ ip[q] # i /\ cwd[q] # i
                          /\ \A f \in File : file[f] # i
<1>1. IsFiniteSet(Proc) /\ IsFiniteSet(File)
  BY Consts
<1>2. /\ Held(at, i) \in Nat /\ \A q \in Proc : at[q] = i => Held(at, i) >= 1
      /\ Held(dp, i) \in Nat /\ \A q \in Proc : dp[q] = i => Held(dp, i) >= 1
  BY <1>1, CountNat DEF Held
<1>3. /\ Held(ip, i) \in Nat /\ \A q \in Proc : ip[q] = i => Held(ip, i) >= 1
      /\ Held(cwd, i) \in Nat /\ \A q \in Proc : cwd[q] = i => Held(cwd, i) >= 1
  BY <1>1, CountNat DEF Held
<1>4. /\ Held(put, i) \in Nat /\ Held(put, i) >= 1
      /\ Count(File, file, i) \in Nat /\ \A f \in File : file[f] = i => Count(File, file, i) >= 1
  BY <1>1, CountNat DEF Held
<1>5. ref[i] = Held(at, i) + Held(dp, i) + Held(ip, i) + Held(put, i) + Held(cwd, i)
               + Count(File, file, i)
  BY DEF Refs
<1>6. QED
  BY <1>2, <1>3, <1>4, <1>5

\* The inode that p is about to put, at the end of iput.
Leaves(p) == IF pc[p] = "deref" THEN put[p] ELSE 0

LEMMA LeavingMoves ==
  ASSUME TypeInv, TypeInv', NEW p \in Proc, Mine(p), NEW i \in Inum
  PROVE  /\ Leaving(i) \in Nat
         /\ Leaving(i)' = Leaving(i) + Is(Leaves(p)', i) - Is(Leaves(p), i)
<1> DEFINE g == [q \in Proc |-> IF pc[q] = "deref" THEN put[q] ELSE 0]
           h == [q \in Proc |-> IF pc'[q] = "deref" THEN put'[q] ELSE 0]
<1>1. Held(g, i) \in Nat /\ Held(h, i) = Held(g, i) + Is(h[p], i) - Is(g[p], i)
  <2>1. \A q \in Proc \ {p} : h[q] = g[q]
    BY DEF Mine
  <2>2. QED
    BY <2>1, HeldMoves
<1>2. Leaving(i) = Held(g, i)
  <2>1. {q \in Proc : put[q] = i /\ pc[q] = "deref"} = {q \in Proc : g[q] = i}
    BY Consts
  <2>2. QED
    BY <2>1 DEF Leaving, Held, Count
<1>3. Leaving(i)' = Held(h, i)
  <2>1. {q \in Proc : put'[q] = i /\ pc'[q] = "deref"} = {q \in Proc : h[q] = i}
    BY Consts
  <2>2. QED
    BY <2>1 DEF Leaving, Held, Count
<1>4. h[p] = Leaves(p)' /\ g[p] = Leaves(p)
  BY DEF Leaves
<1>5. QED
  BY <1>1, <1>2, <1>3, <1>4

\* What is in hand stays as it is in iput.
LEMMA IputStays ==
  ASSUME TypeInv, \A q \in Proc : Shape(q), \A q \in Proc : Valid(q), FilesOpen, Acyclic,
         NEW p \in Proc, Mine(p), UNCHANGED <<dp, ip, cwd, file, open>>, Stage(p)' = Stage(p),
         Stage(p) # "out" => path'[p] = path[p] /\ call'[p] = call[p],
         NEW U \in SUBSET Inum,
         \A q \in Proc : dp[q] \in U \cup {0} /\ ip[q] \in U \cup {0} /\ cwd[q] \in U,
         \A f \in File : file[f] \in U \cup {0},
         \A j \in U : Kept(j) => disk'[j].type = disk[j].type /\ ~Freed(j)' /\ ent'[j] = ent[j],
         \A j \in Inum, n \in Name : ent'[j][n] \in {ent[j][n], 0}
  PROVE  (\A q \in Proc : Valid(q)') /\ FilesOpen' /\ Acyclic'
<1>1. \A q \in Proc : /\ Stage(q)' = Stage(q)
                      /\ Stage(q) # "out" => path'[q] = path[q] /\ call'[q] = call[q]
  BY StagesKept DEF Mine
<1>2. \A j \in U : (Kept(j) => Kept(j)') /\ (KeptDir(j) => KeptDir(j)') /\ (KeptLeaf(j) => KeptLeaf(j)')
  BY DEF Kept, KeptDir, KeptLeaf
<1>3. ASSUME NEW q \in Proc PROVE Valid(q)'
  <2>1. /\ Valid(q) /\ Shape(q) /\ Stage(q)' = Stage(q)
        /\ Stage(q) # "out" => path'[q] = path[q] /\ call'[q] = call[q]
        /\ dp'[q] = dp[q] /\ ip'[q] = ip[q] /\ cwd'[q] = cwd[q]
    BY <1>1
  <2>2. dp[q] # 0 => KeptDir(dp[q])'
    BY <1>2, <2>1 DEF Valid, KeptDir, Freed
  <2>3. KeptDir(cwd[q])'
    BY <1>2, <2>1 DEF Valid, KeptDir, Freed
  <2>4. Stage(q) \in {"fill", "made", "unlinked"} => Kept(ip[q])'
    BY <1>2, <2>1 DEF Valid, Shape, HasIp, Kept, Freed
  <2>5. Stage(q) = "fill" => disk'[ip[q]].type = NewType(q) /\ NewType(q)' = NewType(q)
    BY <2>1 DEF Valid, Shape, HasIp, NewType
  <2>6. ip[q] # 0 /\ Stage(q) \in {"namex", "linkat", "linkdup", "linked", "undo"} => KeptLeaf(ip[q])'
    BY <1>2, <2>1 DEF Valid, KeptLeaf, Freed
  <2>7. Stage(q) = "unlinkip" => ent'[dp[q]][Head(path[q])] = ip[q]
    BY <2>1 DEF Valid, Shape, HasDp, KeptDir, Kept
  <2>8. QED
    BY <2>1, <2>2, <2>3, <2>4, <2>5, <2>6, <2>7 DEF Valid
<1>4. FilesOpen'
  <2>1. ASSUME NEW f \in File, file[f] # 0 PROVE Kept(file[f])'
    BY <1>2, <2>1 DEF FilesOpen, Kept, Freed
  <2>2. QED
    BY <2>1 DEF FilesOpen
<1>5. \A a, b \in Inum : Edge(a, b)' => Edge(a, b)
  BY <1>1, Consts DEF Edge
<1>6. QED
  BY <1>3, <1>4, <1>5, AcyclicKept

\* Inode k gives its block back.
LEMMA OneLessBlock ==
  ASSUME BlocksOwned, NEW k \in Inum, used' = used \ {disk[k].addr}, disk'[k].addr = 0,
         \A j \in Inum \ {k} : disk'[j] = disk[j]
  PROVE  BlocksOwned'
<1>1. used = {disk[i].addr : i \in Inum} \ {0}
  BY DEF BlocksOwned
<1>2. \A j \in Inum \ {k} : disk[j].addr = disk[k].addr => disk[j].addr = 0
  BY DEF BlocksOwned
<1>3. used' = {disk'[i].addr : i \in Inum} \ {0}
  <2>1. ASSUME NEW x PROVE x \in used' <=> (x # 0 /\ \E i \in Inum : disk'[i].addr = x)
    BY <1>1, <1>2
  <2>2. QED
    BY <2>1
<1>4. \A i, j \in Inum : disk'[i].addr = disk'[j].addr /\ i # j => disk'[i].addr = 0
  BY DEF BlocksOwned
<1>5. \A i \in Inum : disk'[i].type = "none" => disk'[i].addr = 0
  BY DEF BlocksOwned
<1>6. QED
  BY <1>3, <1>4, <1>5 DEF BlocksOwned

\* A lock shows that its holder has the inode in hand.
LEMMA HolderHas ==
  ASSUME NEW q \in Proc, NEW i, Owner(q, i)
  PROVE  InHand(q, i)
BY DEF Owner, InHand

LEMMA IputDerefStep ==
  ASSUME IInv, NEW p \in Proc, IputDeref(p)
  PROVE  IInv'
<1>1. /\ TypeInv /\ Shape(p) /\ Locks /\ FilesOpen /\ (\A j \in Inum : Copied(j)) /\ Refs
      /\ Acyclic /\ BlocksOwned /\ (\A q \in Proc : Shape(q)) /\ (\A q \in Proc : Valid(q))
      /\ \A j \in Inum \ raced : ToBeFreed(j)
  BY DEF IInv
<1>2. PICK i, l : i = put[p] /\ l = ret[p]
  OBVIOUS
<1>3. /\ pc[p] = "deref" /\ ref' = [ref EXCEPT ![i] = ref[i] - 1]
      /\ mem' = IF ref[i] = 1 THEN [mem EXCEPT ![i] = Nobody] ELSE mem
      /\ pc' = [pc EXCEPT ![p] = l]
      /\ put' = [put EXCEPT ![p] = 0] /\ ret' = [ret EXCEPT ![p] = "out"]
      /\ IF l = "out" THEN call' = [call EXCEPT ![p] = Nobody] /\ path' = [path EXCEPT ![p] = <<>>]
                      ELSE UNCHANGED <<call, path>>
      /\ UNCHANGED <<disk, used, ent, lock, file, open, cwd, at, dp, ip, raced>>
  <2>1. i \in Inum
    BY <1>1, <1>2 DEF IputDeref, Shape, Ends, TypeInv
  <2>2. QED
    BY <1>1, <1>2, <2>1 DEF IputDeref, store, files, ends, TypeInv
<1>4. i \in Inum /\ l \in Stages /\ l \notin Ends /\ Stage(p) = l /\ "out" \in Stages
  BY <1>1, <1>2, <1>3 DEF Shape, Ends, Stages, HasDp, HasIp, Stage, TypeInv
<1>5. /\ ref[i] >= 1 /\ ref' \in [Inum -> Nat] /\ ref \in [Inum -> Nat]
      /\ \A j \in Inum : ref'[j] = ref[j] - Is(i, j)
  <2>1. ref[i] >= 1 /\ ref \in [Inum -> Nat]
    BY <1>1, <1>2, <1>4, OneRef DEF TypeInv
  <2>2. ref[i] - 1 \in Nat
    BY <1>4, <2>1
  <2>3. QED
    BY <1>3, <1>4, <2>1, <2>2 DEF Is
<1>6. /\ pc' \in [Proc -> Stages \cup Ends] /\ ret' \in [Proc -> Stages]
      /\ put' \in [Proc -> Inum \cup {0}]
      /\ pc'[p] = l /\ put'[p] = 0 /\ ret'[p] = "out" /\ Stage(p)' = l
      /\ \A q \in Proc \ {p} : pc'[q] = pc[q] /\ put'[q] = put[q] /\ ret'[q] = ret[q]
  BY <1>1, <1>3, <1>4 DEF TypeInv, Stage, Ends
<1>7. /\ call' \in [Proc -> Calls \cup {Nobody}] /\ path' \in [Proc -> Seq(Entry)]
      /\ \A q \in Proc \ {p} : call'[q] = call[q] /\ path'[q] = path[q]
      /\ l # "out" => call'[p] = call[p] /\ path'[p] = path[p]
  <2>1. <<>> \in Seq(Entry)
    OBVIOUS
  <2>2. QED
    BY <1>1, <1>3, <2>1 DEF TypeInv
<1>8. mem' \in [Inum -> Inode \cup {Nobody}] /\ \A j \in Inum \ {i} : mem'[j] = mem[j]
  BY <1>1, <1>3, <1>4 DEF TypeInv
<1>9. TypeInv' /\ Mine(p)
  BY <1>1, <1>3, <1>5, <1>6, <1>7, <1>8 DEF TypeInv, Mine
<1>10. Shape(p)'
  <2>1. at'[p] = at[p] /\ dp'[p] = dp[p] /\ ip'[p] = ip[p] /\ Shape(p)
    BY <1>1, <1>3
  <2>2. QED
    BY <1>4, <1>6, <1>7, <2>1 DEF Shape, Ends, HasDp, HasIp, Walks, Links
<1>11. RefStep(p)
  <2>1. \A j \in Inum : Has(p, j)' = Has(p, j) - Is(i, j) /\ Has(p, j) \in Int /\ Is(i, j) \in Int
    BY <1>2, <1>3, <1>6, Consts DEF Has, Is
  <2>2. \A j \in Inum : ref'[j] = ref[j] + Has(p, j)' - Has(p, j)
    BY <1>5, <2>1
  <2>3. QED
    BY <1>3, <1>5, <2>2, RefsInFiles
<1>12. LockStep(p)
  <2>1. \A j \in Inum : Owner(p, j)' <=> Owner(p, j)
    BY <1>3, <1>4, <1>6 DEF Owner, Ends
  <2>2. QED
    BY <1>1, <1>3, <2>1, SameLocks
<1>13. (\A q \in Proc : Shape(q))' /\ Refs' /\ Locks'
  BY <1>1, <1>9, <1>10, <1>11, <1>12, ShapeKept, RefsKept, LocksKept
<1>14. (\A q \in Proc : Valid(q))' /\ FilesOpen' /\ Acyclic'
  <2>1. \A j \in Inum : Freed(j)' => Freed(j)
    BY <1>3, <1>4, <1>6, <1>9 DEF Freed, Mine, Ends
  <2>2. /\ \A j \in Inum : Kept(j) => disk'[j].type = disk[j].type /\ ~Freed(j)' /\ ent'[j] = ent[j]
        /\ \A j \in Inum, n \in Name : ent'[j][n] \in {ent[j][n], 0}
    BY <1>3, <2>1 DEF Kept
  <2>3. /\ \A q \in Proc : dp[q] \in Inum \cup {0} /\ ip[q] \in Inum \cup {0} /\ cwd[q] \in Inum
        /\ \A f \in File : file[f] \in Inum \cup {0}
    BY <1>1 DEF TypeInv
  <2>4. Stage(p) # "out" => path'[p] = path[p] /\ call'[p] = call[p]
    BY <1>4, <1>7
  <2>5. UNCHANGED <<dp, ip, cwd, file, open>> /\ Stage(p)' = Stage(p)
    BY <1>3, <1>4, <1>6
  <2>6. QED
    BY <1>1, <1>9, <2>2, <2>3, <2>4, <2>5, IputStays
<1>15. /\ Leaving(i) \in Nat /\ Leaving(i)' = Leaving(i) - 1 /\ Leaving(i) >= 1
       /\ \A j \in Inum \ {i} : Leaving(j)' = Leaving(j)
  <2>1. Leaves(p) = i /\ Leaves(p)' \notin Inum
    BY <1>2, <1>3, <1>4, <1>6, Consts DEF Leaves, Ends
  <2>2. \A j \in Inum : Leaving(j) \in Nat /\ Leaving(j)' = Leaving(j) - Is(i, j)
    <3>1. ASSUME NEW j \in Inum
          PROVE  /\ Leaving(j) \in Nat
                 /\ Leaving(j)' = Leaving(j) + Is(Leaves(p)', j) - Is(Leaves(p), j)
      BY <1>1, <1>9, LeavingMoves
    <3>2. \A j \in Inum : Is(Leaves(p)', j) = 0 /\ Is(Leaves(p), j) = Is(i, j) /\ Is(i, j) \in Int
      BY <2>1 DEF Is
    <3>3. QED
      BY <3>1, <3>2
  <2>3. Leaving(i)' \in Nat
    <3>1. IsFiniteSet({q \in Proc : put'[q] = i /\ pc'[q] = "deref"})
      BY Consts, FS_Subset
    <3>2. QED
      BY <3>1, FS_CardinalityType DEF Leaving
  <2>4. QED
    BY <1>4, <2>2, <2>3 DEF Is
<1>16. ref[i] = 1 => lock[i] = Nobody
  <2>1. SUFFICES ASSUME NEW q \in Proc, lock[i] = q PROVE ref[i] > 1
    BY <1>1, <1>4, <1>5 DEF TypeInv
  <2>2. InHand(q, i)
    BY <1>1, <1>4, <2>1, HolderHas DEF Locks
  <2>3. QED
    BY <1>1, <1>4, <1>5, <1>15, <2>2, SpareAll
<1>17. \A j \in Inum : Copied(j)'
  <2>1. ASSUME NEW j \in Inum PROVE Copied(j)'
    BY <1>1, <1>3, <1>4, <1>8, <1>16 DEF Copied, TypeInv
  <2>2. QED
    BY <2>1
<1>18. BlocksOwned'
  BY <1>1, <1>3, SameBlocks
<1>19. ASSUME NEW j \in Inum \ raced' PROVE ToBeFreed(j)'
  <2>1. SUFFICES ASSUME disk[j].nlink = 0, disk[j].type # "none"
                 PROVE  /\ ref'[j] > Leaving(j)'
                        /\ mem'[j] # Nobody \/ \E q \in Proc : Stage(q)' = "fill" /\ ip'[q] = j
    BY <1>3 DEF ToBeFreed
  <2>2. ref[j] > Leaving(j) /\ (mem[j] # Nobody \/ \E q \in Proc : Stage(q) = "fill" /\ ip[q] = j)
    BY <1>1, <1>3, <1>19, <2>1 DEF ToBeFreed
  <2>3. \A q \in Proc : Stage(q)' = Stage(q) /\ ip'[q] = ip[q]
    BY <1>3, <1>4, <1>6, <1>9, StagesKept
  <2>4. j = i => ref[i] # 1
    BY <1>4, <1>5, <1>15, <2>2
  <2>5. mem'[j] = mem[j]
    BY <1>3, <1>8, <2>4
  <2>6. ref'[j] > Leaving(j)'
    <3>1. Leaving(j) \in Nat
      BY <1>1, <1>9, LeavingMoves
    <3>2. CASE j = i
      BY <1>4, <1>5, <1>15, <2>2, <3>1, <3>2 DEF Is
    <3>3. CASE j # i
      BY <1>4, <1>5, <1>15, <2>2, <3>1, <3>3 DEF Is
    <3>4. QED
      BY <3>2, <3>3
  <2>7. QED
    BY <2>2, <2>3, <2>5, <2>6
<1>20. QED
  BY <1>9, <1>13, <1>14, <1>17, <1>18, <1>19 DEF IInv

LEMMA IputFreeStep ==
  ASSUME IInv, NEW p \in Proc, IputFree(p)
  PROVE  IInv'
<1>1. /\ TypeInv /\ Shape(p) /\ Locks /\ FilesOpen /\ (\A j \in Inum : Copied(j)) /\ Refs
      /\ Acyclic /\ BlocksOwned /\ (\A q \in Proc : Shape(q)) /\ (\A q \in Proc : Valid(q))
      /\ \A j \in Inum \ raced : ToBeFreed(j)
  BY DEF IInv
<1>2. PICK i, zero : i = put[p] /\ zero = [n \in Entry |-> 0]
  OBVIOUS
<1>3. /\ pc[p] = "ifree" /\ used' = used \ {mem[i].addr}
      /\ disk' = [disk EXCEPT ![i] = FreeInode] /\ ent' = [ent EXCEPT ![i] = zero]
      /\ mem' = [mem EXCEPT ![i] = Nobody] /\ lock' = [lock EXCEPT ![i] = Nobody]
      /\ raced' = raced \ {i} /\ pc' = [pc EXCEPT ![p] = "deref"]
      /\ UNCHANGED <<ref, file, open, cwd, call, path, at, dp, ip, put, ret>>
  BY <1>2 DEF IputFree, Goto, files, locals
<1>4. i \in Inum /\ Stage(p) = ret[p] /\ Stage(p)' = Stage(p) /\ "deref" \in Ends
  BY <1>1, <1>2, <1>3 DEF Shape, Ends, Stage, TypeInv
<1>5. Freed(i) /\ lock[i] = p /\ mem[i] = disk[i]
  <2>1. Freed(i) /\ lock[i] = p
    BY <1>1, <1>2, <1>3, <1>4 DEF Freed, Locks, Owner
  <2>2. QED
    BY <1>1, <1>4, <2>1, Consts DEF Copied
<1>6. /\ disk' \in [Inum -> Inode] /\ disk'[i].type = "none" /\ disk'[i].addr = 0 /\ disk'[i] # Nobody
      /\ mem' \in [Inum -> Inode \cup {Nobody}] /\ mem'[i] = Nobody
      /\ lock' \in [Inum -> Proc \cup {Nobody}] /\ lock'[i] = Nobody
      /\ \A j \in Inum \ {i} : disk'[j] = disk[j] /\ mem'[j] = mem[j] /\ lock'[j] = lock[j]
  <2>1. PICK free \in Inode : free = FreeInode /\ free # Nobody
    BY Consts
  <2>2. free.type = "none" /\ free.addr = 0
    BY <2>1 DEF FreeInode
  <2>3. disk' = [disk EXCEPT ![i] = free]
    BY <1>3, <2>1
  <2>4. QED
    BY <1>1, <1>3, <1>4, <2>1, <2>2, <2>3 DEF TypeInv
<1>7. /\ ent' \in [Inum -> [Entry -> Inum \cup {0}]]
      /\ \A n \in Entry : ent'[i][n] = 0
      /\ \A j \in Inum \ {i} : ent'[j] = ent[j]
  <2>1. zero \in [Entry -> Inum \cup {0}] /\ \A n \in Entry : zero[n] = 0
    BY <1>2
  <2>2. QED
    BY <1>1, <1>3, <1>4, <2>1 DEF TypeInv
<1>8. pc' \in [Proc -> Stages \cup Ends] /\ pc'[p] = "deref" /\ \A q \in Proc \ {p} : pc'[q] = pc[q]
  BY <1>1, <1>3, <1>4 DEF TypeInv
<1>9. TypeInv' /\ Mine(p)
  <2>1. used' \subseteq Block /\ raced' \subseteq Inum
    BY <1>1, <1>3 DEF TypeInv
  <2>2. QED
    BY <1>1, <1>3, <1>6, <1>7, <1>8, <2>1 DEF TypeInv, Mine
<1>10. Shape(p)'
  <2>1. /\ at'[p] = at[p] /\ dp'[p] = dp[p] /\ ip'[p] = ip[p] /\ Shape(p) /\ put'[p] = put[p]
        /\ call'[p] = call[p] /\ path'[p] = path[p] /\ ret'[p] = ret[p]
    BY <1>1, <1>3
  <2>2. QED
    BY <1>3, <1>4, <1>8, <2>1 DEF Shape, Ends
<1>11. RefStep(p)
  <2>1. \A j \in Inum : Has(p, j)' = Has(p, j) /\ Has(p, j) \in Int
    BY <1>3 DEF Has, Is
  <2>2. \A j \in Inum : ref'[j] = ref[j] + Has(p, j)' - Has(p, j)
    BY <1>1, <1>3, <2>1 DEF TypeInv
  <2>3. QED
    BY <1>1, <1>3, <2>2, RefsInFiles DEF TypeInv
<1>12. LockStep(p)
  <2>1. dp[p] # i /\ ~(ip[p] = i /\ Stage(p) \in {"made", "unlinked"})
    BY <1>1, <1>4, <1>5, Consts DEF Valid, KeptDir, Kept
  <2>2. ~Owner(p, i)'
    BY <1>3, <1>4, <1>8, <2>1 DEF Owner
  <2>3. \A j \in Inum \ {i} : Owner(p, j)' <=> Owner(p, j)
    BY <1>2, <1>3, <1>4, <1>8 DEF Owner
  <2>4. QED
    BY <1>1, <1>4, <1>5, <1>6, <2>2, <2>3, Consts DEF LockStep, Locks
<1>13. (\A q \in Proc : Shape(q))' /\ Refs' /\ Locks'
  BY <1>1, <1>9, <1>10, <1>11, <1>12, ShapeKept, RefsKept, LocksKept
<1>14. (\A q \in Proc : Valid(q))' /\ FilesOpen' /\ Acyclic'
  <2>1. \A j \in Inum : Freed(j)' => Freed(j)
    BY <1>3, <1>8 DEF Freed
  <2>2. \A j \in Inum : Kept(j) => disk'[j].type = disk[j].type /\ ~Freed(j)' /\ ent'[j] = ent[j]
    BY <1>5, <1>6, <1>7, <2>1 DEF Kept
  <2>3. \A j \in Inum, n \in Name : ent'[j][n] \in {ent[j][n], 0}
    BY <1>7, Consts
  <2>4. /\ \A q \in Proc : dp[q] \in Inum \cup {0} /\ ip[q] \in Inum \cup {0} /\ cwd[q] \in Inum
        /\ \A f \in File : file[f] \in Inum \cup {0}
    BY <1>1 DEF TypeInv
  <2>5. UNCHANGED <<dp, ip, cwd, file, open, path, call>>
    BY <1>3
  <2>6. QED
    BY <1>1, <1>4, <1>9, <2>2, <2>3, <2>4, <2>5, IputStays
<1>15. \A j \in Inum : Copied(j)'
  BY <1>1, <1>6, <1>7 DEF Copied
<1>16. BlocksOwned'
  BY <1>1, <1>3, <1>4, <1>5, <1>6, OneLessBlock
<1>17. ASSUME NEW j \in Inum \ raced' PROVE ToBeFreed(j)'
  <2>1. CASE j = i
    BY <1>6, <2>1 DEF ToBeFreed
  <2>2. CASE j # i
    <3>1. ToBeFreed(j) /\ disk'[j] = disk[j] /\ mem'[j] = mem[j] /\ ref'[j] = ref[j]
      BY <1>1, <1>3, <1>6, <1>17, <2>2
    <3>2. Leaving(j)' = Leaving(j)
      BY <1>2, <1>3, <1>9, <2>2, LeavingKept
    <3>3. \A q \in Proc : Stage(q)' = Stage(q) /\ ip'[q] = ip[q]
      BY <1>3, <1>4, <1>9, StagesKept
    <3>4. QED
      BY <3>1, <3>2, <3>3 DEF ToBeFreed
  <2>3. QED
    BY <2>1, <2>2
<1>18. QED
  BY <1>9, <1>13, <1>14, <1>15, <1>16, <1>17 DEF IInv

LEMMA IputTestStep ==
  ASSUME IInv, NEW p \in Proc, IputTest(p)
  PROVE  IInv'
<1>1. /\ TypeInv /\ Shape(p) /\ Locks /\ FilesOpen /\ (\A j \in Inum : Copied(j)) /\ Refs
      /\ Acyclic /\ BlocksOwned /\ (\A q \in Proc : Shape(q)) /\ (\A q \in Proc : Valid(q))
      /\ \A j \in Inum \ raced : ToBeFreed(j)
  BY DEF IInv
<1>2. PICK i : i = put[p]
  OBVIOUS
<1>3. /\ pc[p] = "iput" /\ lock[i] = Nobody
      /\ UNCHANGED <<disk, used, ent, mem, ref, file, open, cwd, call, path, at, dp, ip, put, ret>>
  BY <1>2 DEF IputTest, Goto, store, files, locals
<1>4. i \in Inum /\ Stage(p) = ret[p]
  BY <1>1, <1>2, <1>3 DEF Shape, Ends, Stage, TypeInv
<1>5. /\ ref[i] \in Nat /\ ref[i] >= 1
      /\ ref[i] = 1 => /\ \A q \in Proc : at[q] # i /\ dp[q] # i /\ ip[q] # i /\ cwd[q] # i
                       /\ \A f \in File : file[f] # i
  BY <1>1, <1>2, <1>4, OneRef DEF TypeInv
<1>6. PICK l \in {"ifree", "deref"} :
        /\ pc' = [pc EXCEPT ![p] = l]
        /\ l = "ifree" => mem[i] # Nobody /\ ref[i] = 1 /\ lock' = [lock EXCEPT ![i] = p] /\ raced' = raced
        /\ l = "deref" => /\ lock' = lock /\ ~(mem[i] # Nobody /\ mem[i].nlink = 0 /\ ref[i] = 1)
                          /\ raced' = IF mem[i] # Nobody /\ mem[i].nlink = 0 /\ ref[i] > 1 /\ OthersDone(p, i)
                                      THEN raced \cup {i} ELSE raced
  <2>1. CASE mem[i] # Nobody /\ mem[i].nlink = 0 /\ ref[i] = 1
    <3>1. pc' = [pc EXCEPT ![p] = "ifree"] /\ lock' = [lock EXCEPT ![i] = p] /\ raced' = raced
      BY <1>2, <2>1 DEF IputTest, Goto
    <3>2. QED
      BY <2>1, <3>1
  <2>2. CASE ~(mem[i] # Nobody /\ mem[i].nlink = 0 /\ ref[i] = 1)
    <3>1. /\ pc' = [pc EXCEPT ![p] = "deref"] /\ lock' = lock
          /\ raced' = IF mem[i] # Nobody /\ mem[i].nlink = 0 /\ ref[i] > 1 /\ OthersDone(p, i)
                      THEN raced \cup {i} ELSE raced
      BY <1>2, <2>2 DEF IputTest, Goto
    <3>2. QED
      BY <2>2, <3>1
  <2>3. QED
    BY <2>1, <2>2
<1>7. /\ pc' \in [Proc -> Stages \cup Ends] /\ pc'[p] = l /\ l \in Ends /\ Stage(p)' = Stage(p)
      /\ \A q \in Proc \ {p} : pc'[q] = pc[q]
  BY <1>1, <1>3, <1>4, <1>6 DEF TypeInv, Ends, Stage
<1>8. /\ lock' \in [Inum -> Proc \cup {Nobody}] /\ raced' \subseteq Inum
      /\ \A j \in Inum : lock'[j] = IF j = i /\ l = "ifree" THEN p ELSE lock[j]
  BY <1>1, <1>4, <1>6 DEF TypeInv
<1>9. TypeInv' /\ Mine(p)
  BY <1>1, <1>3, <1>7, <1>8 DEF TypeInv, Mine
<1>10. Shape(p)'
  <2>1. /\ at'[p] = at[p] /\ dp'[p] = dp[p] /\ ip'[p] = ip[p] /\ Shape(p) /\ put'[p] = put[p]
        /\ call'[p] = call[p] /\ path'[p] = path[p] /\ ret'[p] = ret[p]
    BY <1>1, <1>3
  <2>2. QED
    BY <1>3, <1>7, <2>1 DEF Shape, Ends
<1>11. RefStep(p)
  <2>1. \A j \in Inum : Has(p, j)' = Has(p, j) /\ Has(p, j) \in Int
    BY <1>3 DEF Has, Is
  <2>2. \A j \in Inum : ref'[j] = ref[j] + Has(p, j)' - Has(p, j)
    BY <1>1, <1>3, <2>1 DEF TypeInv
  <2>3. QED
    BY <1>1, <1>3, <2>2, RefsInFiles DEF TypeInv
<1>12. LockStep(p)
  <2>1. \A j \in Inum : Owner(p, j)' <=> (Owner(p, j) \/ (j = i /\ l = "ifree"))
    BY <1>2, <1>3, <1>7 DEF Owner
  <2>2. QED
    BY <1>1, <1>3, <1>8, <2>1 DEF LockStep, Locks
<1>13. (\A q \in Proc : Shape(q))' /\ Refs' /\ Locks'
  BY <1>1, <1>9, <1>10, <1>11, <1>12, ShapeKept, RefsKept, LocksKept
<1>14. (\A q \in Proc : Valid(q))' /\ FilesOpen' /\ Acyclic'
  <2>1. PICK U \in SUBSET Inum : U = IF l = "ifree" THEN Inum \ {i} ELSE Inum
    OBVIOUS
  <2>2. \A j \in U : Freed(j)' => Freed(j)
    BY <1>2, <1>3, <1>7, <2>1 DEF Freed
  <2>3. /\ \A j \in U : Kept(j) => disk'[j].type = disk[j].type /\ ~Freed(j)' /\ ent'[j] = ent[j]
        /\ \A j \in Inum, n \in Name : ent'[j][n] \in {ent[j][n], 0}
    BY <1>3, <2>2 DEF Kept
  <2>4. /\ \A q \in Proc : dp[q] \in U \cup {0} /\ ip[q] \in U \cup {0} /\ cwd[q] \in U
        /\ \A f \in File : file[f] \in U \cup {0}
    BY <1>1, <1>5, <1>6, <2>1 DEF TypeInv
  <2>5. UNCHANGED <<dp, ip, cwd, file, open, path, call>>
    BY <1>3
  <2>6. QED
    BY <1>1, <1>7, <1>9, <2>3, <2>4, <2>5, IputStays
<1>15. \A j \in Inum : Copied(j)'
  BY <1>1, <1>3, <1>6, <1>8 DEF Copied
<1>16. BlocksOwned'
  BY <1>1, <1>3, SameBlocks
<1>17. ASSUME NEW j \in Inum \ raced' PROVE ToBeFreed(j)'
  <2>1. SUFFICES ASSUME disk[j].nlink = 0, disk[j].type # "none"
                 PROVE  /\ ref[j] > Leaving(j)'
                        /\ mem[j] # Nobody \/ \E q \in Proc : Stage(q)' = "fill" /\ ip'[q] = j
    BY <1>3 DEF ToBeFreed
  <2>2. /\ ref[j] \in Nat /\ ref[j] > Leaving(j)
        /\ mem[j] # Nobody \/ \E q \in Proc : Stage(q) = "fill" /\ ip[q] = j
    BY <1>1, <1>6, <1>17, <2>1 DEF ToBeFreed, TypeInv
  <2>3. \A q \in Proc : Stage(q)' = Stage(q) /\ ip'[q] = ip[q]
    BY <1>3, <1>7, <1>9, StagesKept
  <2>4. CASE j # i \/ l = "ifree"
    <3>1. Leaving(j)' = Leaving(j)
      BY <1>2, <1>3, <1>7, <1>9, <2>4, LeavingKept
    <3>2. QED
      BY <2>2, <2>3, <3>1
  <2>5. CASE j = i /\ l = "deref" /\ mem[i] # Nobody
    <3>1. mem[i].nlink = 0
      BY <1>1, <1>4, <2>1, <2>5 DEF Copied
    <3>2. ref[i] > 1 /\ ~OthersDone(p, i)
      BY <1>5, <1>6, <1>17, <2>5, <3>1
    <3>3. {q \in Proc \ {p} : put[q] = i /\ pc[q] = "deref"} = {q \in Proc : put[q] = i /\ pc[q] = "deref"}
      BY <1>3
    <3>4. ref[i] # 1 + Leaving(i)
      BY <3>2, <3>3 DEF OthersDone, Leaving
    <3>5. Leaving(i) \in Nat /\ Leaving(i)' = Leaving(i) + Is(Leaves(p)', i) - Is(Leaves(p), i)
      BY <1>1, <1>4, <1>9, LeavingMoves
    <3>6. Is(Leaves(p)', i) = 1 /\ Is(Leaves(p), i) = 0
      BY <1>2, <1>3, <1>4, <1>7, <2>5, Consts DEF Leaves, Is
    <3>7. QED
      BY <2>2, <2>5, <3>4, <3>5, <3>6
  <2>6. CASE j = i /\ l = "deref" /\ mem[i] = Nobody
    <3>1. PICK q \in Proc : Stage(q) = "fill" /\ ip[q] = j
      BY <2>2, <2>6
    <3>2. ip'[q] = j
      BY <2>3, <3>1
    <3>3. InHand(q, j)' /\ TypeInv' /\ Refs'
      BY <1>9, <1>13, <3>2 DEF InHand
    <3>4. ref'[j] > Leaving(j)'
      BY <3>3, SpareNext
    <3>5. QED
      BY <1>3, <2>3, <3>1, <3>4
  <2>7. QED
    BY <1>6, <2>4, <2>5, <2>6
<1>18. QED
  BY <1>9, <1>13, <1>14, <1>15, <1>16, <1>17 DEF IInv

-----------------------------------------------------------------------------
(* All the steps. *)

LEMMA InitHolds == Init => IInv
<1> SUFFICES ASSUME Init PROVE IInv
  OBVIOUS
<1>1. NINODES \in Nat /\ NBLOCKS \in Nat /\ NBLOCKS >= 1 /\ 1 \in Block /\ 0 \notin Block
  BY FilesAssumption DEF FilesAssumption, Block
<1>2. /\ IsFiniteSet(Proc) /\ ROOTINO \in Inum /\ 0 \notin Inum /\ FreeInode \in Inode
      /\ Name \subseteq Entry /\ Nobody \notin Proc /\ Nobody \notin Inode
  BY Consts
<1>3. Cardinality(Proc) \in Nat
  BY <1>2, FS_CardinalityType
<1>4. PICK root \in Inode : root = [type |-> "dir", nlink |-> 1, addr |-> 1]
  <2>1. [type |-> "dir", nlink |-> 1, addr |-> 1] \in [type : Types, nlink : Int, addr : Block \cup {0}]
    BY <1>1 DEF Types
  <2>2. QED
    BY <2>1 DEF Inode
<1>5. root.type = "dir" /\ root.nlink = 1 /\ root.addr = 1
  BY <1>4
<1>6. PICK free \in Inode : free = FreeInode
  BY <1>2
<1>7. free.type = "none" /\ free.nlink = 0 /\ free.addr = 0
  BY <1>6 DEF FreeInode
<1>8. /\ disk = [i \in Inum |-> IF i = ROOTINO THEN root ELSE free] /\ used = {1}
      /\ ent = [i \in Inum |-> [n \in Entry |-> IF i = ROOTINO /\ n \notin Name THEN i ELSE 0]]
      /\ mem = [i \in Inum |-> Nobody] /\ lock = [i \in Inum |-> Nobody]
      /\ ref = [i \in Inum |-> IF i = ROOTINO THEN Cardinality(Proc) ELSE 0]
      /\ file = [f \in File |-> 0] /\ open = [p \in Proc |-> {}]
      /\ cwd = [p \in Proc |-> ROOTINO]
      /\ pc = [p \in Proc |-> "out"] /\ ret = [p \in Proc |-> "out"]
      /\ call = [p \in Proc |-> Nobody] /\ path = [p \in Proc |-> <<>>]
      /\ at = [p \in Proc |-> 0] /\ dp = [p \in Proc |-> 0] /\ ip = [p \in Proc |-> 0]
      /\ put = [p \in Proc |-> 0] /\ raced = {}
  BY <1>4, <1>6 DEF Init
<1>9. TypeInv
  <2>1. /\ <<>> \in Seq(Entry) /\ "out" \in Stages
    BY DEF Stages
  <2>2. /\ pc \in [Proc -> Stages \cup Ends] /\ ret \in [Proc -> Stages]
        /\ path \in [Proc -> Seq(Entry)] /\ call \in [Proc -> Calls \cup {Nobody}]
        /\ open \in [Proc -> SUBSET File] /\ cwd \in [Proc -> Inum]
    BY <1>2, <1>8, <2>1
  <2>3. /\ disk \in [Inum -> Inode] /\ mem \in [Inum -> Inode \cup {Nobody}]
        /\ used \subseteq Block /\ ent \in [Inum -> [Entry -> Inum \cup {0}]]
        /\ ref \in [Inum -> Nat] /\ lock \in [Inum -> Proc \cup {Nobody}]
    BY <1>1, <1>2, <1>3, <1>8
  <2>4. /\ file \in [File -> Inum \cup {0}] /\ raced \subseteq Inum
        /\ at \in [Proc -> Inum \cup {0}] /\ dp \in [Proc -> Inum \cup {0}]
        /\ ip \in [Proc -> Inum \cup {0}] /\ put \in [Proc -> Inum \cup {0}]
    BY <1>8
  <2>5. QED
    BY <2>2, <2>3, <2>4 DEF TypeInv
<1>10. \A p \in Proc : /\ pc[p] = "out" /\ ret[p] = "out" /\ Stage(p) = "out" /\ at[p] = 0 /\ dp[p] = 0
                       /\ ip[p] = 0 /\ put[p] = 0 /\ cwd[p] = ROOTINO /\ open[p] = {}
  BY <1>8 DEF Stage
<1>11. \A p \in Proc : Shape(p)
  BY <1>10 DEF Shape, Ends, HasDp, HasIp, Walks, Links
<1>12. \A i : ~Freed(i)
  BY <1>10 DEF Freed
<1>13. \A p \in Proc : Valid(p)
  <2>1. KeptDir(ROOTINO)
    BY <1>2, <1>5, <1>8, <1>12 DEF KeptDir
  <2>2. QED
    BY <1>10, <2>1 DEF Valid, KeptDir, Freed
<1>14. FilesOpen
  BY <1>8, <1>10 DEF FilesOpen
<1>15. Refs
  <2>1. SUFFICES ASSUME NEW i \in Inum
                 PROVE  ref[i] = Held(at, i) + Held(dp, i) + Held(ip, i) + Held(put, i)
                                 + Held(cwd, i) + Count(File, file, i)
    BY DEF Refs
  <2>2. Cardinality({}) = 0
    BY FS_EmptySet
  <2>3. /\ {p \in Proc : at[p] = i} = {} /\ {p \in Proc : dp[p] = i} = {}
        /\ {p \in Proc : ip[p] = i} = {} /\ {p \in Proc : put[p] = i} = {}
        /\ {f \in File : file[f] = i} = {}
    BY <1>2, <1>8, <1>10
  <2>4. /\ Held(at, i) = 0 /\ Held(dp, i) = 0 /\ Held(ip, i) = 0 /\ Held(put, i) = 0
        /\ Count(File, file, i) = 0
    BY <2>2, <2>3 DEF Held, Count
  <2>5. {p \in Proc : cwd[p] = i} = IF i = ROOTINO THEN Proc ELSE {}
    BY <1>10
  <2>6. Held(cwd, i) = IF i = ROOTINO THEN Cardinality(Proc) ELSE 0
    BY <2>2, <2>5 DEF Held, Count
  <2>7. QED
    BY <1>3, <1>8, <2>4, <2>6
<1>16. Locks
  BY <1>2, <1>8, <1>10 DEF Locks, Owner
<1>17. \A i \in Inum : Copied(i)
  BY <1>2, <1>5, <1>8 DEF Copied
<1>18. Acyclic
  <2>1. \A i, j \in Inum : ~Edge(i, j)
    BY <1>2, <1>8, <1>10 DEF Edge
  <2>2. QED
    BY <2>1 DEF Acyclic
<1>19. BlocksOwned
  <2>1. \A i \in Inum : disk[i].addr = IF i = ROOTINO THEN 1 ELSE 0
    BY <1>5, <1>7, <1>8
  <2>2. \A i \in Inum : disk[i].type = "none" => i # ROOTINO
    BY <1>5, <1>8
  <2>3. {disk[i].addr : i \in Inum} \ {0} = {1}
    BY <1>2, <2>1
  <2>4. QED
    BY <1>8, <2>1, <2>2, <2>3 DEF BlocksOwned
<1>20. \A i \in Inum : ToBeFreed(i)
  BY <1>5, <1>7, <1>8 DEF ToBeFreed
<1>21. QED
  BY <1>9, <1>11, <1>13, <1>14, <1>15, <1>16, <1>17, <1>18, <1>19, <1>20 DEF IInv

LEMMA CreateLookStep ==
  ASSUME IInv, NEW p \in Proc, CreateLook(p)
  PROVE  IInv'
BY CreateFoundStep, CreateNewStep

LEMMA LinkCountAll ==
  ASSUME IInv, NEW p \in Proc, LinkCount(p)
  PROVE  IInv'
<1>1. CASE Load(ip[p]).type = "dir"
  <2>1. /\ pc[p] = "link" /\ CanLock(ip[p]) /\ Loads(ip[p]) /\ PutIp(p)
        /\ UNCHANGED <<disk, ref, path, at, used, ent, lock, files, call, dp, ends>>
    BY <1>1 DEF LinkCount
  <2>2. QED
    BY <2>1, LinkDirStep
<1>2. CASE Load(ip[p]).type # "dir"
  BY <1>2, LinkCountStep
<1>3. QED
  BY <1>1, <1>2

LEMMA UnlinkEraseAll ==
  ASSUME IInv, NEW p \in Proc, UnlinkErase(p)
  PROVE  IInv'
<1>1. CASE /\ Loads(ip[p]) /\ Iput(p, ip[p], "unlinkbad") /\ ip' = [ip EXCEPT ![p] = 0]
           /\ UNCHANGED <<disk, ent, lock, dp>>
  <2>1. /\ pc[p] = "unlinkip" /\ CanLock(ip[p])
        /\ UNCHANGED <<disk, ent, lock, dp, used, ref, files, call, path, at, ends>>
    BY <1>1 DEF UnlinkErase
  <2>2. QED
    BY <1>1, <2>1, UnlinkFullStep
<1>2. CASE ~(/\ Loads(ip[p]) /\ Iput(p, ip[p], "unlinkbad") /\ ip' = [ip EXCEPT ![p] = 0]
             /\ UNCHANGED <<disk, ent, lock, dp>>)
  <2>1. PICK k \in {-1, 0} : k = IF Load(ip[p]).type = "dir" THEN -1 ELSE 0
    OBVIOUS
  <2>2. /\ pc[p] = "unlinkip" /\ CanLock(ip[p])
        /\ ent' = [ent EXCEPT ![dp[p]][Head(path[p])] = 0]
        /\ disk' = [disk EXCEPT ![dp[p]] = AddLinks(mem[dp[p]], k)]
        /\ mem' = [mem EXCEPT ![ip[p]] = Load(ip[p]), ![dp[p]] = AddLinks(mem[dp[p]], k)]
        /\ lock' = [lock EXCEPT ![ip[p]] = p, ![dp[p]] = Nobody]
        /\ PutDp(p, "unlinked")
        /\ UNCHANGED <<ip, used, ref, files, call, path, at, ends>>
    BY <1>2, <2>1 DEF UnlinkErase
  <2>3. QED
    BY <2>1, <2>2, UnlinkEraseStep
<1>3. QED
  BY <1>1, <1>2

LEMMA StepHolds ==
  ASSUME IInv, NEW p \in Proc, Step(p)
  PROVE  IInv'
<1>1. CASE \E c \in Calls : Call(p, c)
  BY <1>1, CallStep
<1>2. CASE \E f \in File : Close(p, f) \/ Write(p, f)
  BY <1>2, CloseStep, WriteStep
<1>3. CASE Namex(p)
  BY <1>3, NamexStep
<1>4. CASE IputTest(p) \/ IputFree(p) \/ IputDeref(p)
  BY <1>4, IputTestStep, IputFreeStep, IputDerefStep
<1>5. CASE Open(p) \/ Chdir(p)
  BY <1>5, OpenStep, ChdirStep
<1>6. CASE CreateLook(p) \/ CreateExists(p) \/ CreateFill(p) \/ CreateMade(p)
  BY <1>6, CreateLookStep, OpenStep, CreateFillStep, CreateMadeStep
<1>7. CASE LinkCount(p) \/ LinkEnter(p) \/ LinkDup(p) \/ LinkDone(p) \/ LinkUndo(p)
  BY <1>7, LinkCountAll, LinkFoundStep, LinkEnterStep, UnlockPutStep, LinkDoneStep, CountOffStep
<1>8. CASE UnlinkLook(p) \/ UnlinkErase(p) \/ UnlinkBad(p) \/ UnlinkCount(p)
  BY <1>8, UnlinkLookStep, UnlinkEraseAll, UnlockPutStep, CountOffStep
<1>9. CASE Panic(p)
  BY <1>9, StutterStep DEF Panic
<1>10. QED
  BY <1>1, <1>2, <1>3, <1>4, <1>5, <1>6, <1>7, <1>8, <1>9 DEF Step

\* The invariant holds for any number of processes, inodes, blocks, names and files.
THEOREM FilesInductive == Spec => []IInv
<1>1. Init => IInv
  BY InitHolds
<1>2. IInv /\ [Next]_vars => IInv'
  <2> SUFFICES ASSUME IInv, [Next]_vars PROVE IInv'
    OBVIOUS
  <2>1. CASE Next
    BY <2>1, StepHolds DEF Next
  <2>2. CASE UNCHANGED vars
    BY <2>2, StutterStep DEF vars, ends
  <2>3. QED
    BY <2>1, <2>2
<1>3. QED
  BY <1>1, <1>2, PTL DEF Spec

-----------------------------------------------------------------------------
(* What follows. *)

\* ip->ref is the number of the pointers to an inode, a cached inode is the one on the
\* disk, locks have the holders the code says, no block has two owners or none, and
\* an inode without links and references is free (fs.c:114-128), whatever is removed.
THEOREM FilesCounted == Spec => [](TypeOK /\ RefsCounted /\ BlocksOwned /\ UnusedAreFree)
<1>1. ASSUME IInv PROVE TypeOK
  BY <1>1 DEF IInv, TypeInv, TypeOK
<1>2. ASSUME IInv PROVE RefsCounted
  <2>1. ASSUME NEW i \in Inum
        PROVE  ref[i] = Sum4(at, dp, ip, put, i) + Cardinality({p \in Proc : cwd[p] = i})
                        + Cardinality({f \in File : file[f] = i})
    BY <1>2 DEF IInv, Refs, Held, Count, Sum4
  <2>2. \A i \in Inum : mem[i] \in {Nobody, disk[i]}
    BY <1>2 DEF IInv, Copied
  <2>3. \A i \in Inum, p \in Proc :
          lock[i] = p <=> \/ put[p] = i /\ pc[p] = "ifree"
                          \/ ip[p] = i /\ Stage(p) \in {"made", "unlinked"}
                          \/ dp[p] = i /\ Stage(p) \in {"fill", "linkdup", "unlinkip", "unlinkbad"}
    BY <1>2 DEF IInv, Locks, Owner
  <2>4. QED
    BY <2>1, <2>2, <2>3 DEF RefsCounted
<1>3. ASSUME IInv PROVE UnusedAreFree
  <2>1. ASSUME NEW i \in Inum \ raced, disk[i].nlink = 0, ref[i] = 0 PROVE disk[i].type = "none"
    <3>1. Leaving(i) \in Nat
      <4>1. IsFiniteSet({q \in Proc : put[q] = i /\ pc[q] = "deref"})
        BY Consts, FS_Subset
      <4>2. QED
        BY <4>1, FS_CardinalityType DEF Leaving
    <3>2. ToBeFreed(i)
      BY <1>3 DEF IInv
    <3>3. QED
      BY <2>1, <3>1, <3>2 DEF ToBeFreed
  <2>2. QED
    BY <2>1 DEF UnusedAreFree
<1>4. IInv => TypeOK /\ RefsCounted /\ BlocksOwned /\ UnusedAreFree
  BY <1>1, <1>2, <1>3 DEF IInv
<1>5. QED
  BY <1>4, FilesInductive, PTL

\* Who has a lock that is waited for, and waits itself outside iput, has the lock of a
\* directory and waits for an inode in it.
LEMMA WaitsBelow ==
  ASSUME IInv, NEW i \in Inum, NEW q \in Proc, lock[i] = q, Wants(q) # 0, pc[q] # "iput"
  PROVE  Wants(q) \in Inum /\ Edge(i, Wants(q))
<1>1. TypeInv /\ Shape(q) /\ Valid(q) /\ Owner(q, i)
  BY DEF IInv, Locks
<1>2. pc[q] \in {"namex", "create", "linkat", "unlink", "open", "exists", "fill", "link", "undo",
                 "unlinkip", "chdir"}
  BY DEF Wants
<1>3. Stage(q) = pc[q] /\ pc[q] \in {"fill", "unlinkip"} /\ dp[q] = i
  BY <1>1, <1>2 DEF Owner, Stage
<1>4. Wants(q) = ip[q] /\ ip[q] \in Inum
  BY <1>1, <1>3 DEF Wants, TypeInv, Shape, HasIp
<1>5. Edge(i, ip[q])
  <2>1. CASE pc[q] = "fill"
    BY <1>3, <2>1 DEF Edge
  <2>2. CASE pc[q] = "unlinkip"
    BY <1>1, <1>3, <2>2 DEF Edge, Valid, Shape
  <2>3. QED
    BY <1>3, <2>1, <2>2
<1>6. QED
  BY <1>4, <1>5

\* Processes that wait for each other's locks have one that puts an inode under the lock
\* of another (create, unlink and dirlink of an entry that is there): without it a wait
\* leads from a directory to an inode in it, and directories have no cycles.
THEOREM FilesDeadlock == Spec => []OnlyIputDeadlocks
<1>1. ASSUME IInv PROVE OnlyIputDeadlocks
  <2>1. SUFFICES ASSUME NEW S \in SUBSET Proc, Deadlocked(S),
                        \A p \in S : pc[p] = "iput" => \A i \in Inum : lock[i] # p
                 PROVE  FALSE
    BY DEF OnlyIputDeadlocks
  <2>2. \A p \in S : Wants(p) # 0 /\ lock[Wants(p)] \in S
    BY <2>1 DEF Deadlocked
  <2>3. \A p \in S : Wants(p) \in Inum
    <3>1. \A p \in Proc : Wants(p) \in Inum \cup {0}
      BY <1>1 DEF IInv, TypeInv, Wants
    <3>2. QED
      BY <2>2, <3>1
  <2>4. {Wants(p) : p \in S} \in SUBSET Inum /\ {Wants(p) : p \in S} # {}
    BY <2>1, <2>3 DEF Deadlocked
  <2>5. PICK i \in {Wants(p) : p \in S} : \A j \in {Wants(p) : p \in S} : ~Edge(i, j)
    BY <1>1, <2>4 DEF IInv, Acyclic
  <2>6. PICK q \in S : lock[i] = q
    BY <2>2, <2>5
  <2>7. i \in Inum /\ q \in Proc /\ Wants(q) # 0 /\ pc[q] # "iput"
    BY <2>1, <2>2, <2>4, <2>5, <2>6
  <2>8. Edge(i, Wants(q))
    BY <1>1, <2>6, <2>7, WaitsBelow
  <2>9. QED
    BY <2>5, <2>6, <2>8
<1>2. IInv => OnlyIputDeadlocks
  BY <1>1
<1>3. QED
  BY <1>2, FilesInductive, PTL

-----------------------------------------------------------------------------
(* As long as no directory in use is removed: the tree of names and the links. *)

Reached(i) == i = ROOTINO \/ \E d \in Inum : \E n \in Name : ent[d][n] = i
Empty(i) == \A n \in Name : ent[i][n] = 0

Uses(q, i) == at[q] = i \/ dp[q] = i \/ ip[q] = i \/ cwd[q] = i
Unused(i) == (\A q \in Proc : ~Uses(q, i)) /\ \A f \in File : file[f] # i

\* An inode without links is free, or about to be only if it has none.
Zero(i) == disk[i].type = "none" \/ Freed(i) => disk[i].nlink = 0

\* Nobody else knows a new inode, and its name is still free.
Fresh(p) ==
  Stage(p) = "fill" =>
    /\ disk[ip[p]].nlink = 0 /\ ~HasDots(ip[p])
    /\ \A q \in Proc : /\ at[q] # ip[p] /\ dp[q] # ip[p] /\ cwd[q] # ip[p]
                       /\ ip[q] = ip[p] => q = p
    /\ \A f \in File : file[f] # ip[p]
    /\ Head(path[p]) \in Name /\ ent[dp[p]][Head(path[p])] = 0

Rooted ==
  disk[ROOTINO].type = "dir" /\ ent[ROOTINO]["."] = ROOTINO /\ ent[ROOTINO][".."] = ROOTINO

\* "." and ".." of a directory that has a name.
Dots ==
  \A d, i \in Inum : \A n \in Name :
    ent[d][n] = i /\ disk[i].type = "dir" => ent[i]["."] = i /\ ent[i][".."] = d

\* A directory without a name is empty, and new, locked for its removal, or in no one's hand.
Loose(i) ==
  disk[i].type = "dir" /\ ~Reached(i) =>
    /\ Empty(i)
    /\ Unused(i) \/ \E q \in Proc : ip[q] = i /\ Stage(q) \in {"fill", "unlinked"}

InUse(p) == (at[p] # 0 => Kept(at[p])) /\ (ip[p] # 0 => Kept(ip[p]))

TreeInv ==
  /\ LinksMatch /\ Rooted /\ Dots
  /\ \A i \in Inum : Zero(i) /\ Loose(i)
  /\ \A p \in Proc : Fresh(p) /\ InUse(p)


-----------------------------------------------------------------------------
(* What the counts say. *)

\* The link that a call counted and has still to enter or to take back, and the one it has
\* erased and still to count off.
LinkOf(q) ==
  IF call[q].op = "link" /\ Stage(q) \in {"namex", "linkat", "linkdup", "undo"} THEN ip[q] ELSE 0
UnlinkOf(q) == IF Stage(q) = "unlinked" THEN ip[q] ELSE 0

Names(i) == Cardinality({x \in Inum \X Name : ent[x[1]][x[2]] = i})
Subdirs(i) == Cardinality({n \in Name : ent[i][n] # 0 /\ disk[ent[i][n]].type = "dir"})

Linking == [q \in Proc |-> LinkOf(q)]
Unlinking == [q \in Proc |-> UnlinkOf(q)]

Counts(i) ==
  disk[i].nlink = Names(i) + Subdirs(i) + Held(Linking, i) + Held(Unlinking, i) + Is(i, ROOTINO)

LEMMA LinksCounted == LinksMatch <=> \A i \in Inum : Counts(i)
<1>1. ASSUME NEW i \in Inum
      PROVE  /\ Held(Linking, i) =
                  Cardinality({p \in Proc : /\ ip[p] = i /\ call[p].op = "link"
                                             /\ Stage(p) \in {"namex", "linkat", "linkdup", "undo"}})
             /\ Held(Unlinking, i) =
                  Cardinality({p \in Proc : ip[p] = i /\ Stage(p) = "unlinked"})
  <2>1. 0 # i
    BY Consts
  <2>2. {x \in Proc : Linking[x] = i} =
          {p \in Proc : /\ ip[p] = i /\ call[p].op = "link"
                         /\ Stage(p) \in {"namex", "linkat", "linkdup", "undo"}}
    BY <2>1 DEF LinkOf, Linking
  <2>3. {x \in Proc : Unlinking[x] = i} =
          {p \in Proc : ip[p] = i /\ Stage(p) = "unlinked"}
    BY <2>1 DEF UnlinkOf, Unlinking
  <2>4. QED
    BY <2>2, <2>3 DEF Held, Count
<1>2. QED
  BY <1>1 DEF LinksMatch, Counts, Names, Subdirs, Is

LEMMA CountsNat ==
  ASSUME NEW i
  PROVE  /\ Names(i) \in Nat /\ ((\E d \in Inum, n \in Name : ent[d][n] = i) => Names(i) >= 1)
         /\ Subdirs(i) \in Nat
         /\ (\E n \in Name : ent[i][n] # 0 /\ disk[ent[i][n]].type = "dir") => Subdirs(i) >= 1
         /\ Held(Linking, i) \in Nat
         /\ (\E q \in Proc : LinkOf(q) = i) => Held(Linking, i) >= 1
         /\ Held(Unlinking, i) \in Nat
         /\ (\E q \in Proc : UnlinkOf(q) = i) => Held(Unlinking, i) >= 1
<1> DEFINE N == {x \in Inum \X Name : ent[x[1]][x[2]] = i}
           D == {n \in Name : ent[i][n] # 0 /\ disk[ent[i][n]].type = "dir"}
<1>1. IsFiniteSet(Proc) /\ IsFiniteSet(Name) /\ IsFiniteSet(Inum \X Name)
  <2>1. IsFiniteSet(Inum) /\ IsFiniteSet(Name)
    BY FilesAssumption, FS_Interval DEF Inum, FilesAssumption
  <2>2. QED
    BY <2>1, Consts, FS_Product
<1>2. IsFiniteSet(N) /\ IsFiniteSet(D)
  BY <1>1, FS_Subset
<1>3. Cardinality(N) \in Nat /\ (N # {} => Cardinality(N) # 0)
  BY <1>2, FS_CardinalityType, FS_EmptySet
<1>4. Cardinality(D) \in Nat /\ (D # {} => Cardinality(D) # 0)
  BY <1>2, FS_CardinalityType, FS_EmptySet
<1>5. (\E d \in Inum, n \in Name : ent[d][n] = i) => N # {}
  <2>1. SUFFICES ASSUME NEW d \in Inum, NEW n \in Name, ent[d][n] = i PROVE <<d, n>> \in N
    OBVIOUS
  <2>2. QED
    BY <2>1
<1>6. /\ Names(i) \in Nat
      /\ (\E d \in Inum, n \in Name : ent[d][n] = i) => Names(i) >= 1
  BY <1>3, <1>5 DEF Names
<1>7. /\ Subdirs(i) \in Nat
      /\ (\E n \in Name : ent[i][n] # 0 /\ disk[ent[i][n]].type = "dir") => Subdirs(i) >= 1
  BY <1>4 DEF Subdirs
<1>8. /\ Held(Linking, i) \in Nat
      /\ (\E q \in Proc : LinkOf(q) = i) => Held(Linking, i) >= 1
  BY <1>1, CountNat DEF Held, Linking
<1>9. /\ Held(Unlinking, i) \in Nat
      /\ (\E q \in Proc : UnlinkOf(q) = i) => Held(Unlinking, i) >= 1
  BY <1>1, CountNat DEF Held, Unlinking
<1>10. QED
  BY <1>6, <1>7, <1>8, <1>9

-----------------------------------------------------------------------------
LEMMA CountsOf ==
  ASSUME TypeInv, LinksMatch, NEW i \in Inum
  PROVE  /\ disk[i].nlink \in Nat
         /\ Reached(i) => disk[i].nlink >= 1
         /\ (\E n \in Name : ent[i][n] # 0 /\ disk[ent[i][n]].type = "dir") => disk[i].nlink >= 1
         /\ \A q \in Proc : LinkOf(q) = i \/ UnlinkOf(q) = i => disk[i].nlink >= 1
<1>1. disk[i].nlink = Names(i) + Subdirs(i) + Held(Linking, i) + Held(Unlinking, i) + Is(i, ROOTINO)
  BY LinksCounted DEF Counts
<1>2. Is(i, ROOTINO) \in Nat /\ (i = ROOTINO => Is(i, ROOTINO) = 1)
  BY DEF Is
<1>3. /\ Names(i) \in Nat /\ ((\E d \in Inum, n \in Name : ent[d][n] = i) => Names(i) >= 1)
      /\ Subdirs(i) \in Nat
      /\ (\E n \in Name : ent[i][n] # 0 /\ disk[ent[i][n]].type = "dir") => Subdirs(i) >= 1
      /\ Held(Linking, i) \in Nat /\ \A q \in Proc : LinkOf(q) = i => Held(Linking, i) >= 1
      /\ Held(Unlinking, i) \in Nat /\ \A q \in Proc : UnlinkOf(q) = i => Held(Unlinking, i) >= 1
  BY CountsNat
<1>4. QED
  BY <1>1, <1>2, <1>3 DEF Reached

\* What has a name, and what is in hand, is there to stay.
LEMMA ReachedKept ==
  ASSUME TypeInv, TreeInv, NEW i \in Inum, Reached(i)
  PROVE  Kept(i) /\ disk[i].nlink >= 1
<1>1. disk[i].nlink >= 1 /\ Zero(i) /\ disk[i].nlink \in Nat
  BY CountsOf DEF TreeInv
<1>2. QED
  BY <1>1 DEF Zero, Kept

LEMMA UsesKept ==
  ASSUME IInv, TreeInv, NEW p \in Proc, NEW i \in Inum, Uses(p, i)
  PROVE  Kept(i)
<1>1. Valid(p) /\ InUse(p) /\ i # 0
  BY Consts DEF IInv, TreeInv
<1>2. QED
  BY <1>1 DEF Uses, Valid, InUse, Kept, KeptDir

\* A directory in hand that is not locked, and not new, has a name or is the root.
LEMMA InHandReached ==
  ASSUME IInv, TreeInv, NEW p \in Proc, NEW i \in Inum, Uses(p, i), disk[i].type = "dir",
         \A q \in Proc : ~(ip[q] = i /\ Stage(q) = "unlinked"),
         ~(ip[p] = i /\ Stage(p) = "fill")
  PROVE  Reached(i)
<1>1. SUFFICES ASSUME ~Reached(i) PROVE FALSE
  OBVIOUS
<1>2. ~Unused(i) /\ Loose(i)
  BY DEF Unused, TreeInv
<1>3. PICK q \in Proc : ip[q] = i /\ Stage(q) = "fill"
  BY <1>1, <1>2 DEF Loose
<1>4. Fresh(q)
  BY DEF TreeInv
<1>5. QED
  BY <1>3, <1>4 DEF Fresh, Uses

LEMMA FreeReached ==
  ASSUME IInv, TreeInv, NEW p \in Proc, NEW i \in Inum, Uses(p, i), disk[i].type = "dir",
         lock[i] = Nobody, Stage(p) # "fill"
  PROVE  Reached(i)
<1>1. ASSUME NEW q \in Proc PROVE ~(ip[q] = i /\ Stage(q) = "unlinked")
  BY Consts DEF IInv, Locks, Owner
<1>2. QED
  BY <1>1, InHandReached

\* What a directory with a name has an entry for has a name itself.
LEMMA LookupReached ==
  ASSUME IInv, TreeInv, NEW i \in Inum, Reached(i), disk[i].type = "dir",
         NEW n \in Entry, NEW x, x = ent[i][n], x # 0
  PROVE  x \in Inum /\ Reached(x)
<1>1. x \in Inum /\ TypeInv
  BY DEF IInv, TypeInv
<1>2. CASE n \in Name
  BY <1>1, <1>2 DEF Reached
<1>3. CASE n \notin Name
  <2>1. n \in {".", ".."}
    BY <1>3 DEF Entry
  <2>2. CASE i = ROOTINO
    BY <1>1, <2>1, <2>2 DEF TreeInv, Rooted, Reached
  <2>3. CASE i # ROOTINO
    <3>1. PICK d \in Inum, m \in Name : ent[d][m] = i
      BY <2>3 DEF Reached
    <3>2. ent[i]["."] = i /\ ent[i][".."] = d
      BY <3>1 DEF TreeInv, Dots
    <3>3. Reached(d)
      <4>1. m \in Entry /\ i # 0 /\ Copied(d)
        BY Consts DEF IInv
      <4>2. disk[d].type = "dir"
        BY <3>1, <4>1 DEF Copied
      <4>3. Loose(d) /\ ~Empty(d)
        BY <3>1, <4>1 DEF TreeInv, Empty
      <4>4. QED
        BY <4>2, <4>3 DEF Loose
    <3>4. QED
      BY <1>1, <2>1, <3>2, <3>3
  <2>4. QED
    BY <2>2, <2>3
<1>4. QED
  BY <1>2, <1>3

\* It has its dots.
LEMMA ReachedDots ==
  ASSUME IInv, TreeInv, NEW i \in Inum, Reached(i), disk[i].type = "dir"
  PROVE  ent[i]["."] # 0 /\ ent[i][".."] # 0
<1>1. CASE i = ROOTINO
  BY <1>1, Consts DEF TreeInv, Rooted
<1>2. CASE i # ROOTINO
  BY <1>2, Consts DEF TreeInv, Dots, Reached
<1>3. QED
  BY <1>1, <1>2

-----------------------------------------------------------------------------
(* Steps that change no entry and no type. *)

Still(p) ==
  /\ ent' = ent
  /\ \A i \in Inum :
       /\ disk'[i].type = disk[i].type
       /\ disk'[i].nlink = disk[i].nlink + Is(LinkOf(p)', i) - Is(LinkOf(p), i)
                             + Is(UnlinkOf(p)', i) - Is(UnlinkOf(p), i)
       /\ disk'[i].nlink # disk[i].nlink => Kept(i) /\ ip[p] = i /\ Stage(p) # "fill"
       /\ Uses(p, i)' => Uses(p, i) \/ Reached(i)
       /\ Freed(i)' => Freed(i) \/ (disk'[i].nlink = 0 /\ Unused(i)')
       /\ ip[p] = i /\ Stage(p) \in {"fill", "unlinked"} =>
            (ip'[p] = i /\ Stage(p)' = Stage(p)) \/ disk[i].type # "dir" \/ Unused(i)'
  /\ \A f \in File : file'[f] \in {0, file[f], ip[p]}
  /\ Stage(p)' = "fill" => /\ Stage(p) = "fill" /\ path'[p] = path[p] /\ at'[p] = at[p]
                           /\ dp'[p] = dp[p] /\ ip'[p] = ip[p] /\ cwd'[p] = cwd[p] /\ file' = file

LEMMA PendMoves ==
  ASSUME TypeInv, NEW p \in Proc, Mine(p), NEW i
  PROVE  /\ Held(Linking, i) \in Nat
         /\ Held(Linking, i)' = Held(Linking, i) + Is(LinkOf(p)', i) - Is(LinkOf(p), i)
         /\ Held(Unlinking, i) \in Nat
         /\ Held(Unlinking, i)' = Held(Unlinking, i) + Is(UnlinkOf(p)', i) - Is(UnlinkOf(p), i)
<1>1. \A q \in Proc \ {p} : LinkOf(q)' = LinkOf(q) /\ UnlinkOf(q)' = UnlinkOf(q)
  BY StagesKept DEF Mine, LinkOf, UnlinkOf
<1>2. PICK g, h : g = Linking /\ h = Linking'
  OBVIOUS
<1>3. PICK k, l : k = Unlinking /\ l = Unlinking'
  OBVIOUS
<1>4. /\ \A q \in Proc \ {p} : h[q] = g[q]
      /\ g[p] = LinkOf(p) /\ h[p] = LinkOf(p)'
  BY <1>1, <1>2 DEF Linking
<1>5. /\ \A q \in Proc \ {p} : l[q] = k[q]
      /\ k[p] = UnlinkOf(p) /\ l[p] = UnlinkOf(p)'
  BY <1>1, <1>3 DEF Unlinking
<1>6. Held(g, i) \in Nat /\ Held(h, i) = Held(g, i) + Is(h[p], i) - Is(g[p], i)
  BY <1>4, HeldMoves
<1>7. Held(k, i) \in Nat /\ Held(l, i) = Held(k, i) + Is(l[p], i) - Is(k[p], i)
  BY <1>5, HeldMoves
<1>8. Held(Linking, i)' = Held(h, i) /\ Held(Unlinking, i)' = Held(l, i)
  BY <1>2, <1>3 DEF Held, Count
<1>9. QED
  BY <1>2, <1>3, <1>4, <1>5, <1>6, <1>7, <1>8

LEMMA LinksCountedNext == (LinksMatch <=> \A i \in Inum : Counts(i))'
BY LinksCounted, PTL

\* The same names for inodes of the same types.
LEMMA SameNames ==
  ASSUME TypeInv, \A d \in Inum, n \in Name : ent'[d][n] = ent[d][n],
         \A d \in Inum, n \in Name :
           ent[d][n] # 0 => (disk'[ent[d][n]].type = "dir" <=> disk[ent[d][n]].type = "dir"),
         NEW i \in Inum
  PROVE  Names(i)' = Names(i) /\ Subdirs(i)' = Subdirs(i)
<1>1. {x \in Inum \X Name : ent'[x[1]][x[2]] = i} = {x \in Inum \X Name : ent[x[1]][x[2]] = i}
  OBVIOUS
<1>2. {n \in Name : ent'[i][n] # 0 /\ disk'[ent'[i][n]].type = "dir"} =
      {n \in Name : ent[i][n] # 0 /\ disk[ent[i][n]].type = "dir"}
  OBVIOUS
<1>3. QED
  BY <1>1, <1>2 DEF Names, Subdirs

LEMMA StillTree ==
  ASSUME IInv, TypeInv', TreeInv, NEW p \in Proc, Mine(p), Still(p)
  PROVE  TreeInv'
<1>1. /\ TypeInv /\ LinksMatch /\ Rooted /\ Dots /\ ent' = ent
      /\ \A i \in Inum : Zero(i) /\ Loose(i)
      /\ \A q \in Proc : Fresh(q) /\ InUse(q)
  BY DEF IInv, TreeInv, Still
<1>2. \A i \in Inum : disk'[i].type = disk[i].type /\ Reached(i)' = Reached(i) /\ Empty(i)' = Empty(i)
  BY <1>1 DEF Still, Reached, Empty
<1>3. ASSUME NEW q \in Proc, NEW i \in Inum, Uses(q, i)' PROVE Uses(q, i) \/ Reached(i)
  <2>1. CASE q = p
    BY <1>3, <2>1 DEF Still
  <2>2. CASE q # p
    BY <1>3, <2>2 DEF Mine, Uses
  <2>3. QED
    BY <2>1, <2>2
<1>4. ASSUME NEW q \in Proc, NEW i \in Inum, Uses(q, i)' PROVE Kept(i)'
  <2>1. Kept(i)
    BY <1>1, <1>3, <1>4, UsesKept, ReachedKept
  <2>2. ~Unused(i)'
    BY <1>4 DEF Unused
  <2>3. QED
    BY <1>2, <2>1, <2>2 DEF Still, Kept
<1>5. LinksMatch'
  <2>1. ASSUME NEW i \in Inum PROVE Counts(i)'
    <3>1. Counts(i)
      BY <1>1, LinksCounted
    <3>2. Names(i)' = Names(i) /\ Subdirs(i)' = Subdirs(i)
      <4>1. /\ \A d \in Inum, n \in Name : ent'[d][n] = ent[d][n]
            /\ \A d \in Inum, n \in Name : ent[d][n] # 0 => ent[d][n] \in Inum
        BY <1>1, Consts DEF TypeInv
      <4>2. QED
        BY <1>1, <1>2, <4>1, SameNames
    <3>3. Names(i) \in Nat /\ Subdirs(i) \in Nat
      BY CountsNat
    <3>4. /\ Held(Linking, i) \in Nat
          /\ Held(Linking, i)' = Held(Linking, i) + Is(LinkOf(p)', i) - Is(LinkOf(p), i)
          /\ Held(Unlinking, i) \in Nat
          /\ Held(Unlinking, i)' = Held(Unlinking, i) + Is(UnlinkOf(p)', i) - Is(UnlinkOf(p), i)
      BY <1>1, PendMoves
    <3>5. disk'[i].nlink = disk[i].nlink + Is(LinkOf(p)', i) - Is(LinkOf(p), i)
                             + Is(UnlinkOf(p)', i) - Is(UnlinkOf(p), i)
      BY DEF Still
    <3>6. /\ Is(LinkOf(p), i) \in Int /\ Is(LinkOf(p)', i) \in Int
          /\ Is(UnlinkOf(p), i) \in Int /\ Is(UnlinkOf(p)', i) \in Int /\ Is(i, ROOTINO) \in Int
      BY DEF Is
    <3>7. disk[i].nlink = Names(i) + Subdirs(i) + Held(Linking, i) + Held(Unlinking, i) + Is(i, ROOTINO)
      BY <3>1 DEF Counts
    <3>8. disk'[i].nlink = Names(i)' + Subdirs(i)' + Held(Linking, i)' + Held(Unlinking, i)' + Is(i, ROOTINO)
      BY <3>2, <3>3, <3>4, <3>5, <3>6, <3>7
    <3>9. QED
      BY <3>8 DEF Counts
  <2>2. QED
    BY <2>1, LinksCountedNext
<1>6. Rooted' /\ Dots'
  BY <1>1, <1>2, Consts DEF Rooted, Dots
<1>7. ASSUME NEW i \in Inum PROVE Zero(i)'
  BY <1>1, <1>2 DEF Zero, Still, Kept
<1>8. ASSUME NEW i \in Inum PROVE Loose(i)'
  <2>1. SUFFICES ASSUME disk[i].type = "dir", ~Reached(i)
                 PROVE  Unused(i)' \/ \E q \in Proc : ip'[q] = i /\ Stage(q)' \in {"fill", "unlinked"}
    BY <1>1, <1>2 DEF Loose
  <2>2. CASE Unused(i)
    <3>1. \A q \in Proc : ~Uses(q, i)'
      BY <1>3, <2>1, <2>2 DEF Unused
    <3>2. \A f \in File : file'[f] # i
      BY <2>2, Consts DEF Still, Unused, Uses
    <3>3. QED
      BY <3>1, <3>2 DEF Unused
  <2>3. CASE \E q \in Proc : ip[q] = i /\ Stage(q) \in {"fill", "unlinked"}
    <3>1. PICK q \in Proc : ip[q] = i /\ Stage(q) \in {"fill", "unlinked"}
      BY <2>3
    <3>2. CASE q = p
      BY <2>1, <3>1, <3>2 DEF Still
    <3>3. CASE q # p
      BY <3>1, <3>3, StagesKept DEF Mine
    <3>4. QED
      BY <3>2, <3>3
  <2>4. QED
    BY <1>1, <2>1, <2>2, <2>3 DEF Loose
<1>9. ASSUME NEW q \in Proc PROVE Fresh(q)'
  <2>1. SUFFICES ASSUME Stage(q)' = "fill" PROVE Fresh(q)'
    BY DEF Fresh
  <2>2. /\ Stage(q) = "fill" /\ ip'[q] = ip[q] /\ path'[q] = path[q] /\ dp'[q] = dp[q]
        /\ at'[q] = at[q] /\ cwd'[q] = cwd[q]
    <3>1. CASE q = p
      BY <2>1, <3>1 DEF Still
    <3>2. CASE q # p
      BY <2>1, <3>2, StagesKept DEF Mine
    <3>3. QED
      BY <3>1, <3>2
  <2>3. Fresh(q) /\ Shape(q)
    BY <1>1 DEF IInv
  <2>4. PICK i \in Inum : i = ip[q]
    BY <1>1, <2>2, <2>3 DEF Shape, HasIp, TypeInv
  <2>5. disk[i].nlink = 0 /\ ~Reached(i)
    BY <1>1, <2>2, <2>3, <2>4, ReachedKept DEF Fresh
  <2>6. disk'[i].nlink = 0
    BY <2>2, <2>3, <2>4, <2>5 DEF Still, Fresh
  <2>7. \A r \in Proc : at'[r] # i /\ dp'[r] # i /\ cwd'[r] # i /\ (ip'[r] = i => r = q)
    <3>1. ASSUME NEW r \in Proc \ {q} PROVE ~Uses(r, i)'
      BY <1>3, <2>2, <2>3, <2>4, <2>5 DEF Uses, Fresh
    <3>2. at'[q] # i /\ dp'[q] # i /\ cwd'[q] # i
      BY <2>2, <2>3, <2>4 DEF Fresh
    <3>3. QED
      BY <3>1, <3>2 DEF Uses
  <2>8. \A f \in File : file'[f] # i
    <3>1. CASE q = p
      BY <2>1, <2>2, <2>3, <2>4, <3>1 DEF Still, Fresh
    <3>2. CASE q # p
      BY <2>2, <2>3, <2>4, <3>2, Consts DEF Still, Fresh
    <3>3. QED
      BY <3>1, <3>2
  <2>9. ~HasDots(i)' /\ Head(path[q]) \in Name /\ ent'[dp[q]][Head(path[q])] = 0
    BY <1>1, <2>2, <2>3, <2>4 DEF Fresh, HasDots
  <2>10. QED
    BY <2>2, <2>4, <2>6, <2>7, <2>8, <2>9 DEF Fresh, HasDots
<1>10. ASSUME NEW q \in Proc PROVE InUse(q)'
  BY <1>4 DEF InUse, Uses, TypeInv
<1>11. QED
  BY <1>5, <1>6, <1>7, <1>8, <1>9, <1>10 DEF TreeInv

LEMMA OpensMine ==
  ASSUME TypeInv, NEW p \in Proc, OpensOrNot(p), UNCHANGED <<cwd, at, dp>>
  PROVE  Mine(p) /\ \A f \in File : file'[f] \in {0, file[f], ip[p]}
<1>1. CASE Room(p) /\ Opens(p)
  <2>1. PICK f : /\ file' = [file EXCEPT ![f] = ip[p]]
                 /\ open' = [open EXCEPT ![p] = @ \cup {f}]
                 /\ ip' = [ip EXCEPT ![p] = 0]
                 /\ call' = [call EXCEPT ![p] = Nobody] /\ path' = [path EXCEPT ![p] = <<>>]
                 /\ Goto(p, "out")
    BY <1>1 DEF Opens
  <2>2. QED
    BY <2>1 DEF Mine, Goto, TypeInv
<1>2. CASE ~(Room(p) /\ Opens(p))
  <2>1. PutIp(p) /\ UNCHANGED <<file, open, call, path>>
    BY <1>2 DEF OpensOrNot, Opens
  <2>2. QED
    BY <2>1 DEF Mine, PutIp, Iput, TypeInv
<1>3. QED
  BY <1>1, <1>2

LEMMA OnlyMine ==
  ASSUME TypeInv, NEW p \in Proc, Step(p)
  PROVE  Mine(p)
<1>1. ASSUME NEW c \in Calls, Call(p, c) PROVE Mine(p)
  BY <1>1 DEF Mine, Call, Walk, Goto, TypeInv, files
<1>2. ASSUME NEW f \in File, Close(p, f) \/ Write(p, f) PROVE Mine(p)
  BY <1>2 DEF Mine, Close, Write, Iput, TypeInv, files, locals
<1>3. CASE Namex(p)
  BY <1>3 DEF Mine, Namex, Iput, Goto, TypeInv, files
<1>4. CASE IputTest(p)
  BY <1>4 DEF Mine, IputTest, Goto, TypeInv, files, locals
<1>5. CASE IputFree(p)
  BY <1>5 DEF Mine, IputFree, Goto, TypeInv, files, locals
<1>6. CASE IputDeref(p)
  BY <1>6 DEF Mine, IputDeref, TypeInv, files
<1>7. CASE Open(p)
  BY <1>7, OpensMine DEF Open, OpensOrNot
<1>8. CASE Chdir(p)
  BY <1>8 DEF Mine, Chdir, Iput, TypeInv
<1>9. CASE CreateLook(p)
  BY <1>9 DEF Mine, CreateLook, PutDp, Iput, Goto, TypeInv, files
<1>10. CASE CreateExists(p)
  BY <1>10, OpensMine DEF CreateExists, OpensOrNot
<1>11. CASE CreateFill(p)
  BY <1>11 DEF Mine, CreateFill, PutDp, Iput, TypeInv, files
<1>12. CASE CreateMade(p)
  BY <1>12, OpensMine DEF CreateMade, OpensOrNot
<1>13. CASE LinkCount(p)
  BY <1>13 DEF Mine, LinkCount, Walk, PutIp, Iput, Goto, TypeInv, files
<1>14. CASE LinkEnter(p)
  BY <1>14 DEF Mine, LinkEnter, PutDp, Iput, TypeInv, files
<1>15. CASE LinkDup(p) \/ UnlinkBad(p)
  BY <1>15 DEF Mine, LinkDup, UnlinkBad, PutDp, Iput, TypeInv, files
<1>16. CASE LinkDone(p) \/ LinkUndo(p)
  BY <1>16 DEF Mine, LinkDone, LinkUndo, PutIp, Iput, TypeInv, files
<1>17. CASE UnlinkLook(p)
  BY <1>17 DEF Mine, UnlinkLook, PutDp, Iput, Goto, TypeInv, files
<1>18. CASE UnlinkErase(p)
  BY <1>18 DEF Mine, UnlinkErase, PutDp, Iput, TypeInv, files
<1>19. CASE UnlinkCount(p)
  BY <1>19 DEF Mine, UnlinkCount, PutIp, Iput, TypeInv, files
<1>20. CASE Panic(p)
  BY <1>20 DEF Mine, Panic, files, locals
<1>21. QED
  BY <1>1, <1>2, <1>3, <1>4, <1>5, <1>6, <1>7, <1>8, <1>9, <1>10, <1>11, <1>12, <1>13, <1>14,
     <1>15, <1>16, <1>17, <1>18, <1>19, <1>20 DEF Step

-----------------------------------------------------------------------------
(* Steps that leave the disk and the entries alone. *)

LEMMA QuietTree ==
  ASSUME IInv, TypeInv', TreeInv, NEW p \in Proc, Mine(p), disk' = disk, ent' = ent,
         pc'[p] # "ifree", Stage(p) \notin {"fill", "unlinked"}, Stage(p)' \notin {"fill", "unlinked"},
         LinkOf(p)' = LinkOf(p), \A i \in Inum : Uses(p, i)' => Uses(p, i) \/ Reached(i),
         \A f \in File : file'[f] \in {0, file[f], ip[p]}
  PROVE  TreeInv'
<1>1. \A i \in Inum : Freed(i)' => Freed(i)
  BY DEF Freed, Mine
<1>2. UnlinkOf(p) = 0 /\ UnlinkOf(p)' = 0
  BY DEF UnlinkOf
<1>3. \A i \in Inum : disk[i].nlink = disk[i].nlink + Is(LinkOf(p)', i) - Is(LinkOf(p), i)
                                        + Is(UnlinkOf(p)', i) - Is(UnlinkOf(p), i)
  <2>1. \A i \in Inum : disk[i].nlink \in Int
    BY DEF IInv, TypeInv, Inode
  <2>2. \A i \in Inum : Is(LinkOf(p), i) \in Int /\ Is(UnlinkOf(p), i) \in Int
    BY DEF Is
  <2>3. QED
    BY <1>2, <2>1, <2>2
<1>4. Still(p)
  BY <1>1, <1>3 DEF Still
<1>5. QED
  BY <1>4, StillTree

LEMMA CallTree ==
  ASSUME IInv, TypeInv', TreeInv, NEW p \in Proc, NEW c \in Calls, Call(p, c), Mine(p)
  PROVE  TreeInv'
<1>1. TypeInv /\ Shape(p) /\ pc[p] = "out" /\ Walk(p, c.path)
      /\ UNCHANGED <<disk, ent, file, cwd, dp, ip>>
  BY DEF IInv, Call, store, files
<1>2. Stage(p) = "out" /\ ip[p] = 0
  <2>1. Stage(p) = pc[p]
    BY <1>1, Outside DEF Ends
  <2>2. QED
    BY <1>1, <2>1 DEF TypeInv, Shape, HasIp
<1>3. PICK x : x \in {ROOTINO, cwd[p]} /\ at' = [at EXCEPT ![p] = x] /\ Goto(p, "namex")
  BY <1>1 DEF Walk
<1>4. pc'[p] = "namex" /\ Stage(p)' = "namex" /\ at'[p] = x
  BY <1>1, <1>3 DEF Goto, TypeInv, Stage
<1>5. LinkOf(p) = 0 /\ LinkOf(p)' = 0
  BY <1>1, <1>2 DEF LinkOf
<1>6. \A i \in Inum : Uses(p, i)' => Uses(p, i) \/ Reached(i)
  BY <1>1, <1>3, <1>4 DEF Uses, Reached
<1>7. QED
  BY <1>1, <1>2, <1>4, <1>5, <1>6, QuietTree

\* What a walk finds has a name, or is the root.
LEMMA FoundReached ==
  ASSUME IInv, TreeInv, NEW p \in Proc, NEW i \in Inum, Uses(p, i), disk[i].type = "dir", CanLock(i),
         Stage(p) # "fill", path[p] # <<>>, NEW x, x = Lookup(i, Head(path[p])), x # 0
  PROVE  x \in Inum /\ Reached(x)
<1>1. TypeInv /\ lock[i] = Nobody /\ Head(path[p]) \in Entry
  BY HeadOf DEF IInv, CanLock
<1>2. Reached(i)
  BY <1>1, FreeReached
<1>3. QED
  BY <1>1, <1>2, LookupReached DEF Lookup

LEMMA NamexTree ==
  ASSUME IInv, TypeInv', TreeInv, NEW p \in Proc, Namex(p), Mine(p)
  PROVE  TreeInv'
<1>1. PICK i, x, rest : i = at[p] /\ x = Lookup(i, Head(path[p])) /\ rest = Tail(path[p])
  OBVIOUS
<1>2. /\ TypeInv /\ Shape(p) /\ pc[p] = "namex" /\ CanLock(i)
      /\ UNCHANGED <<disk, ent, file, cwd, call>>
  BY <1>1 DEF IInv, Namex, store, files
<1>3. Stage(p) = "namex" /\ i \in Inum /\ path[p] # <<>> /\ Uses(p, i)
  <2>1. Stage(p) = pc[p]
    BY <1>2, Outside DEF Ends
  <2>2. QED
    BY <1>1, <1>2, <2>1 DEF TypeInv, Shape, Walks, Uses
<1>4. Load(i) = disk[i]
  BY <1>3, CopiedLoad DEF IInv
<1>5. /\ call[p] \in Calls /\ (~SecondPath(p) => ip[p] = 0)
      /\ SecondPath(p) => WantsParent(p) /\ After(p) = "linkat" /\ call[p].op = "link" /\ ip[p] # 0
      /\ WantsParent(p) /\ ~SecondPath(p) =>
           \/ After(p) = "create" /\ call[p].op \in {"creat", "mkdir", "mknod"}
           \/ After(p) = "unlink"
      /\ ~WantsParent(p) => /\ After(p) = call[p].op
                            /\ call[p].op \in {"open", "chdir", "link"}
  BY <1>2, <1>3, AfterWalk
<1>6. LinkOf(p) = ip[p]
  BY <1>3, <1>5 DEF LinkOf, SecondPath
<1>7. CASE /\ Iput(p, i, IF SecondPath(p) THEN "undo" ELSE "out")
           /\ at' = [at EXCEPT ![p] = 0] /\ UNCHANGED <<ref, path, dp, ip>>
  <2>1. PICK l : l = IF SecondPath(p) THEN "undo" ELSE "out"
    OBVIOUS
  <2>2. pc'[p] = "iput" /\ Stage(p)' = l /\ at'[p] = 0
    BY <1>2, <1>7, <2>1 DEF Iput, TypeInv, Stage
  <2>3. LinkOf(p)' = LinkOf(p)
    BY <1>2, <1>5, <1>6, <1>7, <2>1, <2>2 DEF LinkOf
  <2>4. \A j \in Inum : Uses(p, j)' => Uses(p, j) \/ Reached(j)
    BY <1>2, <1>7, <2>2, Consts DEF Uses
  <2>5. QED
    BY <1>2, <1>3, <2>1, <2>2, <2>3, <2>4, QuietTree
<1>8. CASE /\ WantsParent(p) /\ Goto(p, After(p))
           /\ at' = [at EXCEPT ![p] = 0] /\ dp' = [dp EXCEPT ![p] = i] /\ UNCHANGED <<ref, path, ip>>
  <2>1. PICK l : l = After(p)
    OBVIOUS
  <2>2. l \in {"linkat", "create", "unlink"}
    BY <1>5, <1>8, <2>1
  <2>3. pc'[p] = l /\ Stage(p)' = l /\ at'[p] = 0 /\ dp'[p] = i
    BY <1>2, <1>8, <2>1, <2>2 DEF Goto, TypeInv, Stage
  <2>4. LinkOf(p)' = LinkOf(p)
    BY <1>2, <1>5, <1>6, <1>8, <2>1, <2>2, <2>3 DEF LinkOf
  <2>5. \A j \in Inum : Uses(p, j)' => Uses(p, j) \/ Reached(j)
    BY <1>1, <1>2, <1>8, <2>3, Consts DEF Uses
  <2>6. QED
    BY <1>2, <1>3, <2>2, <2>3, <2>4, <2>5, QuietTree
<1>9. CASE /\ Load(i).type = "dir" /\ x # 0 /\ UNCHANGED dp
           /\ IF rest = <<>>
              THEN /\ ~WantsParent(p) /\ at' = [at EXCEPT ![p] = 0] /\ ip' = [ip EXCEPT ![p] = x]
                   /\ Iput(p, i, After(p))
              ELSE at' = [at EXCEPT ![p] = x] /\ UNCHANGED ip /\ Iput(p, i, "namex")
  <2>1. x \in Inum /\ Reached(x)
    BY <1>1, <1>2, <1>3, <1>4, <1>9, FoundReached
  <2>2. PICK l : l = IF rest = <<>> THEN After(p) ELSE "namex"
    OBVIOUS
  <2>3. pc'[p] = "iput" /\ Stage(p)' = l
    <3>1. Iput(p, i, l)
      BY <1>9, <2>2
    <3>2. QED
      BY <1>2, <3>1 DEF Iput, TypeInv, Stage
  <2>4. CASE rest = <<>>
    <3>1. at'[p] = 0 /\ ip'[p] = x /\ l \in {"open", "chdir", "link"} /\ ip[p] = 0
      BY <1>2, <1>5, <1>9, <2>2, <2>4 DEF TypeInv
    <3>2. LinkOf(p)' = LinkOf(p)
      BY <1>6, <2>3, <3>1 DEF LinkOf
    <3>3. \A j \in Inum : Uses(p, j)' => Uses(p, j) \/ Reached(j)
      BY <1>2, <1>9, <2>1, <3>1, Consts DEF Uses
    <3>4. QED
      BY <1>2, <1>3, <2>3, <3>1, <3>2, <3>3, QuietTree
  <2>5. CASE rest # <<>>
    <3>1. at'[p] = x /\ ip' = ip /\ l = "namex"
      BY <1>2, <1>9, <2>2, <2>5 DEF TypeInv
    <3>2. LinkOf(p)' = LinkOf(p)
      BY <1>2, <1>3, <2>3, <3>1 DEF LinkOf
    <3>3. \A j \in Inum : Uses(p, j)' => Uses(p, j) \/ Reached(j)
      BY <1>2, <1>9, <2>1, <3>1, Consts DEF Uses
    <3>4. QED
      BY <1>2, <1>3, <2>3, <3>1, <3>2, <3>3, QuietTree
  <2>6. QED
    BY <2>4, <2>5
<1>10. QED
  BY <1>1, <1>7, <1>8, <1>9 DEF Namex

\* The end of open and create.
LEMMA OpensTree ==
  ASSUME IInv, TypeInv', TreeInv, NEW p \in Proc, pc[p] \in {"open", "exists", "made"},
         OpensOrNot(p), UNCHANGED <<disk, ent, cwd, at, dp>>
  PROVE  TreeInv'
<1>1. TypeInv /\ Shape(p)
  BY DEF IInv
<1>2. Stage(p) = pc[p]
  BY <1>1, Outside DEF Ends
<1>3. Mine(p) /\ \A f \in File : file'[f] \in {0, file[f], ip[p]}
  BY <1>1, OpensMine
<1>4. pc'[p] \in {"out", "iput"} /\ Stage(p)' = "out" /\ ip'[p] = 0
  <2>1. CASE Room(p) /\ Opens(p)
    <3>1. Goto(p, "out") /\ ip' = [ip EXCEPT ![p] = 0]
      BY <2>1 DEF Opens
    <3>2. QED
      BY <1>1, <3>1 DEF Goto, TypeInv, Stage
  <2>2. CASE ~(Room(p) /\ Opens(p))
    <3>1. PutIp(p)
      BY <2>2 DEF OpensOrNot, Opens
    <3>2. QED
      BY <1>1, <3>1 DEF PutIp, Iput, TypeInv, Stage
  <2>3. QED
    BY <2>1, <2>2
<1>5. LinkOf(p) = 0 /\ LinkOf(p)' = 0
  BY <1>2, <1>4 DEF LinkOf
<1>6. \A i \in Inum : Uses(p, i)' => Uses(p, i) \/ Reached(i)
  BY <1>4, Consts DEF Uses
<1>7. QED
  BY <1>2, <1>3, <1>4, <1>5, <1>6, QuietTree

\* iput, of what is in hand or of what was looked up.
LEMMA PutTree ==
  ASSUME IInv, TypeInv', TreeInv, NEW p \in Proc, Mine(p), Stage(p) \notin {"fill", "unlinked"},
         disk' = disk, ent' = ent, NEW l \in Stages \ {"fill", "unlinked"}, NEW j, Iput(p, j, l),
         call' = call, at' = at, dp'[p] \in {0, dp[p]},
         ip'[p] \in {0, ip[p]} \/ \E i \in Inum : ip'[p] = i /\ Reached(i),
         cwd'[p] \in {cwd[p], ip[p]}, \A f \in File : file'[f] \in {0, file[f]},
         LinkOf(p) = IF call[p].op = "link" /\ l \in {"linkdup", "undo"} THEN ip'[p] ELSE 0,
         l \notin {"namex", "linkat"}
  PROVE  TreeInv'
<1>1. pc'[p] = "iput" /\ Stage(p)' = l
  BY DEF IInv, TypeInv, Iput, Stage
<1>2. LinkOf(p)' = LinkOf(p)
  BY <1>1 DEF LinkOf
<1>3. \A i \in Inum : Uses(p, i)' => Uses(p, i) \/ Reached(i)
  BY Consts DEF Uses
<1>4. QED
  BY <1>1, <1>2, <1>3, QuietTree

LEMMA CloseTree ==
  ASSUME IInv, TypeInv', TreeInv, NEW p \in Proc, NEW f \in File, Close(p, f), Mine(p)
  PROVE  TreeInv'
<1>1. /\ TypeInv /\ Shape(p) /\ pc[p] = "out" /\ Iput(p, file[f], "out")
      /\ file' = [file EXCEPT ![f] = 0] /\ UNCHANGED <<disk, ent, cwd, call, at, dp, ip>>
  BY DEF IInv, Close, store, locals
<1>2. Stage(p) = pc[p] /\ "out" \in Stages
  BY <1>1, Outside DEF Ends, Stages
<1>3. LinkOf(p) = 0 /\ \A g \in File : file'[g] \in {0, file[g]}
  BY <1>1, <1>2 DEF LinkOf, TypeInv
<1>4. QED
  BY <1>1, <1>2, <1>3, PutTree

LEMMA ChdirTree ==
  ASSUME IInv, TypeInv', TreeInv, NEW p \in Proc, Chdir(p), Mine(p)
  PROVE  TreeInv'
<1>1. /\ TypeInv /\ Shape(p) /\ pc[p] = "chdir" /\ ip' = [ip EXCEPT ![p] = 0]
      /\ UNCHANGED <<disk, ent, file, call, at, dp>>
  BY DEF IInv, Chdir, store
<1>2. PICK j : Iput(p, j, "out") /\ (cwd' = cwd \/ cwd' = [cwd EXCEPT ![p] = ip[p]])
  BY DEF Chdir
<1>3. Stage(p) = pc[p] /\ "out" \in Stages
  BY <1>1, Outside DEF Ends, Stages
<1>4. LinkOf(p) = 0 /\ ip'[p] = 0 /\ cwd'[p] \in {cwd[p], ip[p]}
  BY <1>1, <1>2, <1>3 DEF LinkOf, TypeInv
<1>5. QED
  BY <1>1, <1>2, <1>3, <1>4, PutTree

\* The directory at the end of a walk.
LEMMA ParentFound ==
  ASSUME IInv, TreeInv, NEW p \in Proc, pc[p] \in {"create", "linkat", "unlink"}, CanLock(dp[p]),
         NEW x, x = Lookup(dp[p], Head(path[p]))
  PROVE  /\ dp[p] \in Inum /\ disk[dp[p]].type = "dir" /\ Reached(dp[p]) /\ Head(path[p]) \in Entry
         /\ Stage(p) = pc[p] /\ path[p] # <<>> /\ lock[dp[p]] = Nobody
         /\ x # 0 => x \in Inum /\ Reached(x)
         /\ x = 0 => Head(path[p]) \in Name
<1>1. TypeInv /\ Shape(p) /\ Valid(p)
  BY DEF IInv
<1>2. Stage(p) = pc[p]
  BY <1>1, Outside DEF Ends
<1>3. dp[p] \in Inum /\ path[p] # <<>> /\ disk[dp[p]].type = "dir"
  BY <1>1, <1>2, Consts DEF Shape, TypeInv, HasDp, Walks, Valid, KeptDir
<1>4. Uses(p, dp[p]) /\ Head(path[p]) \in Entry /\ lock[dp[p]] = Nobody
  BY <1>1, <1>3, HeadOf DEF Uses, CanLock
<1>5. Reached(dp[p])
  BY <1>2, <1>3, <1>4, FreeReached
<1>6. x # 0 => x \in Inum /\ Reached(x)
  BY <1>3, <1>4, <1>5, LookupReached DEF Lookup
<1>7. x = 0 => Head(path[p]) \in Name
  BY <1>3, <1>4, <1>5, ReachedDots DEF Lookup, Entry
<1>8. QED
  BY <1>2, <1>3, <1>4, <1>5, <1>6, <1>7

LEMMA CreateFoundTree ==
  ASSUME IInv, TypeInv', TreeInv, NEW p \in Proc, Mine(p), pc[p] = "create", CanLock(dp[p]),
         NEW x, x = Lookup(dp[p], Head(path[p])), x # 0, ip' = [ip EXCEPT ![p] = x],
         PutDp(p, "exists"), UNCHANGED <<disk, ent, file, cwd, call, at>>
  PROVE  TreeInv'
<1>1. Stage(p) = "create" /\ x \in Inum /\ Reached(x) /\ TypeInv /\ "exists" \in Stages
  BY ParentFound DEF IInv, Stages, HasIp
<1>2. ip'[p] = x /\ dp'[p] = 0 /\ Iput(p, dp[p], "exists") /\ LinkOf(p) = 0
  BY <1>1 DEF PutDp, TypeInv, LinkOf
<1>3. QED
  BY <1>1, <1>2, PutTree

LEMMA LinkDirTree ==
  ASSUME IInv, TypeInv', TreeInv, NEW p \in Proc, Mine(p), pc[p] = "link", PutIp(p),
         UNCHANGED <<disk, ent, file, cwd, call, at, dp>>
  PROVE  TreeInv'
<1>1. TypeInv /\ Shape(p) /\ "out" \in Stages
  BY DEF IInv, Stages
<1>2. Stage(p) = pc[p]
  BY <1>1, Outside DEF Ends
<1>3. ip'[p] = 0 /\ Iput(p, ip[p], "out") /\ LinkOf(p) = 0
  BY <1>1, <1>2 DEF PutIp, TypeInv, LinkOf
<1>4. QED
  BY <1>1, <1>2, <1>3, PutTree

LEMMA LinkFoundTree ==
  ASSUME IInv, TypeInv', TreeInv, NEW p \in Proc, Mine(p), pc[p] = "linkat", NEW x, Iput(p, x, "linkdup"),
         UNCHANGED <<disk, ent, file, cwd, call, at, dp, ip>>
  PROVE  TreeInv'
<1>1. TypeInv /\ Shape(p) /\ "linkdup" \in Stages
  BY DEF IInv, Stages, HasDp
<1>2. Stage(p) = pc[p]
  BY <1>1, Outside DEF Ends
<1>3. call[p].op = "link"
  BY <1>1, <1>2 DEF Shape, Links
<1>4. LinkOf(p) = ip[p]
  BY <1>2, <1>3 DEF LinkOf
<1>5. QED
  BY <1>1, <1>2, <1>3, <1>4, PutTree

LEMMA UnlockTree ==
  ASSUME IInv, TypeInv', TreeInv, NEW p \in Proc, Mine(p), NEW l \in {"undo", "out"},
         (l = "undo" /\ pc[p] = "linkdup") \/ (l = "out" /\ pc[p] = "unlinkbad"),
         PutDp(p, l), UNCHANGED <<disk, ent, file, cwd, call, at, ip>>
  PROVE  TreeInv'
<1>1. TypeInv /\ Shape(p) /\ l \in Stages
  BY DEF IInv, Stages, HasIp
<1>2. Stage(p) = pc[p]
  BY <1>1, Outside DEF Ends
<1>3. dp'[p] = 0 /\ Iput(p, dp[p], l)
  BY <1>1 DEF PutDp, TypeInv
<1>4. LinkOf(p) = IF call[p].op = "link" /\ l = "undo" THEN ip[p] ELSE 0
  BY <1>2 DEF LinkOf
<1>5. QED
  BY <1>1, <1>2, <1>3, <1>4, PutTree

LEMMA UnlockAllTree ==
  ASSUME IInv, TypeInv', TreeInv, NEW p \in Proc, Mine(p), LinkDup(p) \/ UnlinkBad(p)
  PROVE  TreeInv'
<1>1. CASE LinkDup(p)
  <2>1. PICK l \in {"undo", "out"} : l = "undo"
    OBVIOUS
  <2>2. pc[p] = "linkdup" /\ PutDp(p, l) /\ UNCHANGED <<disk, ent, file, cwd, call, at, ip>>
    BY <1>1, <2>1 DEF LinkDup, store, files
  <2>3. QED
    BY <2>1, <2>2, UnlockTree
<1>2. CASE UnlinkBad(p)
  <2>1. PICK l \in {"undo", "out"} : l = "out"
    OBVIOUS
  <2>2. pc[p] = "unlinkbad" /\ PutDp(p, l) /\ UNCHANGED <<disk, ent, file, cwd, call, at, ip>>
    BY <1>2, <2>1 DEF UnlinkBad, store, files
  <2>3. QED
    BY <2>1, <2>2, UnlockTree
<1>3. QED
  BY <1>1, <1>2

LEMMA LinkDoneTree ==
  ASSUME IInv, TypeInv', TreeInv, NEW p \in Proc, Mine(p), LinkDone(p)
  PROVE  TreeInv'
<1>1. /\ TypeInv /\ Shape(p) /\ "out" \in Stages /\ pc[p] = "linked" /\ PutIp(p)
      /\ UNCHANGED <<disk, ent, file, cwd, call, at, dp>>
  BY DEF IInv, Stages, LinkDone, store, files
<1>2. Stage(p) = pc[p]
  BY <1>1, Outside DEF Ends
<1>3. ip'[p] = 0 /\ Iput(p, ip[p], "out") /\ LinkOf(p) = 0
  BY <1>1, <1>2 DEF PutIp, TypeInv, LinkOf
<1>4. QED
  BY <1>1, <1>2, <1>3, PutTree

LEMMA UnlinkLookTree ==
  ASSUME IInv, TypeInv', TreeInv, NEW p \in Proc, Mine(p), UnlinkLook(p)
  PROVE  TreeInv'
<1>1. PICK x : x = Lookup(dp[p], Head(path[p]))
  OBVIOUS
<1>2. /\ TypeInv /\ pc[p] = "unlink" /\ CanLock(dp[p])
      /\ UNCHANGED <<disk, ent, file, cwd, call, at>>
  BY DEF IInv, UnlinkLook, store, files
<1>3. Stage(p) = "unlink" /\ LinkOf(p) = 0 /\ (x # 0 => x \in Inum /\ Reached(x))
  BY <1>1, <1>2, ParentFound DEF LinkOf
<1>4. CASE PutDp(p, "out") /\ ip' = ip
  <2>1. dp'[p] = 0 /\ Iput(p, dp[p], "out") /\ "out" \in Stages
    BY <1>2, <1>4 DEF PutDp, TypeInv, Stages
  <2>2. QED
    BY <1>2, <1>3, <1>4, <2>1, PutTree
<1>5. CASE x # 0 /\ ip' = [ip EXCEPT ![p] = x] /\ Goto(p, "unlinkip") /\ dp' = dp
  <2>1. pc'[p] = "unlinkip" /\ Stage(p)' = "unlinkip" /\ ip'[p] = x
    BY <1>2, <1>5 DEF Goto, TypeInv, Stage
  <2>2. LinkOf(p)' = 0
    BY <2>1 DEF LinkOf
  <2>3. \A i \in Inum : Uses(p, i)' => Uses(p, i) \/ Reached(i)
    BY <1>2, <1>3, <1>5, <2>1 DEF Uses
  <2>4. QED
    BY <1>2, <1>3, <2>1, <2>2, <2>3, QuietTree
<1>6. QED
  BY <1>1, <1>4, <1>5 DEF UnlinkLook

LEMMA UnlinkFullTree ==
  ASSUME IInv, TypeInv', TreeInv, NEW p \in Proc, Mine(p), pc[p] = "unlinkip",
         Iput(p, ip[p], "unlinkbad"), ip' = [ip EXCEPT ![p] = 0],
         UNCHANGED <<disk, ent, file, cwd, call, at, dp>>
  PROVE  TreeInv'
<1>1. TypeInv /\ Shape(p) /\ "unlinkbad" \in Stages
  BY DEF IInv, Stages, HasDp
<1>2. Stage(p) = pc[p]
  BY <1>1, Outside DEF Ends
<1>3. ip'[p] = 0 /\ LinkOf(p) = 0
  BY <1>1, <1>2 DEF TypeInv, LinkOf
<1>4. QED
  BY <1>1, <1>2, <1>3, PutTree

-----------------------------------------------------------------------------
(* Steps in which only links are counted. *)

\* What is in hand stays so, and nothing is counted.
LEMMA StayTree ==
  ASSUME IInv, TypeInv', TreeInv, NEW p \in Proc, Mine(p), ent' = ent,
         UNCHANGED <<file, cwd, at, dp, ip>>, Stage(p)' = Stage(p),
         Stage(p) # "out" => path'[p] = path[p] /\ call'[p] = call[p],
         \A i \in Inum : /\ disk'[i].type = disk[i].type /\ disk'[i].nlink = disk[i].nlink
                         /\ Freed(i)' => Freed(i) \/ (disk[i].nlink = 0 /\ Unused(i))
  PROVE  TreeInv'
<1>1. LinkOf(p)' = LinkOf(p) /\ UnlinkOf(p)' = UnlinkOf(p)
  BY DEF LinkOf, UnlinkOf
<1>2. \A i : Uses(p, i)' <=> Uses(p, i)
  BY DEF Uses
<1>3. \A i : Unused(i)' <=> Unused(i)
  BY DEF Unused, Uses
<1>4. ASSUME NEW i \in Inum
      PROVE  disk'[i].nlink = disk[i].nlink + Is(LinkOf(p)', i) - Is(LinkOf(p), i)
                                + Is(UnlinkOf(p)', i) - Is(UnlinkOf(p), i)
  <2>1. disk[i].nlink \in Int /\ Is(LinkOf(p), i) \in Int /\ Is(UnlinkOf(p), i) \in Int
    BY DEF IInv, TypeInv, Inode, Is
  <2>2. QED
    BY <1>1, <2>1
<1>5. Still(p)
  BY <1>2, <1>3, <1>4 DEF Still
<1>6. QED
  BY <1>5, StillTree

LEMMA StutterTree ==
  ASSUME TreeInv, UNCHANGED <<disk, ent, file, cwd, pc, call, path, at, dp, ip, put, ret>>
  PROVE  TreeInv'
<1>1. \A q \in Proc : Stage(q)' = Stage(q)
  BY DEF Stage
<1>2. LinksMatch' /\ Rooted' /\ Dots'
  BY <1>1 DEF TreeInv, LinksMatch, Rooted, Dots
<1>3. \A i \in Inum : Zero(i)' /\ Loose(i)'
  BY <1>1 DEF TreeInv, Zero, Loose, Freed, Unused, Uses, Reached, Empty
<1>4. \A q \in Proc : Fresh(q)' /\ InUse(q)'
  BY <1>1 DEF TreeInv, Fresh, InUse, Kept, Freed, HasDots
<1>5. QED
  BY <1>2, <1>3, <1>4 DEF TreeInv

LEMMA IputTestTree ==
  ASSUME IInv, TypeInv', TreeInv, NEW p \in Proc, Mine(p), IputTest(p)
  PROVE  TreeInv'
<1>1. PICK i : i = put[p]
  OBVIOUS
<1>2. /\ TypeInv /\ Shape(p) /\ Refs /\ pc[p] = "iput" /\ pc'[p] \in {"ifree", "deref"}
      /\ pc'[p] = "ifree" => mem[i] # Nobody /\ mem[i].nlink = 0 /\ ref[i] = 1
      /\ UNCHANGED <<disk, ent, file, cwd, call, path, at, dp, ip, put, ret>>
  BY <1>1 DEF IInv, TypeInv, IputTest, Goto, store, files, locals
<1>3. i \in Inum /\ Stage(p)' = Stage(p)
  BY <1>1, <1>2 DEF Shape, Ends, Stage, TypeInv
<1>4. pc'[p] = "ifree" => disk[i].nlink = 0 /\ Unused(i)
  <2>1. SUFFICES ASSUME pc'[p] = "ifree" PROVE disk[i].nlink = 0 /\ Unused(i)
    OBVIOUS
  <2>2. Copied(i)
    BY <1>3 DEF IInv
  <2>3. disk[i].nlink = 0
    BY <1>2, <2>1, <2>2 DEF Copied
  <2>4. Unused(i)
    BY <1>1, <1>2, <1>3, <2>1, OneRef DEF Unused, Uses
  <2>5. QED
    BY <2>3, <2>4
<1>5. \A j \in Inum : Freed(j)' => Freed(j) \/ (disk[j].nlink = 0 /\ Unused(j))
  BY <1>1, <1>2, <1>4 DEF Freed, Mine
<1>6. QED
  BY <1>2, <1>3, <1>5, StayTree

LEMMA IputDerefTree ==
  ASSUME IInv, TypeInv', TreeInv, NEW p \in Proc, Mine(p), IputDeref(p)
  PROVE  TreeInv'
<1>1. /\ TypeInv /\ pc[p] = "deref" /\ pc'[p] = ret[p] /\ ret[p] \in Stages
      /\ ret[p] # "out" => call' = call /\ path' = path
      /\ UNCHANGED <<disk, ent, file, cwd, at, dp, ip>>
  BY DEF IInv, TypeInv, IputDeref, store, files
<1>2. ret[p] \notin Ends
  BY <1>1 DEF Stages, Ends, HasIp, HasDp
<1>3. Stage(p) = ret[p] /\ Stage(p)' = ret[p]
  BY <1>1, <1>2 DEF Stage, Ends
<1>4. \A j \in Inum : Freed(j)' => Freed(j)
  BY <1>1, <1>2 DEF Freed, Mine, Ends
<1>5. QED
  BY <1>1, <1>3, <1>4, StayTree

LEMMA WriteTree ==
  ASSUME IInv, TypeInv', TreeInv, NEW p \in Proc, NEW f \in File, Write(p, f), Mine(p)
  PROVE  TreeInv'
<1>1. PICK i, b : i = file[f] /\ b = Balloc
  OBVIOUS
<1>2. /\ TypeInv /\ f \in open[p] /\ CanLock(i)
      /\ disk' = disk \/ disk' = [disk EXCEPT ![i] = [Load(i) EXCEPT !.addr = b]]
      /\ UNCHANGED <<ent, file, cwd, pc, call, path, at, dp, ip, put, ret>>
  BY <1>1 DEF IInv, Write, Updates, files, locals
<1>3. i \in Inum /\ Load(i) = disk[i] /\ disk[i] \in Inode
  <2>1. i \in Inum
    BY <1>1, <1>2 DEF IInv, FilesOpen, TypeInv
  <2>2. QED
    BY <1>2, <2>1, CopiedLoad DEF IInv, TypeInv
<1>4. \A j \in Inum : disk'[j].type = disk[j].type /\ disk'[j].nlink = disk[j].nlink
  <2>1. PICK n : n = [disk[i] EXCEPT !.addr = b]
    OBVIOUS
  <2>2. n.type = disk[i].type /\ n.nlink = disk[i].nlink
    BY <1>3, <2>1 DEF Inode
  <2>3. disk' = disk \/ disk' = [disk EXCEPT ![i] = n]
    BY <1>2, <1>3, <2>1
  <2>4. QED
    BY <1>2, <1>3, <2>2, <2>3 DEF TypeInv
<1>5. Stage(p)' = Stage(p) /\ \A j \in Inum : Freed(j)' => Freed(j)
  BY <1>2 DEF Stage, Freed
<1>6. QED
  BY <1>2, <1>4, <1>5, StayTree

\* A link of i = ip[p], or the end of its erasure, is counted.
LEMMA CountTree ==
  ASSUME IInv, TypeInv', TreeInv, NEW p \in Proc, Mine(p), UNCHANGED <<ent, file, cwd>>,
         NEW i \in Inum, ip[p] = i, Kept(i), Stage(p) # "fill", Stage(p)' # "fill", pc'[p] # "ifree",
         NEW k \in Int, disk' = [disk EXCEPT ![i] = AddLinks(disk[i], k)],
         \/ k = 1 /\ LinkOf(p) = 0 /\ LinkOf(p)' = i /\ UnlinkOf(p) = 0
         \/ k = -1 /\ LinkOf(p) = i /\ LinkOf(p)' = 0 /\ UnlinkOf(p) = 0
         \/ k = -1 /\ LinkOf(p) = 0 /\ LinkOf(p)' = 0 /\ UnlinkOf(p) = i,
         UnlinkOf(p)' = 0,
         \A j \in Inum : Uses(p, j)' => Uses(p, j) \/ Reached(j),
         Stage(p) = "unlinked" => disk[i].type # "dir" \/ Unused(i)'
  PROVE  TreeInv'
<1>1. TypeInv /\ disk[i] \in Inode
  BY DEF IInv, TypeInv
<1>2. PICK n \in Inode : /\ n.type = disk[i].type /\ n.nlink = disk[i].nlink + k
                         /\ disk' = [disk EXCEPT ![i] = n]
  BY <1>1, AddLinksIs
<1>3. disk'[i] = n /\ \A j \in Inum \ {i} : disk'[j] = disk[j]
  BY <1>1, <1>2 DEF TypeInv
<1>4. ASSUME NEW j \in Inum
      PROVE  /\ disk'[j].type = disk[j].type
             /\ disk'[j].nlink = disk[j].nlink + Is(LinkOf(p)', j) - Is(LinkOf(p), j)
                                   + Is(UnlinkOf(p)', j) - Is(UnlinkOf(p), j)
             /\ disk'[j].nlink # disk[j].nlink => j = i
  <2>1. disk[j].nlink \in Int
    BY <1>1 DEF TypeInv, Inode
  <2>2. /\ Is(LinkOf(p), j) \in Int /\ Is(LinkOf(p)', j) \in Int
        /\ Is(UnlinkOf(p), j) \in Int /\ Is(UnlinkOf(p)', j) \in Int
    BY DEF Is
  <2>3. disk'[j].type = disk[j].type /\ disk'[j].nlink = disk[j].nlink + IF j = i THEN k ELSE 0
    BY <1>2, <1>3, <2>1
  <2>4. Is(LinkOf(p)', j) - Is(LinkOf(p), j) + Is(UnlinkOf(p)', j) - Is(UnlinkOf(p), j)
                  = IF j = i THEN k ELSE 0
    BY Consts DEF Is
  <2>5. QED
    BY <2>1, <2>2, <2>3, <2>4
<1>5. \A j \in Inum : Freed(j)' => Freed(j)
  BY DEF Freed, Mine
<1>6. Still(p)
  BY <1>4, <1>5 DEF Still
<1>7. QED
  BY <1>6, StillTree

LEMMA LinkCountTree ==
  ASSUME IInv, TypeInv', TreeInv, NEW p \in Proc, Mine(p), LinkCount(p)
  PROVE  TreeInv'
<1>1. TypeInv /\ Shape(p) /\ pc[p] = "link" /\ CanLock(ip[p]) /\ UNCHANGED <<ent, file, cwd, call, dp>>
  BY DEF IInv, LinkCount, files
<1>2. CASE PutIp(p) /\ UNCHANGED <<disk, at>>
  BY <1>1, <1>2, LinkDirTree
<1>3. CASE Updates(ip[p], AddLinks(Load(ip[p]), 1)) /\ Walk(p, call[p].new) /\ ip' = ip
  <2>1. PICK i : i = ip[p]
    OBVIOUS
  <2>2. Stage(p) = pc[p] /\ i \in Inum /\ call[p].op = "link"
    <3>1. Stage(p) = pc[p]
      BY <1>1, Outside DEF Ends
    <3>2. QED
      BY <1>1, <2>1, <3>1 DEF Shape, HasIp, Links, TypeInv
  <2>3. Kept(i) /\ Load(i) = disk[i]
    BY <1>1, <2>1, <2>2, LockedKept DEF IInv
  <2>4. PICK x : x \in {ROOTINO, cwd[p]} /\ at' = [at EXCEPT ![p] = x] /\ Goto(p, "namex")
    BY <1>3 DEF Walk
  <2>5. pc'[p] = "namex" /\ Stage(p)' = "namex" /\ at'[p] = x
    BY <1>1, <2>4 DEF Goto, TypeInv, Stage
  <2>6. LinkOf(p) = 0 /\ LinkOf(p)' = i /\ UnlinkOf(p) = 0 /\ UnlinkOf(p)' = 0
    BY <1>1, <1>3, <2>1, <2>2, <2>5 DEF LinkOf, UnlinkOf
  <2>7. PICK k \in Int : k = 1
    OBVIOUS
  <2>8. \A j \in Inum : Uses(p, j)' => Uses(p, j) \/ Reached(j)
    BY <1>1, <1>3, <2>4, <2>5 DEF Uses, Reached
  <2>9. disk' = [disk EXCEPT ![i] = AddLinks(disk[i], k)]
    BY <1>3, <2>1, <2>3, <2>7 DEF Updates
  <2>10. QED
    BY <1>1, <2>1, <2>2, <2>3, <2>5, <2>6, <2>7, <2>8, <2>9, CountTree
<1>4. QED
  BY <1>2, <1>3 DEF LinkCount

LEMMA LinkUndoTree ==
  ASSUME IInv, TypeInv', TreeInv, NEW p \in Proc, Mine(p), LinkUndo(p)
  PROVE  TreeInv'
<1>1. /\ TypeInv /\ Shape(p) /\ pc[p] = "undo" /\ CanLock(ip[p]) /\ PutIp(p)
      /\ Updates(ip[p], AddLinks(Load(ip[p]), -1)) /\ UNCHANGED <<ent, file, cwd, call, at, dp>>
  BY DEF IInv, LinkUndo, files
<1>2. PICK i : i = ip[p]
  OBVIOUS
<1>3. Stage(p) = pc[p] /\ i \in Inum /\ call[p].op = "link"
  <2>1. Stage(p) = pc[p]
    BY <1>1, Outside DEF Ends
  <2>2. QED
    BY <1>1, <1>2, <2>1 DEF Shape, HasIp, Links, TypeInv
<1>4. Kept(i) /\ Load(i) = disk[i]
  BY <1>1, <1>2, <1>3, LockedKept DEF IInv
<1>5. pc'[p] = "iput" /\ Stage(p)' = "out" /\ ip'[p] = 0
  BY <1>1 DEF PutIp, Iput, TypeInv, Stage
<1>6. LinkOf(p) = i /\ LinkOf(p)' = 0 /\ UnlinkOf(p) = 0 /\ UnlinkOf(p)' = 0
  BY <1>1, <1>2, <1>3, <1>5 DEF LinkOf, UnlinkOf
<1>7. PICK k \in Int : k = -1
  OBVIOUS
<1>8. \A j \in Inum : Uses(p, j)' => Uses(p, j) \/ Reached(j)
  BY <1>1, <1>5, Consts DEF Uses
<1>9. disk' = [disk EXCEPT ![i] = AddLinks(disk[i], k)]
  BY <1>1, <1>2, <1>4, <1>7 DEF Updates
<1>10. QED
  BY <1>1, <1>2, <1>3, <1>4, <1>5, <1>6, <1>7, <1>8, <1>9, CountTree

\* One reference, and that is ip[p].
LEMMA OneInHand ==
  ASSUME TypeInv, Refs, NEW i \in Inum, NEW p \in Proc, ip[p] = i, ref[i] <= 1
  PROVE  /\ \A q \in Proc : at[q] # i /\ dp[q] # i /\ put[q] # i /\ cwd[q] # i /\ (ip[q] = i => q = p)
         /\ \A f \in File : file[f] # i
<1>1. IsFiniteSet(Proc) /\ IsFiniteSet(File)
  BY Consts
<1>2. /\ Held(at, i) \in Nat /\ \A q \in Proc : at[q] = i => Held(at, i) >= 1
      /\ Held(dp, i) \in Nat /\ \A q \in Proc : dp[q] = i => Held(dp, i) >= 1
  BY <1>1, CountNat DEF Held
<1>3. /\ Held(put, i) \in Nat /\ \A q \in Proc : put[q] = i => Held(put, i) >= 1
      /\ Held(cwd, i) \in Nat /\ \A q \in Proc : cwd[q] = i => Held(cwd, i) >= 1
  BY <1>1, CountNat DEF Held
<1>4. /\ Held(ip, i) \in Nat /\ Held(ip, i) >= 1
      /\ Count(File, file, i) \in Nat /\ \A f \in File : file[f] = i => Count(File, file, i) >= 1
  BY <1>1, CountNat DEF Held
<1>5. ref[i] = Held(at, i) + Held(dp, i) + Held(ip, i) + Held(put, i) + Held(cwd, i)
               + Count(File, file, i)
  BY DEF Refs
<1>6. ASSUME NEW q \in Proc \ {p} PROVE ip[q] # i
  <2>1. PICK h : h = [ip EXCEPT ![p] = 0]
    OBVIOUS
  <2>2. h[p] = 0 /\ \A r \in Proc \ {p} : h[r] = ip[r]
    BY <2>1 DEF TypeInv
  <2>3. Held(h, i) = Held(ip, i) + Is(0, i) - Is(i, i)
    BY <2>2, HeldMoves
  <2>4. Held(h, i) = 0
    BY <1>2, <1>3, <1>4, <1>5, <2>3, Consts DEF Is
  <2>5. h[q] = i => Held(h, i) >= 1
    BY <1>1, CountNat DEF Held
  <2>6. QED
    BY <2>2, <2>4, <2>5
<1>7. QED
  BY <1>2, <1>3, <1>4, <1>5, <1>6

LEMMA UnlinkCountTree ==
  ASSUME IInv, TypeInv', TreeInv, NEW p \in Proc, Mine(p), UnlinkCount(p), ~strays'
  PROVE  TreeInv'
<1>1. PICK i : i = ip[p]
  OBVIOUS
<1>2. /\ TypeInv /\ Shape(p) /\ Valid(p) /\ Locks /\ pc[p] = "unlinked" /\ PutIp(p)
      /\ Updates(i, AddLinks(mem[i], -1)) /\ UNCHANGED <<ent, file, cwd, call, at, dp>>
      /\ ~(mem[i].type = "dir" /\ ref[i] > 1)
  BY <1>1 DEF IInv, UnlinkCount, files
<1>3. Stage(p) = pc[p] /\ i \in Inum
  <2>1. Stage(p) = pc[p]
    BY <1>2, Outside DEF Ends
  <2>2. QED
    BY <1>1, <1>2, <2>1 DEF Shape, HasIp, TypeInv
<1>4. Kept(i) /\ mem[i] = disk[i]
  <2>1. lock[i] = p /\ Kept(i) /\ Copied(i)
    BY <1>1, <1>2, <1>3 DEF IInv, Locks, Owner, Valid
  <2>2. QED
    BY <1>2, <1>3, <2>1, Consts DEF Copied
<1>5. pc'[p] = "iput" /\ Stage(p)' = "out" /\ ip'[p] = 0
  BY <1>2 DEF PutIp, Iput, TypeInv, Stage
<1>6. LinkOf(p) = 0 /\ LinkOf(p)' = 0 /\ UnlinkOf(p) = i /\ UnlinkOf(p)' = 0
  BY <1>1, <1>2, <1>3, <1>5 DEF LinkOf, UnlinkOf
<1>7. PICK k \in Int : k = -1
  OBVIOUS
<1>8. \A j \in Inum : Uses(p, j)' => Uses(p, j) \/ Reached(j)
  BY <1>2, <1>5, Consts DEF Uses
<1>9. disk' = [disk EXCEPT ![i] = AddLinks(disk[i], k)]
  BY <1>2, <1>4, <1>7 DEF Updates
<1>10. disk[i].type # "dir" \/ Unused(i)'
  <2>1. SUFFICES ASSUME disk[i].type = "dir" PROVE Unused(i)'
    OBVIOUS
  <2>2. ref[i] <= 1
    BY <1>2, <1>3, <1>4, <2>1 DEF TypeInv
  <2>3. /\ \A q \in Proc : at[q] # i /\ dp[q] # i /\ cwd[q] # i /\ (ip[q] = i => q = p)
        /\ \A f \in File : file[f] # i
    BY <1>1, <1>2, <1>3, <2>2, OneInHand DEF IInv
  <2>4. \A q \in Proc : ip'[q] # i
    BY <1>3, <1>5, <2>3, Consts DEF Mine
  <2>5. QED
    BY <1>2, <2>3, <2>4 DEF Unused, Uses
<1>11. QED
  BY <1>1, <1>2, <1>3, <1>4, <1>5, <1>6, <1>7, <1>8, <1>9, <1>10, CountTree

-----------------------------------------------------------------------------
(* Steps that change names. *)

Sub(x) == IF x # 0 /\ disk[x].type = "dir" THEN 1 ELSE 0

\* One name changes from x to y; named inodes keep their types.
LEMMA NameMoves ==
  ASSUME TypeInv, NEW d \in Inum, NEW n \in Name, NEW x, NEW y, ent[d][n] = x, ent'[d][n] = y,
         \A e \in Inum, m \in Name : e # d \/ m # n => ent'[e][m] = ent[e][m],
         \A e \in Inum, m \in Name :
           ent[e][m] # 0 => (disk'[ent[e][m]].type = "dir" <=> disk[ent[e][m]].type = "dir"),
         NEW i \in Inum
  PROVE  /\ Names(i)' = Names(i) + Is(y, i) - Is(x, i)
         /\ Subdirs(i)' = Subdirs(i) + IF i = d THEN Sub(y)' - Sub(x) ELSE 0
<1>1. IsFiniteSet(Name) /\ IsFiniteSet(Inum \X Name)
  <2>1. IsFiniteSet(Inum) /\ IsFiniteSet(Name)
    BY FilesAssumption, FS_Interval DEF Inum, FilesAssumption
  <2>2. QED
    BY <2>1, Consts, FS_Product
<1>2. Names(i)' = Names(i) + Is(y, i) - Is(x, i)
  <2>1. PICK S, z : S = Inum \X Name /\ z = <<d, n>>
    OBVIOUS
  <2>2. PICK g, h : g = [u \in S |-> ent[u[1]][u[2]]] /\ h = [u \in S |-> ent'[u[1]][u[2]]]
    OBVIOUS
  <2>3. z \in S /\ g[z] = x /\ h[z] = y
    BY <2>1, <2>2
  <2>4. \A u \in S \ {z} : h[u] = g[u]
    <3>1. SUFFICES ASSUME NEW u \in S \ {z} PROVE h[u] = g[u]
      OBVIOUS
    <3>2. u[1] \in Inum /\ u[2] \in Name /\ (u[1] # d \/ u[2] # n)
      BY <2>1
    <3>3. QED
      BY <2>2, <3>2
  <2>5. Count(S, h, i) = Count(S, g, i) + Is(h[z], i) - Is(g[z], i)
    <3>1. IsFiniteSet(S)
      BY <1>1, <2>1
    <3>2. z \in S
      BY <2>3
    <3>3. QED
      BY ONLY <2>4, <3>1, <3>2, CountMoves, SMTT(60)
  <2>6. Count(S, g, i) = Names(i) /\ Count(S, h, i) = Names(i)'
    <3>1. {u \in S : g[u] = i} = {u \in Inum \X Name : ent[u[1]][u[2]] = i}
      BY <2>1, <2>2
    <3>2. {u \in S : h[u] = i} = {u \in Inum \X Name : ent'[u[1]][u[2]] = i}
      BY <2>1, <2>2
    <3>3. QED
      BY <3>1, <3>2 DEF Count, Names
  <2>7. QED
    BY <2>3, <2>5, <2>6
<1>3. Subdirs(i)' = Subdirs(i) + IF i = d THEN Sub(y)' - Sub(x) ELSE 0
  <2>1. PICK g, h : /\ g = [m \in Name |-> IF ent[i][m] # 0 /\ disk[ent[i][m]].type = "dir" THEN 1 ELSE 0]
                    /\ h = [m \in Name |-> IF ent'[i][m] # 0 /\ disk'[ent'[i][m]].type = "dir" THEN 1 ELSE 0]
    OBVIOUS
  <2>2. Count(Name, g, 1) = Subdirs(i) /\ Count(Name, h, 1) = Subdirs(i)'
    <3>1. {m \in Name : g[m] = 1} = {m \in Name : ent[i][m] # 0 /\ disk[ent[i][m]].type = "dir"}
      BY <2>1
    <3>2. {m \in Name : h[m] = 1} = {m \in Name : ent'[i][m] # 0 /\ disk'[ent'[i][m]].type = "dir"}
      BY <2>1
    <3>3. QED
      BY <3>1, <3>2 DEF Count, Subdirs
  <2>3. \A m \in Name : i # d \/ m # n => h[m] = g[m]
    BY <2>1
  <2>4. CASE i = d
    <3>1. g[n] = Sub(x) /\ h[n] = Sub(y)'
      BY <2>1, <2>4 DEF Sub
    <3>2. Count(Name, g, 1) \in Nat /\ Count(Name, h, 1) = Count(Name, g, 1) + Is(h[n], 1) - Is(g[n], 1)
      <4>1. \A m \in Name \ {n} : h[m] = g[m]
        BY <2>3
      <4>2. Count(Name, h, 1) = Count(Name, g, 1) + Is(h[n], 1) - Is(g[n], 1)
        BY <1>1, <4>1, CountMoves, SMTT(30)
      <4>3. QED
        BY <1>1, <4>2, CountNat
    <3>3. Is(Sub(x), 1) = Sub(x) /\ Sub(x) \in Int
      BY DEF Is, Sub
    <3>4. Is(Sub(y)', 1) = Sub(y)' /\ Sub(y)' \in Int
      BY DEF Is, Sub
    <3>5. QED
      BY <2>2, <2>4, <3>1, <3>2, <3>3, <3>4
  <2>5. CASE i # d
    <3>1. {m \in Name : h[m] = 1} = {m \in Name : g[m] = 1}
      BY <2>3, <2>5
    <3>2. Subdirs(i)' = Subdirs(i) /\ Subdirs(i) \in Nat
      BY <2>2, <3>1, CountsNat DEF Count
    <3>3. QED
      BY <2>5, <3>2
  <2>6. QED
    BY <2>4, <2>5
<1>4. QED
  BY <1>2, <1>3

\* The count of one inode.
LEMMA CountsMove ==
  ASSUME TypeInv, NEW p \in Proc, Mine(p), NEW i \in Inum, Counts(i), NEW a \in Int, NEW b \in Int,
         Names(i)' = Names(i) + a, Subdirs(i)' = Subdirs(i) + b,
         disk'[i].nlink = disk[i].nlink + a + b + Is(LinkOf(p)', i) - Is(LinkOf(p), i)
                            + Is(UnlinkOf(p)', i) - Is(UnlinkOf(p), i)
  PROVE  Counts(i)'
<1>1. /\ Names(i) \in Nat /\ Subdirs(i) \in Nat
      /\ disk[i].nlink = Names(i) + Subdirs(i) + Held(Linking, i) + Held(Unlinking, i) + Is(i, ROOTINO)
  BY CountsNat DEF Counts
<1>2. /\ Held(Linking, i) \in Nat
      /\ Held(Linking, i)' = Held(Linking, i) + Is(LinkOf(p)', i) - Is(LinkOf(p), i)
      /\ Held(Unlinking, i) \in Nat
      /\ Held(Unlinking, i)' = Held(Unlinking, i) + Is(UnlinkOf(p)', i) - Is(UnlinkOf(p), i)
  BY PendMoves
<1>3. /\ Is(LinkOf(p), i) \in Int /\ Is(LinkOf(p)', i) \in Int
      /\ Is(UnlinkOf(p), i) \in Int /\ Is(UnlinkOf(p)', i) \in Int /\ Is(i, ROOTINO) \in Int
  BY DEF Is
<1>4. disk'[i].nlink = Names(i)' + Subdirs(i)' + Held(Linking, i)' + Held(Unlinking, i)' + Is(i, ROOTINO)
  BY <1>1, <1>2, <1>3
<1>5. QED
  BY <1>4 DEF Counts

\* What another process has in the making.
LEMMA FreshKept ==
  ASSUME IInv, TreeInv, NEW p \in Proc, Mine(p), NEW q \in Proc \ {p}, file' = file,
         NEW i, NEW d, i = ip[q], d = dp[q],
         Stage(q) = "fill" =>
           /\ disk'[i].nlink = disk[i].nlink /\ ent'[i]["."] = ent[i]["."] /\ ent'[i][".."] = ent[i][".."]
           /\ at'[p] # i /\ dp'[p] # i /\ ip'[p] # i /\ cwd'[p] # i
           /\ ent'[d][Head(path[q])] \in {0, ent[d][Head(path[q])]}
  PROVE  Fresh(q)'
<1>1. /\ Stage(q)' = Stage(q) /\ Fresh(q) /\ ip'[q] = i /\ dp'[q] = d /\ path'[q] = path[q]
  BY StagesKept DEF Mine, TreeInv
<1>2. SUFFICES ASSUME Stage(q) = "fill" PROVE Fresh(q)'
  BY <1>1 DEF Fresh
<1>3. /\ disk'[i].nlink = 0 /\ ~HasDots(i)' /\ Head(path[q]) \in Name /\ ent'[d][Head(path[q])] = 0
      /\ \A f \in File : file'[f] # i
  BY <1>1, <1>2 DEF Fresh, HasDots
<1>4. \A r \in Proc : at'[r] # i /\ dp'[r] # i /\ cwd'[r] # i /\ (ip'[r] = i => r = q)
  BY <1>1, <1>2 DEF Fresh, Mine
<1>5. QED
  BY <1>1, <1>3, <1>4 DEF Fresh, HasDots

LEMMA CreateNewTree ==
  ASSUME IInv, TypeInv', TreeInv, NEW p \in Proc, Mine(p), CreateLook(p), Lookup(dp[p], Head(path[p])) = 0
  PROVE  TreeInv'
<1>1. PICK i \in Inum :
        /\ disk[i].type = "none" /\ disk' = [disk EXCEPT ![i] = [FreeInode EXCEPT !.type = NewType(p)]]
        /\ ip' = [ip EXCEPT ![p] = i]
  BY DEF CreateLook
<1>2. /\ TypeInv /\ Shape(p) /\ FilesOpen /\ pc[p] = "create" /\ CanLock(dp[p]) /\ Goto(p, "fill")
      /\ LinksMatch /\ Rooted /\ Dots /\ Copied(i)
      /\ UNCHANGED <<ent, file, cwd, call, path, at, dp>>
  BY DEF IInv, TreeInv, CreateLook, files
<1>3. /\ Stage(p) = "create" /\ Head(path[p]) \in Name /\ ent[dp[p]][Head(path[p])] = 0
  BY <1>2, ParentFound DEF Lookup
<1>4. pc'[p] = "fill" /\ Stage(p)' = "fill" /\ ip'[p] = i /\ ip[p] = 0
  BY <1>1, <1>2, <1>3 DEF Goto, TypeInv, Stage, Shape, HasIp
<1>5. ~Kept(i) /\ ~Freed(i) /\ ~Reached(i) /\ disk[i].nlink = 0 /\ \A n \in Entry : ent[i][n] = 0
  <2>1. ~Kept(i) /\ Zero(i)
    BY <1>1 DEF Kept, TreeInv
  <2>2. lock[i] = Nobody
    BY <1>1, <1>2 DEF Copied
  <2>3. ~Freed(i)
    BY <1>2, <2>2, FreedLocked, Consts DEF IInv
  <2>4. QED
    BY <1>1, <1>2, <2>1, <2>3, ReachedKept DEF Zero, Copied
<1>6. /\ disk'[i].nlink = 0 /\ disk'[i].type # "none" /\ \A j \in Inum \ {i} : disk'[j] = disk[j]
  <2>1. PICK t : t = NewType(p)
    OBVIOUS
  <2>2. t \in {"file", "dir", "dev"}
    BY <1>2, <1>3, <2>1 DEF Shape, NewType
  <2>3. PICK free : free = FreeInode
    OBVIOUS
  <2>4. [free EXCEPT !.type = t].nlink = 0 /\ [free EXCEPT !.type = t].type = t
    BY <2>3 DEF FreeInode
  <2>5. QED
    BY <1>1, <1>2, <2>1, <2>2, <2>3, <2>4 DEF TypeInv
<1>7. \A q \in Proc : ~Uses(q, i)
  BY <1>5, UsesKept
<1>8. \A f \in File : file[f] # i
  BY <1>2, <1>5, Consts DEF FilesOpen
<1>9. \A j : /\ Reached(j)' <=> Reached(j)
             /\ Empty(j)' <=> Empty(j)
             /\ Freed(j)' => Freed(j)
  BY <1>2, <1>4 DEF Reached, Empty, Freed, Mine
<1>10. LinksMatch'
  <2>1. ASSUME NEW j \in Inum PROVE Counts(j)'
    <3>1. Counts(j)
      BY <1>2, LinksCounted
    <3>2. Names(j)' = Names(j) /\ Subdirs(j)' = Subdirs(j)
      <4>1. \A d \in Inum, n \in Name : ent[d][n] # i
        BY <1>5 DEF Reached
      <4>2. \A d \in Inum, n \in Name :
              ent[d][n] # 0 => (disk'[ent[d][n]].type = "dir" <=> disk[ent[d][n]].type = "dir")
        <5>1. \A d \in Inum, n \in Name : ent[d][n] \in Inum \cup {0}
          BY <1>2, Consts DEF TypeInv
        <5>2. QED
          BY <1>6, <4>1, <5>1
      <4>3. QED
        BY <1>2, <4>2, SameNames
    <3>3. LinkOf(p) = 0 /\ LinkOf(p)' = 0 /\ UnlinkOf(p) = 0 /\ UnlinkOf(p)' = 0
      BY <1>3, <1>4 DEF LinkOf, UnlinkOf
    <3>4. disk'[j].nlink = disk[j].nlink /\ disk[j].nlink \in Int
      BY <1>2, <1>5, <1>6 DEF TypeInv, Inode
    <3>5. disk'[j].nlink = disk[j].nlink + 0 + 0 + Is(LinkOf(p)', j) - Is(LinkOf(p), j)
                             + Is(UnlinkOf(p)', j) - Is(UnlinkOf(p), j)
      BY <3>3, <3>4, Consts DEF Is
    <3>6. Names(j)' = Names(j) + 0 /\ Subdirs(j)' = Subdirs(j) + 0
      BY <3>2, CountsNat
    <3>7. QED
      BY <1>2, <3>1, <3>5, <3>6, CountsMove
  <2>2. QED
    BY <2>1, LinksCountedNext
<1>11. Rooted' /\ Dots'
  <2>1. ROOTINO # i
    BY <1>5 DEF Reached
  <2>2. Rooted'
    BY <1>2, <1>6, <2>1, Consts DEF Rooted
  <2>3. \A d, j \in Inum : \A n \in Name : ent[d][n] = j => disk'[j] = disk[j]
    BY <1>5, <1>6 DEF Reached
  <2>4. QED
    BY <1>2, <2>2, <2>3 DEF Dots
<1>12. ASSUME NEW j \in Inum PROVE Zero(j)' /\ Loose(j)'
  <2>1. Zero(j) /\ Loose(j)
    BY DEF TreeInv
  <2>2. CASE j = i
    BY <1>2, <1>4, <1>5, <1>6, <1>9, <2>2, Consts DEF Zero, Loose, Empty
  <2>3. CASE j # i
    <3>1. Zero(j)'
      BY <1>6, <1>9, <2>1, <2>3 DEF Zero
    <3>2. \A q \in Proc : Uses(q, j)' => Uses(q, j)
      BY <1>2, <1>4, <2>3 DEF Uses, Mine
    <3>3. Unused(j) => Unused(j)'
      BY <1>2, <3>2 DEF Unused
    <3>4. \A q \in Proc : ip[q] = j /\ Stage(q) \in {"fill", "unlinked"} =>
                            ip'[q] = j /\ Stage(q)' \in {"fill", "unlinked"}
      BY <1>3, StagesKept DEF Mine
    <3>5. Loose(j)'
      BY <1>6, <1>9, <2>1, <2>3, <3>3, <3>4 DEF Loose
    <3>6. QED
      BY <3>1, <3>5
  <2>4. QED
    BY <2>2, <2>3
<1>13. ASSUME NEW q \in Proc PROVE Fresh(q)'
  <2>1. CASE q = p
    <3>1. \A r \in Proc : at'[r] # i /\ dp'[r] # i /\ cwd'[r] # i /\ (ip'[r] = i => r = p)
      BY <1>2, <1>4, <1>7 DEF Uses, Mine
    <3>2. ~HasDots(i)'
      BY <1>2, <1>5 DEF HasDots, Entry
    <3>3. QED
      BY <1>2, <1>3, <1>4, <1>6, <1>8, <2>1, <3>1, <3>2 DEF Fresh, HasDots
  <2>2. CASE q # p
    <3>1. PICK j, d : j = ip[q] /\ d = dp[q]
      OBVIOUS
    <3>2. SUFFICES ASSUME Stage(q) = "fill" PROVE Fresh(q)'
      BY <1>2, <2>2, FreshKept
    <3>3. j \in Inum /\ j # i /\ Fresh(q)
      BY <1>2, <1>7, <3>1, <3>2 DEF IInv, TreeInv, Shape, HasIp, TypeInv, Uses
    <3>4. disk'[j] = disk[j] /\ at'[p] # j /\ dp'[p] # j /\ cwd'[p] # j /\ ip'[p] # j
      BY <1>2, <1>4, <1>6, <3>1, <3>2, <3>3 DEF Fresh
    <3>5. QED
      BY <1>2, <2>2, <3>1, <3>4, FreshKept
  <2>3. QED
    BY <2>1, <2>2
<1>14. ASSUME NEW q \in Proc PROVE InUse(q)'
  <2>1. ASSUME NEW j \in Inum, Kept(j) PROVE Kept(j)'
    BY <1>5, <1>6, <1>9, <2>1 DEF Kept
  <2>2. Kept(i)'
    BY <1>5, <1>6, <1>9 DEF Kept
  <2>3. InUse(q) /\ at[q] \in Inum \cup {0} /\ ip[q] \in Inum \cup {0}
    BY <1>2 DEF TreeInv, TypeInv
  <2>4. PICK j, k : j = at'[q] /\ k = ip'[q]
    OBVIOUS
  <2>5. j = at[q] /\ k = IF q = p THEN i ELSE ip[q]
    BY <1>2, <1>4, <2>4 DEF Mine
  <2>6. (j # 0 => Kept(j)') /\ (k # 0 => Kept(k)')
    BY <2>1, <2>2, <2>3, <2>5 DEF InUse
  <2>7. QED
    BY <2>4, <2>6 DEF InUse, Kept, Freed
<1>15. QED
  BY <1>10, <1>11, <1>12, <1>13, <1>14 DEF TreeInv

LEMMA CreateLookTree ==
  ASSUME IInv, TypeInv', TreeInv, NEW p \in Proc, Mine(p), CreateLook(p)
  PROVE  TreeInv'
<1>1. PICK x : x = Lookup(dp[p], Head(path[p]))
  OBVIOUS
<1>2. CASE x = 0
  BY <1>1, <1>2, CreateNewTree
<1>3. CASE x # 0
  BY <1>1, <1>3, CreateFoundTree DEF CreateLook, files
<1>4. QED
  BY <1>2, <1>3

\* The inode that iput frees has no name and no entry.
LEMMA IputFreeTree ==
  ASSUME IInv, TypeInv', TreeInv, NEW p \in Proc, Mine(p), IputFree(p)
  PROVE  TreeInv'
<1>1. PICK i, free, zero : i = put[p] /\ free = FreeInode /\ zero = [n \in Entry |-> 0]
  OBVIOUS
<1>2. /\ TypeInv /\ Shape(p) /\ LinksMatch /\ Rooted /\ Dots /\ pc[p] = "ifree"
      /\ pc' = [pc EXCEPT ![p] = "deref"]
      /\ disk' = [disk EXCEPT ![i] = free] /\ ent' = [ent EXCEPT ![i] = zero]
      /\ UNCHANGED <<file, cwd, call, path, at, dp, ip, put, ret>>
  BY <1>1 DEF IInv, TreeInv, IputFree, Goto, files, locals
<1>3. /\ i \in Inum /\ Freed(i) /\ Stage(p)' = Stage(p) /\ free.type = "none" /\ free.nlink = 0
      /\ pc'[p] = "deref"
  BY <1>1, <1>2 DEF Shape, Ends, TypeInv, Freed, Stage, FreeInode
<1>4. /\ disk'[i] = free /\ \A j \in Inum \ {i} : disk'[j] = disk[j]
      /\ ent'[i] = zero /\ \A j \in Inum \ {i} : ent'[j] = ent[j]
  BY <1>2, <1>3 DEF TypeInv
<1>5. disk[i].nlink = 0 /\ ~Kept(i) /\ ~Reached(i)
  <2>1. Zero(i) /\ ~Kept(i)
    BY <1>3 DEF TreeInv, Kept
  <2>2. QED
    BY <1>2, <1>3, <2>1, ReachedKept DEF Zero
<1>6. \A n \in Name : ent[i][n] = 0 /\ ent'[i][n] = 0
  <2>1. Loose(i) /\ Copied(i)
    BY <1>3 DEF IInv, TreeInv
  <2>2. QED
    BY <1>1, <1>4, <1>5, <2>1, Consts DEF Loose, Empty, Copied
<1>7. \A d \in Inum, n \in Name : ent'[d][n] = ent[d][n]
  BY <1>4, <1>6
<1>8. \A j : /\ Reached(j)' <=> Reached(j)
             /\ Freed(j)' => Freed(j)
  BY <1>2, <1>3, <1>7 DEF Reached, Freed, Mine
<1>9. \A j \in Inum : disk'[j].nlink = disk[j].nlink
  BY <1>3, <1>4, <1>5
<1>10. LinksMatch'
  <2>1. ASSUME NEW j \in Inum PROVE Counts(j)'
    <3>1. Counts(j)
      BY <1>2, LinksCounted
    <3>2. Names(j)' = Names(j) /\ Subdirs(j)' = Subdirs(j)
      <4>1. \A d \in Inum, n \in Name : ent[d][n] # i
        BY <1>5 DEF Reached
      <4>2. \A d \in Inum, n \in Name :
              ent[d][n] # 0 => (disk'[ent[d][n]].type = "dir" <=> disk[ent[d][n]].type = "dir")
        <5>1. \A d \in Inum, n \in Name : ent[d][n] \in Inum \cup {0}
          BY <1>2, Consts DEF TypeInv
        <5>2. QED
          BY <1>4, <4>1, <5>1
      <4>3. QED
        BY <1>2, <1>7, <4>2, SameNames
    <3>3. LinkOf(p)' = LinkOf(p) /\ UnlinkOf(p)' = UnlinkOf(p)
      BY <1>2, <1>3 DEF LinkOf, UnlinkOf
    <3>4. disk'[j].nlink = disk[j].nlink /\ disk[j].nlink \in Int
      BY <1>2, <1>9 DEF TypeInv, Inode
    <3>5. disk'[j].nlink = disk[j].nlink + 0 + 0 + Is(LinkOf(p)', j) - Is(LinkOf(p), j)
                             + Is(UnlinkOf(p)', j) - Is(UnlinkOf(p), j)
      <4>1. Is(LinkOf(p), j) \in Int /\ Is(UnlinkOf(p), j) \in Int
        BY DEF Is
      <4>2. QED
        BY <3>3, <3>4, <4>1
    <3>6. Names(j)' = Names(j) + 0 /\ Subdirs(j)' = Subdirs(j) + 0
      BY <3>2, CountsNat
    <3>7. QED
      BY <1>2, <3>1, <3>5, <3>6, CountsMove
  <2>2. QED
    BY <2>1, LinksCountedNext
<1>11. Rooted' /\ Dots'
  <2>1. ROOTINO # i
    BY <1>5 DEF Reached
  <2>2. Rooted'
    BY <1>2, <1>4, <2>1, Consts DEF Rooted
  <2>3. ASSUME NEW d \in Inum, NEW j \in Inum, NEW n \in Name, ent'[d][n] = j, disk'[j].type = "dir"
        PROVE  ent'[j]["."] = j /\ ent'[j][".."] = d
    <3>1. ent[d][n] = j /\ j # i
      BY <1>5, <1>7, <2>3 DEF Reached
    <3>2. QED
      BY <1>2, <1>4, <2>3, <3>1 DEF Dots
  <2>4. QED
    BY <2>2, <2>3 DEF Dots
<1>12. ASSUME NEW j \in Inum PROVE Zero(j)' /\ Loose(j)'
  <2>1. Zero(j) /\ Loose(j)
    BY DEF TreeInv
  <2>2. Zero(j)'
    BY <1>4, <1>5, <1>8, <1>9, <2>1 DEF Zero
  <2>3. Unused(j)' <=> Unused(j)
    BY <1>2 DEF Unused, Uses
  <2>4. \A q \in Proc : Stage(q)' = Stage(q)
    BY <1>3, StagesKept
  <2>5. Loose(j)'
    <3>1. SUFFICES ASSUME j # i, disk[j].type = "dir", ~Reached(j) PROVE Loose(j)'
      BY <1>3, <1>4, <1>8 DEF Loose
    <3>2. /\ Empty(j)
          /\ Unused(j) \/ \E q \in Proc : ip[q] = j /\ Stage(q) \in {"fill", "unlinked"}
      BY <2>1, <3>1 DEF Loose
    <3>3. Empty(j)'
      BY <1>4, <3>1, <3>2 DEF Empty
    <3>4. QED
      BY <1>2, <2>3, <2>4, <3>2, <3>3 DEF Loose
  <2>6. QED
    BY <2>2, <2>5
<1>13. ASSUME NEW q \in Proc PROVE Fresh(q)'
  <2>1. Stage(q)' = Stage(q) /\ Fresh(q) /\ Shape(q) /\ Valid(q)
    BY <1>3, StagesKept DEF IInv, TreeInv
  <2>2. SUFFICES ASSUME Stage(q) = "fill" PROVE Fresh(q)'
    BY <2>1 DEF Fresh
  <2>3. PICK j, d : j = ip[q] /\ d = dp[q]
    OBVIOUS
  <2>4. j \in Inum /\ d \in Inum /\ Kept(j) /\ KeptDir(d)
    BY <1>2, <2>1, <2>2, <2>3, Consts DEF Shape, HasIp, HasDp, TypeInv, Valid
  <2>5. j # i /\ d # i
    BY <1>3, <2>4 DEF Kept, KeptDir
  <2>6. ent'[j] = ent[j] /\ ent'[d] = ent[d] /\ disk'[j] = disk[j]
    BY <1>4, <2>4, <2>5
  <2>7. QED
    BY <1>2, <2>1, <2>2, <2>3, <2>6 DEF Fresh, HasDots
<1>14. ASSUME NEW q \in Proc PROVE InUse(q)'
  <2>1. ASSUME NEW j \in Inum, Kept(j) PROVE Kept(j)'
    BY <1>4, <1>5, <1>8, <2>1 DEF Kept
  <2>2. PICK j, k : j = at[q] /\ k = ip[q]
    OBVIOUS
  <2>3. InUse(q) /\ j \in Inum \cup {0} /\ k \in Inum \cup {0}
    BY <1>2, <2>2 DEF TreeInv, TypeInv
  <2>4. (j # 0 => Kept(j)') /\ (k # 0 => Kept(k)')
    BY <2>1, <2>2, <2>3 DEF InUse
  <2>5. QED
    BY <1>2, <2>2, <2>4 DEF InUse, Kept, Freed
<1>15. QED
  BY <1>10, <1>11, <1>12, <1>13, <1>14 DEF TreeInv

\* link enters a name.
LEMMA LinkNewTree ==
  ASSUME IInv, TypeInv', TreeInv, NEW p \in Proc, Mine(p), pc[p] = "linkat", CanLock(dp[p]),
         Lookup(dp[p], Head(path[p])) = 0, ent' = [ent EXCEPT ![dp[p]][Head(path[p])] = ip[p]],
         PutDp(p, "linked"), UNCHANGED <<disk, file, cwd, call, path, at, ip>>
  PROVE  TreeInv'
<1>1. PICK d, h, i : d = dp[p] /\ h = Head(path[p]) /\ i = ip[p]
  OBVIOUS
<1>2. TypeInv /\ Shape(p) /\ Valid(p) /\ Locks /\ LinksMatch /\ Rooted /\ Dots
  BY DEF IInv, TreeInv
<1>3. /\ Stage(p) = "linkat" /\ d \in Inum /\ Reached(d) /\ h \in Name /\ ent[d][h] = 0
      /\ lock[d] = Nobody
  BY <1>1, ParentFound DEF Lookup
<1>4. i \in Inum /\ KeptLeaf(i) /\ call[p].op = "link"
  BY <1>1, <1>2, <1>3, Consts DEF Shape, Valid, HasIp, Links, TypeInv
<1>5. pc'[p] = "iput" /\ Stage(p)' = "linked" /\ dp'[p] = 0
  BY <1>2 DEF PutDp, Iput, TypeInv, Stage
<1>6. /\ ent'[d][h] = i
      /\ \A e \in Inum, m \in Entry : e # d \/ m # h => ent'[e][m] = ent[e][m]
      /\ \A e \in Inum \ {d} : ent'[e] = ent[e]
  BY <1>1, <1>2, <1>3, Consts DEF TypeInv
<1>7. \A j \in Inum : /\ Reached(j)' <=> Reached(j) \/ j = i
                      /\ Freed(j)' => Freed(j)
  <2>1. \A j : Freed(j)' => Freed(j)
    BY <1>5 DEF Freed, Mine
  <2>2. \A j \in Inum : Reached(j)' <=> Reached(j) \/ j = i
    BY <1>3, <1>4, <1>6, Consts DEF Reached
  <2>3. QED
    BY <2>1, <2>2
<1>8. LinksMatch'
  <2>1. ASSUME NEW j \in Inum PROVE Counts(j)'
    <3>1. Counts(j)
      BY <1>2, LinksCounted
    <3>2. PICK a, b : a = Is(i, j) /\ b = 0
      OBVIOUS
    <3>3. Names(j)' = Names(j) + a /\ Subdirs(j)' = Subdirs(j) + b
      <4>1. \A e \in Inum, m \in Name : e # d \/ m # h => ent'[e][m] = ent[e][m]
        BY <1>6, Consts
      <4>2. PICK z : z = 0
        OBVIOUS
      <4>3. /\ Names(j)' = Names(j) + Is(i, j) - Is(z, j)
            /\ Subdirs(j)' = Subdirs(j) + IF j = d THEN Sub(i)' - Sub(z) ELSE 0
        BY <1>2, <1>3, <1>6, <4>1, <4>2, NameMoves
      <4>4. Is(z, j) = 0 /\ Is(i, j) \in Int /\ Sub(i)' = 0 /\ Sub(z) = 0
        BY <1>4, <4>2, Consts DEF Is, Sub, KeptLeaf
      <4>5. QED
        BY <3>2, <4>3, <4>4, CountsNat
    <3>4. LinkOf(p) = i /\ LinkOf(p)' = 0 /\ UnlinkOf(p) = 0 /\ UnlinkOf(p)' = 0
      BY <1>1, <1>3, <1>4, <1>5 DEF LinkOf, UnlinkOf
    <3>5. disk[j].nlink = disk[j].nlink + a + b + Is(LinkOf(p)', j) - Is(LinkOf(p), j)
                             + Is(UnlinkOf(p)', j) - Is(UnlinkOf(p), j)
      <4>1. disk[j].nlink \in Int
        BY <1>2 DEF TypeInv, Inode
      <4>2. QED
        BY <3>2, <3>4, <4>1, Consts DEF Is
    <3>6. a \in Int /\ b \in Int
      BY <3>2 DEF Is
    <3>7. QED
      BY <1>2, <3>1, <3>3, <3>5, <3>6, CountsMove
  <2>2. QED
    BY <2>1, LinksCountedNext
<1>9. Rooted' /\ Dots'
  <2>1. Rooted'
    BY <1>2, <1>3, <1>6, Consts DEF Rooted, Entry
  <2>2. ASSUME NEW e \in Inum, NEW j \in Inum, NEW n \in Name, ent'[e][n] = j, disk[j].type = "dir"
        PROVE  ent'[j]["."] = j /\ ent'[j][".."] = e
    <3>1. ent[e][n] = j
      BY <1>4, <1>6, <2>2, Consts DEF KeptLeaf
    <3>2. QED
      BY <1>2, <1>3, <1>6, <2>2, <3>1, Consts DEF Dots, Entry
  <2>3. QED
    BY <2>1, <2>2 DEF Dots
<1>10. ASSUME NEW j \in Inum PROVE Zero(j)' /\ Loose(j)'
  <2>1. Zero(j) /\ Loose(j)
    BY DEF TreeInv
  <2>2. Zero(j)'
    BY <1>7, <2>1 DEF Zero
  <2>3. Loose(j)'
    <3>1. SUFFICES ASSUME disk[j].type = "dir", ~Reached(j), j # d PROVE Loose(j)'
      BY <1>3, <1>7 DEF Loose
    <3>2. /\ Empty(j)
          /\ Unused(j) \/ \E q \in Proc : ip[q] = j /\ Stage(q) \in {"fill", "unlinked"}
      BY <2>1, <3>1 DEF Loose
    <3>3. Empty(j)'
      BY <1>6, <3>1, <3>2 DEF Empty
    <3>4. Unused(j) => Unused(j)'
      BY <1>2, <1>5, Consts DEF Unused, Uses, Mine
    <3>5. \A q \in Proc : ip[q] = j /\ Stage(q) \in {"fill", "unlinked"} =>
                            Stage(q)' \in {"fill", "unlinked"}
      BY <1>3, StagesKept
    <3>6. QED
      BY <3>2, <3>3, <3>4, <3>5 DEF Loose
  <2>4. QED
    BY <2>2, <2>3
<1>11. ASSUME NEW q \in Proc PROVE Fresh(q)'
  <2>1. CASE q = p
    BY <1>5, <2>1 DEF Fresh
  <2>2. CASE q # p
    <3>1. PICK j, e : j = ip[q] /\ e = dp[q]
      OBVIOUS
    <3>2. SUFFICES ASSUME Stage(q) = "fill" PROVE Fresh(q)'
      BY <2>2, FreshKept
    <3>3. j \in Inum /\ e \in Inum /\ Fresh(q) /\ path[q] # <<>>
      BY <1>2, <3>1, <3>2, Consts DEF IInv, TreeInv, Shape, HasIp, HasDp, TypeInv, Walks
    <3>4. e # d
      BY <1>2, <1>3, <3>1, <3>2, <3>3, Consts DEF Locks, Owner
    <3>5. j # d /\ at[p] # j /\ ip[p] # j /\ cwd[p] # j /\ j # 0
      BY <1>1, <2>2, <3>1, <3>2, <3>3, Consts DEF Fresh
    <3>6. ent'[j] = ent[j] /\ ent'[e] = ent[e]
      BY <1>6, <3>3, <3>4, <3>5
    <3>7. QED
      BY <1>5, <2>2, <3>1, <3>5, <3>6, FreshKept
  <2>3. QED
    BY <2>1, <2>2
<1>12. ASSUME NEW q \in Proc PROVE InUse(q)'
  <2>1. PICK j, k : j = at[q] /\ k = ip[q]
    OBVIOUS
  <2>2. InUse(q) /\ j \in Inum \cup {0} /\ k \in Inum \cup {0}
    BY <1>2, <2>1 DEF TreeInv, TypeInv
  <2>3. (j # 0 => Kept(j)') /\ (k # 0 => Kept(k)')
    BY <1>7, <2>1, <2>2 DEF InUse, Kept
  <2>4. QED
    BY <2>1, <2>3 DEF InUse, Kept, Freed
<1>13. QED
  BY <1>8, <1>9, <1>10, <1>11, <1>12 DEF TreeInv

LEMMA LinkEnterTree ==
  ASSUME IInv, TypeInv', TreeInv, NEW p \in Proc, Mine(p), LinkEnter(p)
  PROVE  TreeInv'
<1>1. PICK x : x = Lookup(dp[p], Head(path[p]))
  OBVIOUS
<1>2. /\ pc[p] = "linkat" /\ CanLock(dp[p])
      /\ UNCHANGED <<disk, file, cwd, call, path, at, ip>>
  BY DEF LinkEnter, files
<1>3. CASE x = 0
  BY <1>1, <1>2, <1>3, LinkNewTree DEF LinkEnter
<1>4. CASE x # 0
  <2>1. Iput(p, x, "linkdup") /\ ent' = ent /\ dp' = dp
    BY <1>1, <1>4 DEF LinkEnter
  <2>2. QED
    BY <1>2, <2>1, LinkFoundTree
<1>5. QED
  BY <1>3, <1>4

\* unlink erases a name.
LEMMA UnlinkEraseTree ==
  ASSUME IInv, TypeInv', TreeInv, NEW p \in Proc, Mine(p), pc[p] = "unlinkip", CanLock(ip[p]),
         NEW k \in {-1, 0}, k = IF Load(ip[p]).type = "dir" THEN -1 ELSE 0,
         Load(ip[p]).type = "dir" => \A n \in Name : ent[ip[p]][n] = 0,
         ent' = [ent EXCEPT ![dp[p]][Head(path[p])] = 0],
         disk' = [disk EXCEPT ![dp[p]] = AddLinks(mem[dp[p]], k)],
         PutDp(p, "unlinked"), UNCHANGED <<file, cwd, call, path, at, ip>>
  PROVE  TreeInv'
<1>1. PICK d, h, i : d = dp[p] /\ h = Head(path[p]) /\ i = ip[p]
  OBVIOUS
<1>2. TypeInv /\ Shape(p) /\ Valid(p) /\ Locks /\ LinksMatch /\ Rooted /\ Dots
  BY DEF IInv, TreeInv
<1>3. /\ Stage(p) = "unlinkip" /\ d \in Inum /\ i \in Inum /\ h \in Name /\ KeptDir(d)
      /\ ent[d][h] = i /\ lock[d] = p
  <2>1. Stage(p) = pc[p]
    BY <1>2, Outside DEF Ends
  <2>2. QED
    BY <1>1, <1>2, <2>1, Consts DEF Shape, Valid, HasIp, HasDp, Locks, Owner, TypeInv
<1>4. /\ Load(i) = disk[i] /\ mem[d] = disk[d] /\ lock[i] = Nobody /\ d # i
  <2>1. Load(i) = disk[i] /\ lock[i] = Nobody
    BY <1>1, <1>2, <1>3, LockedKept DEF IInv
  <2>2. mem[d] = disk[d]
    BY <1>3, Consts DEF IInv, Copied
  <2>3. QED
    BY <1>3, <2>1, <2>2, Consts
<1>5. PICK m \in Inode : /\ m.type = disk[d].type /\ m.nlink = disk[d].nlink + k
                         /\ disk'[d] = m /\ \A j \in Inum \ {d} : disk'[j] = disk[j]
  <2>1. PICK m : m = AddLinks(disk[d], k)
    OBVIOUS
  <2>2. m \in Inode /\ m.type = disk[d].type /\ m.nlink = disk[d].nlink + k
    <3>1. disk[d] \in Inode /\ k \in Int
      BY <1>2, <1>3 DEF TypeInv
    <3>2. QED
      BY <2>1, <3>1, AddLinksIs
  <2>3. disk'[d] = m /\ \A j \in Inum \ {d} : disk'[j] = disk[j]
    BY <1>1, <1>2, <1>3, <1>4, <2>1 DEF TypeInv
  <2>4. QED
    BY <2>2, <2>3
<1>6. pc'[p] = "iput" /\ Stage(p)' = "unlinked" /\ dp'[p] = 0
  BY <1>2 DEF PutDp, Iput, TypeInv, Stage
<1>7. /\ ent'[d][h] = 0
      /\ \A e \in Inum, n \in Entry : e # d \/ n # h => ent'[e][n] = ent[e][n]
      /\ \A e \in Inum \ {d} : ent'[e] = ent[e]
  BY <1>1, <1>2, <1>3, Consts DEF TypeInv
<1>8. \A j \in Inum : /\ disk'[j].type = disk[j].type
                      /\ Freed(j)' => Freed(j)
                      /\ Reached(j)' => Reached(j)
                      /\ Reached(j) => Reached(j)' \/ j = i
                      /\ Empty(j) => Empty(j)'
  <2>1. \A j : Freed(j)' => Freed(j)
    BY <1>6 DEF Freed, Mine
  <2>2. \A j \in Inum : (Reached(j)' => Reached(j)) /\ (Reached(j) => Reached(j)' \/ j = i)
    BY <1>3, <1>7, Consts DEF Reached
  <2>3. \A j \in Inum : Empty(j) => Empty(j)'
    BY <1>3, <1>7, Consts DEF Empty
  <2>4. QED
    BY <1>5, <2>1, <2>2, <2>3
<1>9. LinksMatch'
  <2>1. ASSUME NEW j \in Inum PROVE Counts(j)'
    <3>1. Counts(j)
      BY <1>2, LinksCounted
    <3>2. PICK a, b : a = 0 - Is(i, j) /\ b = IF j = d THEN k ELSE 0
      OBVIOUS
    <3>3. Names(j)' = Names(j) + a /\ Subdirs(j)' = Subdirs(j) + b
      <4>1. \A e \in Inum, n \in Name : e # d \/ n # h => ent'[e][n] = ent[e][n]
        BY <1>7, Consts
      <4>2. \A e \in Inum, n \in Name :
              ent[e][n] # 0 => (disk'[ent[e][n]].type = "dir" <=> disk[ent[e][n]].type = "dir")
        <5>1. \A e \in Inum, n \in Name : ent[e][n] \in Inum \cup {0}
          BY <1>2, Consts DEF TypeInv
        <5>2. QED
          BY <1>8, <5>1
      <4>3. PICK z : z = 0
        OBVIOUS
      <4>4. /\ Names(j)' = Names(j) + Is(z, j) - Is(i, j)
            /\ Subdirs(j)' = Subdirs(j) + IF j = d THEN Sub(z)' - Sub(i) ELSE 0
        BY <1>2, <1>3, <1>7, <4>1, <4>2, <4>3, NameMoves
      <4>5. Is(z, j) = 0 /\ Is(i, j) \in Int
        BY <1>3, <4>3, Consts DEF Is
      <4>6. Names(j) \in Nat /\ Subdirs(j) \in Nat
        BY CountsNat
      <4>7. Names(j)' = Names(j) + a
        BY <3>2, <4>4, <4>5, <4>6
      <4>8. Subdirs(j)' = Subdirs(j) + b
        <5>1. Sub(i) + k = 0 /\ Sub(z)' = 0 /\ Sub(i) \in Int /\ k \in Int
          BY <1>1, <1>3, <1>4, <4>3, Consts DEF Sub
        <5>2. CASE j = d
          BY <3>2, <4>4, <4>6, <5>1, <5>2
        <5>3. CASE j # d
          BY <3>2, <4>4, <4>6, <5>3
        <5>4. QED
          BY <5>2, <5>3
      <4>9. QED
        BY <4>7, <4>8
    <3>4. LinkOf(p) = 0 /\ LinkOf(p)' = 0 /\ UnlinkOf(p) = 0 /\ UnlinkOf(p)' = i
      BY <1>1, <1>3, <1>6 DEF LinkOf, UnlinkOf
    <3>5. a \in Int /\ b \in Int /\ disk[j].nlink \in Int
      BY <1>2, <3>2 DEF Is, TypeInv, Inode
    <3>6. disk'[j].nlink = disk[j].nlink + b
      BY <1>5, <3>2, <3>5
    <3>7. disk'[j].nlink = disk[j].nlink + a + b + Is(LinkOf(p)', j) - Is(LinkOf(p), j)
                             + Is(UnlinkOf(p)', j) - Is(UnlinkOf(p), j)
      BY <3>2, <3>4, <3>5, <3>6, Consts DEF Is
    <3>8. QED
      BY <1>2, <3>1, <3>3, <3>5, <3>7, CountsMove
  <2>2. QED
    BY <2>1, LinksCountedNext
<1>10. Rooted' /\ Dots'
  <2>1. Rooted'
    BY <1>2, <1>3, <1>7, <1>8, Consts DEF Rooted, Entry
  <2>2. ASSUME NEW e \in Inum, NEW j \in Inum, NEW n \in Name, ent'[e][n] = j, disk'[j].type = "dir"
        PROVE  ent'[j]["."] = j /\ ent'[j][".."] = e
    <3>1. ent[e][n] = j
      BY <1>7, <2>2, Consts
    <3>2. QED
      BY <1>2, <1>3, <1>7, <1>8, <2>2, <3>1, Consts DEF Dots, Entry
  <2>3. QED
    BY <2>1, <2>2 DEF Dots
<1>11. ASSUME NEW j \in Inum PROVE Zero(j)' /\ Loose(j)'
  <2>1. Zero(j) /\ Loose(j)
    BY DEF TreeInv
  <2>2. Zero(j)'
    BY <1>3, <1>5, <1>8, <2>1 DEF Zero, KeptDir
  <2>3. Loose(j)'
    <3>1. SUFFICES ASSUME disk[j].type = "dir", ~Reached(j)' PROVE Loose(j)'
      BY <1>8 DEF Loose
    <3>2. CASE j = i
      <4>1. Empty(j)
        BY <1>1, <1>4, <3>1, <3>2 DEF Empty
      <4>2. ip'[p] = j
        BY <1>1, <3>2
      <4>3. QED
        BY <1>6, <1>8, <4>1, <4>2 DEF Loose
    <3>3. CASE j # i
      <4>1. /\ Empty(j)
            /\ Unused(j) \/ \E q \in Proc : ip[q] = j /\ Stage(q) \in {"fill", "unlinked"}
        BY <1>8, <2>1, <3>1, <3>3 DEF Loose
      <4>2. Empty(j)'
        BY <1>8, <4>1
      <4>3. Unused(j) => Unused(j)'
        BY <1>2, <1>6, Consts DEF Unused, Uses, Mine
      <4>4. \A q \in Proc : ip[q] = j /\ Stage(q) \in {"fill", "unlinked"} =>
                              Stage(q)' \in {"fill", "unlinked"}
        BY <1>3, StagesKept
      <4>5. QED
        BY <4>1, <4>2, <4>3, <4>4 DEF Loose
    <3>4. QED
      BY <3>2, <3>3
  <2>4. QED
    BY <2>2, <2>3
<1>12. ASSUME NEW q \in Proc PROVE Fresh(q)'
  <2>1. CASE q = p
    BY <1>6, <2>1 DEF Fresh
  <2>2. CASE q # p
    <3>1. PICK j, e : j = ip[q] /\ e = dp[q]
      OBVIOUS
    <3>2. SUFFICES ASSUME Stage(q) = "fill" PROVE Fresh(q)'
      BY <2>2, FreshKept
    <3>3. j \in Inum /\ e \in Inum /\ Fresh(q)
      BY <1>2, <3>1, <3>2, Consts DEF IInv, TreeInv, Shape, HasIp, HasDp, TypeInv
    <3>4. e # d
      BY <1>2, <1>3, <2>2, <3>1, <3>2, <3>3, Consts DEF Locks, Owner
    <3>5. j # d /\ at[p] # j /\ ip[p] # j /\ cwd[p] # j /\ j # 0
      BY <1>1, <2>2, <3>1, <3>2, <3>3, Consts DEF Fresh
    <3>6. ent'[j] = ent[j] /\ ent'[e] = ent[e] /\ disk'[j] = disk[j]
      BY <1>5, <1>7, <3>3, <3>4, <3>5
    <3>7. QED
      BY <1>6, <2>2, <3>1, <3>5, <3>6, FreshKept
  <2>3. QED
    BY <2>1, <2>2
<1>13. ASSUME NEW q \in Proc PROVE InUse(q)'
  <2>1. PICK j, r : j = at[q] /\ r = ip[q]
    OBVIOUS
  <2>2. InUse(q) /\ j \in Inum \cup {0} /\ r \in Inum \cup {0}
    BY <1>2, <2>1 DEF TreeInv, TypeInv
  <2>3. (j # 0 => Kept(j)') /\ (r # 0 => Kept(r)')
    BY <1>8, <2>1, <2>2 DEF InUse, Kept
  <2>4. QED
    BY <2>1, <2>3 DEF InUse, Kept, Freed
<1>14. QED
  BY <1>9, <1>10, <1>11, <1>12, <1>13 DEF TreeInv

LEMMA UnlinkEraseAllTree ==
  ASSUME IInv, TypeInv', TreeInv, NEW p \in Proc, Mine(p), UnlinkErase(p)
  PROVE  TreeInv'
<1>1. /\ pc[p] = "unlinkip" /\ CanLock(ip[p]) /\ UNCHANGED <<file, cwd, call, path, at>>
  BY DEF UnlinkErase, files
<1>2. CASE Load(ip[p]).type = "dir" /\ \E n \in Name : ent[ip[p]][n] # 0
  <2>1. Iput(p, ip[p], "unlinkbad") /\ ip' = [ip EXCEPT ![p] = 0] /\ UNCHANGED <<disk, ent, dp>>
    BY <1>2 DEF UnlinkErase
  <2>2. QED
    BY <1>1, <2>1, UnlinkFullTree
<1>3. CASE ~(Load(ip[p]).type = "dir" /\ \E n \in Name : ent[ip[p]][n] # 0)
  <2>1. PICK k \in {-1, 0} : k = IF Load(ip[p]).type = "dir" THEN -1 ELSE 0
    OBVIOUS
  <2>2. /\ ent' = [ent EXCEPT ![dp[p]][Head(path[p])] = 0]
        /\ disk' = [disk EXCEPT ![dp[p]] = AddLinks(mem[dp[p]], k)]
        /\ PutDp(p, "unlinked") /\ ip' = ip
    BY <1>3, <2>1 DEF UnlinkErase
  <2>3. QED
    BY <1>1, <1>3, <2>1, <2>2, UnlinkEraseTree
<1>4. QED
  BY <1>2, <1>3

\* What create writes of the new inode and its parent.
LEMMA FillWrites ==
  ASSUME TypeInv, NEW p \in Proc, CreateFill(p), NEW i \in Inum, NEW d \in Inum, i # d, NEW h \in Name,
         NEW t, i = ip[p], d = dp[p], h = Head(path[p]), t = NewType(p)
  PROVE  /\ disk'[i].type = disk[i].type /\ disk'[i].nlink = 1
         /\ disk'[d].type = disk[d].type
         /\ disk'[d].nlink = disk[d].nlink + IF t = "dir" THEN 1 ELSE 0
         /\ \A j \in Inum \ {i, d} : disk'[j] = disk[j] /\ ent'[j] = ent[j]
         /\ ent'[d][h] = i
         /\ \A x \in Entry \ {h} : ent'[d][x] = ent[d][x]
         /\ \A x \in Name : ent'[i][x] = ent[i][x]
         /\ t = "dir" => ent'[i]["."] = i /\ ent'[i][".."] = d
<1>1. PICK b, n, m :
                  /\ b = Balloc
                  /\ n = [disk[i] EXCEPT !.nlink = 1, !.addr = IF t = "dir" /\ @ = 0 THEN b ELSE @]
                  /\ m = [disk[d] EXCEPT !.nlink = @ + IF t = "dir" THEN 1 ELSE 0]
  OBVIOUS
<1>2. disk[i] \in Inode /\ disk[d] \in Inode
  BY DEF TypeInv
<1>3. n.type = disk[i].type /\ n.nlink = 1
  <2>1. PICK w : w = [disk[i] EXCEPT !.nlink = 1]
    OBVIOUS
  <2>2. w.type = disk[i].type /\ w.nlink = 1 /\ w = [type |-> w.type, nlink |-> w.nlink, addr |-> w.addr]
    BY <1>2, <2>1 DEF Inode
  <2>3. PICK v : v = IF t = "dir" /\ w.addr = 0 THEN b ELSE w.addr
    OBVIOUS
  <2>4. n = [w EXCEPT !.addr = v]
    BY <1>1, <2>1, <2>3
  <2>5. QED
    BY <2>2, <2>4
<1>4. m.type = disk[d].type /\ m.nlink = disk[d].nlink + IF t = "dir" THEN 1 ELSE 0
  BY <1>1, <1>2 DEF Inode
<1>5. disk' = [disk EXCEPT ![i] = n, ![d] = m]
  <2>1. disk' = [disk EXCEPT ![i].nlink = 1, ![i].addr = IF t = "dir" /\ @ = 0 THEN b ELSE @,
                             ![d].nlink = @ + IF t = "dir" THEN 1 ELSE 0]
    BY <1>1 DEF CreateFill
  <2>2. QED
    BY <1>1, <2>1 DEF TypeInv
<1>6. disk'[i] = n /\ disk'[d] = m /\ \A j \in Inum \ {i, d} : disk'[j] = disk[j]
  BY <1>5 DEF TypeInv
<1>7. "." \in Entry /\ ".." \in Entry /\ h \in Entry
  BY Consts DEF Entry
<1>8. PICK dots :
        /\ dots = IF t = "dir" THEN [ent EXCEPT ![i]["."] = i, ![i][".."] = d] ELSE ent
        /\ ent' = [dots EXCEPT ![d][h] = i]
  BY DEF CreateFill
<1>9. /\ dots \in [Inum -> [Entry -> Inum \cup {0}]] /\ dots[d] = ent[d]
      /\ \A j \in Inum \ {i, d} : dots[j] = ent[j]
      /\ \A x \in Name : dots[i][x] = ent[i][x]
      /\ t = "dir" => dots[i]["."] = i /\ dots[i][".."] = d
  <2>1. CASE t = "dir"
    <3>1. PICK own, line : own = ent[i] /\ line = [own EXCEPT !["."] = i, ![".."] = d]
      OBVIOUS
    <3>2. own \in [Entry -> Inum \cup {0}]
      BY <3>1 DEF TypeInv
    <3>3. /\ line \in [Entry -> Inum \cup {0}] /\ line["."] = i /\ line[".."] = d
          /\ \A x \in Name : line[x] = own[x]
      BY <1>7, <3>1, <3>2, Consts
    <3>4. dots = [ent EXCEPT ![i] = line]
      BY <1>8, <2>1, <3>1 DEF TypeInv
    <3>5. QED
      BY <3>1, <3>3, <3>4 DEF TypeInv
  <2>2. CASE t # "dir"
    BY <1>8, <2>2 DEF TypeInv
  <2>3. QED
    BY <2>1, <2>2
<1>10. /\ \A j \in Inum \ {d} : ent'[j] = dots[j]
       /\ ent'[d][h] = i /\ \A x \in Entry \ {h} : ent'[d][x] = dots[d][x]
  BY <1>7, <1>8, <1>9
<1>11. QED
  BY <1>3, <1>4, <1>6, <1>9, <1>10

LEMMA CreateFillTree ==
  ASSUME IInv, TypeInv', TreeInv, NEW p \in Proc, Mine(p), CreateFill(p)
  PROVE  TreeInv'
<1>1. PICK d, i, h, t : d = dp[p] /\ i = ip[p] /\ h = Head(path[p]) /\ t = NewType(p)
  OBVIOUS
<1>2. /\ TypeInv /\ Shape(p) /\ Valid(p) /\ Locks /\ LinksMatch /\ Rooted /\ Dots /\ Fresh(p)
      /\ pc[p] = "fill" /\ CanLock(i) /\ PutDp(p, "made")
      /\ UNCHANGED <<file, cwd, call, path, at, ip>>
  BY <1>1 DEF IInv, TreeInv, CreateFill, files
<1>3. Stage(p) = "fill" /\ d \in Inum /\ i \in Inum
  <2>1. Stage(p) = pc[p]
    BY <1>2, Outside DEF Ends
  <2>2. QED
    BY <1>1, <1>2, <2>1 DEF TypeInv, Shape, HasIp, HasDp
<1>4. /\ KeptDir(d) /\ Kept(i) /\ disk[i].type = t /\ lock[d] = p /\ h \in Name /\ ent[d][h] = 0
      /\ disk[i].nlink = 0 /\ d # i
  <2>1. KeptDir(d) /\ Kept(i) /\ disk[i].type = t /\ lock[d] = p
    BY <1>1, <1>2, <1>3, Consts DEF Valid, Locks, Owner
  <2>2. QED
    BY <1>1, <1>2, <1>3, <2>1 DEF Fresh
<1>5. /\ disk'[i].type = disk[i].type /\ disk'[i].nlink = 1
      /\ disk'[d].type = disk[d].type
      /\ disk'[d].nlink = disk[d].nlink + IF t = "dir" THEN 1 ELSE 0
      /\ \A j \in Inum \ {i, d} : disk'[j] = disk[j] /\ ent'[j] = ent[j]
      /\ ent'[d][h] = i
      /\ \A x \in Entry \ {h} : ent'[d][x] = ent[d][x]
      /\ \A x \in Name : ent'[i][x] = ent[i][x]
      /\ t = "dir" => ent'[i]["."] = i /\ ent'[i][".."] = d
  BY <1>1, <1>2, <1>3, <1>4, FillWrites
<1>6. pc'[p] = "iput" /\ Stage(p)' = "made" /\ dp'[p] = 0
  BY <1>2 DEF PutDp, Iput, TypeInv, Stage
<1>7. ~Reached(i) /\ Reached(d)
  <2>1. ~Reached(i)
    BY <1>2, <1>3, <1>4, ReachedKept
  <2>2. \A q \in Proc : ~(ip[q] = d /\ Stage(q) = "unlinked")
    BY <1>2, <1>3, <1>4 DEF Locks, Owner
  <2>3. Reached(d)
    BY <1>1, <1>3, <1>4, <2>2, InHandReached DEF Uses, KeptDir
  <2>4. QED
    BY <2>1, <2>3
<1>8. /\ \A e \in Inum, n \in Name : e # d \/ n # h => ent'[e][n] = ent[e][n]
      /\ \A j \in Inum : /\ disk'[j].type = disk[j].type
                         /\ Freed(j)' => Freed(j)
                         /\ Reached(j)' <=> Reached(j) \/ j = i
  <2>1. \A j : Freed(j)' => Freed(j)
    BY <1>6 DEF Freed, Mine
  <2>2. \A e \in Inum, n \in Name : e # d \/ n # h => ent'[e][n] = ent[e][n]
    BY <1>5, Consts
  <2>3. \A j \in Inum : Reached(j)' <=> Reached(j) \/ j = i
    BY <1>3, <1>4, <1>5, <2>2, Consts DEF Reached
  <2>4. \A j \in Inum : disk'[j].type = disk[j].type
    BY <1>5
  <2>5. QED
    BY <2>1, <2>2, <2>3, <2>4
<1>9. LinksMatch'
  <2>1. ASSUME NEW j \in Inum PROVE Counts(j)'
    <3>1. Counts(j)
      BY <1>2, LinksCounted
    <3>2. PICK a, c : a = Is(i, j) /\ c = IF j = d /\ t = "dir" THEN 1 ELSE 0
      OBVIOUS
    <3>3. Names(j)' = Names(j) + a /\ Subdirs(j)' = Subdirs(j) + c
      <4>1. \A e \in Inum, n \in Name :
              ent[e][n] # 0 => (disk'[ent[e][n]].type = "dir" <=> disk[ent[e][n]].type = "dir")
        <5>1. \A e \in Inum, n \in Name : ent[e][n] \in Inum \cup {0}
          BY <1>2, Consts DEF TypeInv
        <5>2. QED
          BY <1>8, <5>1
      <4>2. PICK z : z = 0
        OBVIOUS
      <4>3. /\ Names(j)' = Names(j) + Is(i, j) - Is(z, j)
            /\ Subdirs(j)' = Subdirs(j) + IF j = d THEN Sub(i)' - Sub(z) ELSE 0
        BY <1>2, <1>3, <1>4, <1>5, <1>8, <4>1, <4>2, NameMoves
      <4>4. Is(z, j) = 0 /\ Is(i, j) \in Int
        BY <4>2, Consts DEF Is
      <4>5. Sub(z) = 0 /\ Sub(i)' = IF t = "dir" THEN 1 ELSE 0
        BY <1>3, <1>4, <1>5, <4>2, Consts DEF Sub
      <4>6. Names(j) \in Nat /\ Subdirs(j) \in Nat
        BY CountsNat
      <4>7. Names(j)' = Names(j) + a
        BY <3>2, <4>3, <4>4, <4>6
      <4>8. Subdirs(j)' = Subdirs(j) + c
        BY <3>2, <4>3, <4>5, <4>6
      <4>9. QED
        BY <4>7, <4>8
    <3>4. LinkOf(p) = 0 /\ LinkOf(p)' = 0 /\ UnlinkOf(p) = 0 /\ UnlinkOf(p)' = 0
      BY <1>3, <1>6 DEF LinkOf, UnlinkOf
    <3>5. a \in Int /\ c \in Int /\ disk[j].nlink \in Int
      BY <1>2, <3>2 DEF Is, TypeInv, Inode
    <3>6. disk'[j].nlink = disk[j].nlink + a + c
      BY <1>4, <1>5, <3>2, <3>5 DEF Is
    <3>7. disk'[j].nlink = disk[j].nlink + a + c + Is(LinkOf(p)', j) - Is(LinkOf(p), j)
                             + Is(UnlinkOf(p)', j) - Is(UnlinkOf(p), j)
      BY <3>4, <3>5, <3>6, Consts DEF Is
    <3>8. QED
      BY <1>2, <3>1, <3>3, <3>5, <3>7, CountsMove
  <2>2. QED
    BY <2>1, LinksCountedNext
<1>10. Rooted' /\ Dots'
  <2>1. \A j \in Inum \ {i} : ent'[j]["."] = ent[j]["."] /\ ent'[j][".."] = ent[j][".."]
    BY <1>4, <1>5, Consts DEF Entry
  <2>2. Rooted'
    <3>1. ROOTINO # i
      BY <1>7 DEF Reached
    <3>2. QED
      BY <1>2, <1>8, <2>1, <3>1, Consts DEF Rooted
  <2>3. ASSUME NEW e \in Inum, NEW j \in Inum, NEW n \in Name, ent'[e][n] = j, disk'[j].type = "dir"
        PROVE  ent'[j]["."] = j /\ ent'[j][".."] = e
    <3>1. CASE e = d /\ n = h
      BY <1>4, <1>5, <2>3, <3>1
    <3>2. CASE e # d \/ n # h
      <4>1. ent[e][n] = j /\ j # i
        BY <1>7, <1>8, <2>3, <3>2 DEF Reached
      <4>2. QED
        BY <1>2, <1>8, <2>1, <2>3, <4>1 DEF Dots
    <3>3. QED
      BY <3>1, <3>2
  <2>4. QED
    BY <2>2, <2>3 DEF Dots
<1>11. ASSUME NEW j \in Inum PROVE Zero(j)' /\ Loose(j)'
  <2>1. Zero(j) /\ Loose(j)
    BY DEF TreeInv
  <2>2. Zero(j)'
    BY <1>4, <1>5, <1>8, <2>1 DEF Zero, Kept, KeptDir
  <2>3. Loose(j)'
    <3>1. SUFFICES ASSUME disk[j].type = "dir", ~Reached(j), j # i, j # d PROVE Loose(j)'
      BY <1>7, <1>8 DEF Loose
    <3>2. /\ Empty(j)
          /\ Unused(j) \/ \E q \in Proc : ip[q] = j /\ Stage(q) \in {"fill", "unlinked"}
      BY <2>1, <3>1 DEF Loose
    <3>3. Empty(j)'
      BY <1>5, <3>1, <3>2 DEF Empty
    <3>4. Unused(j) => Unused(j)'
      BY <1>2, <1>6, Consts DEF Unused, Uses, Mine
    <3>5. \A q \in Proc : ip[q] = j /\ Stage(q) \in {"fill", "unlinked"} =>
                            Stage(q)' \in {"fill", "unlinked"}
      BY <1>1, <3>1, StagesKept
    <3>6. QED
      BY <1>2, <3>2, <3>3, <3>4, <3>5 DEF Loose
  <2>4. QED
    BY <2>2, <2>3
<1>12. ASSUME NEW q \in Proc PROVE Fresh(q)'
  <2>1. CASE q = p
    BY <1>6, <2>1 DEF Fresh
  <2>2. CASE q # p
    <3>1. PICK j, e : j = ip[q] /\ e = dp[q]
      OBVIOUS
    <3>2. SUFFICES ASSUME Stage(q) = "fill" PROVE Fresh(q)'
      BY <1>2, <2>2, FreshKept
    <3>3. j \in Inum /\ e \in Inum /\ Fresh(q)
      BY <1>2, <3>1, <3>2, Consts DEF IInv, TreeInv, Shape, HasIp, HasDp, TypeInv
    <3>4. e # d
      BY <1>2, <1>3, <1>4, <2>2, <3>1, <3>2, <3>3, Consts DEF Locks, Owner
    <3>5. e # i /\ j # i
      BY <1>1, <1>2, <1>3, <2>2, <3>1 DEF Fresh
    <3>6. j # d /\ at[p] # j /\ ip[p] # j /\ cwd[p] # j /\ j # 0
      BY <1>1, <2>2, <3>1, <3>2, <3>3, Consts DEF Fresh
    <3>7. ent'[j] = ent[j] /\ ent'[e] = ent[e] /\ disk'[j] = disk[j]
      BY <1>5, <3>3, <3>4, <3>5, <3>6
    <3>8. QED
      BY <1>2, <1>6, <2>2, <3>1, <3>6, <3>7, FreshKept
  <2>3. QED
    BY <2>1, <2>2
<1>13. ASSUME NEW q \in Proc PROVE InUse(q)'
  <2>1. PICK j, r : j = at[q] /\ r = ip[q]
    OBVIOUS
  <2>2. InUse(q) /\ j \in Inum \cup {0} /\ r \in Inum \cup {0}
    BY <1>2, <2>1 DEF TreeInv, TypeInv
  <2>3. (j # 0 => Kept(j)') /\ (r # 0 => Kept(r)')
    BY <1>8, <2>1, <2>2 DEF InUse, Kept
  <2>4. QED
    BY <1>2, <2>1, <2>3 DEF InUse, Kept, Freed
<1>14. QED
  BY <1>9, <1>10, <1>11, <1>12, <1>13 DEF TreeInv

-----------------------------------------------------------------------------
LEMMA InitTree == Init => TreeInv
<1> SUFFICES ASSUME Init PROVE TreeInv
  OBVIOUS
<1>1. /\ ROOTINO \in Inum /\ 0 \notin Inum /\ Name \subseteq Entry /\ "." \notin Name /\ ".." \notin Name
      /\ "." \in Entry /\ ".." \in Entry
  BY Consts DEF Entry
<1>2. PICK root, free : root = [type |-> "dir", nlink |-> 1, addr |-> 1] /\ free = FreeInode
  OBVIOUS
<1>3. root.type = "dir" /\ root.nlink = 1 /\ free.type = "none" /\ free.nlink = 0
  BY <1>2 DEF FreeInode
<1>4. /\ disk = [i \in Inum |-> IF i = ROOTINO THEN root ELSE free]
      /\ ent = [i \in Inum |-> [n \in Entry |-> IF i = ROOTINO /\ n \notin Name THEN i ELSE 0]]
      /\ file = [f \in File |-> 0] /\ cwd = [p \in Proc |-> ROOTINO]
      /\ pc = [p \in Proc |-> "out"]
      /\ at = [p \in Proc |-> 0] /\ dp = [p \in Proc |-> 0] /\ ip = [p \in Proc |-> 0]
  BY <1>2 DEF Init
<1>5. \A p \in Proc : /\ Stage(p) = "out" /\ pc[p] = "out" /\ at[p] = 0 /\ dp[p] = 0 /\ ip[p] = 0
                      /\ cwd[p] = ROOTINO
  BY <1>4 DEF Stage
<1>6. \A i \in Inum, n \in Name : ent[i][n] = 0
  BY <1>1, <1>4
<1>7. ASSUME NEW i \in Inum
      PROVE  /\ disk[i].type = IF i = ROOTINO THEN "dir" ELSE "none"
             /\ disk[i].nlink = IF i = ROOTINO THEN 1 ELSE 0
             /\ ~Freed(i)
  BY <1>3, <1>4, <1>5 DEF Freed
<1>8. LinksMatch
  <2>1. SUFFICES ASSUME NEW i \in Inum PROVE Counts(i)
    BY LinksCounted
  <2>2. Cardinality({}) = 0
    BY FS_EmptySet
  <2>3. Names(i) = 0
    <3>1. {x \in Inum \X Name : ent[x[1]][x[2]] = i} = {}
      BY <1>1, <1>6
    <3>2. QED
      BY <2>2, <3>1 DEF Names
  <2>4. Subdirs(i) = 0
    <3>1. {n \in Name : ent[i][n] # 0 /\ disk[ent[i][n]].type = "dir"} = {}
      BY <1>6
    <3>2. QED
      BY <2>2, <3>1 DEF Subdirs
  <2>5. Held(Linking, i) = 0 /\ Held(Unlinking, i) = 0
    <3>1. \A q \in Proc : Linking[q] = 0 /\ Unlinking[q] = 0
      BY <1>5 DEF LinkOf, UnlinkOf, Linking, Unlinking
    <3>2. {x \in Proc : Linking[x] = i} = {} /\ {x \in Proc : Unlinking[x] = i} = {}
      BY <1>1, <3>1
    <3>3. QED
      BY <2>2, <3>2 DEF Held, Count
  <2>6. QED
    BY <1>7, <2>3, <2>4, <2>5 DEF Counts, Is
<1>9. Rooted /\ Dots
  BY <1>1, <1>4, <1>6, <1>7 DEF Rooted, Dots
<1>10. \A i \in Inum : Zero(i) /\ Loose(i)
  BY <1>7 DEF Zero, Loose, Reached
<1>11. \A p \in Proc : Fresh(p) /\ InUse(p)
  BY <1>5 DEF Fresh, InUse
<1>12. QED
  BY <1>8, <1>9, <1>10, <1>11 DEF TreeInv

LEMMA OpensAllTree ==
  ASSUME IInv, TypeInv', TreeInv, NEW p \in Proc, Open(p) \/ CreateExists(p) \/ CreateMade(p)
  PROVE  TreeInv'
<1>1. CASE Open(p)
  <2>1. pc[p] = "open" /\ OpensOrNot(p) /\ UNCHANGED <<disk, ent, cwd, at, dp>>
    BY <1>1 DEF Open, OpensOrNot, store
  <2>2. QED
    BY <2>1, OpensTree
<1>2. CASE CreateExists(p)
  <2>1. pc[p] = "exists" /\ OpensOrNot(p) /\ UNCHANGED <<disk, ent, cwd, at, dp>>
    BY <1>2 DEF CreateExists, OpensOrNot, store
  <2>2. QED
    BY <2>1, OpensTree
<1>3. CASE CreateMade(p)
  <2>1. pc[p] = "made" /\ OpensOrNot(p) /\ UNCHANGED <<disk, ent, cwd, at, dp>>
    BY <1>3 DEF CreateMade, OpensOrNot, store
  <2>2. QED
    BY <2>1, OpensTree
<1>4. QED
  BY <1>1, <1>2, <1>3

LEMMA StepTree ==
  ASSUME IInv, TreeInv, NEW p \in Proc, Step(p), ~strays'
  PROVE  TreeInv'
<1>1. TypeInv' /\ Mine(p)
  BY StepHolds, OnlyMine DEF IInv
<1>2. CASE \E c \in Calls : Call(p, c)
  BY <1>1, <1>2, CallTree
<1>3. CASE \E f \in File : Close(p, f) \/ Write(p, f)
  BY <1>1, <1>3, CloseTree, WriteTree
<1>4. CASE Namex(p)
  BY <1>1, <1>4, NamexTree
<1>5. CASE IputTest(p) \/ IputFree(p) \/ IputDeref(p)
  BY <1>1, <1>5, IputTestTree, IputFreeTree, IputDerefTree
<1>6. CASE Open(p) \/ CreateExists(p) \/ CreateMade(p)
  BY <1>1, <1>6, OpensAllTree
<1>7. CASE Chdir(p)
  BY <1>1, <1>7, ChdirTree
<1>8. CASE CreateLook(p) \/ CreateFill(p)
  BY <1>1, <1>8, CreateLookTree, CreateFillTree
<1>9. CASE LinkCount(p) \/ LinkEnter(p) \/ LinkUndo(p)
  BY <1>1, <1>9, LinkCountTree, LinkEnterTree, LinkUndoTree
<1>10. CASE LinkDup(p) \/ UnlinkBad(p) \/ LinkDone(p)
  BY <1>1, <1>10, UnlockAllTree, LinkDoneTree
<1>11. CASE UnlinkLook(p) \/ UnlinkErase(p) \/ UnlinkCount(p)
  BY <1>1, <1>11, UnlinkLookTree, UnlinkEraseAllTree, UnlinkCountTree
<1>12. CASE Panic(p)
  BY <1>12, StutterTree DEF Panic, store, files, locals
<1>13. QED
  BY <1>2, <1>3, <1>4, <1>5, <1>6, <1>7, <1>8, <1>9, <1>10, <1>11, <1>12 DEF Step

-----------------------------------------------------------------------------
(* Panics. *)

Full == {"ialloc: no inodes", "balloc: out of blocks"}

LEMMA OnlyFull ==
  ASSUME IInv, TreeInv, NEW p \in Proc
  PROVE  Fatal(p) \in {""} \cup Full
<1>1. TypeInv /\ Shape(p) /\ Valid(p) /\ Fresh(p)
  BY DEF IInv, TreeInv
<1>2. PICK w : w = Wants(p)
  OBVIOUS
<1>3. SUFFICES ASSUME w # 0, pc[p] # "iput" PROVE Fatal(p) \in {""} \cup Full
  BY <1>2 DEF Fatal
<1>4. /\ pc[p] \notin Ends /\ pc[p] # "out"
      /\ w = at[p] \/ w = dp[p] \/ w = ip[p]
      /\ pc[p] \in {"fill", "unlinkip"} => w = ip[p]
  BY <1>2, <1>3 DEF Wants, Ends
<1>5. Stage(p) = pc[p]
  BY <1>1, <1>4, Outside
<1>6. w \in Inum /\ Kept(w)
  <2>1. w \in Inum
    BY <1>1, <1>3, <1>4 DEF TypeInv
  <2>2. QED
    BY <1>4, <2>1, UsesKept DEF Uses
<1>7. Load(w) = disk[w] /\ disk[w].type # "none"
  BY <1>6, CopiedLoad DEF IInv, Kept
<1>8. pc[p] = "fill" => ~HasDots(ip[p])
  BY <1>1, <1>5 DEF Fresh
<1>9. pc[p] = "unlinkip" => Load(ip[p]).nlink >= 1 /\ disk[ip[p]].nlink \in Int
  <2>1. SUFFICES ASSUME pc[p] = "unlinkip" PROVE disk[w].nlink >= 1 /\ disk[w].nlink \in Int
    BY <1>4, <1>7
  <2>2. dp[p] \in Inum /\ Head(path[p]) \in Name /\ ent[dp[p]][Head(path[p])] = w
    BY <1>1, <1>4, <1>5, <2>1 DEF TypeInv, Shape, HasDp, Valid
  <2>3. Reached(w)
    BY <2>2 DEF Reached
  <2>4. disk[w].nlink >= 1
    BY <1>1, <1>6, <2>3, ReachedKept
  <2>5. QED
    BY <1>1, <1>6, <2>4 DEF TypeInv, Inode
<1>10. pc[p] = "unlinkip" => ~(Load(ip[p]).nlink < 1)
  BY <1>4, <1>7, <1>9
<1>11. QED
  BY <1>2, <1>3, <1>7, <1>8, <1>10 DEF Fatal, Full

\* strays is never unset, and a call panics as Fatal says or when a write finds no block.
EndsWell(p) == (strays => strays') /\ panicked' \in {panicked, "balloc: out of blocks", Fatal(p)}

LEMMA SameEnds ==
  ASSUME NEW p, panicked' = panicked, strays' = strays
  PROVE  EndsWell(p)
BY DEF EndsWell

LEMMA StepEnds ==
  ASSUME NEW p \in Proc, Step(p)
  PROVE  EndsWell(p)
<1>1. ASSUME NEW c \in Calls, Call(p, c) PROVE EndsWell(p)
  <2>1. panicked' = panicked /\ strays' = strays
    BY <1>1 DEF Call, ends
  <2>2. QED
    BY <2>1, SameEnds
<1>2. ASSUME NEW f \in File, Close(p, f) PROVE EndsWell(p)
  <2>1. panicked' = panicked /\ strays' = strays
    BY <1>2 DEF Close, ends
  <2>2. QED
    BY <2>1, SameEnds
<1>3. ASSUME NEW f \in File, Write(p, f) PROVE EndsWell(p)
  <2>1. strays' = strays
    BY <1>3 DEF Write
  <2>2. panicked' \in {panicked, "balloc: out of blocks"}
    BY <1>3 DEF Write
  <2>3. QED
    BY <2>1, <2>2 DEF EndsWell
<1>4. CASE Namex(p)
  <2>1. panicked' = panicked /\ strays' = strays
    BY <1>4 DEF Namex, ends
  <2>2. QED
    BY <2>1, SameEnds
<1>5. CASE IputTest(p)
  <2>1. panicked' = panicked /\ strays' = strays
    BY <1>5 DEF IputTest, ends
  <2>2. QED
    BY <2>1, SameEnds
<1>6. CASE IputFree(p)
  <2>1. panicked' = panicked /\ strays' = strays
    BY <1>6 DEF IputFree, ends
  <2>2. QED
    BY <2>1, SameEnds
<1>7. CASE IputDeref(p)
  <2>1. panicked' = panicked /\ strays' = strays
    BY <1>7 DEF IputDeref, ends
  <2>2. QED
    BY <2>1, SameEnds
<1>8. CASE Open(p)
  <2>1. panicked' = panicked /\ strays' = strays
    BY <1>8 DEF Open, ends
  <2>2. QED
    BY <2>1, SameEnds
<1>9. CASE Chdir(p)
  <2>1. panicked' = panicked /\ strays' = strays
    BY <1>9 DEF Chdir, ends
  <2>2. QED
    BY <2>1, SameEnds
<1>10. CASE CreateLook(p)
  <2>1. panicked' = panicked /\ strays' = strays
    BY <1>10 DEF CreateLook, ends
  <2>2. QED
    BY <2>1, SameEnds
<1>11. CASE CreateExists(p)
  <2>1. panicked' = panicked /\ strays' = strays
    BY <1>11 DEF CreateExists, ends
  <2>2. QED
    BY <2>1, SameEnds
<1>12. CASE CreateFill(p)
  <2>1. panicked' = panicked /\ strays' = strays
    BY <1>12 DEF CreateFill, ends
  <2>2. QED
    BY <2>1, SameEnds
<1>13. CASE CreateMade(p)
  <2>1. panicked' = panicked /\ strays' = strays
    BY <1>13 DEF CreateMade, ends
  <2>2. QED
    BY <2>1, SameEnds
<1>14. CASE LinkCount(p)
  <2>1. panicked' = panicked /\ strays' = strays
    BY <1>14 DEF LinkCount, ends
  <2>2. QED
    BY <2>1, SameEnds
<1>15. CASE LinkEnter(p)
  <2>1. panicked' = panicked /\ strays' = strays
    BY <1>15 DEF LinkEnter, ends
  <2>2. QED
    BY <2>1, SameEnds
<1>16. CASE LinkDup(p)
  <2>1. panicked' = panicked /\ strays' = strays
    BY <1>16 DEF LinkDup, ends
  <2>2. QED
    BY <2>1, SameEnds
<1>17. CASE LinkDone(p)
  <2>1. panicked' = panicked /\ strays' = strays
    BY <1>17 DEF LinkDone, ends
  <2>2. QED
    BY <2>1, SameEnds
<1>18. CASE LinkUndo(p)
  <2>1. panicked' = panicked /\ strays' = strays
    BY <1>18 DEF LinkUndo, ends
  <2>2. QED
    BY <2>1, SameEnds
<1>19. CASE UnlinkLook(p)
  <2>1. panicked' = panicked /\ strays' = strays
    BY <1>19 DEF UnlinkLook, ends
  <2>2. QED
    BY <2>1, SameEnds
<1>20. CASE UnlinkErase(p)
  <2>1. panicked' = panicked /\ strays' = strays
    BY <1>20 DEF UnlinkErase, ends
  <2>2. QED
    BY <2>1, SameEnds
<1>21. CASE UnlinkBad(p)
  <2>1. panicked' = panicked /\ strays' = strays
    BY <1>21 DEF UnlinkBad, ends
  <2>2. QED
    BY <2>1, SameEnds
<1>22. CASE UnlinkCount(p)
  BY <1>22 DEF UnlinkCount, EndsWell
<1>23. CASE Panic(p)
  BY <1>23 DEF Panic, EndsWell
<1>24. QED
  BY <1>1, <1>2, <1>3, <1>4, <1>5, <1>6, <1>7, <1>8, <1>9, <1>10, <1>11, <1>12, <1>13, <1>14, <1>15, <1>16, <1>17, <1>18, <1>19, <1>20, <1>21, <1>22, <1>23 DEF Step

-----------------------------------------------------------------------------
Whole == strays \/ (TreeInv /\ panicked \in {""} \cup Full)

\* As long as no directory in use is removed, links are counted, "." and ".." of a named
\* directory are right, one without a name is empty, what is in hand is allocated, and a
\* call panics for want of inodes or blocks only.
THEOREM FilesTree == Spec => [](IInv /\ Whole)
<1>1. Init => IInv /\ Whole
  BY InitHolds, InitTree DEF Init, Whole
<1>2. IInv /\ Whole /\ [Next]_vars => (IInv /\ Whole)'
  <2> SUFFICES ASSUME IInv, Whole, [Next]_vars PROVE IInv' /\ Whole'
    OBVIOUS
  <2>1. CASE Next
    <3>1. PICK p \in Proc : Step(p) /\ panicked = ""
      BY <2>1 DEF Next
    <3>2. IInv' /\ (strays => strays') /\ panicked' \in {panicked, "balloc: out of blocks", Fatal(p)}
      BY <3>1, StepHolds, StepEnds DEF EndsWell
    <3>3. CASE strays'
      BY <3>2, <3>3 DEF Whole
    <3>4. CASE ~strays'
      <4>1. TreeInv
        BY <3>2, <3>4 DEF Whole
      <4>2. TreeInv'
        BY <3>1, <3>4, <4>1, StepTree
      <4>3. Fatal(p) \in {""} \cup Full
        BY <4>1, OnlyFull
      <4>4. panicked' \in {""} \cup Full
        BY <3>1, <3>2, <4>3 DEF Full
      <4>5. QED
        BY <3>2, <4>2, <4>4 DEF Whole
    <3>5. QED
      BY <3>3, <3>4
  <2>2. CASE UNCHANGED vars
    <3>1. IInv' /\ UNCHANGED <<strays, panicked>>
      BY <2>2, StutterStep DEF vars, ends
    <3>2. TreeInv => TreeInv'
      BY <2>2, StutterTree DEF vars, store, files, locals
    <3>3. QED
      BY <3>1, <3>2 DEF Whole
  <2>3. QED
    BY <2>1, <2>2
<1>3. QED
  BY <1>1, <1>2, PTL DEF Spec

\* A directory has as many links as names, subdirectories and calls that work on them;
\* nothing in use is free; and only a full disk stops the kernel.  All of it, but for the
\* counts, until a directory in use is removed.
THEOREM FilesCorrect == Spec => []FilesInv
<1>1. ASSUME IInv, TreeInv PROVE InUseAllocated
  <2>1. TypeInv /\ FilesOpen /\ \A p \in Proc : Valid(p)
    BY <1>1 DEF IInv
  <2>2. \A d \in Inum, n \in Name : ent[d][n] # 0 => disk[ent[d][n]].type # "none"
    <3>1. SUFFICES ASSUME NEW d \in Inum, NEW n \in Name, NEW i, i = ent[d][n], i # 0
                   PROVE  disk[i].type # "none"
      OBVIOUS
    <3>2. i \in Inum /\ Reached(i)
      BY <2>1, <3>1, Consts DEF TypeInv, Reached
    <3>3. QED
      BY <1>1, <2>1, <3>2, ReachedKept DEF Kept
  <2>3. \A f \in File : file[f] # 0 => disk[file[f]].type # "none"
    BY <2>1 DEF FilesOpen, Kept
  <2>4. ASSUME NEW p \in Proc
        PROVE  /\ disk[cwd[p]].type = "dir"
               /\ \A i \in {at[p], dp[p], ip[p]} \ {0} : disk[i].type # "none"
    <3>1. disk[cwd[p]].type = "dir"
      BY <2>1 DEF Valid, KeptDir
    <3>2. ASSUME NEW i \in {at[p], dp[p], ip[p]} \ {0} PROVE disk[i].type # "none"
      <4>1. i \in Inum /\ Uses(p, i)
        BY <2>1 DEF TypeInv, Uses
      <4>2. QED
        BY <1>1, <4>1, UsesKept DEF Kept
    <3>3. QED
      BY <3>1, <3>2
  <2>5. QED
    BY <2>2, <2>3, <2>4 DEF InUseAllocated
<1>2. ASSUME IInv, Whole, TypeOK, RefsCounted, BlocksOwned, UnusedAreFree PROVE FilesInv
  <2>1. CASE strays
    BY <1>2, <2>1 DEF FilesInv
  <2>2. CASE ~strays
    <3>1. TreeInv /\ panicked \in {"", "ialloc: no inodes", "balloc: out of blocks"}
      BY <1>2, <2>2 DEF Whole, Full
    <3>2. LinksMatch /\ InUseAllocated
      BY <1>1, <1>2, <3>1 DEF TreeInv
    <3>3. QED
      BY <1>2, <3>1, <3>2 DEF FilesInv
  <2>3. QED
    BY <2>1, <2>2
<1>3. IInv /\ Whole /\ TypeOK /\ RefsCounted /\ BlocksOwned /\ UnusedAreFree => FilesInv
  BY <1>2
<1>4. QED
  BY <1>3, FilesTree, FilesCounted, PTL

=============================================================================
