--------------------------- MODULE StateFileProofs ---------------------------
(***************************************************************************)
(* Proofs about atomicWriteFile, for every number of writers and documents *)
(* of every size: it implements the register SavedFile, and when its caller*)
(* serializes the saves the canonical file is always a complete document.  *)
(***************************************************************************)
EXTENDS StateFile, TLAPS

\* A writer that has overlapped nobody is alone and owns the temporary file.
CleanAlone ==
    \A w \in Active \ mixed :
        /\ Active = {w}
        /\ stage[w] \in {"opened", "written", "synced"} => fd[w] = tmp
        /\ stage[w] = "opened" => data[tmp] = <<>>
        /\ stage[w] \in {"written", "synced", "closed"} /\ ~failed[w]
              => data[tmp] = Whole(doc[w])
        /\ stage[w] \in {"synced", "closed"} /\ ~failed[w] => tmp \in durable
        /\ stage[w] = "closed" => ~failed[w]
        /\ stage[w] # "cleanup" => tmp # NoInode

\* The two names never denote the same file; descriptors are open files.
Names ==
    /\ tmp # NoInode => tmp # path
    /\ \A w \in Writers : fd[w] # NoInode <=> stage[w] \in {"opened", "written", "synced"}

\* While somebody is saving, the temporary file begins with the document of
\* somebody who is saving: its author has not returned yet.
TmpAuthor ==
    (Active # {} /\ tmp # NoInode) =>
        (Len(data[tmp]) > 0 => \E u \in Active : data[tmp][1] = doc[u])

IInv == TypeOK /\ Names /\ CleanAlone /\ TmpAuthor

-----------------------------------------------------------------------------
LEMMA FunctionIsSeq ==
    ASSUME NEW S, NEW n \in Nat, NEW f \in [1..n -> S]
    PROVE  f \in Seq(S) /\ Len(f) = n
  OBVIOUS

\* Writing at offset 0 keeps a content a content; a full write of a document
\* into an empty file makes the file that document; a non-empty write
\* determines the first cell, an empty one changes nothing.
LEMMA OverlayFacts ==
    ASSUME NEW c \in Seq(Payloads), NEW p \in Payloads, NEW n \in 0..Size[p]
    PROVE  /\ Overlay(c, p, n) \in Seq(Payloads)
           /\ c = <<>> /\ n = Size[p] => Overlay(c, p, n) = Whole(p)
           /\ Len(Overlay(c, p, n)) > 0 =>
                 \/ Overlay(c, p, n)[1] = p
                 \/ n = 0 /\ Overlay(c, p, n)[1] = c[1] /\ Len(c) > 0
           /\ n = 0 => Overlay(c, p, n) = c
  <1> DEFINE m == IF n > Len(c) THEN n ELSE Len(c)
             f == [i \in 1..m |-> IF i <= n THEN p ELSE c[i]]
  <1>1. Size[p] \in Nat \ {0}
    BY SizeAssumption
  <1>2. n \in Nat /\ m \in Nat /\ Len(c) \in Nat
    BY <1>1
  <1>3. f \in [1..m -> Payloads]
    BY <1>2
  <1>4. Overlay(c, p, n) = f
    BY DEF Overlay
  <1>5. f \in Seq(Payloads) /\ Len(f) = m
    <2> HIDE DEF m, f
    <2> QED BY <1>2, <1>3, FunctionIsSeq
  <1>6. c = <<>> /\ n = Size[p] => f = Whole(p)
    BY <1>1 DEF Whole
  <1>7. m > 0 => f[1] = IF 1 <= n THEN p ELSE c[1]
    BY <1>2
  <1>8. n = 0 => f = c
    BY <1>2
  <1>9. m > 0 => f[1] = p \/ (n = 0 /\ f[1] = c[1] /\ Len(c) > 0)
    BY <1>2, <1>7
  <1> HIDE DEF m, f
  <1> QED BY <1>4, <1>5, <1>6, <1>8, <1>9

\* A document is not empty and its cells name it.
LEMMA WholeFacts ==
    ASSUME NEW p \in Payloads
    PROVE  /\ Whole(p) \in Seq(Payloads)
           /\ Len(Whole(p)) > 0
           /\ Whole(p)[1] = p
  <1>1. Size[p] \in Nat \ {0}
    BY SizeAssumption
  <1>2. Whole(p) \in [1..Size[p] -> Payloads]
    BY <1>1 DEF Whole
  <1>3. Whole(p) \in Seq(Payloads) /\ Len(Whole(p)) = Size[p]
    BY <1>1, <1>2, FunctionIsSeq
  <1>4. Whole(p)[1] = p
    BY <1>1 DEF Whole
  <1> QED BY <1>1, <1>3, <1>4

\* What the canonical path shows depends on its inode and content only, and a
\* complete document shows as itself.
LEMMA CanonicalFacts ==
    /\ Canonical \in Payloads \cup {Absent, Damaged}
    /\ \A p \in Payloads : path # NoInode /\ data[path] = Whole(p) => Canonical = p
    /\ Canonical # Damaged /\ path # NoInode =>
          Canonical \in Payloads /\ data[path] = Whole(Canonical)
  <1>1. ASSUME NEW p \in Payloads, path # NoInode, data[path] = Whole(p)
        PROVE  Canonical = p
    <2>1. \A q \in Payloads : data[path] = Whole(q) => q = p
      BY <1>1, WholeFacts
    <2> QED BY <1>1, <2>1 DEF Canonical
  <1>2. Canonical \in Payloads \cup {Absent, Damaged}
    BY DEF Canonical
  <1>3. Canonical # Damaged /\ path # NoInode =>
          Canonical \in Payloads /\ data[path] = Whole(Canonical)
    BY DEF Canonical
  <1> QED BY <1>1, <1>2, <1>3

-----------------------------------------------------------------------------
LEMMA InitIInv == Init => IInv
  <1> SUFFICES ASSUME Init PROVE IInv
    OBVIOUS
  <1>1. Active = {}
    BY DEF Init, Active
  <1>2. <<>> \in Seq(Payloads)
    OBVIOUS
  <1>3. TypeOK
    BY <1>1, <1>2 DEF Init, TypeOK, Stages
  <1> QED BY <1>1, <1>3 DEF Init, IInv, Names, CleanAlone, TmpAuthor

LEMMA OpenStep ==
    ASSUME IInv, NEW w \in Writers, NEW p \in Payloads, OpenTmp(w, p)
    PROVE  /\ IInv'
           /\ Active' = Active \cup {w} /\ w \notin Active
           /\ path' = path /\ (path # NoInode => data'[path] = data[path])
  <1>1. PICK i \in IF tmp = NoInode THEN Free ELSE {tmp} :
            /\ data' = [data EXCEPT ![i] = <<>>]
            /\ durable' = durable \ {i}
            /\ tmp' = i
            /\ fd' = [fd EXCEPT ![w] = i]
    BY DEF OpenTmp
  <1>2. i \in Inodes /\ i # path /\ i # NoInode
    BY <1>1, NamesAssumption DEF IInv, TypeOK, Names, Free
  <1>3. Active' = Active \cup {w} /\ w \notin Active
    BY DEF OpenTmp, Active, IInv, TypeOK
  <1>4. <<>> \in Seq(Payloads) /\ Len(<<>>) = 0
    OBVIOUS
  <1>5. mixed' \subseteq Active'
    BY <1>3 DEF OpenTmp, IInv, TypeOK
  <1>6. TypeOK'
    BY <1>1, <1>2, <1>4, <1>5 DEF OpenTmp, IInv, TypeOK, Stages
  <1>7. data'[i] = <<>>
    BY <1>1, <1>2 DEF IInv, TypeOK
  <1>8. Names'
    BY <1>1, <1>2 DEF OpenTmp, IInv, TypeOK, Names, Stages
  <1>9. CleanAlone'
    <2> SUFFICES ASSUME NEW u \in Active' \ mixed'
                 PROVE  /\ Active = {} /\ u = w
      BY <1>1, <1>2, <1>3, <1>7 DEF CleanAlone, OpenTmp, IInv, TypeOK, Stages
    <2> QED BY <1>3 DEF OpenTmp, IInv, TypeOK
  <1>10. TmpAuthor'
    BY <1>1, <1>4, <1>7 DEF TmpAuthor
  <1>11. path' = path /\ (path # NoInode => data'[path] = data[path])
    BY <1>1, <1>2 DEF OpenTmp, IInv, TypeOK
  <1> QED BY <1>3, <1>6, <1>8, <1>9, <1>10, <1>11 DEF IInv

LEMMA WriteStep ==
    ASSUME IInv, NEW w \in Writers, Write(w)
    PROVE  /\ IInv'
           /\ Active' = Active /\ w \in Active
           /\ path' = path
           /\ path # NoInode /\ w \notin mixed => data'[path] = data[path]
           /\ path # NoInode => \/ data'[path] = data[path]
                                \/ data'[path][1] = doc[w]
  <1>1. PICK n \in 0..Size[doc[w]] :
            /\ data' = [data EXCEPT ![fd[w]] = Overlay(data[fd[w]], doc[w], n)]
            /\ failed' = [failed EXCEPT ![w] = n < Size[doc[w]]]
    BY DEF Write
  <1>2. /\ stage[w] = "opened" /\ w \in Active
        /\ fd[w] \in Inodes /\ fd[w] # NoInode /\ doc[w] \in Payloads
        /\ data[fd[w]] \in Seq(Payloads)
    BY NamesAssumption DEF Write, IInv, TypeOK, Names, Active
  <1> DEFINE new == Overlay(data[fd[w]], doc[w], n)
  <1>3. /\ new \in Seq(Payloads)
        /\ data[fd[w]] = <<>> /\ n = Size[doc[w]] => new = Whole(doc[w])
        /\ Len(new) > 0 => \/ new[1] = doc[w]
                           \/ n = 0 /\ new[1] = data[fd[w]][1] /\ Len(data[fd[w]]) > 0
        /\ n = 0 => new = data[fd[w]]
    BY <1>2, OverlayFacts
  <1>4. data'[fd[w]] = new /\ \A i \in Inodes : i # fd[w] => data'[i] = data[i]
    BY <1>1, <1>2 DEF IInv, TypeOK
  <1>5. Active' = Active
    BY <1>2 DEF Write, Active, IInv, TypeOK
  <1>6. Size[doc[w]] \in Nat
    BY <1>2, SizeAssumption
  <1> HIDE DEF new
  <1>7. data' = [data EXCEPT ![fd[w]] = new]
    BY <1>1 DEF new
  <1>8. TypeOK'
    <2>1. data' \in [Inodes -> Seq(Payloads)]
      BY <1>2, <1>3, <1>7 DEF IInv, TypeOK
    <2>2. failed' \in [Writers -> BOOLEAN]
      BY <1>1 DEF IInv, TypeOK
    <2>3. stage' \in [Writers -> Stages]
      BY DEF Write, IInv, TypeOK, Stages
    <2> QED BY <1>5, <2>1, <2>2, <2>3 DEF Write, IInv, TypeOK
  <1>9. Names'
    BY <1>2 DEF Write, IInv, TypeOK, Names, Stages
  <1>10. CleanAlone'
    <2> SUFFICES ASSUME NEW u \in Active \ mixed
                 PROVE  /\ Active = {u}
                        /\ u = w => /\ fd[w] = tmp /\ tmp # NoInode
                                    /\ ~failed'[w] => data'[tmp] = Whole(doc[w])
                        /\ stage'[w] = "written"
      BY <1>2, <1>5 DEF CleanAlone, Write, IInv, TypeOK
    <2>1. Active = {u} /\ u = w
      BY <1>2 DEF IInv, CleanAlone
    <2>2. fd[w] = tmp /\ tmp # NoInode /\ data[tmp] = <<>>
      BY <1>2, <2>1 DEF IInv, CleanAlone
    <2>3. failed'[w] = (n < Size[doc[w]])
      BY <1>1 DEF IInv, TypeOK
    <2>4. ~(n < Size[doc[w]]) => n = Size[doc[w]]
      BY <1>6
    <2>5. stage'[w] = "written"
      BY DEF Write, IInv, TypeOK
    <2> QED BY <1>3, <1>4, <2>1, <2>2, <2>3, <2>4, <2>5
  <1>11. TmpAuthor'
    <2> SUFFICES ASSUME tmp # NoInode, Len(data'[tmp]) > 0
                 PROVE  \E u \in Active : data'[tmp][1] = doc[u]
      BY <1>5 DEF TmpAuthor, Write
    <2>1. CASE fd[w] # tmp
      BY <1>2, <1>4, <2>1 DEF IInv, TypeOK, TmpAuthor
    <2>2. CASE fd[w] = tmp
      BY <1>2, <1>3, <1>4, <2>2 DEF IInv, TmpAuthor
    <2> QED BY <2>1, <2>2
  <1>12. path # NoInode => data'[path] = data[path] \/ data'[path][1] = doc[w]
    <2> SUFFICES ASSUME path # NoInode, fd[w] = path, n # 0
                 PROVE  new[1] = doc[w]
      BY <1>3, <1>4 DEF IInv, TypeOK
    <2>1. 1 \in 1..Len(new)
      BY <1>1, <1>2, <1>6 DEF new, Overlay
    <2> QED BY <1>2, <1>3, <2>1
  <1>13. path # NoInode /\ w \notin mixed => data'[path] = data[path]
    BY <1>2, <1>4 DEF IInv, TypeOK, CleanAlone, Names
  <1> QED BY <1>2, <1>5, <1>8, <1>9, <1>10, <1>11, <1>12, <1>13 DEF IInv, Write

\* The steps that change neither a content nor a name.
LEMMA QuietStep ==
    ASSUME IInv, NEW w \in Writers, Sync(w) \/ CloseTmp(w) \/ RenameFails(w)
    PROVE  IInv' /\ Active' = Active /\ UNCHANGED <<data, tmp, path, doc, mixed>>
  <1>1. UNCHANGED <<data, tmp, path, doc, mixed>>
    BY DEF Sync, CloseTmp, RenameFails
  <1>2. Active' = Active
    BY DEF Sync, CloseTmp, RenameFails, Active, IInv, TypeOK
  <1>3. TypeOK'
    <2>1. CASE Sync(w)
      <3>1. durable' \subseteq Inodes
        BY <2>1, NamesAssumption DEF Sync, IInv, TypeOK, Names
      <3>2. failed' \in [Writers -> BOOLEAN]
        BY <2>1 DEF Sync, IInv, TypeOK
      <3>3. stage' \in [Writers -> Stages] /\ fd' = fd
        BY <2>1 DEF Sync, IInv, TypeOK, Stages
      <3> QED BY <1>1, <1>2, <3>1, <3>2, <3>3 DEF IInv, TypeOK
    <2>2. CASE CloseTmp(w)
      BY <1>1, <1>2, <2>2 DEF CloseTmp, IInv, TypeOK, Stages
    <2>3. CASE RenameFails(w)
      BY <1>1, <1>2, <2>3 DEF RenameFails, IInv, TypeOK, Stages
    <2> QED BY <2>1, <2>2, <2>3
  <1>4. Names'
    BY NamesAssumption DEF Sync, CloseTmp, RenameFails, IInv, TypeOK, Names, Stages
  <1>5. TmpAuthor'
    BY <1>1, <1>2 DEF IInv, TmpAuthor
  <1>6. CleanAlone'
    <2> SUFFICES ASSUME NEW u \in Active \ mixed
                 PROVE  CleanAlone'
      BY <1>1, <1>2 DEF CleanAlone
    <2>1. w \in Active /\ Active = {u} /\ u = w
      BY DEF Sync, CloseTmp, RenameFails, Active, IInv, CleanAlone
    <2>2. CASE Sync(w)
      BY <1>1, <1>2, <2>1, <2>2 DEF Sync, IInv, TypeOK, CleanAlone
    <2>3. CASE CloseTmp(w)
      BY <1>1, <1>2, <2>1, <2>3 DEF CloseTmp, IInv, TypeOK, CleanAlone
    <2>4. CASE RenameFails(w)
      BY <1>1, <1>2, <2>1, <2>4 DEF RenameFails, IInv, TypeOK, CleanAlone
    <2> QED BY <2>2, <2>3, <2>4
  <1> QED BY <1>1, <1>2, <1>3, <1>4, <1>5, <1>6 DEF IInv

\* The two ways to return: in both the temporary name is gone.
LEMMA ReturnStep ==
    ASSUME IInv, NEW w \in Writers, Rename(w) \/ Remove(w)
    PROVE  /\ IInv'
           /\ Active' = Active \ {w} /\ w \in Active
           /\ UNCHANGED <<data, doc>> /\ mixed' = mixed \ {w}
  <1>1. Active' = Active \ {w} /\ w \in Active
    BY DEF Rename, Remove, Return, Active, IInv, TypeOK
  <1>2. UNCHANGED <<data, durable, fd, doc, failed>> /\ mixed' = mixed \ {w} /\ tmp' = NoInode
    BY DEF Rename, Remove, Return
  <1>3. TypeOK'
    BY <1>1, <1>2 DEF Rename, Remove, Return, IInv, TypeOK, Stages
  <1>4. Names'
    BY <1>2 DEF Rename, Remove, Return, IInv, TypeOK, Names, Stages
  <1>5. CleanAlone'
    BY <1>1, <1>2 DEF IInv, CleanAlone
  <1>6. TmpAuthor'
    BY <1>2 DEF TmpAuthor
  <1> QED BY <1>1, <1>2, <1>3, <1>4, <1>5, <1>6 DEF IInv

LEMMA PrefixType ==
    ASSUME NEW c \in Seq(Payloads), NEW n \in Nat
    PROVE  Prefix(c, n) \in Seq(Payloads)
  BY DEF Prefix

LEMMA DeathStep ==
    ASSUME IInv, Kill \/ PowerLoss
    PROVE  IInv' /\ Active' = {} /\ mixed' = {}
  <1>1. Active' = {} /\ mixed' = {}
    BY DEF Kill, PowerLoss, Dies, Active
  <1>2. data' \in [Inodes -> Seq(Payloads)]
    <2>1. CASE Kill
      BY <2>1 DEF Kill, IInv, TypeOK
    <2>2. CASE PowerLoss
      <3>1. PICK cut \in [Inodes \ durable -> Lengths] :
                data' = [i \in Inodes |-> IF i \in durable THEN data[i]
                                          ELSE Prefix(data[i], cut[i])]
        BY <2>2 DEF PowerLoss
      <3>2. \A k \in Lengths : k \in Nat
        BY SizeAssumption DEF Lengths
      <3>3. \A i \in Inodes \ durable : Prefix(data[i], cut[i]) \in Seq(Payloads)
        BY <3>2, PrefixType DEF IInv, TypeOK
      <3> QED BY <3>1, <3>3 DEF IInv, TypeOK
    <2> QED BY <2>1, <2>2
  <1>3. TypeOK'
    BY <1>1, <1>2 DEF Kill, PowerLoss, Dies, IInv, TypeOK, Stages
  <1>4. Names'
    BY DEF Kill, PowerLoss, Dies, IInv, Names
  <1> QED BY <1>1, <1>3, <1>4 DEF IInv, CleanAlone, TmpAuthor

LEMMA StepIInv == IInv /\ [Next]_vars => IInv'
  <1> SUFFICES ASSUME IInv, [Next]_vars PROVE IInv'
    OBVIOUS
  <1>1. ASSUME NEW w \in Writers, NEW p \in Payloads, OpenTmp(w, p) PROVE IInv'
    BY <1>1, OpenStep
  <1>2. ASSUME NEW w \in Writers, Write(w) PROVE IInv'
    BY <1>2, WriteStep
  <1>3. ASSUME NEW w \in Writers, Sync(w) \/ CloseTmp(w) \/ RenameFails(w) PROVE IInv'
    BY <1>3, QuietStep
  <1>4. ASSUME NEW w \in Writers, Rename(w) \/ Remove(w) PROVE IInv'
    BY <1>4, ReturnStep
  <1>5. CASE Kill \/ PowerLoss
    BY <1>5, DeathStep
  <1>6. CASE UNCHANGED vars
    BY <1>6 DEF vars, IInv, TypeOK, Names, CleanAlone, TmpAuthor, Active
  <1> QED BY <1>1, <1>2, <1>3, <1>4, <1>5, <1>6 DEF Next

\* The type invariant of StateFile, with what each writer owns.
THEOREM TypeCorrect == Spec => []TypeOK
  <1>1. IInv => TypeOK
    BY DEF IInv
  <1> QED BY <1>1, InitIInv, StepIInv, PTL DEF Spec

-----------------------------------------------------------------------------
(* atomicWriteFile under a caller's lock *)

\* With serialized saves nobody overlaps, and the file at the canonical path
\* is a complete document that has reached the disk.
PathWhole == path # NoInode => /\ path \in durable
                               /\ \E p \in Payloads : data[path] = Whole(p)
LockedInv == IInv /\ mixed = {} /\ PathWhole

LEMMA StepLocked == Serialized /\ LockedInv /\ [Next]_vars => LockedInv'
  <1> SUFFICES ASSUME Serialized, LockedInv, [Next]_vars PROVE LockedInv'
    OBVIOUS
  <1> USE DEF LockedInv
  <1>1. IInv'
    BY StepIInv
  <1>2. ASSUME NEW w \in Writers, NEW p \in Payloads, OpenTmp(w, p)
        PROVE  LockedInv'
    <2>1. path' = path /\ (path # NoInode => data'[path] = data[path])
      BY <1>2, OpenStep
    <2>2. mixed' = {}
      BY <1>2 DEF OpenTmp
    <2>3. path # NoInode /\ path \in durable => path \in durable'
      BY <1>2 DEF OpenTmp, IInv, Names, Free
    <2> QED BY <1>1, <2>1, <2>2, <2>3 DEF PathWhole
  <1>3. ASSUME NEW w \in Writers, Write(w)
        PROVE  LockedInv'
    <2>1. path' = path /\ (path # NoInode => data'[path] = data[path])
      BY <1>3, WriteStep
    <2>2. fd[w] # path /\ mixed' = {}
      BY <1>3 DEF Write, IInv, CleanAlone, Names, Active
    <2> QED BY <1>1, <1>3, <2>1, <2>2 DEF Write, PathWhole
  <1>4. ASSUME NEW w \in Writers, Sync(w) \/ CloseTmp(w) \/ RenameFails(w)
        PROVE  LockedInv'
    <2>1. durable \subseteq durable'
      BY <1>4 DEF Sync, CloseTmp, RenameFails
    <2> QED BY <1>1, <1>4, <2>1, QuietStep DEF PathWhole
  <1>5. ASSUME NEW w \in Writers, Rename(w) \/ Remove(w)
        PROVE  LockedInv'
    <2>1. UNCHANGED <<data, durable, doc>> /\ mixed' = {} /\ w \in Active
      BY <1>5, ReturnStep DEF Rename, Remove
    <2>2. CASE Rename(w)
      <3>1. path' = tmp /\ tmp # NoInode /\ stage[w] = "closed"
        BY <2>2 DEF Rename
      <3>2. data[tmp] = Whole(doc[w]) /\ tmp \in durable
        BY <2>1, <3>1 DEF IInv, CleanAlone
      <3> QED BY <1>1, <2>1, <3>1, <3>2 DEF PathWhole, IInv, TypeOK
    <2>3. CASE Remove(w)
      BY <1>1, <2>1, <2>3 DEF Remove, PathWhole
    <2> QED BY <1>5, <2>2, <2>3
  <1>6. CASE Kill \/ PowerLoss
    <2>1. mixed' = {}
      BY <1>6, DeathStep
    <2>2. path' = path /\ durable' = durable
      BY <1>6 DEF Kill, PowerLoss, Dies
    <2>3. path \in durable => data'[path] = data[path]
      BY <1>6 DEF Kill, PowerLoss, IInv, TypeOK
    <2> QED BY <1>1, <2>1, <2>2, <2>3 DEF PathWhole
  <1>7. CASE UNCHANGED vars
    BY <1>1, <1>7 DEF vars, PathWhole
  <1> QED BY <1>2, <1>3, <1>4, <1>5, <1>6, <1>7 DEF Next

\* Saves under a lock (saveLocked): at every moment, and so after a kill or a
\* power loss at that moment, autopin.json is a complete document or absent.
THEOREM LockedSavesAtomic == Serialized => (Spec => []CanonicalWhole)
  <1>1. Init => LockedInv
    BY InitIInv DEF Init, LockedInv, PathWhole
  <1>2. LockedInv => CanonicalWhole
    BY CanonicalFacts, NamesAssumption DEF LockedInv, PathWhole, CanonicalWhole, Canonical
  <1>3. Serialized \in BOOLEAN
    BY SwitchAssumption
  <1>4. ASSUME Serialized PROVE LockedInv /\ [Next]_vars => LockedInv'
    BY <1>4, StepLocked
  <1>5. ASSUME Serialized PROVE Spec => []CanonicalWhole
    BY <1>1, <1>2, <1>4, <1>5, PTL DEF Spec
  <1> QED BY <1>5

-----------------------------------------------------------------------------
(* atomicWriteFile implements the register *)

\* A step that leaves the inode at the canonical path and its content alone
\* leaves the register alone.
LEMMA SameFile ==
    ASSUME path' = path, path # NoInode => data'[path] = data[path]
    PROVE  Canonical' = Canonical
  BY DEF Canonical, Whole

\* The register after a step of an overlapping writer: damaged, or the
\* document whose cells it holds.
LEMMA NewFile ==
    ASSUME path' # NoInode
    PROVE  \/ Canonical' = Damaged
           \/ Canonical' \in Payloads /\ Canonical' = data'[path'][1]
                 /\ Len(data'[path']) > 0
  <1>1. CASE \E p \in Payloads : data'[path'] = Whole(p)
    <2>1. Canonical' = CHOOSE p \in Payloads : data'[path'] = Whole(p)
      BY <1>1 DEF Canonical, Whole
    <2>2. Canonical' \in Payloads /\ data'[path'] = Whole(Canonical')
      BY <1>1, <2>1
    <2> QED BY <2>2, WholeFacts
  <1>2. CASE ~ \E p \in Payloads : data'[path'] = Whole(p)
    BY <1>2 DEF Canonical, Whole
  <1> QED BY <1>1, <1>2

LEMMA RegisterInit == Init => Register!FileInit
  BY DEF Init, Register!FileInit, Canonical, Active

LEMMA RegisterStep ==
    ASSUME IInv, PowerFails => LockedInv, [Next]_vars
    PROVE  [Register!FileNext]_(Register!fileVars)
  <1> USE DEF Register!fileVars
  <1>1. ASSUME NEW w \in Writers, NEW p \in Payloads, OpenTmp(w, p)
        PROVE  Register!Open(w, p)
    <2>1. Canonical' = Canonical
      BY <1>1, OpenStep, SameFile
    <2> QED BY <1>1, <2>1, OpenStep DEF Register!Open, OpenTmp
  <1>2. ASSUME NEW w \in Writers, Write(w)
        PROVE  [Register!Scramble]_(Register!fileVars)
    <2>1. Active' = Active /\ UNCHANGED <<doc, mixed>> /\ w \in Active
      BY <1>2, WriteStep DEF Write
    <2>2. CASE Canonical' = Canonical
      BY <2>1, <2>2
    <2>3. CASE Canonical' # Canonical
      <3>1. path' = path /\ path # NoInode /\ w \in mixed /\ data'[path][1] = doc[w]
        BY <1>2, <2>3, WriteStep, SameFile
      <3>2. Canonical' \in {Damaged, doc[w]}
        BY <3>1, NewFile
      <3> QED BY <2>1, <3>1, <3>2 DEF Register!Scramble, Register!Jumble
    <2> QED BY <2>2, <2>3
  <1>3. ASSUME NEW w \in Writers, Sync(w) \/ CloseTmp(w) \/ RenameFails(w)
        PROVE  UNCHANGED Register!fileVars
    BY <1>3, QuietStep, SameFile
  <1>4. ASSUME NEW w \in Writers, Rename(w)
        PROVE  Register!Commit(w)
    <2>1. /\ Active' = Active \ {w} /\ w \in Active /\ mixed' = mixed \ {w}
          /\ UNCHANGED <<data, doc>>
      BY <1>4, ReturnStep
    <2>2. path' = tmp /\ tmp # NoInode /\ stage[w] = "closed"
      BY <1>4 DEF Rename
    <2>3. CASE w \notin mixed
      <3>1. data'[path'] = Whole(doc[w]) /\ doc[w] \in Payloads
        BY <2>1, <2>2, <2>3 DEF IInv, TypeOK, CleanAlone
      <3>2. \E p \in Payloads : data'[path'] = Whole(p)
        BY <3>1
      <3>3. Canonical' \in Payloads /\ data'[path'] = Whole(Canonical')
        BY <2>2, <3>2 DEF Canonical, Whole
      <3>4. Canonical' = doc[w]
        BY <3>1, <3>3, WholeFacts
      <3> QED BY <2>1, <2>3, <3>4 DEF Register!Commit, Register!Leave
    <2>4. CASE w \in mixed
      <3>1. Len(data[tmp]) > 0 => \E u \in Active : data[tmp][1] = doc[u]
        BY <2>1, <2>2 DEF IInv, TmpAuthor
      <3>2. Canonical' = Damaged \/ \E u \in Active : Canonical' = doc[u]
        BY <2>1, <2>2, <3>1, NewFile
      <3> QED BY <2>1, <2>4, <3>2 DEF Register!Commit, Register!Leave, Register!Jumble
    <2> QED BY <2>3, <2>4
  <1>5. ASSUME NEW w \in Writers, Remove(w)
        PROVE  Register!Fail(w)
    <2>1. Canonical' = Canonical
      BY <1>5, ReturnStep, SameFile DEF Remove
    <2> QED BY <1>5, <2>1, ReturnStep DEF Register!Fail, Register!Leave
  <1>6. ASSUME Kill \/ PowerLoss
        PROVE  Register!Kill
    <2>1. path' = path /\ doc' = doc
      BY <1>6 DEF Kill, PowerLoss, Dies
    <2>2. path # NoInode => data'[path] = data[path]
      BY <1>6 DEF Kill, PowerLoss, LockedInv, PathWhole, IInv, TypeOK
    <2>3. doc' \in [Writers -> Payloads]
      BY <2>1 DEF IInv, TypeOK
    <2> QED BY <1>6, <2>1, <2>2, <2>3, DeathStep, SameFile DEF Register!Kill
  <1>7. CASE UNCHANGED vars
    BY <1>7, SameFile DEF vars, Active
  <1> QED BY <1>1, <1>2, <1>3, <1>4, <1>5, <1>6, <1>7 DEF Next, Register!FileNext

\* atomicWriteFile implements the register SavedFile: with any number of
\* callers, serialized or not, when processes may be killed; and also when
\* power may fail, provided the saves are serialized.
THEOREM Refines == (PowerFails => Serialized) => (Spec => RegisterSpec)
  <1>1. Init => LockedInv
    BY InitIInv DEF Init, LockedInv, PathWhole
  <1>2. ASSUME PowerFails => Serialized
        PROVE  (PowerFails => LockedInv) /\ [Next]_vars => (PowerFails => LockedInv)'
    BY <1>2, StepLocked
  <1>3. ASSUME PowerFails => Serialized PROVE Spec => RegisterSpec
    BY <1>1, <1>2, <1>3, InitIInv, StepIInv, RegisterInit, RegisterStep, PTL
       DEF Spec, RegisterSpec, Register!FileSpec
  <1> QED BY <1>3
=============================================================================
