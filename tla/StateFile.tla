------------------------------ MODULE StateFile ------------------------------
(***************************************************************************)
(* atomicWriteFile (src/atomicfile.go) at the level of its system calls.   *)
(* A file's content is a sequence of cells, each labelled with the document*)
(* it belongs to; a document p is Size[p] cells long.  Descriptors denote  *)
(* inodes, so a descriptor opened on the temporary name keeps pointing to  *)
(* the same file after a rename has moved it to the canonical path.        *)
(*                                                                         *)
(* Serialized is TRUE for a caller that holds a mutex around the whole     *)
(* call (AutoPinManager.saveLocked) and FALSE for one that does not        *)
(* (EmbeddedNode.savePins).                                                *)
(***************************************************************************)
EXTENDS Naturals, Sequences

CONSTANTS Writers, Payloads,
          Size,          \* length of each document, in cells
          Inodes, NoInode,
          Absent, Damaged,
          Serialized,    \* does the caller hold a lock around the call?
          PowerFails     \* may the machine lose power (not just the process die)?

ASSUME SizeAssumption == Size \in [Payloads -> Nat \ {0}]
ASSUME NamesAssumption == /\ NoInode \notin Inodes
                          /\ Absent \notin Payloads
                          /\ Damaged \notin Payloads
                          /\ Absent # Damaged
ASSUME SwitchAssumption == Serialized \in BOOLEAN /\ PowerFails \in BOOLEAN

VARIABLES data,      \* content of every inode
          durable,   \* inodes whose content has reached the disk
          tmp,       \* directory entry path + ".tmp"
          path,      \* directory entry path
          stage,     \* where each writer is in atomicWriteFile
          fd,        \* its descriptor
          doc,       \* the document it was given
          failed,    \* has a step of its call failed?
          mixed      \* history: writers whose call overlapped another one

vars == <<data, durable, tmp, path, stage, fd, doc, failed, mixed>>

Stages == {"idle", "opened", "written", "synced", "closed", "cleanup"}

Active == {w \in Writers : stage[w] # "idle"}

Whole(p) == [i \in 1..Size[p] |-> p]

\* The first n cells of p written at offset 0 over the content c.
Overlay(c, p, n) ==
    [i \in 1..(IF n > Len(c) THEN n ELSE Len(c)) |-> IF i <= n THEN p ELSE c[i]]

\* The first n cells of c, all of c when it is shorter.
Prefix(c, n) == SubSeq(c, 1, IF n < Len(c) THEN n ELSE Len(c))

Lengths == UNION {0..Size[p] : p \in Payloads}

Free == {i \in Inodes : i # tmp /\ i # path /\ \A w \in Writers : fd[w] # i}

TypeOK == /\ data \in [Inodes -> Seq(Payloads)]
          /\ durable \subseteq Inodes
          /\ tmp \in Inodes \cup {NoInode}
          /\ path \in Inodes \cup {NoInode}
          /\ stage \in [Writers -> Stages]
          /\ fd \in [Writers -> Inodes \cup {NoInode}]
          /\ doc \in [Writers -> Payloads]
          /\ failed \in [Writers -> BOOLEAN]
          /\ mixed \subseteq Active

Init == /\ data = [i \in Inodes |-> <<>>]
        /\ durable = Inodes
        /\ tmp = NoInode
        /\ path = NoInode
        /\ stage = [w \in Writers |-> "idle"]
        /\ fd = [w \in Writers |-> NoInode]
        /\ doc \in [Writers -> Payloads]
        /\ failed = [w \in Writers |-> FALSE]
        /\ mixed = {}

-----------------------------------------------------------------------------
(* The steps of one call *)

\* os.OpenFile(tmpPath, O_WRONLY|O_CREATE|O_TRUNC): an existing temporary
\* file is truncated in place, whoever else has it open.
OpenTmp(w, p) ==
    /\ stage[w] = "idle"
    /\ Serialized => Active = {}
    /\ \E i \in IF tmp = NoInode THEN Free ELSE {tmp} :
          /\ data' = [data EXCEPT ![i] = <<>>]
          /\ durable' = durable \ {i}
          /\ tmp' = i
          /\ fd' = [fd EXCEPT ![w] = i]
    /\ stage' = [stage EXCEPT ![w] = "opened"]
    /\ doc' = [doc EXCEPT ![w] = p]
    /\ failed' = [failed EXCEPT ![w] = FALSE]
    /\ mixed' = IF Active = {} THEN mixed ELSE Active \cup {w}
    /\ UNCHANGED path

\* f.Write(data); a full disk cuts it short and it reports an error.
Write(w) ==
    /\ stage[w] = "opened"
    /\ \E n \in 0..Size[doc[w]] :
          /\ data' = [data EXCEPT ![fd[w]] = Overlay(@, doc[w], n)]
          /\ failed' = [failed EXCEPT ![w] = n < Size[doc[w]]]
    /\ durable' = durable \ {fd[w]}
    /\ stage' = [stage EXCEPT ![w] = "written"]
    /\ UNCHANGED <<tmp, path, fd, doc, mixed>>

\* Fault: the file is not synced before the rename.
SyncSkipped(w) ==
    /\ stage[w] = "written"
    /\ stage' = [stage EXCEPT ![w] = "synced"]
    /\ UNCHANGED <<data, durable, tmp, path, fd, doc, failed, mixed>>

\* f.Sync(), called whether or not the write succeeded.
Sync(w) ==
    /\ stage[w] = "written"
    /\ \/ durable' = durable \cup {fd[w]} /\ UNCHANGED failed
       \/ failed' = [failed EXCEPT ![w] = TRUE] /\ UNCHANGED durable
    /\ stage' = [stage EXCEPT ![w] = "synced"]
    /\ UNCHANGED <<data, tmp, path, fd, doc, mixed>>

\* Fault: only the error of Close is looked at.
CloseUnchecked(w) ==
    /\ stage[w] = "synced"
    /\ stage' = [stage EXCEPT ![w] = "closed"]
    /\ fd' = [fd EXCEPT ![w] = NoInode]
    /\ UNCHANGED <<data, durable, tmp, path, doc, failed, mixed>>

\* f.Close(), then the three error checks.
CloseTmp(w) ==
    /\ stage[w] = "synced"
    /\ \E ok \in BOOLEAN :
          stage' = [stage EXCEPT ![w] = IF ok /\ ~failed[w] THEN "closed"
                                                            ELSE "cleanup"]
    /\ fd' = [fd EXCEPT ![w] = NoInode]
    /\ UNCHANGED <<data, durable, tmp, path, doc, failed, mixed>>

Return(w) == /\ stage' = [stage EXCEPT ![w] = "idle"]
             /\ mixed' = mixed \ {w}

\* os.Rename(tmpPath, path), the last step of a successful call.
Rename(w) ==
    /\ stage[w] = "closed"
    /\ tmp # NoInode
    /\ path' = tmp
    /\ tmp' = NoInode
    /\ Return(w)
    /\ UNCHANGED <<data, durable, fd, doc, failed>>

\* The rename fails, for instance because another writer's rename or
\* os.Remove took the temporary file away.
RenameFails(w) ==
    /\ stage[w] = "closed"
    /\ stage' = [stage EXCEPT ![w] = "cleanup"]
    /\ UNCHANGED <<data, durable, tmp, path, fd, doc, failed, mixed>>

\* os.Remove(tmpPath) on every error path: it removes whatever has the name.
Remove(w) ==
    /\ stage[w] = "cleanup"
    /\ tmp' = NoInode
    /\ Return(w)
    /\ UNCHANGED <<data, durable, path, fd, doc, failed>>

-----------------------------------------------------------------------------
(* The environment *)

\* The process dies: the writers are gone, the page cache survives.
Dies == /\ stage' = [w \in Writers |-> "idle"]
        /\ fd' = [w \in Writers |-> NoInode]
        /\ failed' = [w \in Writers |-> FALSE]
        /\ mixed' = {}
        /\ UNCHANGED <<durable, tmp, path, doc>>

Kill == /\ Dies
        /\ UNCHANGED data

\* The machine loses power: of a file that was not synced since it was last
\* written only a prefix may survive.
PowerLoss == /\ PowerFails
             /\ Dies
             /\ \E cut \in [Inodes \ durable -> Lengths] :
                   data' = [i \in Inodes |-> IF i \in durable THEN data[i]
                                             ELSE Prefix(data[i], cut[i])]

Next == \/ \E w \in Writers : \/ \E p \in Payloads : OpenTmp(w, p)
                              \/ Write(w)
                              \/ Sync(w)
                              \/ CloseTmp(w)
                              \/ Rename(w)
                              \/ RenameFails(w)
                              \/ Remove(w)
        \/ Kill
        \/ PowerLoss

Spec == Init /\ [][Next]_vars

-----------------------------------------------------------------------------
(* Properties *)

\* What a reader of the canonical path finds.
Canonical == IF path = NoInode THEN Absent
             ELSE IF \E p \in Payloads : data[path] = Whole(p)
                  THEN CHOOSE p \in Payloads : data[path] = Whole(p)
                  ELSE Damaged

\* The file at the canonical path is one complete document, at every moment
\* and so also after a kill or a power loss at that moment (atomicWriteFile:
\* "a crash between the open and the rename cannot leave a partial file").
CanonicalWhole == Canonical # Damaged

\* atomicWriteFile implements the register SavedFile.
Register == INSTANCE SavedFile WITH file <- Canonical, saving <- Active
RegisterSpec == Register!FileSpec
=============================================================================
