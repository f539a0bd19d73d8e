------------------------------ MODULE SavedFile ------------------------------
(***************************************************************************)
(* What the callers of atomicWriteFile may rely on: the canonical state    *)
(* file (pins.json, autopin.json) seen as one register.                    *)
(*                                                                         *)
(* A save that overlaps no other save of the same file either replaces the *)
(* whole content (Commit) or leaves it alone (Fail), and a kill in the     *)
(* middle leaves it alone.  All saves of one file share one temporary name *)
(* (path + ".tmp") without a lock of their own, so saves that do overlap   *)
(* promise little: while one of them is running the content may become a   *)
(* damaged one or any document being saved at that moment.  StateFile shows*)
(* that the system calls implement this.                                   *)
(***************************************************************************)
CONSTANTS Writers,   \* goroutines that call atomicWriteFile on this path
          Payloads,  \* the complete documents they may write
          Absent,    \* no file at the canonical path
          Damaged    \* a file that is not one complete document

VARIABLES file,      \* what a reader of the canonical path finds
          doc,       \* the document each writer was last given
          saving,    \* the writers inside atomicWriteFile
          mixed      \* those whose call overlapped another one

fileVars == <<file, doc, saving, mixed>>

Contents == Payloads \cup {Absent, Damaged}

FileTypeOK == /\ file \in Contents
              /\ doc \in [Writers -> Payloads]
              /\ saving \subseteq Writers
              /\ mixed \subseteq saving

FileInit == /\ file \in Payloads \cup {Absent}
            /\ doc \in [Writers -> Payloads]
            /\ saving = {}
            /\ mixed = {}

Open(w, p) ==
    /\ w \notin saving
    /\ doc' = [doc EXCEPT ![w] = p]
    /\ saving' = saving \cup {w}
    /\ mixed' = IF saving = {} THEN mixed ELSE saving \cup {w}
    /\ UNCHANGED file

Leave(w) == /\ w \in saving
            /\ saving' = saving \ {w}
            /\ mixed' = mixed \ {w}
            /\ UNCHANGED doc

\* What overlapping saves may leave at the canonical path.
Jumble == {doc[w] : w \in saving} \cup {file, Damaged}

Commit(w) ==
    /\ Leave(w)
    /\ \/ w \notin mixed /\ file' = doc[w]
       \/ w \in mixed /\ file' \in Jumble

Fail(w) == Leave(w) /\ UNCHANGED file

Scramble ==
    /\ mixed # {}
    /\ file' \in Jumble
    /\ UNCHANGED <<doc, saving, mixed>>

Kill ==
    /\ saving' = {}
    /\ mixed' = {}
    /\ doc' \in [Writers -> Payloads]
    /\ UNCHANGED file

FileNext == \/ \E w \in Writers : \/ \E p \in Payloads : Open(w, p)
                                  \/ Commit(w)
                                  \/ Fail(w)
            \/ Scramble
            \/ Kill

FileSpec == FileInit /\ [][FileNext]_fileVars
=============================================================================
