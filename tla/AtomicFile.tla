----------------------------- MODULE AtomicFile -----------------------------
(***************************************************************************)
(* atomic_io.py as several processes use it for one file: each opens the   *)
(* same "<name>.tmp", writes it and renames it over the file. Nothing      *)
(* keeps two writers apart, so a writer's handle may follow its temporary  *)
(* file to wherever the other writer renamed it. The writers are           *)
(* discord_status.py processes: load, post to Discord, save.               *)
(***************************************************************************)
EXTENDS Integers

CONSTANT Writers

VARIABLES
    target,   \* what readers find in the file
    tmp,      \* what the temporary file holds, or "none"
    place,    \* where each writer is
    handle    \* which file each writer's open handle leads to

fileVars == <<target, tmp, place, handle>>

\* "mixed": the end of a longer text behind a shorter one.
Texts  == {"whole", "empty", "mixed"}
Places == {"idle", "loaded", "open", "written"}

FileTypeOK ==
    /\ target \in Texts
    /\ tmp \in Texts \cup {"none"}
    /\ place \in [Writers -> Places]
    /\ handle \in [Writers -> {"none", "tmp", "target", "gone"}]

FileInit ==
    /\ target = "whole"
    /\ tmp = "none"
    /\ place = [w \in Writers |-> "idle"]
    /\ handle = [w \in Writers |-> "none"]

\* discord_status.main: _load parses the file; one that is not whole JSON
\* ends the process with an error before it does anything.
Load(w) ==
    /\ place[w] = "idle" /\ target = "whole"
    /\ place' = [place EXCEPT ![w] = "loaded"]
    /\ UNCHANGED <<target, tmp, handle>>

\* Mutant of Open: the file itself is opened
OpenInPlace(w) ==
    /\ place[w] = "loaded"
    /\ target' = "empty"
    /\ place' = [place EXCEPT ![w] = "open"]
    /\ handle' = [handle EXCEPT ![w] = "target"]
    /\ UNCHANGED tmp

\* tmp_path.open("wb"), after the post to Discord: creates the temporary
\* file, or truncates the one another writer is using.
Open(w) ==
    /\ place[w] = "loaded"
    /\ tmp' = "empty"
    /\ place' = [place EXCEPT ![w] = "open"]
    /\ handle' = [handle EXCEPT ![w] = "tmp"]
    /\ UNCHANGED target

\* What a file holds after one more whole text was written over it from its start.
Over(text) == IF text = "empty" THEN {"whole"} ELSE {"whole", "mixed"}

\* handle.write, flush, fsync
Fill(w) ==
    /\ place[w] = "open"
    /\ \/ handle[w] = "tmp" /\ tmp' \in Over(tmp) /\ UNCHANGED target
       \/ handle[w] = "target" /\ target' \in Over(target) /\ UNCHANGED tmp
       \/ handle[w] = "gone" /\ UNCHANGED <<target, tmp>>
    /\ place' = [place EXCEPT ![w] = "written"]
    /\ UNCHANGED handle

\* Where an open handle leads after a rename of the temporary file over the file.
Moved == [none |-> "none", tmp |-> "target", target |-> "gone", gone |-> "gone"]

\* os.replace(tmp_path, path). The other writer's handle goes with the file.
Swap(w) ==
    /\ place[w] = "written" /\ tmp # "none"
    /\ target' = tmp
    /\ tmp' = "none"
    /\ handle' = [[v \in Writers |-> Moved[handle[v]]] EXCEPT ![w] = "none"]
    /\ place' = [place EXCEPT ![w] = "idle"]

\* The writer ends without saving: the post failed before the save, or
\* os.replace found no temporary file.
Fail(w) ==
    /\ \/ place[w] = "loaded"
       \/ place[w] = "written" /\ tmp = "none"
    /\ place' = [place EXCEPT ![w] = "idle"]
    /\ handle' = [handle EXCEPT ![w] = "none"]
    /\ UNCHANGED <<target, tmp>>

\* The writers in gone are killed where they are.
Drop(gone) ==
    /\ place' = [w \in Writers |-> IF w \in gone THEN "idle" ELSE place[w]]
    /\ handle' = [w \in Writers |-> IF w \in gone THEN "none" ELSE handle[w]]
    /\ UNCHANGED <<target, tmp>>

\* Two writers have the temporary file open, or have written it and not renamed it.
Sharing(p) ==
    \E v, w \in Writers : v # w /\ {p[v], p[w]} \subseteq {"open", "written"}

WriterStep(w) == Open(w) \/ Fill(w) \/ Swap(w) \/ Fail(w)
=============================================================================
