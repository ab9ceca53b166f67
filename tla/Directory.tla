------------------------------ MODULE Directory ------------------------------
(***************************************************************************)
(* A directory on disk, as its readers see it: whether it exists and what  *)
(* each of its files holds.                                                *)
(***************************************************************************)
NoDir == [exists |-> FALSE, files |-> <<>>]
Dir(files) == [exists |-> TRUE, files |-> files]

\* A directory all of whose files hold v, as os.replace() puts it in place.
Complete(names, v) == Dir([f \in names |-> v])

\* One step of shutil.rmtree(): an entry, in any order, and the directory last.
RemoveOne(dir) ==
    IF DOMAIN dir.files = {} THEN {NoDir}
    ELSE {Dir([f \in DOMAIN dir.files \ {g} |-> dir.files[f]]) : g \in DOMAIN dir.files}
=============================================================================
