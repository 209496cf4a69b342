----------------------------- MODULE FileServer -----------------------------
(***************************************************************************)
(* static_file.rs: how a request finds its PHP script or its static file,  *)
(* in a document root that changes while it looks.                         *)
(*                                                                         *)
(* A path is a sequence of names below the document root, a name the       *)
(* sequence of its parts between the dots.  A file has a version of its    *)
(* own, a size and the time at which it was written, by a clock that is    *)
(* not set back.                                                           *)
(***************************************************************************)
EXTENDS Integers, Sequences

CONSTANTS
    Requests,        \* the paths that clients ask for
    Root,            \* the name of the document root itself
    Php,             \* the extension of scripts
    Static,          \* the extensions of static files
    Index,           \* the name of index.php
    FileSizes,       \* the sizes of files
    Ticks,           \* how often the clock of files ticks in a second
    MaxChanges       \* changes of the document root

VARIABLES
    path,            \* what is asked for
    step,            \* what is done next
    files,           \* what there is of each file
    found,           \* the file that is included or sent
    body, etag,      \* what is sent, and its ETag
    changes,         \* how often the document root has changed
    clock,
    always           \* the files that there have been since the request began

vars == <<path, step, files, found, body, etag, changes, clock, always>>

Last(s) == s[Len(s)]
Front(s) == SubSeq(s, 1, Len(s) - 1)
Renamed(p, name) == Append(Front(p), name)

\* What begins with its only dot has no extension.
HasExtension(name) == Len(name) > 1 /\ ~(Len(name) = 2 /\ name[1] = "")
Extension(name) == IF HasExtension(name) THEN {Last(name)} ELSE {}

\* with_extension replaces an extension, if there is one.
WithPhp(p) == Renamed(p, (IF HasExtension(Last(p)) THEN Front(Last(p)) ELSE Last(p)) \o <<Php>>)

\* The name with the extension added.
AddedPhp(p) == Renamed(p, Append(Last(p), Php))

IndexOf(p) == Append(p, Index)

Full(request) == <<Root>> \o request

IsStatic(p) == Extension(Last(p)) \cap Static # {}

\* The files that matter to a request.
FilesFor(p) == IF IsStatic(p) THEN {p} ELSE {p, WithPhp(p), AddedPhp(p), IndexOf(p)}
Files == DOMAIN files

File(version, size, time) == [version |-> version, size |-> size, time |-> time]
NoFile == File(0, 0, 0)

Exists(p) == files[p] # NoFile
Present(there) == {p \in DOMAIN there : there[p] # NoFile}

\* The length and the second of the last write make the ETag of a file.
Tag(f) == [size |-> f.size, second |-> f.time \div Ticks]
NoTag == Tag(NoFile)

Init ==
    /\ \E r \in Requests : path = Full(r)
    /\ step = "begin"
    /\ clock = 0
    /\ files \in [FilesFor(path) -> {NoFile} \cup {File(1, size, 0) : size \in FileSizes}]
    /\ found = <<>>
    /\ body = NoFile /\ etag = NoTag
    /\ changes = 0
    /\ always = Present(files)

\* A file is written, replaced or removed, at once or some ticks later.
Change ==
    /\ step \notin {"done", "panicked"}
    /\ changes < MaxChanges
    /\ \E p \in Files, size \in FileSizes, later \in 0..Ticks :
         /\ clock' = clock + later
         /\ files' \in {[files EXCEPT ![p] = NoFile],
                        [files EXCEPT ![p] = File(changes + 2, size, clock')]}
    /\ changes' = changes + 1
    /\ always' = always \cap Present(files')
    /\ UNCHANGED <<path, step, found, body, etag>>

-----------------------------------------------------------------------------
disk == <<files, changes, clock, always>>

\* is_static_file
Begin ==
    /\ step = "begin"
    /\ step' = IF IsStatic(path) THEN "check" ELSE "exact"
    /\ UNCHANGED <<path, found, body, etag, disk>>

\* One case of find_php_file.
Try(case, p, next) ==
    /\ step = case
    /\ IF Exists(p) THEN found' = p /\ step' = "done"
                    ELSE UNCHANGED found /\ step' = next
    /\ UNCHANGED <<path, body, etag, disk>>

\* The last case looks for the same file as the second one.
FindPhpFile ==
    \/ Try("exact", path, "php")
    \/ Try("php", WithPhp(path), "index")
    \/ Try("index", IndexOf(path), "again")
    \/ Try("again", WithPhp(path), "done")

Check ==
    /\ step = "check"
    /\ step' = IF Exists(path) THEN "read" ELSE "done"
    /\ UNCHANGED <<path, found, body, etag, disk>>

Read ==
    /\ step = "read"
    /\ IF Exists(path) THEN body' = files[path] /\ step' = "stat"
                       ELSE UNCHANGED body /\ step' = "done"
    /\ UNCHANGED <<path, found, etag, disk>>

\* Mutant: the time of the last write is left at its default.
StatEpoch ==
    /\ step = "stat"
    /\ IF Exists(path) THEN etag' = [Tag(files[path]) EXCEPT !.second = 0] /\ step' = "done"
                       ELSE UNCHANGED etag /\ step' = "panicked"
    /\ UNCHANGED <<path, found, body, disk>>

\* The ETag comes from the file's metadata, which is unwrapped.
Stat ==
    /\ step = "stat"
    /\ IF Exists(path) THEN etag' = Tag(files[path]) /\ step' = "done"
                       ELSE UNCHANGED etag /\ step' = "panicked"
    /\ UNCHANGED <<path, found, body, disk>>

\* serve_static_file
ServeStaticFile == Check \/ Read \/ Stat

Next == Change \/ Begin \/ FindPhpFile \/ ServeStaticFile

Spec == Init /\ [][Next]_vars

-----------------------------------------------------------------------------
Candidates == <<path, WithPhp(path), IndexOf(path)>>

\* find_php_file: a script that there is all the time is found, unless one that
\* comes before it is: whatever is deployed meanwhile.
RightFileIsFound ==
    step = "done" /\ ~IsStatic(path) =>
      \A i \in 1..3 : Candidates[i] \in always => \E j \in 1..i : found = Candidates[j]

\* serve_static_file: a file that is there all the time is sent, replaced
\* meanwhile or not; its ETag does not say that it was written before what is
\* sent, and is that of what is sent unless this is no longer in place.
StableFileIsSent ==
    step \in {"done", "panicked"} /\ IsStatic(path) /\ path \in always =>
      /\ step = "done" /\ body # NoFile
      /\ etag.second >= Tag(body).second
      /\ files[path] = body => etag = Tag(body)

\* "let metadata = fs::metadata(path).await.unwrap();": a file that has been
\* read still has metadata.
MetadataIsThere == step # "panicked"

\* The comment "Case 2: Try adding .php extension (e.g., /users -> /users.php)".
PhpIsAdded ==
    step = "done" /\ ~IsStatic(path) /\ AddedPhp(path) \in always => found # <<>>

\* The comment "Calculate ETag and Last-Modified from file metadata": those of
\* the file that is sent.
TagIsOfBody == step = "done" /\ body # NoFile => etag = Tag(body)
=============================================================================
