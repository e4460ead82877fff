----------------------------- MODULE CacheFiles -----------------------------
(***************************************************************************)
(* The cache's directory on disk, over crashes and restarts:               *)
(*   crates/maelstrom-util/src/cache.rs, cache/fs/std.rs.                  *)
(* CacheOps has what the cache knows; here is what its file system has,    *)
(* and that the two agree.                                                 *)
(*                                                                         *)
(* A process holds the directory's lock, opens the cache (Cache::new) and  *)
(* then stores and evicts artifacts.  Each of these is a sequence of file  *)
(* system operations, `todo': one action is one of them.  Any of them may  *)
(* fail, and the process may stop between any two; the next one finds what *)
(* it left.  The lock is given up when the process stops, so there is one  *)
(* process at a time.                                                      *)
(*                                                                         *)
(* How many references an artifact in use has does not matter here.  There *)
(* is one kind of keys, hence one directory under sha256, and perhaps one  *)
(* of a kind that another version of the program had.  What a read of a    *)
(* directory finds comes in any order.                                     *)
(***************************************************************************)
EXTENDS Integers, Sequences, FiniteSets, SequencesExt

CONSTANTS
  Digest,    \* the artifacts
  Dir,       \* those that are directories; others are files or symlinks
  Size,      \* the bytes an artifact takes
  Target,    \* Cache::bytes_used_target
  MayFail,   \* whether an operation that could succeed may fail
  \* Bounds:
  MaxTrash,  \* directories in `removing', or retired
  MaxBytes   \* what is counted when an eviction that could succeed fails

ASSUME FilesAssumption ==
  /\ IsFiniteSet(Digest)
  /\ Dir \subseteq Digest /\ Size \in [Digest -> Nat \ {0}]
  /\ Target \in Nat /\ MayFail \in BOOLEAN /\ MaxTrash \in Nat /\ MaxBytes \in Nat

VARIABLES
  \* The directory:
  tag,       \* CACHEDIR.TAG: "none", "partial" or "full"
  removing,  \* what `removing' is: "none", "dir" or "file"
  trash,     \* the number of entries in it
  retired,   \* the number of `removing.<random>' directories
  dirs,      \* which of "tmp", "sha256" and (in sha256) "kind" and "other" there are
  place,     \* what each artifact's path is: "none", "dir", "file", "symlink"
  sizeFile,  \* its `.size' file: "none", "partial" or "full"
  \* The process:
  phase,     \* "down"; opening: "ensure", "sweep", "make", and if it preserves
             \* the contents "files", "sizes", "shrink"; "up"
  preserve,  \* Cache::new preserves the contents of the directory
  entry,     \* Cache::entries: "absent", "getting", "inUse", "inHeap"
  heap,      \* Cache::heap, in the order of the priorities
  bytes,     \* Cache::bytes_used
  doing,     \* the artifact being stored or evicted, and as what
  todo,      \* the file system operations of the handler that are left
  evicting,  \* possibly_remove_some is in its loop
  threads,   \* the directories in `removing' that a thread is removing
  faulty     \* an operation has failed since this process opened the cache

diskVars == <<tag, removing, trash, retired, dirs, place, sizeFile>>
memVars == <<entry, heap, bytes, doing, evicting>>
vars == <<diskVars, phase, preserve, memVars, todo, threads, faulty>>

Nothing == [kind |-> "nothing"]

\* The bytes of the artifacts in D, one by one, and how many they are.
BytesOf(D) == UNION {{d} \X (1 .. Size[d]) : d \in D}
TotalSize(D) == Cardinality(BytesOf(D))

(***************************************************************************)
(* The file system operations.                                             *)
(***************************************************************************)
Fs(op) == [op |-> op]
FsOn(op, d) == [op |-> op, d |-> d]

\* rmdir_in_background: a rename into `removing', then a thread
InBackground(step) == <<step, Fs("spawn")>>

\* What an operation needs to succeed: create_new, mkdir and symlink need that
\* nothing is there, a rename of a directory, too; a removal that it is there.
Fits(s) ==
  CASE s.op = "createTag" -> tag = "none"
    [] s.op = "mkRemoving" -> removing = "none"
    [] s.op = "mkTmp" -> "tmp" \notin dirs
    [] s.op = "mkSha256" -> "sha256" \notin dirs
    [] s.op = "mkKind" -> "sha256" \in dirs /\ "kind" \notin dirs
    [] s.op = "mkKindIfNone" -> "sha256" \in dirs
    [] s.op = "retire" -> removing = "dir"
    [] s.op = "trashRetired" -> removing = "dir" /\ retired > 0
    [] s.op = "trashTmp" -> removing = "dir" /\ "tmp" \in dirs
    [] s.op = "trashSha256" -> removing = "dir" /\ "sha256" \in dirs
    [] s.op = "trashOther" -> removing = "dir" /\ "other" \in dirs
    [] s.op = "dispose" -> removing = "dir"
    [] s.op = "createSize" -> "kind" \in dirs /\ sizeFile[s.d] = "none"
    [] s.op = "moveIn" -> "kind" \in dirs /\ place[s.d] = "none"
    [] s.op = "putFile" -> "kind" \in dirs /\ place[s.d] # "dir"
    [] s.op = "putSymlink" -> "kind" \in dirs /\ place[s.d] = "none"
    [] s.op = "trashDir" -> removing = "dir" /\ place[s.d] = "dir"
    [] s.op = "removeSize" -> sizeFile[s.d] # "none"
    [] s.op = "remove" -> place[s.d] \in {"file", "symlink"}
    [] OTHER -> TRUE

\* The directory after an operation.
Disk == [tag |-> tag, removing |-> removing, trash |-> trash, retired |-> retired,
         dirs |-> dirs, place |-> place, sizeFile |-> sizeFile]

After(s) ==
  CASE s.op = "createTag" -> [Disk EXCEPT !.tag = "partial"]
    [] s.op = "writeTag" -> [Disk EXCEPT !.tag = "full"]
    [] s.op = "removeTag" -> [Disk EXCEPT !.tag = "none"]
    [] s.op = "mkRemoving" -> [Disk EXCEPT !.removing = "dir"]
    [] s.op = "removeRemoving" -> [Disk EXCEPT !.removing = "none"]
    [] s.op = "mkTmp" -> [Disk EXCEPT !.dirs = @ \cup {"tmp"}]
    [] s.op \in {"mkSha256", "mkSha256IfNone"} -> [Disk EXCEPT !.dirs = @ \cup {"sha256"}]
    [] s.op \in {"mkKind", "mkKindIfNone"} -> [Disk EXCEPT !.dirs = @ \cup {"kind"}]
    [] s.op = "retire" ->
         [Disk EXCEPT !.removing = "none", !.trash = 0, !.retired = @ + 1]
    [] s.op = "trashRetired" -> [Disk EXCEPT !.retired = @ - 1, !.trash = @ + 1]
    [] s.op = "trashTmp" -> [Disk EXCEPT !.dirs = @ \ {"tmp"}, !.trash = @ + 1]
    [] s.op = "trashSha256" ->
         [Disk EXCEPT !.dirs = @ \ {"sha256", "kind", "other"}, !.trash = @ + 1,
                      !.place = [d \in Digest |-> "none"],
                      !.sizeFile = [d \in Digest |-> "none"]]
    [] s.op = "trashOther" -> [Disk EXCEPT !.dirs = @ \ {"other"}, !.trash = @ + 1]
    [] s.op = "dispose" -> [Disk EXCEPT !.trash = @ + 1]
    [] s.op = "removeDisposed" -> [Disk EXCEPT !.trash = @ - 1]
    [] s.op = "createSize" -> [Disk EXCEPT !.sizeFile[s.d] = "partial"]
    [] s.op = "writeSize" -> [Disk EXCEPT !.sizeFile[s.d] = "full"]
    [] s.op = "moveIn" -> [Disk EXCEPT !.place[s.d] = "dir"]
    [] s.op = "putFile" -> [Disk EXCEPT !.place[s.d] = "file"]
    [] s.op = "putSymlink" -> [Disk EXCEPT !.place[s.d] = "symlink"]
    [] s.op = "trashDir" -> [Disk EXCEPT !.place[s.d] = "none", !.trash = @ + 1]
    [] s.op = "removeSize" -> [Disk EXCEPT !.sizeFile[s.d] = "none"]
    [] s.op = "remove" -> [Disk EXCEPT !.place[s.d] = "none"]
    [] OTHER -> Disk

SetDisk(k) ==
  /\ tag' = k.tag /\ removing' = k.removing /\ trash' = k.trash
  /\ retired' = k.retired /\ dirs' = k.dirs /\ place' = k.place
  /\ sizeFile' = k.sizeFile

(***************************************************************************)
(* The sequences of operations of the handlers.                            *)
(***************************************************************************)
\* ensure_removing_directory
EnsureRemoving ==
  CASE removing = "dir" -> <<Fs("retire"), Fs("mkRemoving")>>
    [] removing = "file" -> <<Fs("removeRemoving"), Fs("mkRemoving")>>
    [] removing = "none" -> <<Fs("mkRemoving")>>

\* remove_all_from_directory_except, on the root of the cache: what is still
\* there and has to go, and the operations that remove it.
ToSweep_NotRetired ==
  ((dirs \cap {"tmp", "sha256"}) \cup {e \in {"tag"} : tag # "none"})
  \ (IF preserve THEN {"sha256", "tag"} ELSE {})

ToSweep ==
  ((dirs \cap {"tmp", "sha256"}) \cup {e \in {"tag"} : tag # "none"}
   \cup {e \in {"retired"} : retired > 0})
  \ (IF preserve THEN {"sha256", "tag"} ELSE {})

SweepSteps(e) ==
  CASE e = "retired" -> InBackground(Fs("trashRetired"))
    [] e = "tmp" -> InBackground(Fs("trashTmp"))
    [] e = "sha256" -> InBackground(Fs("trashSha256"))
    [] e = "tag" -> <<Fs("removeTag")>>

\* remove_all_from_directory_except, on sha256
SweepKinds == IF "other" \in dirs THEN InBackground(Fs("trashOther")) ELSE <<>>

\* The rest of new_clear_directory_contents, and of
\* new_preserve_directory_contents up to the reading of the kind's directory.
MakeSteps ==
  IF preserve
  THEN <<Fs("mkTmp"), Fs("mkSha256IfNone")>> \o SweepKinds \o <<Fs("mkKindIfNone")>>
  ELSE <<Fs("createTag"), Fs("writeTag"), Fs("mkTmp"), Fs("mkSha256"), Fs("mkKind")>>

StoreSteps_NoSize(d, type) ==
  CASE type = "dir" -> <<FsOn("moveIn", d)>>
    [] type = "file" -> <<FsOn("putFile", d), Fs("metadata")>>
    [] type = "symlink" -> <<FsOn("putSymlink", d), Fs("metadata")>>

\* update_cache_directory
StoreSteps(d, type) ==
  CASE type = "dir" -> <<FsOn("createSize", d), FsOn("writeSize", d), FsOn("moveIn", d)>>
    [] type = "file" -> <<FsOn("putFile", d), Fs("metadata")>>
    [] type = "symlink" -> <<FsOn("putSymlink", d), Fs("metadata")>>

EvictSteps_KeepSize(d) ==
  IF place[d] = "dir" THEN InBackground(FsOn("trashDir", d)) ELSE <<FsOn("remove", d)>>

\* possibly_remove_some_can_error, for one artifact.  What type it is the entry
\* knows.
EvictSteps(d) ==
  IF place[d] = "dir"
  THEN InBackground(FsOn("trashDir", d)) \o <<FsOn("removeSize", d)>>
  ELSE <<FsOn("remove", d)>>

-----------------------------------------------------------------------------
\* The root directory may be new, or be one that was left by a version of the
\* program without the tag, or by one with another kind of keys.
Init ==
  /\ trash = 0 /\ retired = 0 /\ sizeFile = [d \in Digest |-> "none"]
  /\ \/ /\ tag = "none" /\ removing = "none" /\ dirs = {}
        /\ place = [d \in Digest |-> "none"]
     \/ /\ tag = "none" /\ removing \in {"dir", "file"} /\ dirs = {"tmp", "sha256", "kind"}
        /\ place = [d \in Digest |-> IF d \in Dir THEN "dir" ELSE "file"]
     \/ /\ tag = "full" /\ removing = "dir" /\ dirs = {"tmp", "sha256", "other"}
        /\ place = [d \in Digest |-> "none"]
  /\ phase = "down" /\ preserve = FALSE /\ entry = [d \in Digest |-> "absent"] /\ heap = <<>>
  /\ bytes = 0 /\ doing = Nothing /\ todo = <<>> /\ evicting = FALSE
  /\ threads = 0 /\ faulty = FALSE

\* Cache::new, up to the decision whether to keep the contents.
Open ==
  /\ phase = "down"
  /\ phase' = "ensure" /\ preserve' = (tag = "full") /\ todo' = EnsureRemoving
  /\ UNCHANGED <<diskVars, memVars, threads, faulty>>

\* One operation of the file system succeeds.
Do ==
  /\ todo # <<>> /\ Fits(Head(todo))
  /\ SetDisk(After(Head(todo)))
  /\ threads' = IF Head(todo).op = "spawn" THEN threads + 1 ELSE threads
  /\ todo' = Tail(todo)
  /\ UNCHANGED <<phase, preserve, memVars, faulty>>

\* The process ends: nothing of what it knew is left.
Stop ==
  /\ phase' = "down" /\ preserve' = FALSE /\ entry' = [d \in Digest |-> "absent"] /\ heap' = <<>>
  /\ bytes' = 0 /\ doing' = Nothing /\ todo' = <<>> /\ evicting' = FALSE
  /\ threads' = 0 /\ faulty' = FALSE
  /\ UNCHANGED diskVars

\* The root is read once `removing' is there, and emptied entry by entry.
Ensured ==
  /\ phase = "ensure" /\ todo = <<>> /\ phase' = "sweep"
  /\ UNCHANGED <<diskVars, preserve, memVars, todo, threads, faulty>>

Sweep(e) ==
  /\ phase = "sweep" /\ todo = <<>> /\ e \in ToSweep
  /\ todo' = SweepSteps(e)
  /\ UNCHANGED <<diskVars, phase, preserve, memVars, threads, faulty>>

Swept ==
  /\ phase = "sweep" /\ todo = <<>> /\ ToSweep = {}
  /\ phase' = "make" /\ todo' = MakeSteps
  /\ UNCHANGED <<diskVars, preserve, memVars, threads, faulty>>

\* A new cache is empty; one that is preserved is to be read.
Made ==
  /\ phase = "make" /\ todo = <<>>
  /\ phase' = IF preserve THEN "files" ELSE "up"
  /\ UNCHANGED <<diskVars, preserve, memVars, todo, threads, faulty>>

Track(d) ==
  /\ entry' = [entry EXCEPT ![d] = "inHeap"] /\ heap' = Append(heap, d)
  /\ bytes' = bytes + Size[d]

\* The first reading of a kind's directory: a file gets an entry; a directory
\* or a whole size file is noted in `directory_sizes'; the rest is removed, as
\* is a size file that cannot be read.
IsFile(d) == place[d] = "file" /\ entry[d] = "absent"

ReadFile(d) ==
  /\ phase = "files" /\ todo = <<>> /\ IsFile(d)
  /\ Track(d)
  /\ UNCHANGED <<diskVars, phase, preserve, doing, todo, evicting, threads, faulty>>

\* read_size_file finds too few bytes, or an error.
Unreadable(d) == sizeFile[d] = "partial" \/ (sizeFile[d] = "full" /\ MayFail)

ReadOther(d) ==
  /\ phase = "files" /\ todo = <<>>
  /\ \/ place[d] = "symlink" /\ todo' = <<FsOn("remove", d)>>
     \/ Unreadable(d) /\ todo' = <<FsOn("removeSize", d)>>
  /\ UNCHANGED <<diskVars, phase, preserve, memVars, threads, faulty>>

FilesRead ==
  /\ phase = "files" /\ todo = <<>>
  /\ \A d \in Digest : ~IsFile(d) /\ place[d] # "symlink" /\ sizeFile[d] # "partial"
  /\ phase' = "sizes"
  /\ UNCHANGED <<diskVars, preserve, memVars, todo, threads, faulty>>

\* The loop over `directory_sizes': a directory with its size gets an entry,
\* one without the other is removed.
IsDirectory(d) == place[d] = "dir" /\ sizeFile[d] = "full" /\ entry[d] = "absent"

ReadDirectory(d) ==
  /\ phase = "sizes" /\ todo = <<>> /\ IsDirectory(d)
  /\ Track(d)
  /\ UNCHANGED <<diskVars, phase, preserve, doing, todo, evicting, threads, faulty>>

ReadHalf(d) ==
  /\ phase = "sizes" /\ todo = <<>>
  /\ \/ place[d] = "dir" /\ sizeFile[d] = "none" /\ todo' = InBackground(FsOn("trashDir", d))
     \/ place[d] # "dir" /\ sizeFile[d] = "full" /\ todo' = <<FsOn("removeSize", d)>>
  /\ UNCHANGED <<diskVars, phase, preserve, memVars, threads, faulty>>

SizesRead ==
  /\ phase = "sizes" /\ todo = <<>>
  /\ \A d \in Digest : ~IsDirectory(d) /\ (place[d] = "dir" <=> sizeFile[d] = "full")
  /\ phase' = "shrink" /\ evicting' = TRUE
  /\ UNCHANGED <<diskVars, preserve, entry, heap, bytes, doing, todo, threads, faulty>>

AtRest == phase = "up" /\ todo = <<>> /\ doing = Nothing /\ ~evicting

GetArtifact_StaysInHeap(d) ==
  /\ AtRest
  /\ \/ entry[d] = "absent" /\ entry' = [entry EXCEPT ![d] = "getting"]
     \/ entry[d] = "inHeap" /\ entry' = [entry EXCEPT ![d] = "inUse"]
  /\ UNCHANGED <<diskVars, phase, preserve, heap, bytes, doing, todo, evicting, threads, faulty>>

\* get_artifact: the artifact is to be fetched, or is taken out of the heap.
GetArtifact(d) ==
  /\ AtRest
  /\ \/ /\ entry[d] = "absent"
        /\ entry' = [entry EXCEPT ![d] = "getting"] /\ UNCHANGED heap
     \/ /\ entry[d] = "inHeap"
        /\ entry' = [entry EXCEPT ![d] = "inUse"]
        /\ \E i \in DOMAIN heap : heap[i] = d /\ heap' = RemoveAt(heap, i)
  /\ UNCHANGED <<diskVars, phase, preserve, bytes, doing, todo, evicting, threads, faulty>>

\* got_artifact_success: the artifact is moved into its place.
Store(d, type) ==
  /\ AtRest
  /\ entry[d] = "getting" /\ (type = "dir" <=> d \in Dir)
  /\ doing' = [kind |-> "store", d |-> d]
  /\ todo' = StoreSteps(d, type)
  /\ UNCHANGED <<diskVars, phase, preserve, entry, heap, bytes, evicting, threads, faulty>>

\* got_artifact_success when it is not wanted any more, for a directory or a
\* file.
Dispose ==
  /\ AtRest /\ trash < MaxTrash
  /\ todo' \in {InBackground(Fs("dispose")), <<Fs("dispose"), Fs("removeDisposed")>>}
  /\ UNCHANGED <<diskVars, phase, preserve, memVars, threads, faulty>>

\* The end of got_artifact_success.
Stored ==
  /\ doing.kind = "store" /\ todo = <<>>
  /\ entry' = [entry EXCEPT ![doing.d] = "inUse"]
  /\ bytes' = bytes + Size[doing.d]
  /\ doing' = Nothing /\ evicting' = TRUE
  /\ UNCHANGED <<diskVars, phase, preserve, heap, todo, threads, faulty>>

\* got_artifact_failure and getter_disconnected: nobody gets it any more.
GiveUp(d) ==
  /\ AtRest
  /\ entry[d] = "getting"
  /\ entry' = [entry EXCEPT ![d] = "absent"]
  /\ UNCHANGED <<diskVars, phase, preserve, heap, bytes, doing, todo, evicting, threads, faulty>>

\* decrement_ref_count, of the last reference
Release(d) ==
  /\ AtRest
  /\ entry[d] = "inUse"
  /\ entry' = [entry EXCEPT ![d] = "inHeap"] /\ heap' = Append(heap, d)
  /\ evicting' = TRUE
  /\ UNCHANGED <<diskVars, phase, preserve, bytes, doing, todo, threads, faulty>>

\* possibly_remove_some_can_error pops an artifact,
Evict ==
  LET d == Head(heap) IN
  /\ evicting /\ todo = <<>> /\ doing = Nothing
  /\ bytes > Target /\ heap # <<>> /\ trash < MaxTrash
  /\ heap' = Tail(heap) /\ entry' = [entry EXCEPT ![d] = "absent"]
  /\ doing' = [kind |-> "evict", d |-> d]
  /\ todo' = EvictSteps(d)
  /\ UNCHANGED <<diskVars, phase, preserve, bytes, evicting, threads, faulty>>

\* has removed it,
Evicted ==
  /\ doing.kind = "evict" /\ todo = <<>>
  /\ bytes' = bytes - Size[doing.d] /\ doing' = Nothing
  /\ UNCHANGED <<diskVars, phase, preserve, entry, heap, todo, evicting, threads, faulty>>

\* and is within the target, or has nothing left to remove.
EvictionEnds ==
  /\ evicting /\ todo = <<>> /\ doing = Nothing
  /\ bytes <= Target \/ heap = <<>>
  /\ evicting' = FALSE /\ phase' = "up" /\ preserve' = FALSE
  /\ UNCHANGED <<diskVars, entry, heap, bytes, doing, todo, threads, faulty>>

\* An operation fails, because of what it finds or for another reason.  Storing
\* ends with got_artifact_failure; possibly_remove_some_ignore_error and
\* dispose_of_artifact_or_warn give up.  (Cache::new fails: Crash.)
Fail ==
  /\ phase = "up" /\ todo # <<>>
  /\ \/ MayFail /\ (doing.kind = "evict" => bytes <= MaxBytes)
     \/ ~Fits(Head(todo))
  /\ faulty' = TRUE
  /\ todo' = <<>> /\ doing' = Nothing /\ evicting' = FALSE
  /\ entry' = IF doing.kind = "store" THEN [entry EXCEPT ![doing.d] = "absent"] ELSE entry
  /\ UNCHANGED <<diskVars, phase, preserve, heap, bytes, threads>>

\* The process stops, or Cache::new returns an error.
Crash == phase # "down" /\ retired < MaxTrash /\ Stop

\* A thread has removed a directory.
ThreadEnds ==
  /\ threads > 0
  /\ threads' = threads - 1 /\ trash' = trash - 1
  /\ UNCHANGED <<tag, removing, retired, dirs, place, sizeFile, phase, preserve,
                 memVars, todo, faulty>>

Next ==
  \/ Open \/ Do \/ Ensured \/ Swept \/ Made \/ FilesRead \/ SizesRead
  \/ \E e \in {"retired", "tmp", "sha256", "tag"} : Sweep(e)
  \/ \E d \in Digest : \/ ReadFile(d) \/ ReadOther(d) \/ ReadDirectory(d) \/ ReadHalf(d)
                       \/ GetArtifact(d) \/ GiveUp(d) \/ Release(d)
  \/ \E d \in Digest, type \in {"dir", "file", "symlink"} : Store(d, type)
  \/ Dispose \/ Stored \/ Evict \/ Evicted \/ EvictionEnds
  \/ Fail \/ Crash \/ ThreadEnds

Spec == Init /\ [][Next]_vars

-----------------------------------------------------------------------------
\* Unless one has failed since the cache was opened, each operation finds the
\* directory as it needs it: a crash of an earlier process, wherever it was and
\* whatever was left half done, makes no later start fail and no artifact
\* unstorable.
DiskIsReady == todo # <<>> /\ ~faulty => Fits(Head(todo))

\* What the cache believes to have is there, whole: a job or a worker that
\* takes a reference finds the file, and a directory counts with its own size,
\* also when it was stored by a process that crashed.
TrackedIsThere ==
  \A d \in Digest : entry[d] \in {"inUse", "inHeap"} =>
    IF d \in Dir THEN place[d] = "dir" /\ sizeFile[d] = "full"
    ELSE place[d] \in {"file", "symlink"}

\* The bytes the cache counts cover what it tracks and what it is evicting, also
\* after failures, so no subtraction from them underflows; between two handlers
\* they are, without a failure, exactly those of what is on disk, so the target
\* is kept over any number of restarts.
Tracked == {d \in Digest : entry[d] \in {"inUse", "inHeap"}}

DiskAccounted ==
  /\ TotalSize(Tracked \cup {d \in Digest : doing = [kind |-> "evict", d |-> d]}) <= bytes
  /\ phase = "up" /\ todo = <<>> /\ doing = Nothing /\ ~faulty =>
       /\ {d \in Digest : place[d] # "none"} = Tracked
       /\ bytes = TotalSize(Tracked)
       /\ \A d \in Digest : sizeFile[d] = IF place[d] = "dir" THEN "full" ELSE "none"

\* Once the cache is open and unless an operation has failed, whatever is in
\* `removing' is being removed, the leftovers of earlier processes included,
\* but for what has just been moved there.
NoGarbageForgotten ==
  phase = "up" /\ ~faulty =>
    /\ retired = 0
    /\ trash = threads + IF todo # <<>> /\ Head(todo).op \in {"spawn", "removeDisposed"}
                          THEN 1 ELSE 0
=============================================================================
