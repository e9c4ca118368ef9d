--------------------------- MODULE Customizations ---------------------------
(***************************************************************************)
(* The apps of gui-v2 that the plugin offers over MQTT                     *)
(* (src/src/guicustomizations.cpp): an index of the files under            *)
(* /data/apps/enabled, made anew when the key of the files has changed,    *)
(* and the chunks of a file, read when they are asked for.                 *)
(*                                                                         *)
(* A handler does all of this at one go, but other processes install,      *)
(* update and remove files meanwhile: each look at a file is a step.       *)
(* A file has the time that it was written at, or an earlier one: it may   *)
(* come with the time it had elsewhere (mv, tar, cp -p), or come back, when*)
(* an app that was disabled is linked into the directory again.            *)
(***************************************************************************)
EXTENDS Naturals, FiniteSets

CONSTANTS
    Apps,     \* directories, each with a blob gui-v2/<name>.json or without
    Blobs,    \* what such a file may contain, and its SHA-256
    Chunks,   \* the number of chunks of each
    MaxTime,  \* bound: writes of files
    Asked,    \* bound: the chunks that are asked for, an app and a number each
    Restored, \* bound: the files that come with an earlier time
    NoApps,   \* a std::nullopt cache
    NoFile,   \* no file, and the hash and the entry of none
    All       \* the request for the list and the info of every app

Times == 1 .. MaxTime
NoKey == {0}  \* a std::nullopt hash

Files    == [time : Times, blob : Blobs]
Keys     == (SUBSET (Apps \cup Times)) \cup {NoKey}
Entries  == [sha256 : Blobs \cup {NoFile}, chunks : Nat]
Requests == {All} \cup (Apps \X Nat)

ASSUME CustomizationsAssumption ==
    /\ IsFiniteSet(Apps) /\ MaxTime \in Nat
    /\ Chunks \in [Blobs -> Nat]
    /\ Apps \cap (0 .. MaxTime) = {}
    /\ All \notin Apps \X Nat /\ Asked \subseteq Apps \X Nat /\ Restored \subseteq Files
    /\ NoFile \notin Blobs \cup Files \cup [app : Apps, no : Nat, of : Blobs]
    /\ NoApps \notin [Apps -> Entries \cup {NoFile}]

VARIABLES
    m_apps_cache,
    m_apps_cache_hash,
    step,       \* where the handler is; the next five are its variables
    request,    \* the request that is handled
    todo,       \* the apps its iteration has not come to
    real_hash,  \* the key as far as it is computed
    app,        \* the app that is being indexed
    sha256,     \* its hash
    chunk,      \* the chunk that was published by the last request
    disk,       \* external: the blobs
    now,        \* external: the time of the last write
    touched,    \* auxiliary: the apps that were changed since the request began
    returned    \* auxiliary: those whose last change since the scan that made
                \* the index began was that a file came with an earlier time

locals      == <<request, todo, real_hash, app, sha256>>
cacheVars   == <<m_apps_cache, m_apps_cache_hash>>
handlerVars == <<step, request, todo, real_hash, app, sha256, chunk>>
diskVars    == <<disk, now, touched, returned>>
vars        == <<cacheVars, handlerVars, diskVars>>

TypeOK ==
    /\ m_apps_cache \in [Apps -> Entries \cup {NoFile}] \cup {NoApps}
    /\ m_apps_cache_hash \in Keys /\ real_hash \in Keys
    /\ request \in Requests
    /\ step \in {"idle", "key", "index", "hash", "chunks", "publish", "size", "read"}
    /\ todo \in SUBSET Apps
    /\ app \in Apps \cup {NoFile} /\ sha256 \in Blobs \cup {NoFile}
    /\ chunk \in [app : Apps, no : Nat, of : Blobs] \cup {NoFile}
    /\ disk \in [Apps -> Files \cup {NoFile}]
    /\ now \in 0 .. MaxTime /\ touched \in SUBSET Apps /\ returned \in SUBSET Apps

Init ==
    /\ m_apps_cache = NoApps /\ m_apps_cache_hash = NoKey
    /\ request = All /\ step = "idle" /\ todo = {} /\ real_hash = NoKey
    /\ app = NoFile /\ sha256 = NoFile /\ chunk = NoFile
    /\ disk = [a \in Apps |-> NoFile] /\ now = 0 /\ touched = {} /\ returned = {}

----------------------------------------------------------------------------
(* The files *)

NoFiles == \A a \in Apps : disk[a] = NoFile

Present == {a \in Apps : disk[a] # NoFile}

\* The times that the files of an odd number of the apps have.
OddTimes(S) == {t \in Times : Cardinality({a \in S : disk[a].time = t}) % 2 = 1}

\* The key a scan gives while no file changes.
CurrentKey == IF NoFiles THEN NoKey ELSE Present \cup OddTimes(Present)

\* One app is installed or updated, or several at the same time.
WriteFile(S, blob) ==
    /\ now < MaxTime
    /\ now' = now + 1
    /\ disk' = [a \in Apps |-> IF a \in S THEN [time |-> now + 1, blob |-> blob] ELSE disk[a]]
    /\ touched' = touched \cup S /\ returned' = returned \ S
    /\ UNCHANGED <<cacheVars, handlerVars>>

\* A file comes, or comes back, with a time that is not new. (One that takes the
\* place of another comes as the other is removed, with nothing in between.)
RestoreFile(a, file) ==
    /\ disk[a] = NoFile /\ file.time <= now
    /\ disk' = [disk EXCEPT ![a] = file]
    /\ touched' = touched \cup {a} /\ returned' = returned \cup {a}
    /\ UNCHANGED <<now, cacheVars, handlerVars>>

RemoveFile(a) ==
    /\ disk[a] # NoFile
    /\ disk' = [disk EXCEPT ![a] = NoFile]
    /\ touched' = touched \cup {a} /\ returned' = returned \ {a}
    /\ UNCHANGED <<now, cacheVars, handlerVars>>

----------------------------------------------------------------------------
(* scan_private: the key. Hashes are XORed: what is there twice is not there.*)

SymmetricDifference(S, T) == (S \ T) \cup (T \ S)

\* Mutant of Addition: the names alone.
NamesOnly(key, a) ==
    IF disk[a] = NoFile THEN key
    ELSE SymmetricDifference(IF key = NoKey THEN {} ELSE key, {a})

\* What a regular file adds to the key.
Addition(key, a) ==
    IF disk[a] = NoFile THEN key
    ELSE SymmetricDifference(IF key = NoKey THEN {} ELSE key, {a, disk[a].time})

\* The handler returns, or throws; it is caught in publish_customizations.
Returned ==
    /\ step' = "idle"
    /\ request' = All /\ todo' = {} /\ real_hash' = NoKey
    /\ app' = NoFile /\ sha256' = NoFile

\* A request comes in. The directory may be missing as long as it has no files.
publish_customizations(r) ==
    /\ step = "idle"
    /\ chunk' = NoFile /\ touched' = {}
    /\ \/ /\ step' = "key" /\ todo' = Apps /\ request' = r
          /\ UNCHANGED cacheVars
       \/ /\ NoFiles
          /\ m_apps_cache' = NoApps /\ m_apps_cache_hash' = NoKey
          /\ UNCHANGED <<step, todo, request>>
    /\ UNCHANGED <<real_hash, app, sha256, disk, now, returned>>

get_cache_key(a) ==
    /\ step = "key" /\ a \in todo
    /\ todo' = todo \ {a}
    /\ real_hash' = Addition(real_hash, a)
    /\ UNCHANGED <<request, step, app, sha256, chunk, cacheVars, diskVars>>

\* The iteration throws when a file goes just as it gets there: the key is that
\* of the files before it.
KeyFails ==
    /\ step = "key" /\ \E a \in todo \cap touched : disk[a] = NoFile
    /\ todo' = {}
    /\ UNCHANGED <<request, step, real_hash, app, sha256, chunk, cacheVars, diskVars>>

\* Nothing has changed, or all apps are indexed anew.
KeyIsKnown ==
    /\ step = "key" /\ todo = {}
    /\ IF m_apps_cache_hash = real_hash
       THEN step' = "publish" /\ real_hash' = NoKey /\ UNCHANGED <<todo, m_apps_cache, returned>>
       ELSE /\ step' = "index" /\ todo' = Apps /\ UNCHANGED real_hash
            /\ returned' = returned \cap touched
            /\ m_apps_cache' = [a \in Apps |-> NoFile]
    /\ UNCHANGED <<request, app, sha256, chunk, m_apps_cache_hash, disk, now, touched>>

----------------------------------------------------------------------------
(* scan_private: the index, a GuiCustomizationEntry of every directory     *)

\* directory_iterator throws: the directory has gone since it was seen to exist.
IndexFails ==
    /\ step = "index" /\ todo = Apps /\ NoFiles
    /\ Returned
    /\ UNCHANGED <<chunk, cacheVars, diskVars>>

\* The iteration comes to a directory. (Without a blob, indexing it fails.)
NextEntry(a) ==
    /\ step = "index" /\ a \in todo
    /\ todo' = todo \ {a}
    /\ \/ step' = "hash" /\ app' = a
       \/ disk[a] = NoFile /\ UNCHANGED <<step, app>>
    /\ UNCHANGED <<request, real_hash, sha256, chunk, cacheVars, diskVars>>

\* A file that is not there is hashed as an empty one.
hash_file ==
    /\ step = "hash"
    /\ sha256' = IF disk[app] = NoFile THEN NoFile ELSE disk[app].blob
    /\ step' = "chunks"
    /\ UNCHANGED <<request, todo, real_hash, app, chunk, cacheVars, diskVars>>

\* Throws when there is no file: the app is left out. Or else try_emplace.
calculate_chunks ==
    /\ step = "chunks"
    /\ m_apps_cache' = IF disk[app] = NoFile \/ m_apps_cache[app] # NoFile THEN m_apps_cache
                       ELSE [m_apps_cache EXCEPT ![app] = [sha256 |-> sha256, chunks |-> Chunks[disk[app].blob]]]
    /\ step' = "index" /\ app' = NoFile /\ sha256' = NoFile
    /\ UNCHANGED <<request, todo, real_hash, chunk, m_apps_cache_hash, diskVars>>

\* Mutant of IndexIsMade: the key of the files as they are by now.
KeyAfterwards ==
    /\ step = "index" /\ todo = {}
    /\ m_apps_cache_hash' = CurrentKey
    /\ step' = "publish" /\ real_hash' = NoKey
    /\ UNCHANGED <<request, todo, app, sha256, chunk, m_apps_cache, diskVars>>

\* The key goes with the files as they were before they were indexed.
IndexIsMade ==
    /\ step = "index" /\ todo = {}
    /\ m_apps_cache_hash' = real_hash
    /\ step' = "publish" /\ real_hash' = NoKey
    /\ UNCHANGED <<request, todo, app, sha256, chunk, m_apps_cache, diskVars>>

----------------------------------------------------------------------------
(* What is published *)

\* publish_chunk of an app and a chunk that the index has.
InIndex(r) ==
    /\ r # All
    /\ m_apps_cache # NoApps /\ m_apps_cache[r[1]] # NoFile
    /\ r[2] < m_apps_cache[r[1]].chunks

\* The list and the info go out; or nothing does, for a chunk that is not known.
Publish ==
    /\ step = "publish"
    /\ IF InIndex(request) THEN step' = "size" /\ UNCHANGED locals ELSE Returned
    /\ UNCHANGED <<chunk, cacheVars, diskVars>>

\* get_base64 throws when the size has changed.
CheckSize ==
    /\ step = "size"
    /\ IF \/ disk[request[1]] = NoFile
          \/ Chunks[disk[request[1]].blob] # m_apps_cache[request[1]].chunks
       THEN Returned ELSE step' = "read" /\ UNCHANGED locals
    /\ UNCHANGED <<chunk, cacheVars, diskVars>>

\* Mutant of ReadChunk: what was read is not counted.
ReadsAnything ==
    /\ step = "read"
    /\ chunk' = [app |-> request[1], no |-> request[2],
                 of |-> IF disk[request[1]] = NoFile THEN NoFile ELSE disk[request[1]].blob]
    /\ Returned
    /\ UNCHANGED <<cacheVars, diskVars>>

\* ... and when there is less to read than the size of the chunk.
ReadChunk ==
    LET file == disk[request[1]]
    IN  /\ step = "read"
        /\ chunk' = IF file # NoFile /\ request[2] < Chunks[file.blob]
                    THEN [app |-> request[1], no |-> request[2], of |-> file.blob] ELSE chunk
        /\ Returned
        /\ UNCHANGED <<cacheVars, diskVars>>

Handler ==
    \/ \E a \in Apps : get_cache_key(a) \/ NextEntry(a)
    \/ KeyFails \/ KeyIsKnown \/ IndexFails \/ hash_file \/ calculate_chunks \/ IndexIsMade
    \/ Publish \/ CheckSize \/ ReadChunk

Next ==
    \/ \E r \in {All} \cup Asked : publish_customizations(r)
    \/ Handler
    \/ \E S \in (SUBSET Apps) \ {{}}, blob \in Blobs : WriteFile(S, blob)
    \/ \E a \in Apps, file \in Restored : RestoreFile(a, file)
    \/ \E a \in Apps : RemoveFile(a)

\* A handler runs to its end, and keep-alives publish everything ever again.
Spec ==
    /\ Init /\ [][Next]_vars
    /\ WF_vars(Handler)
    /\ WF_vars(publish_customizations(All))

----------------------------------------------------------------------------
(* Properties *)

Current(a) ==
    /\ m_apps_cache # NoApps
    /\ m_apps_cache[a] = [sha256 |-> disk[a].blob, chunks |-> Chunks[disk[a].blob]]

\* The apps that the key can tell about. It tells of the time of a file, not of
\* its content, nor of times that an even number of files have (their hashes
\* cancel out); and the index that goes with a key is made after it: an app
\* that was not there then, or was another, and that came with the time that it
\* has in the key is taken for the one that was indexed, until something else
\* changes.
Shown(a) == a \in Present \ returned /\ disk[a].time \in CurrentKey

\* While the files have the key of the index, so that no scan would make it
\* anew, the index has every such app, with its hash and its chunks: whatever
\* was written, removed or restored between two looks of a scan, and when the
\* key is not finished.
ListedIsCurrent ==
    step \notin {"index", "hash", "chunks"} /\ m_apps_cache_hash = CurrentKey
        => \A a \in Apps : Shown(a) => Current(a)

\* A chunk is of the file whose hash is published, unless a file is changed
\* during the request that it answers, or the key does not tell of the app.
ChunkAsListed ==
    [][chunk' \notin {chunk, NoFile} /\ touched = {} /\ Shown(chunk'.app)
         => chunk'.of = m_apps_cache[chunk'.app].sha256]_vars

\* When files are no longer changed, the index comes to tell of all the apps
\* that the key can tell about.
CatchesUp ==
    <>[](touched = {}) => <>[](\A a \in Apps : Shown(a) => Current(a))

=============================================================================
