------------------------- MODULE CustomizationsProofs -------------------------
(***************************************************************************)
(* Proofs about Customizations, for any apps, blobs and number of writes.  *)
(*                                                                         *)
(* The index and its key are made from looks at the files at different     *)
(* times. They go together because a time in the key is not later than the *)
(* key (TimesInv). A file that has such a time either came with it, which  *)
(* `returned` tells, or has not changed since before the key was computed, *)
(* so that every look of the index has seen it as it is now (KeyInv). While*)
(* the index is made the same holds of the key in the making, but for the  *)
(* apps that are still to come (IndexInv). A chunk is that of the hash that*)
(* is published because, with no file changed since the request began, the *)
(* key is that of all the files (QuietInv); this is where the times that   *)
(* cancel out have to be counted (KeyGrows).                               *)
(***************************************************************************)
EXTENDS Customizations, FiniteSetTheorems, TLAPS

Indexing == {"index", "hash", "chunks"}

\* The apps the index has not got to yet.
ToCome == todo \cup (IF step \in {"hash", "chunks"} THEN {app} ELSE {})

ControlInv ==
    /\ step \in Indexing =>
         /\ m_apps_cache \in [Apps -> Entries \cup {NoFile}]
         /\ \A a \in ToCome : m_apps_cache[a] = NoFile
    /\ step \in {"hash", "chunks"} => app \in Apps \ todo
    /\ step \in {"size", "read"} => request \in Apps \X Nat
    /\ step \notin {"key"} \cup Indexing => real_hash = NoKey

TimesInv ==
    /\ m_apps_cache_hash \cup real_hash \subseteq Apps \cup (0 .. now)
    /\ \A a \in Present : disk[a].time <= now

KeyInv ==
    step \notin Indexing =>
        \A a \in Present \ returned : disk[a].time \in m_apps_cache_hash => Current(a)

IndexInv ==
    /\ step \in Indexing =>
         \A a \in (Present \ returned) \ ToCome : disk[a].time \in real_hash => Current(a)
    /\ step = "chunks" /\ app \in Present \ returned /\ disk[app].time \in real_hash =>
         sha256 = disk[app].blob

\* The key of some of the files.
KeyOf(S) == IF S = {} THEN NoKey ELSE S \cup OddTimes(S)

QuietInv ==
    touched = {} =>
        /\ step = "key" => real_hash = KeyOf(Present \ todo)
        /\ step \in Indexing => real_hash = CurrentKey
        /\ step \in {"publish", "size", "read"} => m_apps_cache_hash = CurrentKey

Inv == TypeOK /\ ControlInv /\ TimesInv /\ KeyInv /\ IndexInv /\ QuietInv

----------------------------------------------------------------------------
(* The key *)

\* The key of all the files is the one that a quiet scan gives.
LEMMA KeyOfAll == KeyOf(Present) = CurrentKey
<1>1. Present = {} <=> NoFiles
  BY DEF Present, NoFiles
<1> QED BY <1>1 DEF KeyOf, CurrentKey

\* A file that is there has a type and a time.
LEMMA FileTyped ==
  ASSUME TypeOK, NEW a \in Present
  PROVE  /\ a \in Apps /\ disk[a] \in Files
         /\ disk[a].time \in Times /\ disk[a].blob \in Blobs
         /\ disk[a].time \notin Apps /\ a \notin Times /\ a # 0
BY CustomizationsAssumption DEF TypeOK, Present, Files, Times

\* One more app with a time makes an even number of them odd, and the reverse.
LEMMA OddTimesFlip ==
  ASSUME TypeOK, NEW S \in SUBSET Present, NEW a \in Present \ S
  PROVE  OddTimes(S \cup {a}) = SymmetricDifference(OddTimes(S), {disk[a].time})
<1> DEFINE With(T, t) == {b \in T : disk[b].time = t}
<1>1. disk[a].time \in Times
  BY FileTyped
<1>2. ASSUME NEW t \in Times, t # disk[a].time
      PROVE  With(S \cup {a}, t) = With(S, t)
  BY <1>2
<1>3. Cardinality(With(S \cup {a}, disk[a].time)) % 2 = 1
        <=> Cardinality(With(S, disk[a].time)) % 2 # 1
  <2> DEFINE W == With(S, disk[a].time)
  <2>1. With(S \cup {a}, disk[a].time) = W \cup {a} /\ a \notin W
    OBVIOUS
  <2>2. IsFiniteSet(W)
    <3>1. W \subseteq Apps
      BY FileTyped
    <3> QED BY <3>1, FS_Subset, CustomizationsAssumption
  <2>3. Cardinality(W \cup {a}) = Cardinality(W) + 1 /\ Cardinality(W) \in Nat
    <3> HIDE DEF W
    <3> QED BY <2>1, <2>2, FS_AddElement, FS_CardinalityType
  <2>4. \A n \in Nat : (n + 1) % 2 = 1 <=> n % 2 # 1
    BY SMT
  <2> HIDE DEF W
  <2> QED BY <2>1, <2>3, <2>4
<1>4. ASSUME NEW t \in Times
      PROVE  t \in OddTimes(S \cup {a})
               <=> t \in SymmetricDifference(OddTimes(S), {disk[a].time})
  <2>1. CASE t = disk[a].time
    BY <1>3, <2>1 DEF OddTimes, SymmetricDifference
  <2>2. CASE t # disk[a].time
    BY <1>2, <2>2 DEF OddTimes, SymmetricDifference
  <2> QED BY <2>1, <2>2
<1>5. /\ OddTimes(S \cup {a}) \subseteq Times
      /\ SymmetricDifference(OddTimes(S), {disk[a].time}) \subseteq Times
  BY <1>1 DEF OddTimes, SymmetricDifference
<1> HIDE DEF With
<1> QED BY <1>4, <1>5

\* The next file adds its name, and its time or takes it away.
LEMMA KeyGrows ==
  ASSUME TypeOK, NEW S \in SUBSET Present, NEW a \in Present \ S
  PROVE  Addition(KeyOf(S), a) = KeyOf(S \cup {a})
<1> DEFINE key == IF KeyOf(S) = NoKey THEN {} ELSE KeyOf(S)
           time == disk[a].time
<1>1. disk[a] # NoFile
  BY DEF Present
<1>2. key = S \cup OddTimes(S)
  <2>1. CASE S = {}
    <3>1. OddTimes({}) = {}
      <4>1. \A t : {b \in {} : disk[b].time = t} = {}
        OBVIOUS
      <4>2. Cardinality({}) % 2 # 1
        BY FS_EmptySet
      <4> QED BY <4>1, <4>2 DEF OddTimes
    <3> QED BY <2>1, <3>1 DEF KeyOf
  <2>2. CASE S # {}
    <3>1. PICK b \in S : TRUE
      BY <2>2
    <3>2. b \in KeyOf(S) /\ b # 0
      BY <2>2, <3>1, FileTyped DEF KeyOf
    <3>3. KeyOf(S) # NoKey
      BY <3>2 DEF NoKey
    <3> QED BY <2>2, <3>3 DEF KeyOf
  <2> QED BY <2>1, <2>2
<1>3. S \subseteq Apps /\ a \in Apps /\ time \in Times /\ Apps \cap Times = {}
  BY FileTyped, CustomizationsAssumption DEF Times
<1>4. OddTimes(S) \subseteq Times
  BY DEF OddTimes
<1>5. Addition(KeyOf(S), a) = SymmetricDifference(key, {a, time})
  BY <1>1 DEF Addition
<1>6. SymmetricDifference(S \cup OddTimes(S), {a, time})
        = (S \cup {a}) \cup SymmetricDifference(OddTimes(S), {time})
  <2> HIDE DEF time
  <2> QED BY <1>3, <1>4 DEF SymmetricDifference
<1>7. KeyOf(S \cup {a}) = (S \cup {a}) \cup OddTimes(S \cup {a})
  BY DEF KeyOf
<1> HIDE DEF key
<1> QED BY <1>2, <1>5, <1>6, <1>7, OddTimesFlip

----------------------------------------------------------------------------
(* The steps *)

\* Only the files change: what is new of the invariant is that the files that
\* have not just been restored and whose time is in a key are as they were.
LEMMA FilesStep ==
  ASSUME Inv, UNCHANGED <<cacheVars, handlerVars>>, touched' # {},
         disk' \in [Apps -> Files \cup {NoFile}], touched' \in SUBSET Apps,
         returned' \in SUBSET Apps, now' \in 0 .. MaxTime, now <= now',
         \A a \in Present' : disk'[a].time <= now',
         \A a \in Present' \ returned' :
            \/ a \in Present \ returned /\ disk'[a] = disk[a]
            \/ disk'[a].time \notin Apps \cup (0 .. now)
  PROVE  Inv'
<1>1. UNCHANGED <<m_apps_cache, m_apps_cache_hash, step, request, todo, real_hash, app, sha256,
                  chunk>>
  BY DEF cacheVars, handlerVars
<1>2. TypeOK'
  BY <1>1 DEF Inv, TypeOK
<1>3. ToCome' = ToCome
  BY <1>1 DEF ToCome
<1>4. ControlInv'
  BY <1>1, <1>3 DEF Inv, ControlInv
<1>5. TimesInv'
  <2>1. 0 .. now \subseteq 0 .. now'
    BY DEF Inv, TypeOK
  <2> QED BY <1>1, <2>1 DEF Inv, TimesInv
<1>6. ASSUME NEW a \in Present' \ returned',
             disk'[a].time \in m_apps_cache_hash \cup real_hash
      PROVE  a \in Present \ returned /\ disk'[a] = disk[a]
  BY <1>6 DEF Inv, TimesInv
<1>7. KeyInv'
  BY <1>1, <1>6 DEF Inv, KeyInv, Current
<1>8. IndexInv'
  BY <1>1, <1>3, <1>6 DEF Inv, IndexInv, Current
<1>9. QuietInv'
  BY DEF QuietInv
<1> QED BY <1>2, <1>4, <1>5, <1>7, <1>8, <1>9 DEF Inv

\* Files that are written have a time that is in no key.
LEMMA WriteStep ==
  ASSUME Inv, NEW S \in (SUBSET Apps) \ {{}}, NEW blob \in Blobs, WriteFile(S, blob)
  PROVE  Inv'
<1> DEFINE file == [time |-> now + 1, blob |-> blob]
<1>1. /\ now \in 0 .. MaxTime /\ now < MaxTime /\ now' = now + 1
      /\ disk' = [a \in Apps |-> IF a \in S THEN file ELSE disk[a]]
      /\ touched' = touched \cup S /\ returned' = returned \ S
      /\ UNCHANGED <<cacheVars, handlerVars>>
  BY DEF WriteFile, Inv, TypeOK
<1>2. MaxTime \in Nat /\ now \in Nat
  BY <1>1, CustomizationsAssumption
<1>3. file \in Files /\ file.time = now + 1
  BY <1>1, <1>2 DEF Files, Times
<1>4. now + 1 \notin Apps \cup (0 .. now)
  BY <1>1, <1>2, CustomizationsAssumption
<1> HIDE DEF file
<1>5. disk' \in [Apps -> Files \cup {NoFile}]
  BY <1>1, <1>3 DEF Inv, TypeOK
<1>6. touched' # {} /\ touched' \in SUBSET Apps /\ returned' \in SUBSET Apps
  BY <1>1 DEF Inv, TypeOK
<1>7. \A a \in Present : disk[a].time \in Nat /\ disk[a].time <= now
  BY FileTyped DEF Inv, TimesInv, Times
<1>8. \A a \in Present' : disk'[a] = file \/ (a \in Present /\ disk'[a] = disk[a])
  BY <1>1 DEF Present
<1>9. \A a \in Present' : disk'[a].time <= now'
  BY <1>1, <1>2, <1>3, <1>7, <1>8
<1>10. \A a \in Present' \ returned' :
          \/ a \in Present \ returned /\ disk'[a] = disk[a]
          \/ disk'[a].time \notin Apps \cup (0 .. now)
  BY <1>1, <1>3, <1>4 DEF Present
<1>11. now' \in 0 .. MaxTime /\ now <= now'
  BY <1>1, <1>2
<1> QED BY <1>1, <1>5, <1>6, <1>9, <1>10, <1>11, FilesStep

LEMMA RestoreStep ==
  ASSUME Inv, NEW a \in Apps, NEW file \in Files, RestoreFile(a, file)
  PROVE  Inv'
<1>1. /\ file.time <= now /\ now' = now
      /\ disk' = [disk EXCEPT ![a] = file]
      /\ touched' = touched \cup {a} /\ returned' = returned \cup {a}
      /\ UNCHANGED <<cacheVars, handlerVars>>
  BY DEF RestoreFile
<1>2. disk' \in [Apps -> Files \cup {NoFile}] /\ disk'[a] = file
  BY <1>1 DEF Inv, TypeOK
<1>3. \A b \in Apps \ {a} : disk'[b] = disk[b]
  BY <1>1 DEF Inv, TypeOK
<1>4. \A b \in Present' : disk'[b].time <= now'
  BY <1>1, <1>2, <1>3 DEF Inv, TimesInv, Present
<1>5. \A b \in Present' \ returned' : b \in Present \ returned /\ disk'[b] = disk[b]
  BY <1>1, <1>3 DEF Present
<1>6. now' \in 0 .. MaxTime /\ now <= now' /\ touched' \in SUBSET Apps /\ returned' \in SUBSET Apps
  BY <1>1 DEF Inv, TypeOK
<1> QED BY <1>1, <1>2, <1>4, <1>5, <1>6, FilesStep

LEMMA RemoveStep ==
  ASSUME Inv, NEW a \in Apps, RemoveFile(a)
  PROVE  Inv'
<1>1. /\ now' = now /\ disk' = [disk EXCEPT ![a] = NoFile]
      /\ touched' = touched \cup {a} /\ returned' = returned \ {a}
      /\ UNCHANGED <<cacheVars, handlerVars>>
  BY DEF RemoveFile
<1>2. disk' \in [Apps -> Files \cup {NoFile}] /\ disk'[a] = NoFile
  BY <1>1 DEF Inv, TypeOK
<1>3. \A b \in Present' : b \in Present /\ disk'[b] = disk[b] /\ b # a
  BY <1>1, <1>2 DEF Inv, TypeOK, Present
<1>4. now' \in 0 .. MaxTime /\ now <= now' /\ touched' \in SUBSET Apps /\ returned' \in SUBSET Apps
  BY <1>1 DEF Inv, TypeOK
<1> QED BY <1>1, <1>2, <1>3, <1>4, FilesStep DEF Inv, TimesInv

\* A handler that returns, or throws, from wherever it is: the files that are
\* there are those of the key it leaves.
LEMMA ReturnStep ==
  ASSUME Inv, Returned, UNCHANGED <<cacheVars, diskVars>>,
         chunk' \in [app : Apps, no : Nat, of : Blobs] \cup {NoFile},
         step \in Indexing => NoFiles
  PROVE  Inv'
<1>1. /\ step' = "idle" /\ request' = All /\ todo' = {} /\ real_hash' = NoKey
      /\ app' = NoFile /\ sha256' = NoFile
      /\ UNCHANGED <<m_apps_cache, m_apps_cache_hash, disk, now, touched, returned>>
  BY DEF Returned, cacheVars, diskVars
<1>2. TypeOK'
  <2>1. NoKey \in Keys /\ All \in Requests
    BY DEF Keys, Requests
  <2>2. {} \in SUBSET Apps
    OBVIOUS
  <2> QED BY <1>1, <2>1, <2>2 DEF Inv, TypeOK
<1>3. ControlInv'
  BY <1>1 DEF ControlInv, Indexing
<1>4. Present' = Present
  BY <1>1 DEF Present
<1>5. TimesInv'
  <2>1. NoKey \subseteq 0 .. now
    BY DEF NoKey, Inv, TypeOK
  <2> QED BY <1>1, <1>4, <2>1 DEF Inv, TimesInv
<1>6. KeyInv'
  <2>1. CASE step \in Indexing
    <3>1. Present = {}
      BY <2>1 DEF NoFiles, Present
    <3> QED BY <1>4, <3>1 DEF KeyInv
  <2>2. CASE step \notin Indexing
    BY <1>1, <1>4, <2>2 DEF Inv, KeyInv, Current
  <2> QED BY <2>1, <2>2
<1>7. IndexInv' /\ QuietInv'
  BY <1>1 DEF IndexInv, QuietInv, Indexing
<1> QED BY <1>2, <1>3, <1>5, <1>6, <1>7 DEF Inv

\* A request begins with the key of no file; a directory that is not there
\* empties the cache.
LEMMA RequestStep ==
  ASSUME Inv, NEW r \in Requests, publish_customizations(r)
  PROVE  Inv'
<1>1. /\ step = "idle" /\ chunk' = NoFile /\ touched' = {}
      /\ UNCHANGED <<real_hash, app, sha256, disk, now, returned>>
      /\ real_hash = NoKey
  BY DEF publish_customizations, Inv, ControlInv, Indexing
<1>2. Present' = Present
  BY <1>1 DEF Present
<1>3. CASE /\ step' = "key" /\ todo' = Apps /\ request' = r
           /\ UNCHANGED <<m_apps_cache, m_apps_cache_hash>>
  <2>1. TypeOK'
    BY <1>1, <1>3 DEF Inv, TypeOK
  <2>2. ControlInv'
    BY <1>1, <1>3 DEF ControlInv, Indexing
  <2>3. TimesInv' /\ KeyInv'
    BY <1>1, <1>2, <1>3 DEF Inv, TimesInv, KeyInv, Current, Indexing
  <2>4. IndexInv'
    BY <1>3 DEF IndexInv, Indexing
  <2>5. QuietInv'
    <3>1. Present' \ todo' = {}
      BY <1>3 DEF Present
    <3>2. real_hash' = KeyOf(Present \ todo)'
      BY <1>1, <3>1 DEF KeyOf
    <3> QED BY <1>3, <3>2 DEF QuietInv, Indexing
  <2> QED BY <2>1, <2>2, <2>3, <2>4, <2>5 DEF Inv
<1>4. CASE /\ NoFiles
           /\ m_apps_cache' = NoApps /\ m_apps_cache_hash' = NoKey
           /\ UNCHANGED <<step, todo, request>>
  <2>1. TypeOK'
    BY <1>1, <1>4 DEF Inv, TypeOK, Keys
  <2>2. ControlInv'
    BY <1>1, <1>4 DEF ControlInv, Indexing
  <2>3. Present = {} /\ NoKey \subseteq 0 .. now
    BY <1>4 DEF NoFiles, Present, NoKey, Inv, TypeOK
  <2>4. TimesInv' /\ KeyInv'
    BY <1>1, <1>2, <1>4, <2>3 DEF Inv, TimesInv, KeyInv
  <2>5. IndexInv' /\ QuietInv'
    BY <1>1, <1>4 DEF IndexInv, QuietInv, Indexing
  <2> QED BY <2>1, <2>2, <2>4, <2>5 DEF Inv
<1> QED BY <1>3, <1>4 DEF publish_customizations, cacheVars

\* One file more in the key.
LEMMA KeyStep ==
  ASSUME Inv, NEW a \in Apps, get_cache_key(a)
  PROVE  Inv'
<1>1. /\ step = "key" /\ a \in todo /\ todo' = todo \ {a}
      /\ real_hash' = Addition(real_hash, a)
      /\ UNCHANGED <<request, step, app, sha256, chunk, m_apps_cache, m_apps_cache_hash,
                     disk, now, touched, returned>>
  BY DEF get_cache_key, cacheVars, diskVars
<1>2. Present' = Present
  BY <1>1 DEF Present
<1>3. real_hash' \in Keys /\ real_hash' \subseteq Apps \cup (0 .. now)
  <2>1. CASE disk[a] = NoFile
    BY <1>1, <2>1 DEF Addition, Inv, TypeOK, TimesInv
  <2>2. CASE disk[a] # NoFile
    <3> DEFINE key == IF real_hash = NoKey THEN {} ELSE real_hash
    <3>1. a \in Present
      BY <2>2 DEF Present
    <3>2. /\ disk[a].time \in Times /\ disk[a].time \in 0 .. now
      BY <3>1, FileTyped DEF Inv, TimesInv, TypeOK, Times
    <3>3. key \in SUBSET (Apps \cup Times) /\ key \subseteq Apps \cup (0 .. now)
      BY DEF Inv, TypeOK, Keys, TimesInv
    <3>4. real_hash' \subseteq key \cup {a, disk[a].time}
      BY <1>1, <2>2 DEF Addition, SymmetricDifference
    <3> HIDE DEF key
    <3> QED BY <3>2, <3>3, <3>4 DEF Keys
  <2> QED BY <2>1, <2>2
<1>4. TypeOK'
  BY <1>1, <1>3 DEF Inv, TypeOK
<1>5. ControlInv'
  BY <1>1 DEF ControlInv, Indexing
<1>6. TimesInv' /\ KeyInv'
  BY <1>1, <1>2, <1>3 DEF Inv, TimesInv, KeyInv, Current
<1>7. IndexInv'
  BY <1>1 DEF IndexInv, Indexing
<1>8. QuietInv'
  <2>1. ASSUME touched = {} PROVE real_hash' = KeyOf(Present' \ todo')
    <3>1. real_hash = KeyOf(Present \ todo)
      BY <1>1, <2>1 DEF Inv, QuietInv
    <3>2. CASE a \in Present
      <4>1. Present' \ todo' = (Present \ todo) \cup {a}
        BY <1>1, <1>2, <3>2
      <4>2. a \in Present \ (Present \ todo)
        BY <1>1, <3>2
      <4> QED BY <1>1, <3>1, <4>1, <4>2, KeyGrows DEF Inv
    <3>3. CASE a \notin Present
      BY <1>1, <1>2, <3>1, <3>3 DEF Present, Addition
    <3> QED BY <3>2, <3>3
  <2> QED BY <1>1, <2>1 DEF QuietInv, Indexing, KeyOf, OddTimes
<1> QED BY <1>4, <1>5, <1>6, <1>7, <1>8 DEF Inv

\* The iteration breaks off: something was touched, so the key need not be whole.
LEMMA KeyFailsStep ==
  ASSUME Inv, KeyFails
  PROVE  Inv'
<1>1. /\ step = "key" /\ touched # {} /\ todo' = {}
      /\ UNCHANGED <<request, step, real_hash, app, sha256, chunk, m_apps_cache,
                     m_apps_cache_hash, disk, now, touched, returned>>
  BY DEF KeyFails, cacheVars, diskVars
<1>2. Present' = Present
  BY <1>1 DEF Present
<1>3. TypeOK' /\ ControlInv'
  BY <1>1 DEF Inv, TypeOK, ControlInv, Indexing
<1>4. TimesInv' /\ KeyInv'
  BY <1>1, <1>2 DEF Inv, TimesInv, KeyInv, Current, Indexing
<1>5. IndexInv' /\ QuietInv'
  BY <1>1 DEF IndexInv, QuietInv, Indexing
<1> QED BY <1>3, <1>4, <1>5 DEF Inv

\* The key is done: the index is that of the files, or is made anew.
LEMMA KnownStep ==
  ASSUME Inv, KeyIsKnown
  PROVE  Inv'
<1>1. /\ step = "key" /\ todo = {}
      /\ UNCHANGED <<request, app, sha256, chunk, m_apps_cache_hash, disk, now, touched>>
  BY DEF KeyIsKnown
<1>2. Present' = Present
  BY <1>1 DEF Present
<1>3. touched = {} => real_hash = CurrentKey
  <2>1. Present \ todo = Present
    BY <1>1
  <2> QED BY <1>1, <2>1, KeyOfAll DEF Inv, QuietInv
<1>4. CurrentKey' = CurrentKey
  BY <1>1, <1>2 DEF CurrentKey, NoFiles, OddTimes
<1>5. CASE m_apps_cache_hash = real_hash
  <2>1. step' = "publish" /\ real_hash' = NoKey /\ UNCHANGED <<todo, m_apps_cache, returned>>
    BY <1>5 DEF KeyIsKnown
  <2>2. NoKey \in Keys /\ NoKey \subseteq 0 .. now
    BY DEF Keys, NoKey, Inv, TypeOK
  <2>3. TypeOK'
    BY <1>1, <2>1, <2>2 DEF Inv, TypeOK
  <2>4. ControlInv' /\ IndexInv'
    BY <2>1 DEF ControlInv, IndexInv, Indexing
  <2>5. TimesInv' /\ KeyInv'
    BY <1>1, <1>2, <2>1, <2>2 DEF Inv, TimesInv, KeyInv, Current, Indexing
  <2>6. QuietInv'
    BY <1>1, <1>3, <1>4, <1>5, <2>1 DEF QuietInv, Indexing
  <2> QED BY <2>3, <2>4, <2>5, <2>6 DEF Inv
<1>6. CASE m_apps_cache_hash # real_hash
  <2>1. /\ step' = "index" /\ todo' = Apps /\ real_hash' = real_hash
        /\ m_apps_cache' = [a \in Apps |-> NoFile]
        /\ returned' = returned \cap touched
    BY <1>6 DEF KeyIsKnown
  <2>2. TypeOK'
    BY <1>1, <2>1 DEF Inv, TypeOK
  <2>3. ControlInv'
    BY <1>1, <2>1 DEF Inv, ControlInv, ToCome, Indexing
  <2>4. TimesInv'
    BY <1>1, <1>2, <2>1 DEF Inv, TimesInv
  <2>5. KeyInv' /\ IndexInv'
    BY <2>1 DEF KeyInv, IndexInv, Indexing, ToCome, Present
  <2>6. QuietInv'
    BY <1>1, <1>3, <1>4, <2>1 DEF QuietInv, Indexing
  <2> QED BY <2>2, <2>3, <2>4, <2>5, <2>6 DEF Inv
<1> QED BY <1>5, <1>6

\* The iteration skips an app only if it has no file, and takes it up otherwise.
LEMMA EntryStep ==
  ASSUME Inv, NEW a \in Apps, NextEntry(a)
  PROVE  Inv'
<1>1. /\ step = "index" /\ a \in todo /\ todo' = todo \ {a}
      /\ UNCHANGED <<request, real_hash, sha256, chunk, m_apps_cache, m_apps_cache_hash,
                     disk, now, touched, returned>>
      /\ \/ step' = "hash" /\ app' = a
         \/ disk[a] = NoFile /\ step' = "index" /\ app' = app
  BY DEF NextEntry, cacheVars, diskVars
<1>2. Present' = Present
  BY <1>1 DEF Present
<1>3. ToCome' \subseteq ToCome /\ Present \ ToCome' = Present \ ToCome
  BY <1>1 DEF ToCome, Present
<1>4. TypeOK'
  BY <1>1 DEF Inv, TypeOK
<1>5. ControlInv'
  BY <1>1, <1>3 DEF Inv, ControlInv, Indexing
<1>6. TimesInv' /\ KeyInv'
  BY <1>1, <1>2 DEF Inv, TimesInv, KeyInv, Indexing
<1>7. IndexInv'
  BY <1>1, <1>2, <1>3 DEF Inv, IndexInv, Indexing, Current
<1>8. QuietInv'
  BY <1>1, <1>2 DEF Inv, QuietInv, Indexing, CurrentKey, NoFiles, OddTimes
<1> QED BY <1>4, <1>5, <1>6, <1>7, <1>8 DEF Inv

LEMMA HashStep ==
  ASSUME Inv, hash_file
  PROVE  Inv'
<1>1. /\ step = "hash" /\ step' = "chunks"
      /\ sha256' = IF disk[app] = NoFile THEN NoFile ELSE disk[app].blob
      /\ UNCHANGED <<request, todo, real_hash, app, chunk, m_apps_cache, m_apps_cache_hash,
                     disk, now, touched, returned>>
  BY DEF hash_file, cacheVars, diskVars
<1>2. app \in Apps
  BY <1>1 DEF Inv, ControlInv
<1>3. /\ app \in Present => sha256' = disk[app].blob /\ disk[app].blob \in Blobs
      /\ app \notin Present => sha256' = NoFile
  BY <1>1, <1>2, FileTyped DEF Present, Inv
<1>4. TypeOK'
  BY <1>1, <1>3 DEF Inv, TypeOK
<1>5. Present' = Present /\ ToCome' = ToCome
  BY <1>1 DEF Present, ToCome
<1>6. ControlInv'
  BY <1>1, <1>5 DEF Inv, ControlInv, Indexing
<1>7. TimesInv' /\ KeyInv'
  BY <1>1, <1>5 DEF Inv, TimesInv, KeyInv, Indexing
<1>8. IndexInv'
  BY <1>1, <1>3, <1>5 DEF Inv, IndexInv, Indexing, Current
<1>9. QuietInv'
  BY <1>1, <1>5 DEF Inv, QuietInv, Indexing, CurrentKey, NoFiles, OddTimes
<1> QED BY <1>4, <1>6, <1>7, <1>8, <1>9 DEF Inv

\* The entry of an app whose time is in the key is of the file it was hashed
\* from.
LEMMA ChunksStep ==
  ASSUME Inv, calculate_chunks
  PROVE  Inv'
<1>1. /\ step = "chunks" /\ step' = "index" /\ app' = NoFile /\ sha256' = NoFile
      /\ UNCHANGED <<request, todo, real_hash, chunk, m_apps_cache_hash, disk, now, touched,
                     returned>>
  BY DEF calculate_chunks, diskVars
<1>2. /\ app \in Apps /\ app \notin todo /\ ToCome = todo \cup {app}
      /\ m_apps_cache \in [Apps -> Entries \cup {NoFile}] /\ m_apps_cache[app] = NoFile
      /\ \A a \in todo : m_apps_cache[a] = NoFile
  BY <1>1 DEF Inv, ControlInv, ToCome, Indexing
<1> DEFINE entry == [sha256 |-> sha256, chunks |-> Chunks[disk[app].blob]]
<1>3. m_apps_cache' = IF app \in Present THEN [m_apps_cache EXCEPT ![app] = entry]
                      ELSE m_apps_cache
  BY <1>2 DEF calculate_chunks, Present
<1>4. m_apps_cache' \in [Apps -> Entries \cup {NoFile}]
  <2>1. app \in Present => entry \in Entries
    BY FileTyped, CustomizationsAssumption DEF Inv, TypeOK, Entries
  <2> HIDE DEF entry
  <2> QED BY <1>2, <1>3, <2>1
<1>5. TypeOK'
  BY <1>1, <1>4 DEF Inv, TypeOK
<1>6. Present' = Present /\ ToCome' = todo
  BY <1>1 DEF Present, ToCome
<1>7. ControlInv'
  <2>1. \A a \in todo : m_apps_cache'[a] = NoFile
    BY <1>2, <1>3 DEF Inv, TypeOK
  <2> QED BY <1>1, <1>4, <1>6, <2>1 DEF ControlInv, Indexing
<1>8. TimesInv' /\ KeyInv'
  BY <1>1, <1>6 DEF Inv, TimesInv, KeyInv, Indexing
<1>9. IndexInv'
  <2> SUFFICES ASSUME NEW a \in Present \ returned, a \notin todo, disk[a].time \in real_hash
               PROVE  Current(a)'
    BY <1>1, <1>6 DEF IndexInv, Indexing
  <2>1. m_apps_cache' # NoApps
    BY <1>4, CustomizationsAssumption
  <2>2. CASE a = app
    <3>1. sha256 = disk[app].blob
      BY <1>1, <2>2 DEF Inv, IndexInv
    <3>2. m_apps_cache'[app] = entry
      BY <1>2, <1>3, <2>2
    <3> QED BY <1>1, <2>1, <2>2, <3>1, <3>2 DEF Current
  <2>3. CASE a # app
    <3>1. Current(a)
      BY <1>1, <1>2, <2>3 DEF Inv, IndexInv, Indexing
    <3>2. m_apps_cache'[a] = m_apps_cache[a]
      BY <1>2, <1>3, <2>3 DEF Present
    <3> QED BY <1>1, <2>1, <3>1, <3>2 DEF Current
  <2> QED BY <2>2, <2>3
<1>10. QuietInv'
  BY <1>1, <1>6 DEF Inv, QuietInv, Indexing, CurrentKey, NoFiles, OddTimes
<1> QED BY <1>5, <1>7, <1>8, <1>9, <1>10 DEF Inv

\* The key is that of the index when no app is still to come.
LEMMA MadeStep ==
  ASSUME Inv, IndexIsMade
  PROVE  Inv'
<1>1. /\ step = "index" /\ todo = {} /\ m_apps_cache_hash' = real_hash
      /\ step' = "publish" /\ real_hash' = NoKey
      /\ UNCHANGED <<request, todo, app, sha256, chunk, m_apps_cache, disk, now, touched,
                     returned>>
  BY DEF IndexIsMade, diskVars
<1>2. NoKey \in Keys /\ NoKey \subseteq 0 .. now
  BY DEF Keys, NoKey, Inv, TypeOK
<1>3. Present' = Present /\ CurrentKey' = CurrentKey
  BY <1>1 DEF Present, CurrentKey, NoFiles, OddTimes
<1>4. TypeOK'
  BY <1>1, <1>2 DEF Inv, TypeOK
<1>5. ControlInv' /\ IndexInv'
  BY <1>1 DEF ControlInv, IndexInv, Indexing
<1>6. TimesInv'
  BY <1>1, <1>2, <1>3 DEF Inv, TimesInv
<1>7. KeyInv'
  <2>1. ToCome = {}
    BY <1>1 DEF ToCome
  <2> QED BY <1>1, <1>3, <2>1 DEF Inv, IndexInv, KeyInv, Indexing, Current
<1>8. QuietInv'
  BY <1>1, <1>3 DEF Inv, QuietInv, Indexing
<1> QED BY <1>4, <1>5, <1>6, <1>7, <1>8 DEF Inv

\* On the way to a chunk only the place in the handler changes.
LEMMA OnwardStep ==
  ASSUME Inv, UNCHANGED <<locals, chunk, cacheVars, diskVars>>,
         step \in {"publish", "size"}, step' \in {"size", "read"},
         step = "publish" => request \in Apps \X Nat
  PROVE  Inv'
<1>1. UNCHANGED <<request, todo, real_hash, app, sha256, chunk, m_apps_cache,
                  m_apps_cache_hash, disk, now, touched, returned>>
  BY DEF locals, cacheVars, diskVars
<1>2. TypeOK'
  BY <1>1 DEF Inv, TypeOK
<1>3. Present' = Present /\ CurrentKey' = CurrentKey
  BY <1>1 DEF Present, CurrentKey, NoFiles, OddTimes
<1>4. ControlInv' /\ IndexInv'
  BY <1>1 DEF Inv, ControlInv, IndexInv, Indexing
<1>5. TimesInv' /\ KeyInv' /\ QuietInv'
  BY <1>1, <1>3 DEF Inv, TimesInv, KeyInv, QuietInv, Indexing, Current
<1> QED BY <1>2, <1>4, <1>5 DEF Inv

----------------------------------------------------------------------------
(* The theorems *)

LEMMA InvHolds == Spec => []Inv
<1>1. Init => Inv
  <2> SUFFICES ASSUME Init PROVE Inv
    OBVIOUS
  <2> USE CustomizationsAssumption DEF Init
  <2>1. NoKey \in Keys /\ All \in Requests /\ Present = {} /\ NoKey \subseteq 0 .. now
    BY DEF Keys, Requests, Present, NoKey
  <2>2. TypeOK
    <3>1. disk \in [Apps -> Files \cup {NoFile}]
      OBVIOUS
    <3>2. now \in 0 .. MaxTime
      OBVIOUS
    <3>3. todo \in SUBSET Apps /\ touched \in SUBSET Apps /\ returned \in SUBSET Apps
      OBVIOUS
    <3> QED BY <2>1, <3>1, <3>2, <3>3 DEF TypeOK
  <2>3. ControlInv /\ TimesInv /\ KeyInv /\ IndexInv /\ QuietInv
    BY <2>1 DEF ControlInv, TimesInv, KeyInv, IndexInv, QuietInv, Indexing
  <2> QED BY <2>2, <2>3 DEF Inv
<1>2. Inv /\ [Next]_vars => Inv'
  <2> SUFFICES ASSUME Inv, [Next]_vars PROVE Inv'
    OBVIOUS
  <2>1. ASSUME NEW r \in {All} \cup Asked,
               publish_customizations(r)
        PROVE  Inv'
    <3>1. r \in Requests
      BY CustomizationsAssumption DEF Requests
    <3> QED BY <2>1, <3>1, RequestStep
  <2>2. ASSUME NEW a \in Apps, get_cache_key(a) \/ NextEntry(a) PROVE Inv'
    BY <2>2, KeyStep, EntryStep
  <2>3. CASE KeyFails \/ KeyIsKnown \/ hash_file \/ calculate_chunks \/ IndexIsMade
    BY <2>3, KeyFailsStep, KnownStep, HashStep, ChunksStep, MadeStep
  <2>4. CASE IndexFails
    <3>1. chunk' \in [app : Apps, no : Nat, of : Blobs] \cup {NoFile}
      BY <2>4 DEF IndexFails, Inv, TypeOK
    <3> QED BY <2>4, <3>1, ReturnStep DEF IndexFails
  <2>5. CASE Publish
    <3>1. CASE InIndex(request)
      <4>1. request \in Apps \X Nat
        BY <3>1 DEF InIndex, Inv, TypeOK, Requests
      <4> QED BY <2>5, <3>1, <4>1, OnwardStep DEF Publish
    <3>2. CASE ~InIndex(request)
      <4>1. chunk' \in [app : Apps, no : Nat, of : Blobs] \cup {NoFile}
        BY <2>5 DEF Publish, Inv, TypeOK
      <4> QED BY <2>5, <3>2, <4>1, ReturnStep DEF Publish, Indexing
    <3> QED BY <3>1, <3>2
  <2>6. CASE CheckSize
    <3>1. chunk' \in [app : Apps, no : Nat, of : Blobs] \cup {NoFile}
      BY <2>6 DEF CheckSize, Inv, TypeOK
    <3> QED BY <2>6, <3>1, OnwardStep, ReturnStep DEF CheckSize, Indexing
  <2>7. CASE ReadChunk
    <3>1. request[1] \in Apps /\ request[2] \in Nat
      BY <2>7 DEF ReadChunk, Inv, ControlInv
    <3>2. disk[request[1]] # NoFile => disk[request[1]].blob \in Blobs
      BY <3>1, FileTyped DEF Present, Inv
    <3>3. chunk' \in [app : Apps, no : Nat, of : Blobs] \cup {NoFile}
      BY <2>7, <3>1, <3>2 DEF ReadChunk, Inv, TypeOK
    <3> QED BY <2>7, <3>3, ReturnStep DEF ReadChunk, Indexing
  <2>8. ASSUME NEW S \in (SUBSET Apps) \ {{}}, NEW blob \in Blobs, WriteFile(S, blob) PROVE Inv'
    BY <2>8, WriteStep
  <2>11. ASSUME NEW a \in Apps, NEW file \in Restored, RestoreFile(a, file) PROVE Inv'
    BY <2>11, RestoreStep, CustomizationsAssumption
  <2>9. ASSUME NEW a \in Apps, RemoveFile(a) PROVE Inv'
    BY <2>9, RemoveStep
  <2>10. CASE UNCHANGED vars
    BY <2>10 DEF vars, cacheVars, handlerVars, diskVars, Inv, TypeOK, ControlInv, TimesInv,
       KeyInv, IndexInv, QuietInv, ToCome, Present, Current, CurrentKey, NoFiles, KeyOf, OddTimes
  <2> QED BY <2>1, <2>2, <2>3, <2>4, <2>5, <2>6, <2>7, <2>8, <2>9, <2>10, <2>11
     DEF Next, Handler
<1> QED BY <1>1, <1>2, PTL DEF Spec

\* The type invariant: the index, its key and the chunk that is published keep
\* their types, whatever becomes of the files while they are looked at.
THEOREM TypeCorrect == Spec => []TypeOK
<1>1. Inv => TypeOK
  BY DEF Inv
<1> QED BY <1>1, InvHolds, PTL

\* An index whose key is that of the files tells of every app that the key can
\* tell about what it is: no interleaving of writes, removals and returns with a
\* scan hides another change from the next scans.
THEOREM IndexGoesWithKey == Spec => []ListedIsCurrent
<1>1. Inv => ListedIsCurrent
  BY DEF Inv, KeyInv, ListedIsCurrent, Shown, Indexing
<1> QED BY <1>1, InvHolds, PTL

\* A chunk is of the file whose hash was published, if none was changed since
\* the request, for every app that the key can tell about.
THEOREM ChunksGoWithHash == Spec => ChunkAsListed
<1> DEFINE AsListed == chunk' \notin {chunk, NoFile} /\ touched = {} /\ Shown(chunk'.app)
                         => chunk'.of = m_apps_cache[chunk'.app].sha256
<1>1. Inv /\ [Next]_vars => [AsListed]_vars
  <2> SUFFICES ASSUME Inv, Next, chunk' \notin {chunk, NoFile}, touched = {}, Shown(chunk'.app)
               PROVE  chunk'.of = m_apps_cache[chunk'.app].sha256
    OBVIOUS
  <2>1. ReadChunk
    BY DEF Next, Handler, publish_customizations, get_cache_key, NextEntry, KeyFails, KeyIsKnown,
       IndexFails, hash_file, calculate_chunks, IndexIsMade, Publish, CheckSize, WriteFile,
       RestoreFile, RemoveFile, handlerVars
  <2> DEFINE a == request[1]
  <2>2. chunk' = [app |-> a, no |-> request[2], of |-> disk[a].blob]
    BY <2>1 DEF ReadChunk
  <2>3. chunk'.app = a /\ chunk'.of = disk[a].blob
    BY <2>2
  <2>4. m_apps_cache_hash = CurrentKey
    BY <2>1 DEF ReadChunk, Inv, QuietInv
  <2>5. a \in Present \ returned /\ disk[a].time \in m_apps_cache_hash
    BY <2>3, <2>4 DEF Shown
  <2>6. Current(a)
    BY <2>1, <2>5 DEF ReadChunk, Inv, KeyInv, Indexing
  <2> QED BY <2>3, <2>6 DEF Current
<1> QED BY <1>1, InvHolds, PTL DEF Spec, ChunkAsListed

=============================================================================
