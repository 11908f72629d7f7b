----------------------------- MODULE ToolingCache -----------------------------
(***************************************************************************)
(* docker-clab-frr-plus-tooling/build.sh: the image every container of a   *)
(* lab runs, and its cache, one archive and one image-id file per cache    *)
(* key (the hash of the files the image is built from).                    *)
(*                                                                         *)
(* The script takes no lock.  The host program calls it under its own      *)
(* lock, deploy-clab.sh and the cache updater without one, so several runs *)
(* may be under way; they share the docker tag and the cache directory.    *)
(*                                                                         *)
(* A docker image is an id with the key its label carries; two builds of   *)
(* the same key have different ids.                                        *)
(***************************************************************************)
EXTENDS Naturals, Sequences

CONSTANTS
    Keys,           \* cache keys: versions of the build inputs
    Runs,           \* runs of the script
    KeyOf,          \* the key each run computes
    ForceRebuild,   \* CLAB_FRR_TOOLING_REBUILD, per run
    SaveCache,      \* CLAB_FRR_TOOLING_SAVE_CACHE
    AllowExisting,  \* CLAB_FRR_TOOLING_ALLOW_EXISTING_IMAGE
    NoKey,          \* the label of an image built by something else
    MaxRuns         \* bound: how often runs begin in all

ASSUME KeysAssumption == NoKey \notin Keys /\ KeyOf \in [Runs -> Keys]
ASSUME FlagsAssumption ==
    /\ ForceRebuild \in [Runs -> BOOLEAN]
    /\ SaveCache \in BOOLEAN
    /\ AllowExisting \in [Runs -> BOOLEAN]
ASSUME MaxRunsAssumption == MaxRuns \in Nat \ {0}

VARIABLES
    place,     \* where each run is
    present,   \* CACHE_PRESENT_AT_START of each run
    built,     \* CACHE_BUILT
    saved,     \* CACHE_SAVED
    count,     \* how often runs have begun
    image,     \* what the docker tag names
    tar,       \* the archive of each key
    idFile,    \* the image-id file of each key
    origin,    \* history: the key that the image of each id was built for
    mixed      \* history: runs with different inputs have been under way at once

toolingVars == <<place, present, built, saved, count, image, tar, idFile, origin, mixed>>
flagVars == <<present, built, saved>>
cacheVars == <<tar, idFile>>

\* Id 1 is an image that something else built; every build takes the next id.  The
\* script treats a missing and an empty id file alike.
Ids == 1 .. (MaxRuns + 1)
NoId == 0
Foreign == [id |-> 1, key |-> NoKey]
Images == [id : Ids, key : Keys \cup {NoKey}]
NoImage == [id |-> NoId, key |-> NoKey]

Places == {"idle", "load", "decide", "build", "save", "saveId", "use", "seed",
        "diagnose", "evidence", "ready", "skipped", "unsaved", "failed"}
Ended == {"ready", "skipped", "unsaved", "failed"}

CacheTypeOK ==
    /\ place \in [Runs -> Places]
    /\ present \in [Runs -> BOOLEAN]
    /\ built \in [Runs -> BOOLEAN]
    /\ saved \in [Runs -> BOOLEAN]
    /\ count \in 0 .. MaxRuns
    /\ image \in Images \cup {NoImage}
    /\ tar \in [Keys -> Images \cup {NoImage}]
    /\ idFile \in [Keys -> Ids \cup {NoId}]
    /\ origin \in Seq(Keys \cup {NoKey}) /\ Len(origin) \in Ids
    /\ mixed \in BOOLEAN

\* The host may have no image or one that something else built.
CacheInit ==
    /\ place = [r \in Runs |-> "idle"]
    /\ present = [r \in Runs |-> FALSE]
    /\ built = [r \in Runs |-> FALSE]
    /\ saved = [r \in Runs |-> FALSE]
    /\ count = 0
    /\ image \in {NoImage, Foreign}
    /\ tar = [k \in Keys |-> NoImage]
    /\ idFile = [k \in Keys |-> NoId]
    /\ origin = <<Foreign.key>>
    /\ mixed = FALSE

Active(r) == place[r] \notin {"idle"} \cup Ended
Goto(r, there) == place' = [place EXCEPT ![r] = there]

\* current_id against the content of the image-id file.
HasImage == image # NoImage
IdMatches(k) == HasImage /\ idFile[k] = image.id
MatchesCacheKey(k) == image.key = k \/ IdMatches(k)
AnyImageIsUsable(r) == HasImage
IsUsable(r) == MatchesCacheKey(KeyOf[r]) \/ (AllowExisting[r] /\ HasImage)

-----------------------------------------------------------------------------
Begin(r) ==
    /\ ~Active(r)
    /\ count < MaxRuns
    /\ count' = count + 1
    /\ present' = [present EXCEPT ![r] = tar[KeyOf[r]] # NoImage]
    /\ built' = [built EXCEPT ![r] = FALSE]
    /\ saved' = [saved EXCEPT ![r] = FALSE]
    /\ mixed' = (mixed \/ \E q \in Runs : Active(q) /\ KeyOf[q] # KeyOf[r])
    /\ Goto(r, "load")
    /\ UNCHANGED <<image, cacheVars, origin>>

\* maybe_load_cached_image: not if the image is usable and its id is the one of
\* the id file, or that file says nothing.
LoadNotNeeded(r) ==
    /\ IsUsable(r) /\ HasImage
    /\ idFile[KeyOf[r]] = NoId \/ IdMatches(KeyOf[r])

MaybeLoadCachedImage(r) ==
    /\ place[r] = "load"
    /\ image' = IF tar[KeyOf[r]] = NoImage \/ LoadNotNeeded(r)
                THEN image ELSE tar[KeyOf[r]]
    /\ Goto(r, "decide")
    /\ UNCHANGED <<flagVars, count, cacheVars, origin, mixed>>

Decide(r) ==
    /\ place[r] = "decide"
    /\ Goto(r, IF ForceRebuild[r] \/ ~IsUsable(r) THEN "build" ELSE "use")
    /\ UNCHANGED <<flagVars, count, image, cacheVars, origin, mixed>>

\* docker build and the verification of what it built.
Build(r) ==
    /\ place[r] = "build"
    /\ origin' = Append(origin, KeyOf[r])
    /\ image' = [id |-> Len(origin'), key |-> KeyOf[r]]
    /\ built' = [built EXCEPT ![r] = TRUE]
    /\ Goto(r, IF SaveCache THEN "save" ELSE "diagnose")
    /\ UNCHANGED <<present, saved, count, cacheVars, mixed>>

\* The image that is there is verified, and seeds an absent cache.
UseExisting(r) ==
    /\ place[r] = "use"
    /\ HasImage
    /\ Goto(r, IF SaveCache /\ tar[KeyOf[r]] = NoImage THEN "seed" ELSE "diagnose")
    /\ UNCHANGED <<flagVars, count, image, cacheVars, origin, mixed>>

\* docker save of whatever the tag names by now.
SaveTar(r) ==
    /\ place[r] \in {"save", "seed"}
    /\ HasImage
    /\ tar' = [tar EXCEPT ![KeyOf[r]] = image]
    /\ Goto(r, "saveId")
    /\ UNCHANGED <<flagVars, count, image, idFile, origin, mixed>>

\* `current_id > file`: the id of whatever the tag names by then, or nothing.
SaveId(r) ==
    /\ place[r] = "saveId"
    /\ idFile' = [idFile EXCEPT ![KeyOf[r]] = image.id]
    /\ saved' = [saved EXCEPT ![r] = TRUE]
    /\ Goto(r, "diagnose")
    /\ UNCHANGED <<present, built, count, image, tar, origin, mixed>>

\* The two diagnostics that keep a cache miss from passing as ready.
Diagnose(r) ==
    /\ place[r] = "diagnose"
    /\ Goto(r, IF ~present[r] /\ ~built[r] THEN "skipped"
               ELSE IF ~present[r] /\ ~saved[r] THEN "unsaved"
               ELSE "evidence")
    /\ UNCHANGED <<flagVars, count, image, cacheVars, origin, mixed>>

WriteCacheEvidence(r) ==
    /\ place[r] = "evidence"
    /\ Goto(r, "ready")
    /\ UNCHANGED <<flagVars, count, image, cacheVars, origin, mixed>>

\* A docker command fails, a check finds no image, or the script is killed; killed
\* while it writes the id file it leaves that file empty.
Stops(r) ==
    /\ Active(r)
    /\ Goto(r, "failed")
    /\ \/ UNCHANGED idFile
       \/ place[r] = "saveId" /\ idFile' = [idFile EXCEPT ![KeyOf[r]] = NoId]
    /\ UNCHANGED <<flagVars, count, image, tar, origin, mixed>>

\* An operator or a prune removes the image.
ImageRemoved ==
    /\ HasImage
    /\ image' = NoImage
    /\ UNCHANGED <<place, flagVars, count, cacheVars, origin, mixed>>

CacheNext ==
    \/ \E r \in Runs :
          \/ Begin(r) \/ MaybeLoadCachedImage(r) \/ Decide(r) \/ Build(r)
          \/ UseExisting(r) \/ SaveTar(r) \/ SaveId(r) \/ Diagnose(r)
          \/ WriteCacheEvidence(r) \/ Stops(r)
    \/ ImageRemoved

CacheSpec == CacheInit /\ [][CacheNext]_toolingVars

-----------------------------------------------------------------------------
(***************************************************************************)
(* What must hold of the image cache, whichever runs are interleaved or    *)
(* interrupted.                                                            *)
(***************************************************************************)

\* Only builds of the inputs themselves get into the cache: as long as no runs with
\* different inputs have been under way at once, and no run accepts a foreign image,
\* the archive of a key holds an image that was built for that key and the id file
\* names one, whatever versions were built before, on the same tag, and even if the
\* two come from different builds because runs overlapped or one was killed.  Nothing
\* in the script keeps runs with different inputs apart (build.sh:195).
NoForeign == \A r \in Runs : ~AllowExisting[r]
KeptApart == ~mixed /\ NoForeign

CacheHoldsItsKey ==
    KeptApart =>
        \A k \in Keys :
            /\ tar[k] # NoImage => tar[k].key = k
            /\ idFile[k] # NoId => origin[idFile[k]] = k

\* A run reports ready only if, at some time before, the locked inputs were built
\* and the archive of its key exists.
WasBuilt(k) == \E i \in DOMAIN origin : origin[i] = k
ReadyMeansCached ==
    KeptApart /\ SaveCache =>
        \A r \in Runs : place[r] = "ready" => WasBuilt(KeyOf[r]) /\ tar[KeyOf[r]] # NoImage

\* A run that is refused because it used an existing image has left an archive,
\* so that the same command succeeds when it is repeated.
RefusedRunSeeded ==
    SaveCache => \A r \in Runs : place[r] = "skipped" => tar[KeyOf[r]] # NoImage
=============================================================================
