---------------------------- MODULE AssetDownload ----------------------------
(***************************************************************************)
(* download_verified_panda_menagerie.py: the files of the simulated robot  *)
(* are fetched one by one into a .partial file, which becomes the target   *)
(* when it has the Git blob id of the manifest.  The script may fail, be   *)
(* killed at any point, and be run again on what it left.                  *)
(*                                                                         *)
(* The content of a file is a sequence of blocks: blob f is <<1, ..., n>>, *)
(* and 0 is a block of anything else.  No file, and a file nothing was     *)
(* written to, are both <<>>.                                              *)
(***************************************************************************)
EXTENDS Integers, Sequences

CONSTANTS
    NumFiles,          \* entries of the manifest
    Size,              \* file -> blocks of its blob
    NumMirrors,        \* URL templates
    MaxRetries,        \* retries of one curl
    LongestBody,       \* bound: blocks of an answer that is not the blob
    MaxRuns            \* bound: how often the script is started

Files == 1..NumFiles
Mirrors == 1..NumMirrors

ASSUME DownloadAssumption ==
    /\ NumFiles \in Nat \ {0}
    /\ Size \in [Files -> Nat \ {0}]
    /\ NumMirrors \in Nat \ {0}
    /\ MaxRetries \in Nat
    /\ LongestBody \in Nat
    /\ MaxRuns \in Nat \ {0}

VARIABLES
    phase,             \* where in main() and download() the script is
    sizesKnown,        \* the manifest came from the Tree API
    file, mirror,      \* loop variables
    target, partial,   \* content of both files of every entry
    curl,              \* the transfer that is awaited
    orphans,           \* transfers that outlived their script
    status,            \* files verified according to download_status.json
    runs,              \* starts of the script
    began,             \* history: the partial file when the transfer began
    orphaned           \* history: files that had an orphan

histories == <<began, orphaned>>

downloadVars == <<phase, sizesKnown, file, mirror, target, partial, curl,
                  orphans, status, runs, histories>>

-----------------------------------------------------------------------------
Blob(f) == [i \in 1..Size[f] |-> i]

(* Mutation of Verified: the length is all that is compared. *)
MutLengthOnly(content, f) == Len(content) = Size[f]

(* The blob id is a hash over length and content. *)
Verified(content, f) == content = Blob(f)

VerifiedTargets == {f \in Files : Verified(target[f], f)}

(* Mutation of Oversized: a partial of full length is one. *)
MutFullIsOversized(f) == sizesKnown /\ Len(partial[f]) >= Size[f]

(* Only the Tree API tells sizes. *)
Oversized(f) == sizesKnown /\ Len(partial[f]) > Size[f]

(* Mutation of MirrorsAreTried: one more is tried. *)
MutMirrorsAreTried == mirror > NumMirrors

MirrorsAreTried == mirror >= NumMirrors

(* A transfer continues at the end of the file.  An answer to a range      *)
(* request that is not that range is refused by curl; the answer to a      *)
(* request for the whole file may be anything, also an error page, which   *)
(* --fail-with-body saves.                                                 *)
MayBeWrong(start) == IF start = 0 THEN BOOLEAN ELSE {FALSE}

(* A file that is resumed is opened at once, a new one with the first      *)
(* block of an answer.                                                     *)
Transfers(f) ==
    LET start == Len(partial[f])
    IN  [file : {f}, run : {runs}, start : {start}, next : {start + 1},
         retries : {MaxRetries}, wrong : MayBeWrong(start),
         into : {IF start = 0 THEN "none" ELSE "partial"}]

NoTransfer ==
    [file |-> 1, run |-> 0, start |-> 0, next |-> 1, retries |-> 0,
     wrong |-> FALSE, into |-> "none"]

HasMore(c) == c.next <= IF c.wrong THEN LongestBody ELSE Size[c.file]

(* A resumed file is open for appending.  Opening a new one empties it;    *)
(* then each block goes to its own place, whatever others did to the file. *)
Written(content, c) ==
    LET block == IF c.wrong THEN 0 ELSE c.next
        length == IF Len(content) < c.next THEN c.next ELSE Len(content)
    IN  IF c.start > 0 THEN Append(content, block)
        ELSE IF c.into = "none" THEN <<block>>
        ELSE [i \in 1..length |->
                 IF i = c.next THEN block
                 ELSE IF i <= Len(content) THEN content[i] ELSE 0]

AfterBlock(c) ==
    [c EXCEPT !.next = @ + 1,
              !.into = IF c.into = "target" THEN "target" ELSE "partial"]

(* Before a retry curl sets the file back to the length it had when the    *)
(* transfer began, if the attempt wrote to it; the range is the same.      *)
SetBack(content, c) ==
    IF c.next = c.start + 1 THEN content
    ELSE [i \in 1..c.start |-> IF i <= Len(content) THEN content[i] ELSE 0]

Retried(c) ==
    {[c EXCEPT !.next = c.start + 1, !.retries = @ - 1, !.wrong = w] :
        w \in MayBeWrong(c.start)}

-----------------------------------------------------------------------------
Init ==
    /\ phase = "down"
    /\ sizesKnown = FALSE
    /\ file = 1
    /\ mirror = 1
    /\ target = [f \in Files |-> <<>>]
    /\ partial = [f \in Files |-> <<>>]
    /\ curl = NoTransfer
    /\ orphans = {}
    /\ status = {}
    /\ runs = 0
    /\ began = <<>>
    /\ orphaned = {}

StartScript ==
    /\ phase \in {"down", "failed", "complete"}
    /\ runs < MaxRuns
    /\ runs' = runs + 1
    /\ phase' = "reading"
    /\ UNCHANGED <<sizesKnown, file, mirror, target, partial, curl, orphans,
                   status, histories>>

(* Entries from the local Git tree, without sizes, or from the API. *)
ReadManifest ==
    /\ phase = "reading"
    /\ sizesKnown' \in BOOLEAN
    /\ status' = VerifiedTargets
    /\ file' = 1
    /\ phase' = "checking"
    /\ UNCHANGED <<mirror, target, partial, curl, orphans, runs, histories>>

ManifestFails ==
    /\ phase = "reading"
    /\ phase' = "failed"
    /\ UNCHANGED <<sizesKnown, file, mirror, target, partial, curl, orphans,
                   status, runs, histories>>

TargetIsVerified ==
    /\ phase = "checking"
    /\ Verified(target[file], file)
    /\ phase' = "reporting"
    /\ UNCHANGED <<sizesKnown, file, mirror, target, partial, curl, orphans,
                   status, runs, histories>>

TargetIsMissing ==
    /\ phase = "checking"
    /\ ~Verified(target[file], file)
    /\ IF Oversized(file)
       THEN /\ partial' = [partial EXCEPT ![file] = <<>>]
            /\ orphans' = {o \in orphans :
                               o.file # file \/ o.into # "partial"}
       ELSE UNCHANGED <<partial, orphans>>
    /\ mirror' = 1
    /\ phase' = "asking"
    /\ UNCHANGED <<sizesKnown, file, target, curl, status, runs, histories>>

StartCurl ==
    /\ phase = "asking"
    /\ curl' \in Transfers(file)
    /\ began' = partial[file]
    /\ phase' = "fetching"
    /\ UNCHANGED <<sizesKnown, file, mirror, target, partial, orphans, status,
                   runs, orphaned>>

CurlWrites ==
    /\ phase = "fetching"
    /\ HasMore(curl)
    /\ partial' = [partial EXCEPT ![file] = Written(@, curl)]
    /\ curl' = AfterBlock(curl)
    /\ UNCHANGED <<phase, sizesKnown, file, mirror, target, orphans, status,
                   runs, histories>>

(* An attempt fails, with an error status of the server, a lost connection *)
(* or too low a speed, and is made again.                                  *)
CurlRetries ==
    /\ phase = "fetching"
    /\ curl.retries > 0
    /\ partial' = [partial EXCEPT ![file] = SetBack(@, curl)]
    /\ curl' \in Retried(curl)
    /\ UNCHANGED <<phase, sizesKnown, file, mirror, target, orphans, status,
                   runs, histories>>

(* With whatever exit code; it is not looked at. *)
CurlEnds ==
    /\ phase = "fetching"
    /\ phase' = "verifying"
    /\ curl' = NoTransfer
    /\ began' = <<>>
    /\ UNCHANGED <<sizesKnown, file, mirror, target, partial, orphans, status,
                   runs, orphaned>>

PartialIsVerified ==
    /\ phase = "verifying"
    /\ Verified(partial[file], file)
    /\ phase' = "promoting"
    /\ UNCHANGED <<sizesKnown, file, mirror, target, partial, curl, orphans,
                   status, runs, histories>>

SourceFails ==
    /\ phase = "verifying"
    /\ ~Verified(partial[file], file)
    /\ ~MirrorsAreTried
    /\ mirror' = mirror + 1
    /\ phase' = "asking"
    /\ UNCHANGED <<sizesKnown, file, target, partial, curl, orphans, status,
                   runs, histories>>

(* Mutation of VerificationFails: the next entry is tried. *)
MutFailureIsReported ==
    /\ phase = "verifying"
    /\ ~Verified(partial[file], file)
    /\ MirrorsAreTried
    /\ phase' = "reporting"
    /\ UNCHANGED <<sizesKnown, file, mirror, target, partial, curl, orphans,
                   status, runs, histories>>

(* The RuntimeError ends the script. *)
VerificationFails ==
    /\ phase = "verifying"
    /\ ~Verified(partial[file], file)
    /\ MirrorsAreTried
    /\ phase' = "failed"
    /\ UNCHANGED <<sizesKnown, file, mirror, target, partial, curl, orphans,
                   status, runs, histories>>

(* os.replace: who has the partial file open goes on in the target, and    *)
(* who had the old target open in a file without a name.                   *)
Promote ==
    /\ phase = "promoting"
    /\ target' = [target EXCEPT ![file] = partial[file]]
    /\ partial' = [partial EXCEPT ![file] = <<>>]
    /\ orphans' = {o \in orphans : o.file # file \/ o.into = "none"}
                  \cup {[o EXCEPT !.into = "target"] :
                            o \in {p \in orphans : /\ p.file = file
                                                   /\ p.into = "partial"}}
    /\ phase' = "reporting"
    /\ UNCHANGED <<sizesKnown, file, mirror, curl, status, runs, histories>>

(* write_status replaces the status file; then the next entry. *)
WriteStatus ==
    /\ phase = "reporting"
    /\ status' = VerifiedTargets
    /\ IF file < NumFiles
       THEN file' = file + 1 /\ phase' = "checking"
       ELSE phase' = "complete" /\ UNCHANGED file
    /\ UNCHANGED <<sizesKnown, mirror, target, partial, curl, orphans, runs,
                   histories>>

-----------------------------------------------------------------------------
(* The script is interrupted or killed.  subprocess.run ends its child on  *)
(* an exception, but not when the interpreter itself is killed.            *)
Killed ==
    /\ phase \notin {"down", "failed", "complete"}
    /\ phase' = "down"
    /\ curl' = NoTransfer
    /\ began' = <<>>
    /\ \/ UNCHANGED <<orphans, orphaned>>
       \/ /\ phase = "fetching"
          /\ orphans' = orphans \cup {curl}
          /\ orphaned' = orphaned \cup {file}
    /\ UNCHANGED <<sizesKnown, file, mirror, target, partial, status, runs>>

(* An orphan works on the file it has open, under its present name; a file *)
(* it opens only now is the partial one.                                   *)
OpenFile(o) == IF o.into = "target" THEN target[o.file] ELSE partial[o.file]

OrphanLeaves(o, content) ==
    IF o.into = "target"
    THEN /\ target' = [target EXCEPT ![o.file] = content]
         /\ UNCHANGED partial
    ELSE /\ partial' = [partial EXCEPT ![o.file] = content]
         /\ UNCHANGED target

OrphanWrites(o) ==
    /\ HasMore(o)
    /\ OrphanLeaves(o, Written(OpenFile(o), o))
    /\ orphans' = (orphans \ {o}) \cup {AfterBlock(o)}
    /\ UNCHANGED <<phase, sizesKnown, file, mirror, curl, status, runs,
                   histories>>

OrphanRetries(o) ==
    /\ o.retries > 0
    /\ OrphanLeaves(o, SetBack(OpenFile(o), o))
    /\ \E r \in Retried(o) : orphans' = (orphans \ {o}) \cup {r}
    /\ UNCHANGED <<phase, sizesKnown, file, mirror, curl, status, runs,
                   histories>>

OrphanEnds(o) ==
    /\ orphans' = orphans \ {o}
    /\ UNCHANGED <<phase, sizesKnown, file, mirror, target, partial, curl,
                   status, runs, histories>>

Next ==
    \/ StartScript \/ ReadManifest \/ ManifestFails
    \/ TargetIsVerified \/ TargetIsMissing
    \/ StartCurl \/ CurlWrites \/ CurlRetries \/ CurlEnds
    \/ PartialIsVerified \/ SourceFails \/ VerificationFails
    \/ Promote \/ WriteStatus
    \/ Killed
    \/ \E o \in orphans : OrphanWrites(o) \/ OrphanRetries(o) \/ OrphanEnds(o)

DownloadSpec == Init /\ [][Next]_downloadVars
-----------------------------------------------------------------------------
Phases ==
    {"down", "reading", "checking", "asking", "fetching", "verifying",
     "promoting", "reporting", "complete", "failed"}

AllTransfers ==
    [file : Files, run : 0..MaxRuns, start : Nat, next : Nat \ {0},
     retries : 0..MaxRetries, wrong : BOOLEAN,
     into : {"none", "partial", "target"}]

DownloadTypeOK ==
    /\ phase \in Phases
    /\ sizesKnown \in BOOLEAN
    /\ file \in Files
    /\ mirror \in Mirrors
    /\ target \in [Files -> Seq(Nat)]
    /\ partial \in [Files -> Seq(Nat)]
    /\ curl \in AllTransfers
    /\ orphans \subseteq AllTransfers
    /\ status \subseteq Files
    /\ runs \in 0..MaxRuns
    /\ began \in Seq(Nat)
    /\ orphaned \subseteq Files

(* A target is absent or the verified blob, through failures, interrupts   *)
(* and reruns.  Only a transfer that outlived its script can spoil it: it  *)
(* still writes to the file after os.replace (lines 170-171).              *)
SpoiltTargetNeedsOrphan ==
    \A f \in Files : target[f] \in {<<>>, Blob(f)} \/ f \in orphaned

(* download_status.json lists only verified targets, also after a crash    *)
(* between promotion and write_status, and PANDA_ASSET_VERIFIED is printed *)
(* only when it lists every one, orphans excepted (lines 119-131, 187-190).*)
StatusNeverOverstates ==
    /\ \A f \in status : Verified(target[f], f) \/ f \in orphaned
    /\ phase = "complete" => Files \ orphaned \subseteq status

Continues(content, earlier) ==
    /\ Len(earlier) <= Len(content)
    /\ \A i \in 1..Len(earlier) : content[i] = earlier[i]

(* What a partial file is sure to have: while a transfer is under way, the *)
(* bytes it had when the transfer began, as a retry of curl takes back     *)
(* what its failed attempts fetched.                                       *)
SureOf(f) == IF phase = "fetching" /\ f = file THEN began ELSE partial[f]

(* A verified target stays, and of a partial file that is a part of the    *)
(* blob no step takes back what was there when the transfer began: it is   *)
(* neither discarded nor written over by the mirrors, retries and runs     *)
(* that continue it, and the full one that a killed script did not promote *)
(* becomes the target (lines 138-142, 152-154, 163-171).                   *)
FetchedBytesAreKept ==
    [][\A f \in Files \ orphaned' :
        /\ Verified(target[f], f) => target'[f] = target[f]
        /\ Continues(Blob(f), SureOf(f))
                => \/ Continues(partial'[f], SureOf(f))
                   \/ /\ Verified(target'[f], f)
                      /\ partial'[f] = <<>>]_downloadVars

(* The error of a failed verification says "partial is retained for        *)
(* resume" (line 178), and docs/STAGE_08_SIMULATION_READINESS.md:74-76     *)
(* that the downloader is resumable and falls back to another mirror: what *)
(* a failed script leaves can be completed to the blob.                    *)
RetainedPartialIsResumable ==
    phase = "failed" =>
        \A f \in Files \ orphaned : Continues(Blob(f), partial[f])
=============================================================================
