------------------------- MODULE AssetDownloadProofs -------------------------
(***************************************************************************)
(* Theorems about AssetDownload, for every manifest, every number of       *)
(* mirrors and any number of runs.                                         *)
(***************************************************************************)
EXTENDS AssetDownload, TLAPS

USE DEF Files, Mirrors, histories

(* Every orphan is of a file that history says has one. *)
OrphansAreRecorded == \A o \in orphans : o.file \in orphaned

(* The transfer that is awaited is the one of this file.  Without an orphan *)
(* it writes behind what is there, and what was there when it began is.     *)
TransferInStep ==
    phase = "fetching" =>
        /\ curl.file = file
        /\ file \notin orphaned =>
            /\ curl.next = Len(partial[file]) + 1
            /\ curl.into = "none" => partial[file] = <<>>
            /\ curl.start = Len(began)
            /\ Continues(partial[file], began)

(* What is about to be promoted was verified. *)
PromotionInStep ==
    phase = "promoting" => Verified(partial[file], file) \/ file \in orphaned

(* The entries behind the loop have their targets. *)
Passed ==
    CASE phase \in {"checking", "asking", "fetching", "verifying",
                    "promoting"} -> 1..(file - 1)
      [] phase = "reporting" -> 1..file
      [] OTHER -> {}

PassedAreVerified ==
    \A f \in Passed : Verified(target[f], f) \/ f \in orphaned

DownloadInv ==
    /\ DownloadTypeOK
    /\ OrphansAreRecorded
    /\ TransferInStep
    /\ PromotionInStep

-----------------------------------------------------------------------------
(* A blob is a sequence of as many blocks as the manifest says. *)
LEMMA BlobType ==
    ASSUME NEW f \in Files
    PROVE  /\ Blob(f) \in Seq(Nat)
           /\ Len(Blob(f)) = Size[f]
           /\ Size[f] \in Nat \ {0}
BY DownloadAssumption DEF Blob

(* What a sequence is. *)
LEMMA SequenceIsFunction ==
    ASSUME NEW n \in Nat, NEW s \in [1..n -> Nat]
    PROVE  s \in Seq(Nat)
OBVIOUS

(* Writing a block keeps a file a sequence of blocks. *)
LEMMA WrittenType ==
    ASSUME NEW content \in Seq(Nat), NEW c \in AllTransfers
    PROVE  Written(content, c) \in Seq(Nat)
<1> DEFINE block == IF c.wrong THEN 0 ELSE c.next
           length == IF Len(content) < c.next THEN c.next ELSE Len(content)
           placed == [i \in 1..length |->
                         IF i = c.next THEN block
                         ELSE IF i <= Len(content) THEN content[i] ELSE 0]
<1>1. block \in Nat /\ length \in Nat
  BY DEF AllTransfers
<1>2. Written(content, c) \in {Append(content, block), <<block>>, placed}
  BY DEF Written
<1> HIDE DEF block, length
<1>3. Append(content, block) \in Seq(Nat) /\ <<block>> \in Seq(Nat)
  BY <1>1
<1>4. placed \in [1..length -> Nat]
  <2>1. ASSUME NEW i \in 1..length
        PROVE  (IF i = c.next THEN block
                ELSE IF i <= Len(content) THEN content[i] ELSE 0) \in Nat
    BY <1>1, <2>1
  <2> QED
    BY <2>1
<1>5. placed \in Seq(Nat)
  BY <1>1, <1>4, SequenceIsFunction
<1> QED
  BY <1>2, <1>3, <1>5

(* A block written behind the end of a file leaves what is before it. *)
LEMMA WrittenContinues ==
    ASSUME NEW content \in Seq(Nat), NEW c \in AllTransfers,
           c.next = Len(content) + 1, c.into = "none" => content = <<>>
    PROVE  /\ Continues(Written(content, c), content)
           /\ Len(Written(content, c)) = Len(content) + 1
<1> DEFINE block == IF c.wrong THEN 0 ELSE c.next
<1>1. Len(content) \in Nat
  OBVIOUS
<1>2. CASE c.start > 0
  <2>1. Written(content, c) = Append(content, block)
    BY <1>2 DEF Written
  <2> HIDE DEF block
  <2> QED
    BY <1>1, <2>1 DEF Continues
<1>3. CASE ~(c.start > 0) /\ c.into = "none"
  <2>1. Written(content, c) = <<block>> /\ content = <<>>
    BY <1>3 DEF Written
  <2> HIDE DEF block
  <2> QED
    BY <2>1 DEF Continues
<1>4. CASE ~(c.start > 0) /\ c.into # "none"
  <2>1. Written(content, c) =
            [i \in 1..(Len(content) + 1) |->
                IF i = c.next THEN block
                ELSE IF i <= Len(content) THEN content[i] ELSE 0]
    BY <1>1, <1>4 DEF Written
  <2> HIDE DEF block
  <2>2. Len(Written(content, c)) = Len(content) + 1
    BY <1>1, <2>1
  <2>3. ASSUME NEW i \in 1..Len(content)
        PROVE  Written(content, c)[i] = content[i]
    BY <1>1, <2>1
  <2> QED
    BY <1>1, <2>2, <2>3 DEF Continues
<1> QED
  BY <1>2, <1>3, <1>4

(* So does setting it back. *)
LEMMA SetBackType ==
    ASSUME NEW content \in Seq(Nat), NEW c \in AllTransfers
    PROVE  SetBack(content, c) \in Seq(Nat)
<1> DEFINE kept == [i \in 1..c.start |->
                       IF i <= Len(content) THEN content[i] ELSE 0]
<1>1. c.start \in Nat
  BY DEF AllTransfers
<1>2. kept \in [1..c.start -> Nat]
  BY <1>1
<1>3. kept \in Seq(Nat)
  BY <1>1, <1>2, SequenceIsFunction
<1> QED
  BY <1>3 DEF SetBack

(* A file that is set back has what it had when the transfer began.        *)
LEMMA SetBackContinues ==
    ASSUME NEW content \in Seq(Nat), NEW c \in AllTransfers,
           NEW earlier \in Seq(Nat), c.start = Len(earlier),
           c.next = Len(content) + 1, Continues(content, earlier)
    PROVE  /\ Continues(SetBack(content, c), earlier)
           /\ Len(SetBack(content, c)) = c.start
           /\ content = <<>> => SetBack(content, c) = <<>>
<1>1. /\ Len(content) \in Nat /\ Len(earlier) \in Nat
      /\ Len(earlier) <= Len(content)
  BY DEF Continues
<1>2. CASE c.next = c.start + 1
  BY <1>1, <1>2 DEF SetBack, Continues
<1>3. CASE c.next # c.start + 1
  <2>1. SetBack(content, c) =
            [i \in 1..c.start |->
                IF i <= Len(content) THEN content[i] ELSE 0]
    BY <1>3 DEF SetBack
  <2>2. Len(SetBack(content, c)) = c.start
    BY <1>1, <2>1
  <2>3. ASSUME NEW i \in 1..Len(earlier)
        PROVE  SetBack(content, c)[i] = earlier[i]
    BY <1>1, <2>1 DEF Continues
  <2>4. content # <<>>
    BY <1>1, <1>3
  <2> QED
    BY <1>1, <2>2, <2>3, <2>4 DEF Continues
<1> QED
  BY <1>2, <1>3

(* A new transfer continues where its partial file ends. *)
LEMMA TransfersType ==
    ASSUME NEW f \in Files, partial[f] \in Seq(Nat), runs \in 0..MaxRuns,
           NEW c \in Transfers(f)
    PROVE  /\ c \in AllTransfers
           /\ c.file = f
           /\ c.start = Len(partial[f])
           /\ c.next = Len(partial[f]) + 1
           /\ c.into = "none" => partial[f] = <<>>
<1>1. Len(partial[f]) \in Nat /\ Len(partial[f]) + 1 \in Nat \ {0}
  OBVIOUS
<1>2. MaxRetries \in 0..MaxRetries
  BY DownloadAssumption
<1>3. Len(partial[f]) = 0 => partial[f] = <<>>
  OBVIOUS
<1> QED
  BY <1>1, <1>2, <1>3 DEF Transfers, AllTransfers, MayBeWrong

(* A transfer that wrote a block is one that has written one more. *)
LEMMA NextType ==
    ASSUME NEW c \in AllTransfers
    PROVE  /\ AfterBlock(c) \in AllTransfers
           /\ AfterBlock(c).file = c.file
           /\ AfterBlock(c).start = c.start
           /\ AfterBlock(c).next = c.next + 1
           /\ AfterBlock(c).into # "none"
<1>1. c.next + 1 \in Nat \ {0}
  BY DEF AllTransfers
<1> QED
  BY <1>1 DEF AfterBlock, AllTransfers

(* A retry begins where the transfer began. *)
LEMMA RetriedType ==
    ASSUME NEW c \in AllTransfers, c.retries > 0, NEW r \in Retried(c)
    PROVE  /\ r \in AllTransfers
           /\ r.file = c.file
           /\ r.start = c.start
           /\ r.next = c.start + 1
           /\ r.into = c.into
<1>1. c.start + 1 \in Nat \ {0} /\ c.retries - 1 \in 0..MaxRetries
  BY DownloadAssumption DEF AllTransfers
<1>2. PICK w \in BOOLEAN :
          r = [c EXCEPT !.next = c.start + 1, !.retries = c.retries - 1,
                        !.wrong = w]
  BY DEF Retried, MayBeWrong
<1> QED
  BY <1>1, <1>2 DEF AllTransfers

(* Nothing is transferred by the transfer that is none. *)
LEMMA NoTransferType == NoTransfer \in AllTransfers
BY DownloadAssumption DEF NoTransfer, AllTransfers

(* Nothing is taken back by leaving a file as it is. *)
LEMMA ContinuesItself ==
    ASSUME NEW content \in Seq(Nat)
    PROVE  Continues(content, content)
BY DEF Continues

(* A continuation of a continuation is one. *)
LEMMA ContinuesOn ==
    ASSUME NEW a \in Seq(Nat), NEW b \in Seq(Nat), NEW c \in Seq(Nat),
           Continues(a, b), Continues(b, c)
    PROVE  Continues(a, c)
BY DEF Continues

(* The state predicates look at the state of the download only. *)
LEMMA Stutters ==
    ASSUME UNCHANGED downloadVars
    PROVE  /\ DownloadInv => DownloadInv'
           /\ PassedAreVerified => PassedAreVerified'
           /\ SpoiltTargetNeedsOrphan => SpoiltTargetNeedsOrphan'
           /\ StatusNeverOverstates => StatusNeverOverstates'
BY DEF downloadVars, DownloadInv, DownloadTypeOK, OrphansAreRecorded,
       TransferInStep, PromotionInStep, PassedAreVerified, Passed,
       SpoiltTargetNeedsOrphan, StatusNeverOverstates, VerifiedTargets
-----------------------------------------------------------------------------
(* The types, and what transfers and promotion rely on, hold at the start. *)
LEMMA DownloadInit == Init => DownloadInv
<1> SUFFICES ASSUME Init PROVE DownloadInv
  OBVIOUS
<1>1. DownloadTypeOK
  <2>1. <<>> \in Seq(Nat)
    OBVIOUS
  <2>2. /\ target \in [Files -> Seq(Nat)]
        /\ partial \in [Files -> Seq(Nat)]
        /\ began \in Seq(Nat)
    BY <2>1 DEF Init
  <2>3. file \in Files /\ mirror \in Mirrors /\ runs \in 0..MaxRuns
    BY DownloadAssumption DEF Init
  <2> QED
    BY <2>2, <2>3, NoTransferType DEF Init, DownloadTypeOK, Phases
<1>2. OrphansAreRecorded /\ TransferInStep /\ PromotionInStep
  BY DEF Init, OrphansAreRecorded, TransferInStep, PromotionInStep
<1> QED
  BY <1>1, <1>2 DEF DownloadInv

(* Every step keeps the types. *)
LEMMA TypeStep == DownloadTypeOK /\ [Next]_downloadVars => DownloadTypeOK'
<1> SUFFICES ASSUME DownloadTypeOK, [Next]_downloadVars
             PROVE  DownloadTypeOK'
  OBVIOUS
<1> USE DEF DownloadTypeOK
<1>1. CASE StartScript
  BY <1>1, DownloadAssumption DEF StartScript, Phases
<1>2. CASE ReadManifest
  BY <1>2, DownloadAssumption DEF ReadManifest, Phases, VerifiedTargets
<1>3. CASE ManifestFails
  BY <1>3 DEF ManifestFails, Phases
<1>4. CASE TargetIsVerified
  BY <1>4 DEF TargetIsVerified, Phases
<1>5. CASE TargetIsMissing
  <2>1. <<>> \in Seq(Nat)
    OBVIOUS
  <2>2. [partial EXCEPT ![file] = <<>>] \in [Files -> Seq(Nat)]
    BY <2>1
  <2>3. partial' \in [Files -> Seq(Nat)] /\ orphans' \subseteq AllTransfers
    BY <1>5, <2>2 DEF TargetIsMissing
  <2>4. mirror' \in Mirrors /\ phase' \in Phases
    BY <1>5, DownloadAssumption DEF TargetIsMissing, Phases
  <2> QED
    BY <1>5, <2>3, <2>4 DEF TargetIsMissing
<1>6. CASE StartCurl
  <2>1. curl' \in AllTransfers /\ began' \in Seq(Nat)
    BY <1>6, TransfersType DEF StartCurl
  <2> QED
    BY <1>6, <2>1 DEF StartCurl, Phases
<1>7. CASE CurlWrites
  <2>1. curl' \in AllTransfers
    BY <1>7, NextType DEF CurlWrites
  <2>2. Written(partial[file], curl) \in Seq(Nat)
    BY WrittenType
  <2>3. partial' \in [Files -> Seq(Nat)]
    BY <1>7, <2>2 DEF CurlWrites
  <2> QED
    BY <1>7, <2>1, <2>3 DEF CurlWrites
<1>8. CASE CurlEnds
  <2>1. began' \in Seq(Nat)
    BY <1>8 DEF CurlEnds
  <2> QED
    BY <1>8, <2>1, NoTransferType DEF CurlEnds, Phases
<1>9. CASE PartialIsVerified
  BY <1>9 DEF PartialIsVerified, Phases
<1>10. CASE SourceFails
  <2>1. mirror' \in Mirrors
    BY <1>10, DownloadAssumption DEF SourceFails, MirrorsAreTried
  <2> QED
    BY <1>10, <2>1 DEF SourceFails, Phases
<1>11. CASE VerificationFails
  BY <1>11 DEF VerificationFails, Phases
<1>12. CASE Promote
  <2>1. target' \in [Files -> Seq(Nat)] /\ partial' \in [Files -> Seq(Nat)]
    BY <1>12 DEF Promote
  <2>2. \A o \in AllTransfers : [o EXCEPT !.into = "target"] \in AllTransfers
    BY DEF AllTransfers
  <2>3. orphans' \subseteq AllTransfers
    BY <1>12, <2>2 DEF Promote
  <2> QED
    BY <1>12, <2>1, <2>3 DEF Promote, Phases
<1>13. CASE WriteStatus
  <2>1. file' \in Files /\ phase' \in Phases
    BY <1>13, DownloadAssumption DEF WriteStatus, Phases
  <2>2. status' \subseteq Files
    BY <1>13 DEF WriteStatus, VerifiedTargets
  <2> QED
    BY <1>13, <2>1, <2>2 DEF WriteStatus
<1>14. CASE Killed
  <2>1. orphans' \subseteq AllTransfers /\ orphaned' \subseteq Files
    BY <1>14 DEF Killed
  <2>2. began' \in Seq(Nat)
    BY <1>14 DEF Killed
  <2> QED
    BY <1>14, <2>1, <2>2, NoTransferType DEF Killed, Phases
<1>15. ASSUME NEW o \in orphans, OrphanWrites(o)
       PROVE  DownloadTypeOK'
  <2>1. o \in AllTransfers /\ o.file \in Files
    BY DEF AllTransfers
  <2>2. /\ Written(partial[o.file], o) \in Seq(Nat)
        /\ Written(target[o.file], o) \in Seq(Nat)
    BY <2>1, WrittenType
  <2>3. target' \in [Files -> Seq(Nat)] /\ partial' \in [Files -> Seq(Nat)]
    BY <1>15, <2>1, <2>2 DEF OrphanWrites, OrphanLeaves, OpenFile
  <2>4. AfterBlock(o) \in AllTransfers
    BY <2>1, NextType
  <2>5. orphans' \subseteq AllTransfers
    BY <1>15, <2>4 DEF OrphanWrites
  <2> QED
    BY <1>15, <2>3, <2>5 DEF OrphanWrites
<1>16. ASSUME NEW o \in orphans, OrphanEnds(o)
       PROVE  DownloadTypeOK'
  BY <1>16 DEF OrphanEnds
<1>17. CASE UNCHANGED downloadVars
  BY <1>17 DEF downloadVars
<1>18. CASE CurlRetries
  <2>1. curl' \in AllTransfers
    BY <1>18, RetriedType DEF CurlRetries
  <2>2. SetBack(partial[file], curl) \in Seq(Nat)
    BY SetBackType
  <2>3. partial' \in [Files -> Seq(Nat)]
    BY <1>18, <2>2 DEF CurlRetries
  <2> QED
    BY <1>18, <2>1, <2>3 DEF CurlRetries
<1>19. ASSUME NEW o \in orphans, OrphanRetries(o)
       PROVE  DownloadTypeOK'
  <2>1. o \in AllTransfers /\ o.file \in Files
    BY DEF AllTransfers
  <2>2. /\ SetBack(partial[o.file], o) \in Seq(Nat)
        /\ SetBack(target[o.file], o) \in Seq(Nat)
    BY <2>1, SetBackType
  <2>3. target' \in [Files -> Seq(Nat)] /\ partial' \in [Files -> Seq(Nat)]
    BY <1>19, <2>1, <2>2 DEF OrphanRetries, OrphanLeaves, OpenFile
  <2>4. orphans' \subseteq AllTransfers
    BY <1>19, <2>1, RetriedType DEF OrphanRetries
  <2> QED
    BY <1>19, <2>3, <2>4 DEF OrphanRetries
<1> QED
  BY <1>1, <1>2, <1>3, <1>4, <1>5, <1>6, <1>7, <1>8, <1>9, <1>10, <1>11,
     <1>12, <1>13, <1>14, <1>15, <1>16, <1>17, <1>18, <1>19 DEF Next

(* THEOREM.  Every variable of the download keeps its type: the loops over *)
(* entries and mirrors stay within both (lines 144, 187).                  *)
THEOREM DownloadTypeCorrect == DownloadSpec => []DownloadTypeOK
<1>1. Init => DownloadTypeOK
  BY DownloadInit DEF DownloadInv
<1> QED
  BY <1>1, TypeStep, PTL DEF DownloadSpec
-----------------------------------------------------------------------------
(* A step of an orphan is a step on a file that has one. *)
LEMMA OrphanStep ==
    ASSUME DownloadTypeOK, OrphansAreRecorded, NEW o \in orphans,
           OrphanWrites(o) \/ OrphanRetries(o) \/ OrphanEnds(o)
    PROVE  /\ o.file \in orphaned
           /\ UNCHANGED <<phase, file, curl, status, began, orphaned>>
           /\ \A f \in Files \ orphaned : /\ target'[f] = target[f]
                                         /\ partial'[f] = partial[f]
           /\ \A p \in orphans' : p.file \in orphaned
<1>1. o.file \in orphaned
  BY DEF OrphansAreRecorded
<1>2. UNCHANGED <<phase, file, curl, status, began, orphaned>>
  BY DEF OrphanWrites, OrphanRetries, OrphanEnds
<1>3. \A f \in Files \ orphaned : /\ target'[f] = target[f]
                                 /\ partial'[f] = partial[f]
  BY <1>1 DEF OrphanWrites, OrphanRetries, OrphanLeaves, OpenFile, OrphanEnds,
     DownloadTypeOK
<1>4. o \in AllTransfers
  BY DEF DownloadTypeOK
<1>5. \A p \in orphans' : p \in orphans \/ p.file = o.file
  <2>1. CASE OrphanWrites(o)
    BY <2>1, <1>4, NextType DEF OrphanWrites
  <2>2. CASE OrphanRetries(o)
    BY <2>2, <1>4, RetriedType DEF OrphanRetries
  <2>3. CASE OrphanEnds(o)
    BY <2>3 DEF OrphanEnds
  <2> QED
    BY <2>1, <2>2, <2>3
<1> QED
  BY <1>1, <1>2, <1>3, <1>5 DEF OrphansAreRecorded

(* Every step keeps what transfers and promotion rely on. *)
LEMMA DownloadStep == DownloadInv /\ [Next]_downloadVars => DownloadInv'
<1> SUFFICES ASSUME DownloadInv, [Next]_downloadVars
             PROVE  DownloadInv'
  OBVIOUS
<1>t. DownloadTypeOK /\ DownloadTypeOK'
  BY TypeStep DEF DownloadInv
<1>i. OrphansAreRecorded /\ TransferInStep /\ PromotionInStep
  BY DEF DownloadInv
<1>1. CASE StartScript \/ ReadManifest \/ ManifestFails
  BY <1>1, <1>t, <1>i DEF StartScript, ReadManifest, ManifestFails,
     DownloadInv, OrphansAreRecorded, TransferInStep, PromotionInStep
<1>2. CASE TargetIsVerified \/ CurlEnds \/ SourceFails \/ VerificationFails
           \/ WriteStatus
  BY <1>2, <1>t, <1>i DEF TargetIsVerified, CurlEnds, SourceFails,
     VerificationFails, WriteStatus, DownloadInv, OrphansAreRecorded,
     TransferInStep, PromotionInStep
<1>3. CASE TargetIsMissing
  <2>1. phase' = "asking" /\ orphans' \subseteq orphans /\ orphaned' = orphaned
    BY <1>3 DEF TargetIsMissing
  <2> QED
    BY <2>1, <1>t, <1>i DEF DownloadInv, OrphansAreRecorded, TransferInStep,
       PromotionInStep
<1>4. CASE StartCurl
  <2>1. /\ phase' = "fetching"
        /\ UNCHANGED <<file, partial, orphans, orphaned>>
        /\ curl' \in Transfers(file)
        /\ began' = partial[file]
    BY <1>4 DEF StartCurl
  <2>2. file \in Files /\ partial[file] \in Seq(Nat) /\ runs \in 0..MaxRuns
    BY <1>t DEF DownloadTypeOK
  <2>3. /\ curl'.file = file
        /\ curl'.start = Len(partial[file])
        /\ curl'.next = Len(partial[file]) + 1
        /\ curl'.into = "none" => partial[file] = <<>>
    BY <2>1, <2>2, TransfersType
  <2>4. Continues(partial[file], partial[file])
    BY <2>2, ContinuesItself
  <2>5. TransferInStep'
    BY <2>1, <2>3, <2>4 DEF TransferInStep, Continues
  <2> QED
    BY <2>1, <2>5, <1>t, <1>i DEF DownloadInv, OrphansAreRecorded,
       PromotionInStep
<1>5. CASE CurlWrites
  <2>1. /\ phase = "fetching" /\ phase' = "fetching"
        /\ UNCHANGED <<file, orphans, began, orphaned>>
        /\ curl' = AfterBlock(curl)
    BY <1>5 DEF CurlWrites
  <2>2. /\ curl \in AllTransfers
        /\ partial \in [Files -> Seq(Nat)] /\ file \in Files
        /\ partial[file] \in Seq(Nat) /\ began \in Seq(Nat)
    BY <1>t DEF DownloadTypeOK
  <2>3. partial'[file] = Written(partial[file], curl)
    BY <1>5, <2>2 DEF CurlWrites
  <2>4. ASSUME file \notin orphaned
        PROVE  /\ curl'.next = Len(partial'[file]) + 1
               /\ curl'.start = Len(began)
               /\ Continues(partial'[file], began)
    <3>1. /\ curl.next = Len(partial[file]) + 1
          /\ curl.into = "none" => partial[file] = <<>>
          /\ curl.start = Len(began)
          /\ Continues(partial[file], began)
      BY <2>1, <2>4, <1>i DEF TransferInStep
    <3>2. /\ Len(partial'[file]) = Len(partial[file]) + 1
          /\ Continues(partial'[file], partial[file])
      BY <3>1, <2>2, <2>3, WrittenContinues
    <3>3. Continues(partial'[file], began)
      BY <3>1, <3>2, <2>2, <1>t, ContinuesOn DEF DownloadTypeOK
    <3> QED
      BY <3>1, <3>2, <3>3, <2>1, <2>2, NextType
  <2>5. TransferInStep'
    BY <2>1, <2>2, <2>4, <1>i, NextType DEF TransferInStep, Continues
  <2> QED
    BY <2>1, <2>5, <1>t, <1>i DEF DownloadInv, OrphansAreRecorded,
       PromotionInStep
<1>11. CASE CurlRetries
  <2>1. /\ phase = "fetching" /\ phase' = "fetching"
        /\ UNCHANGED <<file, orphans, began, orphaned>>
        /\ curl' \in Retried(curl) /\ curl.retries > 0
    BY <1>11 DEF CurlRetries
  <2>2. /\ curl \in AllTransfers
        /\ partial \in [Files -> Seq(Nat)] /\ file \in Files
        /\ partial[file] \in Seq(Nat) /\ began \in Seq(Nat)
    BY <1>t DEF DownloadTypeOK
  <2>3. partial'[file] = SetBack(partial[file], curl)
    BY <1>11, <2>2 DEF CurlRetries
  <2>4. /\ curl'.file = curl.file /\ curl'.start = curl.start
        /\ curl'.next = curl.start + 1 /\ curl'.into = curl.into
    BY <2>1, <2>2, RetriedType
  <2>5. ASSUME file \notin orphaned
        PROVE  /\ curl'.next = Len(partial'[file]) + 1
               /\ curl'.into = "none" => partial'[file] = <<>>
               /\ curl'.start = Len(began)
               /\ Continues(partial'[file], began)
    <3>1. /\ curl.next = Len(partial[file]) + 1
          /\ curl.into = "none" => partial[file] = <<>>
          /\ curl.start = Len(began)
          /\ Continues(partial[file], began)
      BY <2>1, <2>5, <1>i DEF TransferInStep
    <3>2. /\ Continues(partial'[file], began)
          /\ Len(partial'[file]) = curl.start
          /\ partial[file] = <<>> => partial'[file] = <<>>
      BY <3>1, <2>2, <2>3, SetBackContinues
    <3> QED
      BY <3>1, <3>2, <2>4
  <2>6. TransferInStep'
    BY <2>1, <2>4, <2>5, <1>i DEF TransferInStep, Continues
  <2> QED
    BY <2>1, <2>6, <1>t, <1>i DEF DownloadInv, OrphansAreRecorded,
       PromotionInStep
<1>6. CASE PartialIsVerified
  BY <1>6, <1>t, <1>i DEF PartialIsVerified, DownloadInv,
     OrphansAreRecorded, TransferInStep, PromotionInStep
<1>7. CASE Promote
  <2>1. phase' = "reporting" /\ orphaned' = orphaned
    BY <1>7 DEF Promote
  <2>2. \A o \in orphans : [o EXCEPT !.into = "target"].file = o.file
    BY <1>t DEF DownloadTypeOK, AllTransfers
  <2>3. \A p \in orphans' : \E o \in orphans : p.file = o.file
    BY <1>7, <2>2 DEF Promote
  <2> QED
    BY <2>1, <2>3, <1>t, <1>i DEF DownloadInv, OrphansAreRecorded,
       TransferInStep, PromotionInStep
<1>8. CASE Killed
  <2>1. phase' = "down"
    BY <1>8 DEF Killed
  <2>2. \/ orphans' = orphans /\ orphaned' = orphaned
        \/ /\ orphans' = orphans \cup {curl}
           /\ orphaned' = orphaned \cup {curl.file}
    BY <1>8, <1>i DEF Killed, TransferInStep
  <2>3. OrphansAreRecorded'
    BY <2>2, <1>i DEF OrphansAreRecorded
  <2> QED
    BY <2>1, <2>3, <1>t DEF DownloadInv, TransferInStep, PromotionInStep
<1>9. ASSUME NEW o \in orphans,
             OrphanWrites(o) \/ OrphanRetries(o) \/ OrphanEnds(o)
      PROVE  DownloadInv'
  <2>1. /\ UNCHANGED <<phase, file, curl, began, orphaned>>
        /\ file \notin orphaned => partial'[file] = partial[file]
        /\ OrphansAreRecorded'
    BY <1>9, <1>t, <1>i, OrphanStep DEF OrphansAreRecorded, DownloadTypeOK
  <2>2. TransferInStep' /\ PromotionInStep'
    BY <2>1, <1>i DEF TransferInStep, PromotionInStep, Verified, Continues
  <2> QED
    BY <2>1, <2>2, <1>t DEF DownloadInv
<1>10. CASE UNCHANGED downloadVars
  BY <1>10, Stutters
<1> QED
  BY <1>1, <1>2, <1>3, <1>4, <1>5, <1>6, <1>7, <1>8, <1>9, <1>10, <1>11
  DEF Next

LEMMA DownloadInvariant == DownloadSpec => []DownloadInv
BY DownloadInit, DownloadStep, PTL DEF DownloadSpec
-----------------------------------------------------------------------------
(* Without an orphan a target changes only when the verified blob is       *)
(* promoted, and then to it.                                               *)
LEMMA TargetStep ==
    ASSUME DownloadInv, [Next]_downloadVars, NEW f \in Files \ orphaned'
    PROVE  /\ f \notin orphaned
           /\ \/ target'[f] = target[f]
              \/ /\ Promote /\ f = file
                 /\ Verified(partial[f], f) /\ target'[f] = partial[f]
<1>t. DownloadTypeOK /\ OrphansAreRecorded /\ PromotionInStep
  BY DEF DownloadInv
<1>1. CASE Promote
  BY <1>1, <1>t DEF Promote, PromotionInStep, DownloadTypeOK
<1>2. ASSUME NEW o \in orphans,
             OrphanWrites(o) \/ OrphanRetries(o) \/ OrphanEnds(o)
      PROVE  f \notin orphaned /\ target'[f] = target[f]
  BY <1>2, <1>t, OrphanStep
<1>3. CASE UNCHANGED <<target, orphaned>>
  BY <1>3
<1>4. CASE Killed
  BY <1>4 DEF Killed
<1> QED
  BY <1>1, <1>2, <1>3, <1>4 DEF Next, downloadVars, StartScript, ReadManifest,
     ManifestFails, TargetIsVerified, TargetIsMissing, StartCurl, CurlWrites,
     CurlRetries, CurlEnds, PartialIsVerified, SourceFails, VerificationFails,
     WriteStatus

(* THEOREM.  A target is absent or the verified blob, but for files whose  *)
(* transfer outlived a killed script (lines 170-171).                      *)
THEOREM TargetsAreSpoiltByOrphansOnly ==
    DownloadSpec => []SpoiltTargetNeedsOrphan
<1>1. Init => SpoiltTargetNeedsOrphan
  BY DEF Init, SpoiltTargetNeedsOrphan
<1>2. DownloadInv /\ SpoiltTargetNeedsOrphan /\ [Next]_downloadVars
        => SpoiltTargetNeedsOrphan'
  <2> SUFFICES ASSUME DownloadInv, SpoiltTargetNeedsOrphan,
                      [Next]_downloadVars, NEW f \in Files \ orphaned'
               PROVE  target'[f] \in {<<>>, Blob(f)}
    BY DEF SpoiltTargetNeedsOrphan, Blob
  <2>1. /\ f \notin orphaned
        /\ target'[f] = target[f] \/ target'[f] = Blob(f)
    BY TargetStep DEF Verified
  <2> QED
    BY <2>1 DEF SpoiltTargetNeedsOrphan
<1> QED
  BY <1>1, <1>2, DownloadInvariant, PTL DEF DownloadSpec

(* A verified target stays so, an orphan excepted. *)
LEMMA VerifiedStays ==
    ASSUME DownloadInv, [Next]_downloadVars, NEW f \in Files,
           Verified(target[f], f) \/ f \in orphaned
    PROVE  Verified(target'[f], f) \/ f \in orphaned'
<1>1. CASE f \in orphaned'
  BY <1>1
<1>2. CASE f \notin orphaned'
  <2>1. f \in Files \ orphaned'
    BY <1>2
  <2> QED
    BY <2>1, TargetStep
<1> QED
  BY <1>1, <1>2

(* The entries behind the loop keep their targets, and the next is passed  *)
(* only with its own.                                                      *)
LEMMA PassedStep ==
    DownloadInv /\ PassedAreVerified /\ [Next]_downloadVars
        => PassedAreVerified'
<1> SUFFICES ASSUME DownloadInv, PassedAreVerified, [Next]_downloadVars,
                    NEW f \in Passed'
             PROVE  (Verified(target[f], f) \/ f \in orphaned)'
  BY DEF PassedAreVerified
<1>t. DownloadTypeOK /\ DownloadTypeOK' /\ PromotionInStep
  BY TypeStep DEF DownloadInv
<1>n. file \in Files /\ file' \in Files /\ NumFiles \in Nat
  BY <1>t, DownloadAssumption DEF DownloadTypeOK
<1>f. /\ file \in Files /\ file' \in Files /\ NumFiles \in Nat
      /\ f \in Files
  BY <1>n DEF Passed
<1>1. CASE f \in Passed
  BY <1>1, <1>f, VerifiedStays DEF PassedAreVerified, Verified, Blob
<1>2. CASE f \notin Passed
  <2>1. CASE TargetIsVerified
    <3>1. f = file /\ UNCHANGED <<target, orphaned>>
      BY <1>2, <2>1, <1>f DEF TargetIsVerified, Passed
    <3> QED
      BY <2>1, <3>1 DEF TargetIsVerified, Verified, Blob
  <2>2. CASE Promote
    <3>1. f = file /\ orphaned' = orphaned
      BY <1>2, <2>2, <1>f DEF Promote, Passed
    <3>2. target'[file] = partial[file]
      BY <2>2, <1>t DEF Promote, DownloadTypeOK
    <3> QED
      BY <2>2, <3>1, <3>2, <1>t DEF Promote, PromotionInStep, Verified, Blob
  <2>3. CASE ReadManifest \/ WriteStatus
    BY <1>2, <2>3, <1>f DEF ReadManifest, WriteStatus, Passed
  <2>4. CASE StartScript \/ ManifestFails \/ VerificationFails \/ Killed
    BY <2>4 DEF StartScript, ManifestFails, VerificationFails, Killed, Passed
  <2>5. CASE TargetIsMissing \/ StartCurl \/ CurlWrites \/ CurlRetries
             \/ CurlEnds \/ PartialIsVerified \/ SourceFails
    BY <1>2, <2>5 DEF TargetIsMissing, StartCurl, CurlWrites, CurlRetries,
       CurlEnds, PartialIsVerified, SourceFails, Passed
  <2>6. ASSUME NEW o \in orphans,
             OrphanWrites(o) \/ OrphanRetries(o) \/ OrphanEnds(o)
        PROVE  FALSE
    BY <1>2, <2>6 DEF OrphanWrites, OrphanRetries, OrphanEnds, Passed
  <2>7. CASE UNCHANGED downloadVars
    BY <1>2, <2>7 DEF downloadVars, Passed
  <2> QED
    BY <2>1, <2>2, <2>3, <2>4, <2>5, <2>6, <2>7 DEF Next
<1> QED
  BY <1>1, <1>2

(* THEOREM.  The status file lists only verified targets, and the end of   *)
(* the download is announced only when it lists them all, orphans excepted *)
(* (lines 119-131, 187-190).                                               *)
THEOREM StatusIsNeverTooHigh == DownloadSpec => []StatusNeverOverstates
<1>1. Init => PassedAreVerified /\ StatusNeverOverstates
  BY DEF Init, PassedAreVerified, Passed, StatusNeverOverstates
<1>2. DownloadInv /\ PassedAreVerified /\ StatusNeverOverstates
        /\ [Next]_downloadVars => StatusNeverOverstates'
  <2> SUFFICES ASSUME DownloadInv, PassedAreVerified, StatusNeverOverstates,
                      [Next]_downloadVars
               PROVE  StatusNeverOverstates'
    OBVIOUS
  <2>t. DownloadTypeOK
    BY DEF DownloadInv
  <2>1. CASE ReadManifest
    BY <2>1 DEF ReadManifest, StatusNeverOverstates, VerifiedTargets,
       Verified, Blob
  <2>2. CASE WriteStatus
    <3>1. /\ status' = VerifiedTargets
          /\ UNCHANGED <<target, orphaned>>
          /\ phase = "reporting"
          /\ phase' = "complete" => ~(file < NumFiles)
      BY <2>2 DEF WriteStatus
    <3>2. ASSUME phase' = "complete"
          PROVE  \A f \in Files : Verified(target[f], f) \/ f \in orphaned
      <4>1. file = NumFiles
        BY <3>1, <3>2, <2>t, DownloadAssumption DEF DownloadTypeOK
      <4> QED
        BY <4>1, <3>1 DEF PassedAreVerified, Passed
    <3> QED
      BY <3>1, <3>2 DEF StatusNeverOverstates, VerifiedTargets, Verified, Blob
  <2>3. CASE ~(ReadManifest \/ WriteStatus)
    <3>1. /\ status' = status
          /\ phase' = "complete" => phase = "complete"
          /\ orphaned \subseteq orphaned'
      BY <2>3 DEF Next, downloadVars, StartScript, ManifestFails,
         TargetIsVerified, TargetIsMissing, StartCurl, CurlWrites, CurlRetries,
         CurlEnds, PartialIsVerified, SourceFails, VerificationFails, Promote,
         Killed, OrphanWrites, OrphanRetries, OrphanEnds
    <3>2. \A f \in status : Verified(target'[f], f) \/ f \in orphaned'
      BY <2>t, VerifiedStays DEF StatusNeverOverstates, DownloadTypeOK
    <3> QED
      BY <3>1, <3>2 DEF StatusNeverOverstates, Verified, Blob
  <2> QED
    BY <2>1, <2>2, <2>3
<1> QED
  BY <1>1, <1>2, DownloadInvariant, PassedStep, PTL DEF DownloadSpec
-----------------------------------------------------------------------------
(* Without an orphan a partial file has what it is sure to have. *)
LEMMA SureIsThere ==
    ASSUME DownloadInv, NEW f \in Files \ orphaned
    PROVE  Continues(partial[f], SureOf(f))
<1>1. partial[f] \in Seq(Nat)
  BY DEF DownloadInv, DownloadTypeOK
<1>2. CASE phase = "fetching" /\ f = file
  BY <1>2 DEF DownloadInv, TransferInStep, SureOf
<1>3. CASE ~(phase = "fetching" /\ f = file)
  BY <1>1, <1>3, ContinuesItself DEF SureOf
<1> QED
  BY <1>2, <1>3

(* Without an orphan a partial file stays, is written to or set back by    *)
(* its transfer, becomes the target, or is longer than its blob and is     *)
(* discarded.                                                              *)
LEMMA PartialStep ==
    ASSUME DownloadInv, [Next]_downloadVars, NEW f \in Files \ orphaned',
           Continues(Blob(f), SureOf(f))
    PROVE  \/ Continues(partial'[f], SureOf(f))
           \/ Verified(target'[f], f) /\ partial'[f] = <<>>
<1>t. DownloadTypeOK /\ PromotionInStep
  BY DEF DownloadInv
<1>p. /\ partial[f] \in Seq(Nat) /\ file \in Files /\ f \in Files
      /\ partial \in [Files -> Seq(Nat)] /\ target \in [Files -> Seq(Nat)]
  BY <1>t DEF DownloadTypeOK
<1>o. f \notin orphaned
  BY TargetStep
<1>s. ASSUME partial'[f] = partial[f]
      PROVE  Continues(partial'[f], SureOf(f))
  BY <1>s, <1>o, SureIsThere
<1>1. CASE TargetIsMissing
  <2>1. CASE f # file \/ ~Oversized(file)
    BY <1>1, <2>1, <1>p, <1>s DEF TargetIsMissing
  <2>2. CASE f = file /\ Oversized(file)
    <3>1. SureOf(f) = partial[f]
      BY <1>1 DEF TargetIsMissing, SureOf
    <3>2. Len(partial[f]) <= Size[f] /\ Size[f] \in Nat
      BY <3>1, <1>p, BlobType DEF Continues
    <3>3. Len(partial[f]) > Size[f] /\ Len(partial[f]) \in Nat
      BY <2>2, <1>p DEF Oversized
    <3> QED
      BY <3>2, <3>3
  <2> QED
    BY <2>1, <2>2
<1>2. CASE CurlWrites \/ CurlRetries
  <2>1. CASE f # file
    BY <1>2, <2>1, <1>p, <1>s DEF CurlWrites, CurlRetries
  <2>2. CASE f = file
    <3>1. /\ phase = "fetching" /\ phase' = "fetching"
          /\ file' = file /\ began' = began /\ orphaned' = orphaned
      BY <1>2 DEF CurlWrites, CurlRetries
    <3>2. TransferInStep'
      BY DownloadStep DEF DownloadInv
    <3>3. Continues(partial'[f], began)
      BY <2>2, <3>1, <3>2, <1>o DEF TransferInStep, Continues
    <3> QED
      BY <2>2, <3>1, <3>3 DEF SureOf
  <2> QED
    BY <2>1, <2>2
<1>3. CASE Promote
  <2>1. CASE f # file
    BY <1>3, <2>1, <1>p, <1>s DEF Promote
  <2>2. CASE f = file
    BY <1>3, <2>2, <1>p, <1>t, <1>o DEF Promote, PromotionInStep, Verified
  <2> QED
    BY <2>1, <2>2
<1>4. ASSUME NEW o \in orphans,
             OrphanWrites(o) \/ OrphanRetries(o) \/ OrphanEnds(o)
      PROVE  partial'[f] = partial[f]
  BY <1>4, <1>o, OrphanStep DEF DownloadInv
<1>5. CASE UNCHANGED partial
  BY <1>5, <1>s
<1> QED
  BY <1>1, <1>2, <1>3, <1>4, <1>5, <1>s DEF Next, downloadVars, StartScript,
     ReadManifest, ManifestFails, TargetIsVerified, StartCurl, CurlEnds,
     PartialIsVerified, SourceFails, VerificationFails, WriteStatus, Killed

(* THEOREM.  A verified target stays, and whatever transfers, retries and  *)
(* runs follow, a partial that fits the blob keeps the bytes that were     *)
(* there when the transfer under way began, or is promoted, orphans        *)
(* excepted (lines 138-142, 152-154, 163-171).                             *)
THEOREM BytesAreKept == DownloadSpec => FetchedBytesAreKept
<1>1. ASSUME DownloadInv, [Next]_downloadVars, NEW f \in Files \ orphaned'
      PROVE  /\ Verified(target[f], f) => target'[f] = target[f]
             /\ Continues(Blob(f), SureOf(f))
                    => \/ Continues(partial'[f], SureOf(f))
                       \/ Verified(target'[f], f) /\ partial'[f] = <<>>
  <2>1. Verified(target[f], f) => target'[f] = target[f]
    BY <1>1, TargetStep DEF Verified
  <2> QED
    BY <1>1, <2>1, PartialStep
<1>2. DownloadInv /\ [Next]_downloadVars
        => [\A f \in Files \ orphaned' :
              /\ Verified(target[f], f) => target'[f] = target[f]
              /\ Continues(Blob(f), SureOf(f))
                    => \/ Continues(partial'[f], SureOf(f))
                       \/ /\ Verified(target'[f], f)
                          /\ partial'[f] = <<>>]_downloadVars
  BY <1>1
<1> QED
  BY <1>2, DownloadInvariant, PTL DEF DownloadSpec, FetchedBytesAreKept
=============================================================================
