-------------------------- MODULE BesideOthers_proofs --------------------------
(***************************************************************************)
(* Proofs about the parts that meet others they do not control.            *)
(*                                                                         *)
(* WorkspaceManifest: no writer of the manifest and nobody who is killed   *)
(* loses another's work unseen, for any number of writers of any kinds.    *)
(* The argument: whoever is about to rename has the lock of the file that  *)
(* is the manifest, which says what it read; what it read is in what it is *)
(* to say, or in a backup; and the file it is about to rename is its own,  *)
(* which is so because the number of a new file is nobody's.               *)
(*                                                                         *)
(* ServiceVerification: a service is called verified only when it has had  *)
(* its port itself, and after a time in which no look at the registry      *)
(* failed or found it there.                                               *)
(*                                                                         *)
(* LogStream: the lines of every log show its bytes in their order and     *)
(* each at most once, and leave none out of a log that only grows, for     *)
(* any logs, names, limits and sizes.  The argument: the newlines cut what *)
(* is between two positions into runs, so the lines of a snapshot and of a *)
(* chunk go on from what was given and held; what is held is the run since *)
(* the last newline, or more than the limit has fallen away since it; so a *)
(* byte the limit lets through is in a line, or held.  And it is the tail  *)
(* LogTail promises, but for its fairness: the lines that have been cut    *)
(* are all printed, on their way, or to be sent.                           *)
(***************************************************************************)
EXTENDS LogStream, WorkspaceManifest, ServiceVerification, Orders_proofs, SequenceTheorems

-----------------------------------------------------------------------------
(* WorkspaceManifest                                                         *)

\* Where a writer has the manifest open, and where it has something to publish
Opened == {"opened", "locked", "rename"}
Underway == {"compare", "create", "verify", "publish"} \cup Opened

\* The types of what the property is about
ManifestTypeOK ==
  /\ manifest \in Files \cup {NoFile} /\ DOMAIN text = Files
  /\ locks \in [Files -> Writers \cup {Nobody}]
  /\ held \in [Writers -> Files \cup {NoFile}] /\ temporary \in [Writers -> Files \cup {NoFile}]
  /\ DOMAIN now = Writers
  /\ DOMAIN source = Writers /\ DOMAIN seen = Writers /\ DOMAIN candidate = Writers
  /\ typed \subseteq Writers
  /\ byHand \in Nat /\ collided \in BOOLEAN

\* Who has seen the manifest finds one: it is replaced, never taken away.
PresentFor(w) ==
  \/ seen[w] # NoFile
  \/ now[w] \in {"page", "recheck", "publish", "verify"} \cup Opened
  \/ now[w] = "editor" /\ does[w] = "edit"
  => ~Missing

\* The locks of those who open a file
LocksHeld ==
  \A w \in Writers : /\ now[w] \in Opened => held[w] # NoFile
                     /\ now[w] \in {"locked", "rename"} => locks[held[w]] = w

\* What is to be renamed is no other's, is not the manifest, and says what is to be said.
OwnTemporary ==
  \A w \in Writers :
    /\ now[w] \notin Opened \cup {"killed"} => temporary[w] = NoFile
    /\ now[w] = "rename" => temporary[w] # NoFile
    /\ temporary[w] # NoFile =>
         /\ temporary[w] # manifest
         /\ \A v \in Writers \ {w} : temporary[v] # temporary[w]
         /\ now[w] # "killed" => text[temporary[w]] = candidate[w]

\* What is published decodes.
DecodedFor(w) ==
  now[w] \in {"migrated", "page", "recheck"} \cup Underway => Broken \notin candidate[w]

\* What a writer replaces is in what it is to say, or in a backup.
KeepsSource(w) ==
  /\ now[w] = "editor" /\ does[w] = "edit" => source[w] = candidate[w]
  /\ now[w] = "recheck" => source[w] \subseteq candidate[w]
  /\ now[w] = "publish" \/ (now[w] \in Opened /\ temporary[w] # NoFile) =>
       source[w] \ {Broken} \subseteq candidate[w] \cup backups

\* A draft of a writer that has not ended is in what it is to say.
DraftProposed(w) ==
  w \in drafts /\ now[w] \notin Finished => now[w] \in Underway /\ w \in candidate[w]

WriterInv(w) == PresentFor(w) /\ DecodedFor(w) /\ KeepsSource(w) /\ DraftProposed(w)

\* Unless somebody wrote by hand meanwhile, what was checked is what is replaced.
StillChecked ==
  ~collided => \A w \in Writers : now[w] = "rename" =>
                 manifest = held[w] /\ text[manifest] = source[w]

ManifestInv ==
  /\ ManifestTypeOK /\ LocksHeld /\ OwnTemporary /\ StillChecked /\ NoEditLost
  /\ Broken \notin saved /\ \A w \in Writers : WriterInv(w)

-----------------------------------------------------------------------------
(* The number of a new file                                                  *)

Used == {manifest} \cup {held[w] : w \in Writers} \cup {temporary[w] : w \in Writers}

\* The number of the next file is nobody's: there is one more than all may hold.
LEMMA FreeFileIsFree ==
  ASSUME ManifestTypeOK
  PROVE  /\ FreeFile \in Files /\ FreeFile # NoFile /\ FreeFile # manifest
         /\ \A w \in Writers : FreeFile # held[w] /\ FreeFile # temporary[w]
  <1> DEFINE n == Cardinality(Writers)
             H == {held[w] : w \in Writers}
             T == {temporary[w] : w \in Writers}
  <1>1. n \in Nat
    BY ManifestAssumption, FS_CardinalityType
  <1>2. IsFiniteSet(H) /\ Cardinality(H) <= n
    <2>1. held \in Surjection(Writers, H)
      BY DEF ManifestTypeOK, Surjection
    <2>. QED
      BY <2>1, ManifestAssumption, FS_Surjection
  <1>3. IsFiniteSet(T) /\ Cardinality(T) <= n
    <2>1. temporary \in Surjection(Writers, T)
      BY DEF ManifestTypeOK, Surjection
    <2>. QED
      BY <2>1, ManifestAssumption, FS_Surjection
  <1>4. IsFiniteSet(H \cup T) /\ Cardinality(H \cup T) <= 2 * n
    <2>1. IsFiniteSet(H \cup T) /\ IsFiniteSet(H \cap T)
      BY <1>2, <1>3, FS_Union, FS_Intersection
    <2>2. /\ Cardinality(H) \in Nat /\ Cardinality(T) \in Nat
          /\ Cardinality(H \cap T) \in Nat
      BY <1>2, <1>3, <2>1, FS_CardinalityType
    <2>3. Cardinality(H \cup T) = Cardinality(H) + Cardinality(T) - Cardinality(H \cap T)
      BY <1>2, <1>3, FS_Union
    <2>. QED
      BY <1>1, <1>2, <1>3, <2>1, <2>2, <2>3
  <1>5. IsFiniteSet(Used) /\ Cardinality(Used) <= 2 * n + 1
    <2>1. Used = (H \cup T) \cup {manifest}
      BY DEF Used
    <2>2. Cardinality(H \cup T) \in Nat
      BY <1>4, FS_CardinalityType
    <2>3. /\ IsFiniteSet((H \cup T) \cup {manifest})
          /\ \/ Cardinality((H \cup T) \cup {manifest}) = Cardinality(H \cup T)
             \/ Cardinality((H \cup T) \cup {manifest}) = Cardinality(H \cup T) + 1
      BY <1>4, FS_AddElement
    <2>. QED
      BY <1>1, <1>4, <2>1, <2>2, <2>3
  <1>6. Files \ Used # {}
    <2>1. SUFFICES ASSUME Files \subseteq Used PROVE FALSE
      OBVIOUS
    <2>2. 2 * n + 2 \in Nat /\ Files = 1 .. (2 * n + 2)
      BY <1>1 DEF Files
    <2>3. Cardinality(Files) = 2 * n + 2
      BY <2>2, <1>1, FS_Interval
    <2>4. Cardinality(Files) <= Cardinality(Used) /\ Cardinality(Used) \in Nat
      BY <1>5, <2>1, FS_Subset, FS_CardinalityType
    <2>. QED
      BY <1>1, <1>5, <2>3, <2>4
  <1>7. Files \ Used \subseteq Nat
    BY <1>1 DEF Files
  <1>8. \E f \in Files \ Used : \A g \in Files \ Used : f <= g
    BY <1>6, <1>7, SmallestOf
  <1>9. FreeFile \in Files \ Used
    BY <1>8 DEF FreeFile, Used
  <1>10. NoFile \notin Files
    BY <1>1 DEF NoFile, Files
  <1>. QED
    BY <1>9, <1>10 DEF Used

-----------------------------------------------------------------------------
LEMMA ManifestInvInit == ManifestInit => ManifestInv
  <1> SUFFICES ASSUME ManifestInit PROVE ManifestInv
    OBVIOUS
  <1>1. /\ Nobody \notin Writers /\ 1 \in Files
        /\ \A w \in Writers : /\ now[w] = "begin" /\ temporary[w] = NoFile /\ seen[w] = NoFile
    <2>1. Cardinality(Writers) \in Nat
      BY ManifestAssumption, FS_CardinalityType
    <2>. QED
      BY <2>1, ManifestAssumption DEF ManifestInit, Files
  <1>2. ManifestTypeOK
    BY <1>1 DEF ManifestInit, ManifestTypeOK
  <1>3. LocksHeld /\ OwnTemporary /\ StillChecked
    BY <1>1 DEF LocksHeld, OwnTemporary, StillChecked, Opened
  <1>4. Current \subseteq {"old"} /\ saved = Current /\ typed = {} /\ drafts = {}
    BY <1>1 DEF ManifestInit, Current, Missing, NoFile
  <1>5. \A w \in Writers : WriterInv(w)
    BY <1>1, <1>4 DEF WriterInv, PresentFor, DecodedFor, KeepsSource, DraftProposed, Underway,
       Opened
  <1>6. NoEditLost /\ Broken \notin saved
    BY <1>4 DEF NoEditLost, Broken
  <1>. QED
    BY <1>2, <1>3, <1>5, <1>6 DEF ManifestInv

-----------------------------------------------------------------------------
(* The steps before a publication                                            *)

\* What they have in common: a writer decides what to say, and where to go.
Prepares(w) ==
  /\ now[w] \notin Opened \cup Finished /\ now'[w] \notin Opened \cup {"killed"}
  /\ \A v \in Writers \ {w} : /\ now'[v] = now[v] /\ source'[v] = source[v]
                              /\ seen'[v] = seen[v] /\ candidate'[v] = candidate[v]
                              /\ v \in drafts' <=> v \in drafts
  /\ DOMAIN now' = Writers /\ DOMAIN source' = Writers /\ DOMAIN seen' = Writers
  /\ DOMAIN candidate' = Writers
  /\ drafts \subseteq drafts' /\ typed' \subseteq typed \cup (drafts' \cap Writers)
  /\ backups \subseteq backups'
  /\ UNCHANGED <<manifest, text, opened, saved, collided, does, byHand>>

LEMMA PreparesStep ==
  ASSUME ManifestInv, NEW w \in Writers, Prepares(w), WriterInv(w)'
  PROVE  ManifestInv'
  <1>1. /\ UNCHANGED <<manifest, text, locks, held, temporary, saved, collided, does, byHand>>
        /\ Current' = Current
    BY DEF Prepares, opened, Current, Missing
  <1>2. ManifestTypeOK'
    BY <1>1 DEF Prepares, ManifestInv, ManifestTypeOK
  <1>3. LocksHeld' /\ StillChecked'
    BY <1>1 DEF Prepares, ManifestInv, LocksHeld, StillChecked, Opened
  <1>4. OwnTemporary'
    <2>1. temporary[w] = NoFile
      BY DEF Prepares, ManifestInv, OwnTemporary, Finished
    <2>2. now'[w] # "rename"
      BY DEF Prepares, Opened
    <2>. QED
      BY <1>1, <2>1, <2>2 DEF Prepares, ManifestInv, OwnTemporary
  <1>5. NoEditLost' /\ Broken \notin saved'
    BY <1>1 DEF Prepares, ManifestInv, NoEditLost
  <1>6. ASSUME NEW v \in Writers \ {w} PROVE WriterInv(v)'
    <2>1. WriterInv(v)
      BY DEF ManifestInv
    <2>2. PresentFor(v)' /\ DecodedFor(v)' /\ DraftProposed(v)'
      BY <1>1, <2>1 DEF Prepares, WriterInv, PresentFor, DecodedFor, DraftProposed, Missing
    <2>3. KeepsSource(v)'
      BY <1>1, <2>1 DEF Prepares, WriterInv, KeepsSource
    <2>. QED
      BY <2>2, <2>3 DEF WriterInv
  <1>. QED
    BY <1>2, <1>3, <1>4, <1>5, <1>6 DEF ManifestInv

LEMMA PreparingSteps ==
  ASSUME ManifestInv, NEW w \in Writers,
         RequireV3(w) \/ StartEdit(w) \/ StartImport(w) \/ StartReset(w) \/ Migrate(w) \/
         ReadAgain(w) \/ StartInit(w) \/ DisableBindings(w) \/ SetListeners(w) \/ Discover(w) \/
         OpenPage(w) \/ SavePage(w) \/ RecheckPage(w) \/ EditRefused(w) \/ EditUnchanged(w) \/
         EditChanged(w) \/ Compare(w)
  PROVE  Prepares(w) /\ WriterInv(w)'
  <1> USE DEF ManifestInv, ManifestTypeOK, disk, private, opened, history, Step, ReadSource,
          Propose, Prepares, Finished, Opened, Underway
  <1>was. /\ WriterInv(w) /\ temporary[w] \in Files \cup {NoFile}
          /\ Current = IF Missing THEN {} ELSE text[manifest]
    BY DEF Current
  <1>marks. Broken # "scan" /\ Broken # "file" /\ Broken # w
    BY ManifestAssumption DEF Broken
  <1>1. CASE RequireV3(w)
    <2>1. Prepares(w)
      BY <1>1 DEF RequireV3
    <2>2. PresentFor(w)'
      BY <1>was, <1>1 DEF RequireV3, WriterInv, PresentFor, Missing
    <2>3. DecodedFor(w)'
      BY <1>was, <1>marks, <1>1 DEF RequireV3, WriterInv, DecodedFor, Decodes
    <2>4. KeepsSource(w)' /\ DraftProposed(w)'
      BY <1>was, <1>1 DEF RequireV3, WriterInv, KeepsSource, DraftProposed
    <2>. QED
      BY <2>1, <2>2, <2>3, <2>4 DEF WriterInv
  <1>2. CASE StartEdit(w)
    <2>1. Prepares(w)
      BY <1>2 DEF StartEdit
    <2>2. PresentFor(w)'
      BY <1>was, <1>2 DEF StartEdit, WriterInv, PresentFor, Missing
    <2>3. DecodedFor(w)'
      BY <1>was, <1>marks, <1>2 DEF StartEdit, WriterInv, DecodedFor, Decodes
    <2>4. KeepsSource(w)' /\ DraftProposed(w)'
      BY <1>was, <1>2 DEF StartEdit, WriterInv, KeepsSource, DraftProposed
    <2>. QED
      BY <2>1, <2>2, <2>3, <2>4 DEF WriterInv
  <1>3. CASE StartImport(w)
    <2>1. Prepares(w)
      BY <1>3 DEF StartImport
    <2>2. PresentFor(w)'
      BY <1>was, <1>3 DEF StartImport, WriterInv, PresentFor, Missing
    <2>3. DecodedFor(w)'
      BY <1>was, <1>marks, <1>3 DEF StartImport, WriterInv, DecodedFor, Decodes
    <2>4. KeepsSource(w)' /\ DraftProposed(w)'
      BY <1>was, <1>3 DEF StartImport, WriterInv, KeepsSource, DraftProposed
    <2>. QED
      BY <2>1, <2>2, <2>3, <2>4 DEF WriterInv
  <1>4. CASE StartReset(w)
    <2>1. Prepares(w)
      BY <1>4 DEF StartReset
    <2>2. PresentFor(w)'
      BY <1>was, <1>4 DEF StartReset, WriterInv, PresentFor, Missing
    <2>3. DecodedFor(w)'
      BY <1>was, <1>marks, <1>4 DEF StartReset, WriterInv, DecodedFor, Decodes
    <2>4. KeepsSource(w)' /\ DraftProposed(w)'
      BY <1>was, <1>4 DEF StartReset, WriterInv, KeepsSource, DraftProposed
    <2>. QED
      BY <2>1, <2>2, <2>3, <2>4 DEF WriterInv
  <1>5. CASE Migrate(w)
    <2>1. Prepares(w)
      BY <1>5 DEF Migrate
    <2>2. PresentFor(w)'
      BY <1>was, <1>5 DEF Migrate, WriterInv, PresentFor, Missing
    <2>3. DecodedFor(w)'
      BY <1>was, <1>marks, <1>5 DEF Migrate, WriterInv, DecodedFor, Decodes
    <2>4. KeepsSource(w)' /\ DraftProposed(w)'
      BY <1>was, <1>5 DEF Migrate, WriterInv, KeepsSource, DraftProposed
    <2>. QED
      BY <2>1, <2>2, <2>3, <2>4 DEF WriterInv
  <1>6. CASE ReadAgain(w)
    <2>1. Prepares(w)
      BY <1>6 DEF ReadAgain
    <2>2. PresentFor(w)'
      BY <1>was, <1>6 DEF ReadAgain, WriterInv, PresentFor, Missing
    <2>3. DecodedFor(w)'
      BY <1>was, <1>marks, <1>6 DEF ReadAgain, WriterInv, DecodedFor, Decodes
    <2>4. KeepsSource(w)' /\ DraftProposed(w)'
      BY <1>was, <1>6 DEF ReadAgain, WriterInv, KeepsSource, DraftProposed
    <2>. QED
      BY <2>1, <2>2, <2>3, <2>4 DEF WriterInv
  <1>7. CASE StartInit(w)
    <2>1. Prepares(w)
      BY <1>7 DEF StartInit
    <2>2. PresentFor(w)'
      BY <1>was, <1>7 DEF StartInit, WriterInv, PresentFor, Missing
    <2>3. DecodedFor(w)'
      BY <1>was, <1>marks, <1>7 DEF StartInit, WriterInv, DecodedFor, Decodes
    <2>4. KeepsSource(w)' /\ DraftProposed(w)'
      BY <1>was, <1>7 DEF StartInit, WriterInv, KeepsSource, DraftProposed
    <2>. QED
      BY <2>1, <2>2, <2>3, <2>4 DEF WriterInv
  <1>8. CASE DisableBindings(w)
    <2>1. Prepares(w)
      BY <1>8 DEF DisableBindings, Amend
    <2>2. PresentFor(w)'
      BY <1>was, <1>8 DEF DisableBindings, Amend, WriterInv, PresentFor, Missing
    <2>3. DecodedFor(w)'
      BY <1>was, <1>marks, <1>8 DEF DisableBindings, Amend, WriterInv, DecodedFor, Decodes
    <2>4. KeepsSource(w)' /\ DraftProposed(w)'
      BY <1>was, <1>8 DEF DisableBindings, Amend, WriterInv, KeepsSource, DraftProposed
    <2>. QED
      BY <2>1, <2>2, <2>3, <2>4 DEF WriterInv
  <1>9. CASE SetListeners(w)
    <2>1. Prepares(w)
      BY <1>9 DEF SetListeners, Amend
    <2>2. PresentFor(w)'
      BY <1>was, <1>9 DEF SetListeners, Amend, WriterInv, PresentFor, Missing
    <2>3. DecodedFor(w)'
      BY <1>was, <1>marks, <1>9 DEF SetListeners, Amend, WriterInv, DecodedFor, Decodes
    <2>4. KeepsSource(w)' /\ DraftProposed(w)'
      BY <1>was, <1>9 DEF SetListeners, Amend, WriterInv, KeepsSource, DraftProposed
    <2>. QED
      BY <2>1, <2>2, <2>3, <2>4 DEF WriterInv
  <1>10. CASE Discover(w)
    <2>1. Prepares(w)
      BY <1>10 DEF Discover, Amend
    <2>2. PresentFor(w)'
      BY <1>was, <1>10 DEF Discover, Amend, WriterInv, PresentFor, Missing
    <2>3. DecodedFor(w)'
      BY <1>was, <1>marks, <1>10 DEF Discover, Amend, WriterInv, DecodedFor, Decodes
    <2>4. KeepsSource(w)' /\ DraftProposed(w)'
      BY <1>was, <1>10 DEF Discover, Amend, WriterInv, KeepsSource, DraftProposed
    <2>. QED
      BY <2>1, <2>2, <2>3, <2>4 DEF WriterInv
  <1>11. CASE OpenPage(w)
    <2>1. Prepares(w)
      BY <1>11 DEF OpenPage
    <2>2. PresentFor(w)'
      BY <1>was, <1>11 DEF OpenPage, WriterInv, PresentFor, Missing
    <2>3. DecodedFor(w)'
      BY <1>was, <1>marks, <1>11 DEF OpenPage, WriterInv, DecodedFor, Decodes
    <2>4. KeepsSource(w)' /\ DraftProposed(w)'
      BY <1>was, <1>11 DEF OpenPage, WriterInv, KeepsSource, DraftProposed
    <2>. QED
      BY <2>1, <2>2, <2>3, <2>4 DEF WriterInv
  <1>12. CASE SavePage(w)
    <2>1. Prepares(w)
      BY <1>12 DEF SavePage
    <2>2. PresentFor(w)'
      BY <1>was, <1>12 DEF SavePage, WriterInv, PresentFor, Missing
    <2>3. DecodedFor(w)'
      BY <1>was, <1>marks, <1>12 DEF SavePage, WriterInv, DecodedFor, Decodes
    <2>4. KeepsSource(w)' /\ DraftProposed(w)'
      BY <1>was, <1>12 DEF SavePage, WriterInv, KeepsSource, DraftProposed
    <2>. QED
      BY <2>1, <2>2, <2>3, <2>4 DEF WriterInv
  <1>13. CASE RecheckPage(w)
    <2>1. Prepares(w)
      BY <1>13 DEF RecheckPage
    <2>2. PresentFor(w)'
      BY <1>was, <1>13 DEF RecheckPage, WriterInv, PresentFor, Missing
    <2>3. DecodedFor(w)'
      BY <1>was, <1>marks, <1>13 DEF RecheckPage, WriterInv, DecodedFor, Decodes
    <2>4. KeepsSource(w)' /\ DraftProposed(w)'
      BY <1>was, <1>13 DEF RecheckPage, WriterInv, KeepsSource, DraftProposed
    <2>. QED
      BY <2>1, <2>2, <2>3, <2>4 DEF WriterInv
  <1>14. CASE EditRefused(w)
    <2>1. Prepares(w)
      BY <1>14 DEF EditRefused
    <2>2. PresentFor(w)'
      BY <1>was, <1>14 DEF EditRefused, WriterInv, PresentFor, Missing
    <2>3. DecodedFor(w)'
      BY <1>was, <1>marks, <1>14 DEF EditRefused, WriterInv, DecodedFor, Decodes
    <2>4. KeepsSource(w)' /\ DraftProposed(w)'
      BY <1>was, <1>14 DEF EditRefused, WriterInv, KeepsSource, DraftProposed
    <2>. QED
      BY <2>1, <2>2, <2>3, <2>4 DEF WriterInv
  <1>15. CASE EditUnchanged(w)
    <2>1. Prepares(w)
      BY <1>15 DEF EditUnchanged
    <2>2. PresentFor(w)'
      BY <1>was, <1>15 DEF EditUnchanged, WriterInv, PresentFor, Missing
    <2>3. DecodedFor(w)'
      BY <1>was, <1>marks, <1>15 DEF EditUnchanged, WriterInv, DecodedFor, Decodes
    <2>4. KeepsSource(w)' /\ DraftProposed(w)'
      BY <1>was, <1>15 DEF EditUnchanged, WriterInv, KeepsSource, DraftProposed
    <2>. QED
      BY <2>1, <2>2, <2>3, <2>4 DEF WriterInv
  <1>16. CASE EditChanged(w)
    <2>1. Prepares(w)
      BY <1>16 DEF EditChanged
    <2>2. PresentFor(w)'
      BY <1>was, <1>16 DEF EditChanged, WriterInv, PresentFor, Missing
    <2>3. DecodedFor(w)'
      BY <1>was, <1>marks, <1>16 DEF EditChanged, WriterInv, DecodedFor, Decodes
    <2>4. KeepsSource(w)' /\ DraftProposed(w)'
      BY <1>was, <1>16 DEF EditChanged, WriterInv, KeepsSource, DraftProposed
    <2>. QED
      BY <2>1, <2>2, <2>3, <2>4 DEF WriterInv
  <1>17. CASE Compare(w)
    <2>1. Prepares(w)
      BY <1>17 DEF Compare
    <2>2. PresentFor(w)'
      BY <1>was, <1>17 DEF Compare, WriterInv, PresentFor, Missing
    <2>3. DecodedFor(w)'
      BY <1>was, <1>marks, <1>17 DEF Compare, WriterInv, DecodedFor, Decodes
    <2>4. KeepsSource(w)' /\ DraftProposed(w)'
      BY <1>was, <1>17 DEF Compare, WriterInv, KeepsSource, DraftProposed
    <2>. QED
      BY <2>1, <2>2, <2>3, <2>4 DEF WriterInv
  <1>. QED
    BY <1>1, <1>2, <1>3, <1>4, <1>5, <1>6, <1>7, <1>8, <1>9, <1>10, <1>11, <1>12, <1>13,
       <1>14, <1>15, <1>16, <1>17

-----------------------------------------------------------------------------
(* The steps of a publication                                                *)

\* The frame of most steps: the other writers and what they hold stay as they are.
Alone(w) ==
  /\ \A v \in Writers \ {w} : /\ now'[v] = now[v] /\ held'[v] = held[v]
                              /\ temporary'[v] = temporary[v]
                              /\ v \in drafts' <=> v \in drafts
  /\ DOMAIN now' = Writers
  /\ UNCHANGED <<backups, private, typed, collided, does, byHand>>

\* The others keep what they have, when the manifest is there if it was before.
LEMMA AloneOthers ==
  ASSUME ManifestInv, NEW w \in Writers, Alone(w), Missing' => Missing
  PROVE  \A v \in Writers \ {w} : WriterInv(v)'
  <1> SUFFICES ASSUME NEW v \in Writers \ {w} PROVE WriterInv(v)'
    OBVIOUS
  <1>1. /\ now'[v] = now[v] /\ held'[v] = held[v] /\ temporary'[v] = temporary[v]
        /\ v \in drafts' <=> v \in drafts
        /\ UNCHANGED <<backups, source, seen, candidate, does>>
    BY DEF Alone, private
  <1>2. WriterInv(v)
    BY DEF ManifestInv
  <1>3. PresentFor(v)'
    BY <1>1, <1>2 DEF WriterInv, PresentFor, Missing
  <1>4. DecodedFor(v)' /\ KeepsSource(v)' /\ DraftProposed(v)'
    BY <1>1, <1>2 DEF WriterInv, DecodedFor, KeepsSource, DraftProposed
  <1>. QED
    BY <1>3, <1>4 DEF WriterInv

\* A writer that ends, for whatever reason, leaves the manifest alone.
Ends(w) ==
  /\ now[w] \notin Finished /\ now'[w] \in Finished /\ Alone(w)
  /\ locks' = [f \in Files |-> IF locks[f] = w THEN Nobody ELSE locks[f]]
  /\ held' \in [Writers -> Files \cup {NoFile}] /\ temporary' \in [Writers -> Files \cup {NoFile}]
  /\ temporary'[w] = NoFile \/ (now'[w] = "killed" /\ temporary'[w] = temporary[w])
  /\ UNCHANGED <<manifest, text, drafts, saved>>

LEMMA EndsStep ==
  ASSUME ManifestInv, NEW w \in Writers, Ends(w)
  PROVE  ManifestInv'
  <1>1. /\ UNCHANGED <<manifest, text, drafts, saved, backups, typed, collided, does, byHand>>
        /\ UNCHANGED <<source, seen, candidate>>
        /\ Current' = Current
    BY DEF Ends, Alone, private, Current, Missing
  <1>2. \A v \in Writers \ {w} : /\ now'[v] = now[v] /\ held'[v] = held[v]
                                 /\ temporary'[v] = temporary[v]
    BY DEF Ends, Alone
  <1>3. ManifestTypeOK'
    BY <1>1 DEF Ends, Alone, ManifestInv, ManifestTypeOK
  <1>4. now'[w] \notin Underway \cup {"page", "recheck", "migrated", "editor"}
    BY DEF Ends, Finished, Underway, Opened
  <1>5. LocksHeld'
    <2>1. ASSUME NEW v \in Writers \ {w}, now'[v] \in Opened
          PROVE  /\ held'[v] # NoFile
                 /\ now'[v] \in {"locked", "rename"} => locks'[held'[v]] = v
      <3>1. held[v] \in Files /\ (now[v] \in {"locked", "rename"} => locks[held[v]] = v)
        BY <1>2, <2>1 DEF ManifestInv, ManifestTypeOK, LocksHeld, NoFile
      <3>. QED
        BY <1>2, <3>1, <2>1 DEF Ends, NoFile, ManifestInv, LocksHeld
    <2>. QED
      BY <1>4, <2>1 DEF LocksHeld, Underway, Opened
  <1>6. OwnTemporary'
    <2>1. OwnTemporary /\ \A v \in Writers : temporary'[v] \in {temporary[v], NoFile}
      BY <1>2 DEF Ends, ManifestInv
    <2>2. /\ now'[w] # "killed" => temporary'[w] = NoFile
          /\ now'[w] # "rename"
      BY <1>4 DEF Ends, Underway, Opened
    <2>3. ASSUME NEW v \in Writers, temporary'[v] # NoFile
          PROVE  /\ temporary'[v] # manifest'
                 /\ \A u \in Writers \ {v} : temporary'[u] # temporary'[v]
      BY <1>1, <2>1, <2>3 DEF OwnTemporary
    <2>4. ASSUME NEW v \in Writers \ {w}
          PROVE  /\ now'[v] \notin Opened \cup {"killed"} => temporary'[v] = NoFile
                 /\ now'[v] = "rename" => temporary'[v] # NoFile
                 /\ temporary'[v] # NoFile /\ now'[v] # "killed" =>
                      text'[temporary'[v]] = candidate'[v]
      BY <1>1, <1>2, <2>1 DEF OwnTemporary
    <2>. QED
      BY <2>2, <2>3, <2>4 DEF OwnTemporary
  <1>7. StillChecked'
    BY <1>1, <1>2, <1>4 DEF ManifestInv, StillChecked, Underway, Opened
  <1>8. NoEditLost' /\ Broken \notin saved'
    BY <1>1 DEF ManifestInv, NoEditLost
  <1>9. WriterInv(w)'
    <2>1. PresentFor(w)'
      BY <1>1, <1>4 DEF ManifestInv, WriterInv, PresentFor, Missing, Underway, Opened
    <2>2. DecodedFor(w)' /\ KeepsSource(w)' /\ DraftProposed(w)'
      BY <1>4 DEF Ends, DecodedFor, KeepsSource, DraftProposed, Underway, Opened
    <2>. QED
      BY <2>1, <2>2 DEF WriterInv
  <1>10. \A v \in Writers \ {w} : WriterInv(v)'
    BY <1>1, AloneOthers DEF Ends, Missing
  <1>. QED
    BY <1>3, <1>5, <1>6, <1>7, <1>8, <1>9, <1>10 DEF ManifestInv

\* The actions that end so
LEMMA EndingSteps ==
  ASSUME ManifestInv, NEW w \in Writers,
         \/ WriteFails(w) \/ Kill(w)
         \/ Flock(w) /\ locks[held[w]] # Nobody
         \/ CheckSnapshot(w) /\ ~(SameManifest(w) /\ temporary[w] # NoFile)
  PROVE  Ends(w)
  <1> USE DEF ManifestInv, ManifestTypeOK, Ends, Alone, disk, private, history, Step, Finished
  <1>1. CASE WriteFails(w)
    BY <1>1 DEF WriteFails, Close
  <1>2. CASE Kill(w)
    BY <1>2 DEF Kill
  <1>3. CASE Flock(w) /\ locks[held[w]] # Nobody
    BY <1>3 DEF Flock, Close
  <1>4. CASE CheckSnapshot(w) /\ ~(SameManifest(w) /\ temporary[w] # NoFile)
    BY <1>4 DEF CheckSnapshot, Close
  <1>. QED
    BY <1>1, <1>2, <1>3, <1>4

\* Only who finds no lock on a file has one, and only who finds the manifest as it was
\* read goes on to rename.
LEMMA LocksStep ==
  ASSUME ManifestInv, NEW w \in Writers,
         \/ Flock(w) /\ locks[held[w]] = Nobody
         \/ CheckSnapshot(w) /\ SameManifest(w) /\ temporary[w] # NoFile
  PROVE  ManifestInv'
  <1>1. /\ UNCHANGED <<manifest, text, drafts, saved, backups, typed, collided, does, byHand>>
        /\ UNCHANGED <<source, seen, candidate, held, temporary>>
        /\ Current' = Current
    BY DEF Flock, CheckSnapshot, disk, private, history, opened, Current, Missing
  <1>2. \E l \in {"locked", "rename"} :
          /\ now' = [now EXCEPT ![w] = l] /\ now[w] \in {"opened", "locked"}
          /\ l = "rename" => SameManifest(w) /\ temporary[w] # NoFile /\ now[w] = "locked"
          /\ IF l = "locked" THEN locks[held[w]] = Nobody /\ locks' = [locks EXCEPT ![held[w]] = w]
             ELSE UNCHANGED locks
    BY DEF Flock, CheckSnapshot, Step, opened
  <1>3. /\ \A v \in Writers \ {w} : now'[v] = now[v]
        /\ now'[w] \in {"locked", "rename"} /\ now[w] \in {"opened", "locked"}
        /\ now'[w] = "rename" => SameManifest(w) /\ temporary[w] # NoFile
        /\ DOMAIN now' = Writers
    BY <1>2 DEF ManifestInv, ManifestTypeOK
  <1>4. ManifestTypeOK'
    BY <1>1, <1>2 DEF ManifestInv, ManifestTypeOK
  <1>5. LocksHeld'
    <2>1. \A v \in Writers : now[v] \in Opened => held[v] \in Files
      BY DEF ManifestInv, ManifestTypeOK, LocksHeld, NoFile
    <2>2. locks'[held[w]] = w
      BY <1>2, <2>1 DEF ManifestInv, ManifestTypeOK, LocksHeld, Opened
    <2>3. ASSUME NEW v \in Writers \ {w}, now[v] \in {"locked", "rename"}
          PROVE  locks'[held[v]] = v
      <3>1. locks[held[v]] = v /\ held[v] \in Files /\ v # Nobody
        BY <2>1, <2>3, ManifestAssumption DEF ManifestInv, LocksHeld, Opened
      <3>. QED
        BY <1>2, <3>1 DEF ManifestInv, ManifestTypeOK
    <2>. QED
      BY <1>1, <1>3, <2>2, <2>3 DEF ManifestInv, LocksHeld, Opened
  <1>6. OwnTemporary'
    BY <1>1, <1>3 DEF ManifestInv, OwnTemporary, Opened
  <1>7. StillChecked'
    BY <1>1, <1>3 DEF ManifestInv, StillChecked, SameManifest
  <1>8. NoEditLost' /\ Broken \notin saved'
    BY <1>1 DEF ManifestInv, NoEditLost
  <1>9. WriterInv(w)'
    <2>1. WriterInv(w)
      BY DEF ManifestInv
    <2>2. PresentFor(w)' /\ DecodedFor(w)'
      BY <1>1, <1>3, <2>1 DEF WriterInv, PresentFor, DecodedFor, Missing, Underway, Opened
    <2>3. KeepsSource(w)'
      BY <1>1, <1>3, <2>1 DEF WriterInv, KeepsSource, Opened
    <2>4. DraftProposed(w)'
      BY <1>1, <1>3, <2>1 DEF WriterInv, DraftProposed, Underway, Opened, Finished
    <2>. QED
      BY <2>2, <2>3, <2>4 DEF WriterInv
  <1>10. \A v \in Writers \ {w} : WriterInv(v)'
    <2>1. Alone(w)
      BY <1>1, <1>3 DEF Alone, private
    <2>. QED
      BY <1>1, <2>1, AloneOthers DEF Missing
  <1>. QED
    BY <1>4, <1>5, <1>6, <1>7, <1>8, <1>9, <1>10 DEF ManifestInv

\* A new file is written, of which nobody knew, and the manifest is opened.
LEMMA OpenStep ==
  ASSUME ManifestInv, NEW w \in Writers, Open(w)
  PROVE  ManifestInv'
  <1>1. /\ UNCHANGED <<manifest, locks, drafts, saved, backups, typed, collided, does, byHand>>
        /\ UNCHANGED <<source, seen, candidate>>
        /\ now' = [now EXCEPT ![w] = "opened"] /\ now[w] \in {"publish", "verify"}
        /\ held' = [held EXCEPT ![w] = manifest]
    BY DEF Open, private, history, Step
  <1>2. /\ FreeFile \in Files /\ FreeFile # NoFile /\ FreeFile # manifest
        /\ \A v \in Writers : FreeFile # temporary[v]
    BY FreeFileIsFree DEF ManifestInv
  <1>3. /\ \A v \in Writers \ {w} : now'[v] = now[v] /\ held'[v] = held[v]
        /\ now'[w] = "opened" /\ held'[w] = manifest /\ DOMAIN now' = Writers
    BY <1>1 DEF ManifestInv, ManifestTypeOK
  <1>4. ~Missing /\ manifest \in Files /\ temporary[w] = NoFile
    BY <1>1 DEF ManifestInv, ManifestTypeOK, WriterInv, PresentFor, Missing, OwnTemporary,
       Opened
  <1>5. /\ \A v \in Writers \ {w} : temporary'[v] = temporary[v]
        /\ \/ now[w] = "publish" /\ temporary'[w] = FreeFile /\ text'[FreeFile] = candidate[w]
           \/ now[w] = "verify" /\ temporary'[w] = NoFile
        /\ \A f \in Files \ {FreeFile} : text'[f] = text[f]
    BY <1>1, <1>2, <1>4 DEF Open, ManifestInv, ManifestTypeOK
  <1>6. ManifestTypeOK'
    BY <1>1, <1>2 DEF Open, ManifestInv, ManifestTypeOK
  <1>7. Current' = Current
    BY <1>1, <1>2, <1>4, <1>5 DEF Current, Missing
  <1>8. LocksHeld'
    BY <1>1, <1>3, <1>4 DEF ManifestInv, LocksHeld, Missing
  <1>9. OwnTemporary'
    <2>1. OwnTemporary /\ temporary \in [Writers -> Files \cup {NoFile}]
      BY DEF ManifestInv, ManifestTypeOK
    <2>2. ASSUME NEW v \in Writers \ {w}, temporary[v] # NoFile
          PROVE  /\ temporary[v] \in Files \ {FreeFile} /\ temporary[v] # manifest
                 /\ \A u \in Writers \ {v} : temporary'[u] # temporary[v]
      BY <1>2, <1>5, <2>1, <2>2 DEF OwnTemporary
    <2>3. ASSUME NEW v \in Writers \ {w}
          PROVE  /\ now'[v] \notin Opened \cup {"killed"} => temporary'[v] = NoFile
                 /\ now'[v] = "rename" => temporary'[v] # NoFile
                 /\ temporary'[v] # NoFile =>
                      /\ temporary'[v] # manifest'
                      /\ \A u \in Writers \ {v} : temporary'[u] # temporary'[v]
                      /\ now'[v] # "killed" => text'[temporary'[v]] = candidate'[v]
      BY <1>1, <1>3, <1>5, <2>1, <2>2 DEF OwnTemporary
    <2>4. temporary'[w] # NoFile =>
            /\ temporary'[w] # manifest'
            /\ \A u \in Writers \ {w} : temporary'[u] # temporary'[w]
            /\ text'[temporary'[w]] = candidate'[w]
      BY <1>1, <1>2, <1>5
    <2>. QED
      BY <1>3, <2>3, <2>4 DEF OwnTemporary, Opened
  <1>10. StillChecked'
    <2>1. text'[manifest] = text[manifest]
      BY <1>2, <1>4, <1>5
    <2>. QED
      BY <1>1, <1>3, <2>1 DEF ManifestInv, StillChecked
  <1>11. NoEditLost' /\ Broken \notin saved'
    BY <1>1, <1>7 DEF ManifestInv, NoEditLost
  <1>12. WriterInv(w)'
    <2>1. WriterInv(w)
      BY DEF ManifestInv
    <2>2. PresentFor(w)' /\ DecodedFor(w)'
      BY <1>1, <1>3, <1>4, <2>1 DEF WriterInv, PresentFor, DecodedFor, Missing, Underway
    <2>3. KeepsSource(w)'
      BY <1>1, <1>3, <1>5, <2>1 DEF WriterInv, KeepsSource
    <2>4. DraftProposed(w)'
      BY <1>1, <1>3, <2>1 DEF WriterInv, DraftProposed, Underway, Opened, Finished
    <2>. QED
      BY <2>2, <2>3, <2>4 DEF WriterInv
  <1>13. \A v \in Writers \ {w} : WriterInv(v)'
    <2>1. Alone(w)
      BY <1>1, <1>3, <1>5 DEF Alone, private
    <2>. QED
      BY <1>1, <2>1, AloneOthers DEF Missing
  <1>. QED
    BY <1>6, <1>8, <1>9, <1>10, <1>11, <1>12, <1>13 DEF ManifestInv

\* A first manifest: nobody had one to lose, and the draft it was made from is in it.
LEMMA CreateStep ==
  ASSUME ManifestInv, NEW w \in Writers, Create(w), Missing
  PROVE  ManifestInv'
  <1>1. /\ UNCHANGED <<locks, held, temporary, backups, typed, collided, does, byHand>>
        /\ UNCHANGED <<source, seen, candidate>>
        /\ now' = [now EXCEPT ![w] = "done"] /\ now[w] = "create"
        /\ manifest' = FreeFile /\ text' = [text EXCEPT ![FreeFile] = candidate[w]]
        /\ saved' = saved \cup candidate[w] /\ drafts' = drafts \ {w}
    BY DEF Create, private, opened, Step
  <1>2. /\ FreeFile \in Files /\ FreeFile # NoFile
        /\ \A v \in Writers : FreeFile # temporary[v]
    BY FreeFileIsFree DEF ManifestInv
  <1>3. /\ \A v \in Writers \ {w} : now'[v] = now[v]
        /\ now'[w] = "done" /\ DOMAIN now' = Writers
        /\ ~Missing' /\ Current = {} /\ Current' = candidate[w]
        /\ \A f \in Files \ {FreeFile} : text'[f] = text[f]
    BY <1>1, <1>2 DEF ManifestInv, ManifestTypeOK, Missing, Current
  <1>4. \A v \in Writers : now[v] \notin Opened
    BY DEF ManifestInv, WriterInv, PresentFor, Missing, Opened
  <1>5. Broken \notin candidate[w] /\ (w \in drafts => w \in candidate[w])
    BY <1>1 DEF ManifestInv, WriterInv, DecodedFor, DraftProposed, Underway, Finished
  <1>6. ManifestTypeOK'
    BY <1>1, <1>2 DEF ManifestInv, ManifestTypeOK
  <1>7. LocksHeld' /\ StillChecked'
    BY <1>3, <1>4 DEF LocksHeld, StillChecked, Opened
  <1>8. OwnTemporary'
    <2>1. OwnTemporary /\ temporary \in [Writers -> Files \cup {NoFile}]
      BY DEF ManifestInv, ManifestTypeOK
    <2>2. temporary[w] = NoFile
      BY <1>1, <2>1 DEF OwnTemporary, Opened
    <2>3. \A v \in Writers : temporary[v] # NoFile => text'[temporary[v]] = text[temporary[v]]
      BY <1>2, <1>3, <2>1
    <2>. QED
      BY <1>1, <1>2, <1>3, <1>4, <2>1, <2>2, <2>3 DEF OwnTemporary, Opened
  <1>9. NoEditLost' /\ Broken \notin saved'
    BY <1>1, <1>3, <1>5 DEF ManifestInv, NoEditLost
  <1>10. WriterInv(w)'
    BY <1>3 DEF WriterInv, PresentFor, DecodedFor, KeepsSource, DraftProposed, Underway, Opened,
       Finished
  <1>11. \A v \in Writers \ {w} : WriterInv(v)'
    <2>1. Alone(w)
      BY <1>1, <1>3 DEF Alone, private
    <2>. QED
      BY <1>3, <2>1, AloneOthers
  <1>. QED
    BY <1>6, <1>7, <1>8, <1>9, <1>10, <1>11 DEF ManifestInv

\* Who renames has the lock of the manifest, so nobody else is about to; what goes is
\* what it read, and that is in what comes, or in a backup.
LEMMA RenameStep ==
  ASSUME ManifestInv, NEW w \in Writers, Rename(w)
  PROVE  ManifestInv'
  <1>1. /\ UNCHANGED <<text, backups, typed, collided, does, byHand, source, seen, candidate>>
        /\ now' = [now EXCEPT ![w] = "done"] /\ now[w] = "rename"
        /\ manifest' = temporary[w]
        /\ locks' = [f \in Files |-> IF locks[f] = w THEN Nobody ELSE locks[f]]
        /\ held' = [held EXCEPT ![w] = NoFile] /\ temporary' = [temporary EXCEPT ![w] = NoFile]
        /\ saved' = saved \cup candidate[w] /\ drafts' = drafts \ {w}
    BY DEF Rename, Close, private, Step
  <1>2. /\ \A v \in Writers \ {w} : /\ now'[v] = now[v] /\ held'[v] = held[v]
                                    /\ temporary'[v] = temporary[v]
        /\ now'[w] = "done" /\ temporary'[w] = NoFile /\ DOMAIN now' = Writers
    BY <1>1 DEF ManifestInv, ManifestTypeOK
  <1>3. /\ temporary[w] \in Files /\ temporary[w] # NoFile /\ temporary[w] # manifest
        /\ text[temporary[w]] = candidate[w]
        /\ \A v \in Writers \ {w} : temporary[v] # temporary[w]
    BY <1>1 DEF ManifestInv, ManifestTypeOK, OwnTemporary
  <1>4. ~Missing /\ ~Missing' /\ Current = text[manifest] /\ Current' = candidate[w]
    BY <1>1, <1>3 DEF ManifestInv, WriterInv, PresentFor, Missing, Current, Opened
  <1>5. /\ Broken \notin candidate[w] /\ (w \in drafts => w \in candidate[w])
        /\ source[w] \ {Broken} \subseteq candidate[w] \cup backups
    BY <1>1, <1>3 DEF ManifestInv, WriterInv, DecodedFor, DraftProposed, KeepsSource, Underway,
       Opened,
                      Finished
  <1>6. ManifestTypeOK'
    BY <1>1, <1>3 DEF ManifestInv, ManifestTypeOK
  <1>7. \A v \in Writers : now[v] \in {"locked", "rename"} =>
                             held[v] \in Files /\ locks[held[v]] = v
    BY DEF ManifestInv, ManifestTypeOK, LocksHeld, Opened
  <1>8. LocksHeld'
    <2>1. ASSUME NEW v \in Writers \ {w}, now[v] \in {"locked", "rename"}
          PROVE  locks'[held[v]] = v
      BY <1>1, <1>7, <2>1
    <2>. QED
      BY <1>2, <2>1 DEF ManifestInv, LocksHeld, Opened
  <1>9. OwnTemporary'
    BY <1>1, <1>2, <1>3 DEF ManifestInv, OwnTemporary, Opened
  <1>10. StillChecked'
    <2>1. ASSUME ~collided, NEW v \in Writers, now'[v] = "rename" PROVE FALSE
      <3>1. v # w /\ now[v] = "rename"
        BY <1>2, <2>1
      <3>2. held[v] = manifest /\ held[w] = manifest
        BY <1>1, <2>1, <3>1 DEF ManifestInv, StillChecked
      <3>. QED
        BY <1>1, <1>7, <3>1, <3>2
    <2>. QED
      BY <1>1, <2>1 DEF StillChecked
  <1>11. NoEditLost' /\ Broken \notin saved'
    <2>1. ASSUME ~collided PROVE Current \ {Broken} \subseteq candidate[w] \cup backups
      <3>1. text[manifest] = source[w]
        BY <1>1, <2>1 DEF ManifestInv, StillChecked
      <3>. QED
        BY <1>4, <1>5, <3>1
    <2>2. Broken \notin saved /\ Broken \notin typed
      BY ManifestAssumption DEF ManifestInv, ManifestTypeOK
    <2>. QED
      BY <1>1, <1>4, <1>5, <2>1, <2>2 DEF ManifestInv, NoEditLost
  <1>12. WriterInv(w)'
    BY <1>2, <1>4 DEF WriterInv, PresentFor, DecodedFor, KeepsSource, DraftProposed, Underway,
       Opened,
                      Finished
  <1>13. \A v \in Writers \ {w} : WriterInv(v)'
    <2>1. Alone(w)
      BY <1>1, <1>2 DEF Alone, private
    <2>. QED
      BY <1>4, <2>1, AloneOthers
  <1>. QED
    BY <1>6, <1>8, <1>9, <1>10, <1>11, <1>12, <1>13 DEF ManifestInv

\* Who writes by hand keeps what is there, but may do so after a writer's check.
LEMMA WriteByHandStep ==
  ASSUME ManifestInv, WriteByHand
  PROVE  ManifestInv'
  <1>1. PICK inPlace \in BOOLEAN, broken \in SUBSET {Broken}, hand \in {"first", "second"} :
          /\ manifest' = IF inPlace /\ ~Missing THEN manifest ELSE FreeFile
          /\ text' = [text EXCEPT ![manifest'] = (Current \ {Broken}) \cup {hand} \cup broken]
          /\ saved' = saved \cup {hand}
    <2>1. byHand = 0 \/ byHand = 1
      BY ManifestAssumption DEF WriteByHand, ManifestInv, ManifestTypeOK
    <2>2. <<"first", "second">>[byHand + 1] \in {"first", "second"}
      BY <2>1
    <2>. QED
      BY <2>2 DEF WriteByHand
  <1>2. /\ UNCHANGED <<locks, held, temporary, backups, drafts, typed, does, now>>
        /\ UNCHANGED <<source, seen, candidate>>
        /\ collided' = (collided \/ \E w \in Writers : now[w] = "rename")
        /\ byHand' = byHand + 1
    BY DEF WriteByHand, private, opened
  <1>3. /\ FreeFile \in Files /\ FreeFile # NoFile
        /\ \A v \in Writers : FreeFile # temporary[v]
    BY FreeFileIsFree DEF ManifestInv
  <1>4. /\ manifest' \in Files /\ manifest' # NoFile /\ manifest' \in {manifest, FreeFile}
        /\ \A v \in Writers : temporary[v] # NoFile => temporary[v] # manifest'
        /\ \A f \in Files \ {manifest'} : text'[f] = text[f]
        /\ Current' = (Current \ {Broken}) \cup {hand} \cup broken
        /\ hand # Broken
    BY <1>1, <1>3 DEF ManifestInv, ManifestTypeOK, OwnTemporary, Missing, Current, Broken
  <1>5. ManifestTypeOK'
    BY <1>1, <1>2, <1>4 DEF ManifestInv, ManifestTypeOK
  <1>6. LocksHeld'
    BY <1>2 DEF ManifestInv, LocksHeld
  <1>7. OwnTemporary'
    <2>1. \A v \in Writers : temporary[v] # NoFile => text'[temporary[v]] = text[temporary[v]]
      BY <1>4 DEF ManifestInv, ManifestTypeOK
    <2>. QED
      BY <1>2, <1>4, <2>1 DEF ManifestInv, OwnTemporary
  <1>8. StillChecked'
    BY <1>2 DEF StillChecked
  <1>9. NoEditLost' /\ Broken \notin saved'
    <2>1. Broken \notin saved /\ Broken \notin typed
      BY ManifestAssumption DEF ManifestInv, ManifestTypeOK
    <2>. QED
      BY <1>1, <1>2, <1>4, <2>1 DEF ManifestInv, NoEditLost
  <1>10. ASSUME NEW w \in Writers PROVE WriterInv(w)'
    <2>1. WriterInv(w)
      BY DEF ManifestInv
    <2>. QED
      BY <1>2, <1>4, <2>1 DEF WriterInv, PresentFor, DecodedFor, KeepsSource, DraftProposed,
         Missing
  <1>. QED
    BY <1>5, <1>6, <1>7, <1>8, <1>9, <1>10 DEF ManifestInv

-----------------------------------------------------------------------------
(* Every step                                                                *)

LEMMA ManifestInvStep == ManifestInv /\ [ManifestNext]_manifestVars => ManifestInv'
  <1> SUFFICES ASSUME ManifestInv, [ManifestNext]_manifestVars PROVE ManifestInv'
    OBVIOUS
  <1>1. ASSUME NEW w \in Writers, Create(w) PROVE ManifestInv'
    <2>1. CASE Missing
      BY <1>1, <2>1, CreateStep
    <2>2. CASE ~Missing
      <3>1. Prepares(w)
        BY <1>1, <2>2 DEF Create, Prepares, private, Step, Opened, Finished, ManifestInv,
                          ManifestTypeOK
      <3>2. now'[w] \in {"done", "refused"} /\ ~Missing'
        BY <1>1, <2>2 DEF Create, Step, Missing, ManifestInv, ManifestTypeOK
      <3>3. WriterInv(w)'
        BY <3>2 DEF WriterInv, PresentFor, DecodedFor, KeepsSource, DraftProposed, Underway, Opened,
                    Finished
      <3>. QED
        BY <3>1, <3>3, PreparesStep
    <2>. QED
      BY <2>1, <2>2
  <1>2. ASSUME NEW w \in Writers, WriterMoves(w) \/ Kill(w) PROVE ManifestInv'
    BY <1>1, <1>2, PreparingSteps, PreparesStep, EndingSteps, EndsStep, LocksStep, OpenStep,
       RenameStep DEF WriterMoves
  <1>3. CASE UNCHANGED manifestVars
    <2>1. /\ UNCHANGED <<manifest, text, locks, held, temporary, drafts, saved, backups, typed>>
          /\ UNCHANGED <<collided, does, byHand, source, seen, candidate, now>>
      BY <1>3 DEF manifestVars, disk, private, opened, history
    <2>2. ManifestTypeOK' /\ LocksHeld' /\ StillChecked'
      BY <2>1 DEF ManifestInv, ManifestTypeOK, LocksHeld, StillChecked
    <2>3. OwnTemporary' /\ NoEditLost'
      BY <2>1 DEF ManifestInv, OwnTemporary, NoEditLost, Current, Missing
    <2>4. \A w \in Writers : WriterInv(w)'
      BY <2>1 DEF ManifestInv, WriterInv, PresentFor, DecodedFor, KeepsSource, DraftProposed,
                  Missing
    <2>. QED
      BY <2>1, <2>2, <2>3, <2>4 DEF ManifestInv
  <1>. QED
    BY <1>2, <1>3, WriteByHandStep DEF ManifestNext

\* Whoever is about to rename has the lock of the file that is the manifest, and
\* renames a file of its own that says what it proposed, in which, or in a backup, is
\* what it read (publishManifestUpdate, verifyManifestSnapshot, publishNewManifest).
THEOREM ManifestInvariance == ManifestSpec => []ManifestInv
  <1>. QED
    BY ManifestInvInit, ManifestInvStep, PTL DEF ManifestSpec

\* Unless somebody wrote by hand between a writer's check and its rename, whatever was
\* saved, and whatever a user changed in a draft, is in the manifest, in a backup or in
\* a draft that was kept: for any number of writers of any kinds, and whoever dies.
THEOREM NoEditIsLost == ManifestSpec => []NoEditLost
  <1>1. ManifestInv => NoEditLost
    BY DEF ManifestInv
  <1>. QED
    BY <1>1, ManifestInvariance, PTL

-----------------------------------------------------------------------------
(* ServiceVerification                                                       *)

\* Before the registry is observed nothing is counted.
Unobserved == {"ports", "baseline", "start", "health", "listeners"}

VerifyTypeOK ==
  /\ quiet \in -1 .. Duration /\ calm \in 0 .. Duration
  /\ request.attempt \in Nat /\ request = [pc |-> request.pc, attempt |-> request.attempt,
                                           shows |-> request.shows]

\* A listener at the right address was seen, and the registry is observed after it was.
PortHad ==
  /\ port = "service" /\ address = Mode => bound
  /\ step = "registry" => bound /\ Registered

\* What was there all through a look is in what the look shows.
LookShows == request.pc = "asked" => lasting \subseteq Added(request.shows)

\* A look that failed, or that will take another attempt, is not forgotten: else the
\* registry was quiet no longer than no look failed.
QuietIsCalm ==
  /\ request.pc = "asked" => request.attempt > 0
  /\ step \in Unobserved => quiet = -1
  /\ step = "registry" =>
       \/ quiet <= calm
       \/ request.pc = "none" /\ request.attempt > 0
       \/ request.pc = "asked" /\ request.attempt > 1

VerifyInv == VerifyTypeOK /\ PortHad /\ LookShows /\ QuietIsCalm

LEMMA VerifyInvInit == VerifyInit => VerifyInv
  BY VerificationAssumption
     DEF VerifyInit, VerifyInv, VerifyTypeOK, PortHad, LookShows, QuietIsCalm, Unobserved, NoRequest

\* Most steps leave the looks at the registry and the time since alone.
Apart ==
  /\ UNCHANGED <<quiet, calm, request, baseline>> /\ lasting' \subseteq lasting
  /\ step' = "registry" => step = "registry"
  /\ step' \in Unobserved => step \in Unobserved

LEMMA ApartSteps ==
  ASSUME [VerifyNext]_verifyVars
  PROVE  Apart \/ Look \/ LookFails \/ Baseline \/ Listeners \/ ObserveRegistry \/ Deadline \/ Tick
  <1>1. CASE Ports \/ StartProcess \/ Finalize \/ InterruptStart
    BY <1>1 DEF Ports, StartProcess, Finalize, InterruptStart, Apart, Unobserved
  <1>2. CASE Check \/ Judge
    BY <1>2 DEF Check, Judge, Apart, Unobserved
  <1>3. CASE Bind \/ StrangerBinds \/ Exits \/ UNCHANGED verifyVars
    BY <1>3 DEF Bind, StrangerBinds, Exits, verifyVars, Apart
  <1>4. ASSUME NEW i \in Instances, Enrols(i) \/ Expires(i) PROVE Apart
    BY <1>4 DEF Enrols, Expires, Apart
  <1>. QED
    BY <1>1, <1>2, <1>3, <1>4 DEF VerifyNext, CommandStep

LEMMA VerifyTypeStep ==
  ASSUME VerifyTypeOK, [VerifyNext]_verifyVars
  PROVE  VerifyTypeOK'
  <1> USE VerificationAssumption DEF VerifyTypeOK
  <1>1. CASE Apart
    BY <1>1 DEF Apart
  <1>2. CASE Look \/ LookFails
    BY <1>2 DEF Look, LookFails, NoRequest
  <1>3. CASE Baseline \/ Listeners \/ Deadline
    BY <1>3 DEF Baseline, Listeners, Deadline, NoRequest
  <1>4. CASE ObserveRegistry
    BY <1>4 DEF ObserveRegistry, NoRequest
  <1>5. CASE Tick
    BY <1>5 DEF Tick
  <1>. QED
    BY <1>1, <1>2, <1>3, <1>4, <1>5, ApartSteps

LEMMA PortHadStep ==
  ASSUME PortHad, [VerifyNext]_verifyVars
  PROVE  PortHad'
  <1> USE DEF PortHad
  <1>1. CASE Ports \/ Look \/ LookFails \/ Baseline \/ StartProcess
    BY <1>1 DEF Ports, Look, LookFails, Baseline, StartProcess
  <1>2. CASE Check \/ Judge \/ Deadline \/ Finalize \/ InterruptStart \/ Tick
    BY <1>2 DEF Check, Judge, Deadline, Finalize, InterruptStart, Tick
  <1>3. CASE Listeners
    BY <1>3 DEF Listeners, GroupListens, AtMode
  <1>4. CASE ObserveRegistry
    BY <1>4 DEF ObserveRegistry
  <1>5. CASE Bind \/ StrangerBinds \/ Exits \/ UNCHANGED verifyVars
    BY <1>5 DEF Bind, StrangerBinds, Exits, verifyVars
  <1>6. ASSUME NEW i \in Instances, Enrols(i) \/ Expires(i) PROVE PortHad'
    BY <1>6 DEF Enrols, Expires
  <1>. QED
    BY <1>1, <1>2, <1>3, <1>4, <1>5, <1>6 DEF VerifyNext, CommandStep

LEMMA LookShowsStep ==
  ASSUME VerifyTypeOK, LookShows, [VerifyNext]_verifyVars
  PROVE  LookShows'
  <1> USE DEF LookShows, Added
  <1>1. CASE Apart
    BY <1>1 DEF Apart
  <1>2. CASE Look
    BY <1>2 DEF Look
  <1>3. CASE LookFails \/ Baseline \/ ObserveRegistry \/ Deadline
    BY <1>3 DEF LookFails, Baseline, ObserveRegistry, Deadline, NoRequest, VerifyTypeOK
  <1>4. CASE Listeners \/ Tick
    BY <1>4 DEF Listeners, Tick
  <1>. QED
    BY <1>1, <1>2, <1>3, <1>4, ApartSteps

LEMMA QuietIsCalmStep ==
  ASSUME VerifyTypeOK, QuietIsCalm, [VerifyNext]_verifyVars
  PROVE  QuietIsCalm'
  <1> USE VerificationAssumption DEF VerifyTypeOK, QuietIsCalm
  <1>1. CASE Apart
    BY <1>1 DEF Apart
  <1>2. CASE Look
    <2>1. request' = [pc |-> "asked", attempt |-> request.attempt + 1, shows |-> Shown]
      BY <1>2 DEF Look
    <2>. QED
      BY <1>2, <2>1 DEF Look
  <1>3. CASE LookFails
    <2>1. /\ request'.pc = "none" /\ UNCHANGED quiet
          /\ (step \in Unobserved => quiet = -1)
          /\ \/ UNCHANGED step /\ request'.attempt = request.attempt
             \/ step' = "failed"
      BY <1>3 DEF LookFails, NoRequest
    <2>2. request.attempt > 0
      BY <1>3 DEF LookFails
    <2>. QED
      BY <2>1, <2>2 DEF Unobserved
  <1>4. CASE Baseline \/ Listeners \/ Deadline
    BY <1>4 DEF Baseline, Listeners, Deadline, Unobserved, NoRequest
  <1>5. CASE ObserveRegistry
    BY <1>5 DEF ObserveRegistry, NoRequest, Unobserved
  <1>6. CASE Tick
    BY <1>6 DEF Tick
  <1>. QED
    BY <1>1, <1>2, <1>3, <1>4, <1>5, <1>6, ApartSteps

LEMMA VerifyInvStep ==
  ASSUME VerifyInv, [VerifyNext]_verifyVars
  PROVE  VerifyInv'
  BY VerifyTypeStep, PortHadStep, LookShowsStep, QuietIsCalmStep DEF VerifyInv

\* At every state of the verification, for any manifest and any instances in the
\* registry: a listener the code has accepted was there, a look shows whatever was
\* there all through it, and the time that is counted holds no failed look that is
\* forgotten (verifyServiceListeners, verifyServiceRegistry).
THEOREM VerifyInvariance == VerifySpec => []VerifyInv
  <1>1. VerifyInit => VerifyInv
    BY VerifyInvInit
  <1>2. VerifyInv /\ [VerifyNext]_verifyVars => VerifyInv'
    BY VerifyInvStep
  <1>. QED
    BY <1>1, <1>2, PTL DEF VerifySpec

Earned == level' = "verified" /\ level # "verified" /\ Observed =>
            bound /\ (Registered => calm >= Duration /\ lasting = {})

LEMMA VerifyStepEarns ==
  ASSUME VerifyInv, [VerifyNext]_verifyVars
  PROVE  Earned
  <1> USE DEF Earned
  <1>1. CASE Ports \/ Look \/ LookFails \/ Baseline \/ Deadline \/ Finalize \/ InterruptStart
    BY <1>1 DEF Ports, Look, LookFails, Baseline, Deadline, Finalize, InterruptStart
  <1>2. CASE \/ StartProcess \/ Check \/ Tick \/ Bind \/ StrangerBinds \/ Exits
            \/ UNCHANGED verifyVars
    BY <1>2 DEF StartProcess, Check, Tick, Bind, StrangerBinds, Exits, verifyVars
  <1>3. ASSUME NEW i \in Instances, Enrols(i) \/ Expires(i) PROVE Earned
    BY <1>3 DEF Enrols, Expires
  <1>4. CASE Judge
    BY <1>4 DEF Judge
  <1>5. CASE Listeners
    <2>. SUFFICES ASSUME level' = "verified", level # "verified" PROVE bound /\ ~Registered
      OBVIOUS
    <2>. QED
      BY <1>5 DEF Listeners, GroupListens, AtMode, VerifyInv, PortHad
  <1>6. CASE ObserveRegistry
    <2>. SUFFICES ASSUME level' = "verified", level # "verified"
                  PROVE  bound /\ calm >= Duration /\ lasting = {}
      OBVIOUS
    <2>1. /\ step = "registry" /\ request.pc = "asked"
          /\ Added(request.shows) = {}
          /\ quiet # -1 /\ ~(request.attempt > 1) => quiet >= Duration
          /\ ~(quiet = -1 \/ request.attempt > 1)
      BY <1>6, VerificationAssumption DEF ObserveRegistry
    <2>2. bound /\ lasting = {}
      BY <2>1 DEF VerifyInv, PortHad, LookShows
    <2>3. calm >= Duration
      BY <2>1, VerificationAssumption DEF VerifyInv, VerifyTypeOK, QuietIsCalm
    <2>. QED
      BY <2>2, <2>3
  <1>. QED
    BY <1>1, <1>2, <1>3, <1>4, <1>5, <1>6 DEF VerifyNext, CommandStep

\* A service whose runtime is observed is called verified only when it has had its
\* port itself at the right address, only after a time as long as the manifest wants
\* in which no look at the registry failed, and never while an instance the baseline
\* does not have was there all through the last look (start, verifyServiceListeners
\* and verifyServiceRegistry).
THEOREM VerificationEarned == VerifySpec => VerificationIsEarned
  <1>1. VerifyInv /\ [VerifyNext]_verifyVars => [Earned]_verifyVars
    BY VerifyStepEarns
  <1>. QED
    BY <1>1, VerifyInvariance, PTL DEF VerifySpec, VerificationIsEarned, Earned

-----------------------------------------------------------------------------
(* LogStream                                                                 *)

\* A line that shows positions in their order
Climbs(q) == q \in Seq(Nat) /\ \A h, i \in 1 .. Len(q) : h < i => q[h] < q[i]

\* ... and one that shows all of them after a up to b
Run(q, a, b) == q \in Seq(Nat) /\ Len(q) = b - a /\ \A i \in 1 .. Len(q) : q[i] = a + i

\* A run shows exactly the positions between its ends, in their order.
LEMMA RunClimbs ==
  ASSUME NEW a \in Nat, NEW b \in Nat, a <= b, NEW q, Run(q, a, b)
  PROVE  Climbs(q) /\ \A p : p \in Range(q) <=> p \in a + 1 .. b
  <1>1. Climbs(q)
    BY DEF Run, Climbs
  <1>2. DOMAIN q = 1 .. b - a /\ \A i \in 1 .. b - a : q[i] = a + i
    BY DEF Run
  <1>3. ASSUME NEW p \in a + 1 .. b PROVE p - a \in 1 .. b - a /\ a + (p - a) = p
    OBVIOUS
  <1>4. \A p : p \in Range(q) <=> p \in a + 1 .. b
    <2>1. \A p \in Range(q) : p \in a + 1 .. b
      BY <1>2 DEF Range
    <2>2. \A p \in a + 1 .. b : p \in Range(q)
      BY <1>2, <1>3 DEF Range
    <2>. QED
      BY <2>1, <2>2
  <1>. QED
    BY <1>1, <1>4

\* ... as Positions does.
LEMMA PositionsRun ==
  ASSUME NEW a \in Nat, NEW b \in Nat, a <= b
  PROVE  Run(Positions(a, b), a, b)
  <1>. DEFINE n == b - a
  <1>1. n \in Nat
    OBVIOUS
  <1>. HIDE DEF n
  <1>2. [i \in 1 .. n |-> a + i] \in Seq(Nat) /\ Len([i \in 1 .. n |-> a + i]) = n
    BY <1>1
  <1>3. Positions(a, b) = [i \in 1 .. n |-> a + i]
    BY DEF Positions, n
  <1>4. \A i \in 1 .. n : [j \in 1 .. n |-> a + j][i] = a + i
    OBVIOUS
  <1>. QED
    BY <1>2, <1>3, <1>4 DEF Run, n

\* A line that is cut at the limit keeps what it begins with.
LEMMA TruncatedIs ==
  ASSUME NEW q \in Seq(Nat)
  PROVE  /\ Truncated(q) \in Seq(Nat)
         /\ \A i \in 1 .. Len(Truncated(q)) : i \in 1 .. Len(q) /\ Truncated(q)[i] = q[i]
         /\ \A i \in 1 .. Len(q) : i <= LineLimit => i \in 1 .. Len(Truncated(q))
  <1>1. LineLimit \in Nat /\ Len(q) \in Nat
    BY StreamAssumption
  <1>2. CASE Len(q) <= LineLimit
    BY <1>1, <1>2 DEF Truncated
  <1>3. CASE ~(Len(q) <= LineLimit)
    <2>1. /\ SubSeq(q, 1, LineLimit) \in Seq(Nat) /\ Len(SubSeq(q, 1, LineLimit)) = LineLimit
          /\ \A i \in 1 .. LineLimit : SubSeq(q, 1, LineLimit)[i] = q[i]
      BY <1>1, <1>3
    <2>. QED
      BY <1>1, <1>3, <2>1 DEF Truncated
  <1>. QED
    BY <1>2, <1>3

\* ... and so goes on climbing.
LEMMA TruncatedRange ==
  ASSUME NEW q, Climbs(q)
  PROVE  Climbs(Truncated(q)) /\ Range(Truncated(q)) \subseteq Range(q)
  BY TruncatedIs, SMTT(60) DEF Climbs, Range

\* Lines cut one after the other from L, the first c of it left out
Cut(L, m, c) == [k \in 1 .. m |-> Truncated(L[k + c])]

\* Lines that climb, each after those before it and all after what was given, go on
\* from it when each is cut at the limit.
LEMMA LinesGoOn ==
  ASSUME NEW N \in Nat, NEW L, NEW m \in Int, NEW c \in Nat, m + c <= N,
         \A k \in 1 .. N : Climbs(L[k]),
         \A j, k \in 1 .. N : j < k => \A x \in Range(L[j]), y \in Range(L[k]) : x < y,
         NEW given \in SUBSET Nat,
         \A k \in 1 .. N : \A x \in Range(L[k]) : \A p \in given : p < x
  PROVE  /\ Cut(L, m, c) \in Seq(Seq(Nat)) /\ DOMAIN Cut(L, m, c) = 1 .. m
         /\ \A k \in 1 .. m : /\ k + c \in 1 .. N /\ Cut(L, m, c)[k] = Truncated(L[k + c])
                              /\ Range(Cut(L, m, c)[k]) \subseteq Range(L[k + c])
         /\ GoesOn(given, Cut(L, m, c))
  <1>. DEFINE lines == Cut(L, m, c)
  <1>1. \A k \in 1 .. m : k + c \in 1 .. N
    OBVIOUS
  <1>2. \A k \in 1 .. m : /\ lines[k] = Truncated(L[k + c]) /\ Climbs(lines[k])
                          /\ Range(lines[k]) \subseteq Range(L[k + c])
    BY <1>1, TruncatedRange DEF Cut
  <1>3. DOMAIN lines = 1 .. m
    BY DEF Cut
  <1>4. lines \in Seq(Seq(Nat))
    <2>1. \A k \in 1 .. m : Truncated(L[k + c]) \in Seq(Nat)
      BY <1>2 DEF Climbs
    <2>. DEFINE T == Seq(Nat)
    <2>2. lines \in [1 .. m -> T]
      BY <2>1 DEF Cut
    <2>. HIDE DEF T, lines
    <2>3. PICK n \in Nat : 1 .. m = 1 .. n
      <3>1. m \in Nat \/ 1 .. m = 1 .. 0
        OBVIOUS
      <3>. QED
        BY <3>1
    <2>4. lines \in Seq(T)
      BY <2>2, <2>3, SeqDef
    <2>. QED
      BY <2>4 DEF T, lines
  <1>5. GoesOn(given, lines)
    <2>. HIDE DEF lines
    <2>. SUFFICES ASSUME NEW k \in 1 .. m, NEW i \in DOMAIN lines[k]
                  PROVE  /\ \A p \in given : p < lines[k][i]
                         /\ \A h \in 1 .. (i - 1) : lines[k][h] < lines[k][i]
                         /\ \A j \in 1 .. (k - 1) : \A p \in Range(lines[j]) : p < lines[k][i]
      BY <1>3 DEF GoesOn
    <2>1. lines[k][i] \in Range(lines[k]) /\ lines[k][i] \in Range(L[k + c])
      BY <1>2 DEF Range
    <2>2. \A p \in given : p < lines[k][i]
      BY <1>1, <2>1
    <2>3. \A h \in 1 .. (i - 1) : lines[k][h] < lines[k][i]
      <3>1. i \in 1 .. Len(lines[k]) /\ Len(lines[k]) \in Nat
        BY <1>2 DEF Climbs
      <3>2. \A h \in 1 .. (i - 1) : h \in 1 .. Len(lines[k]) /\ h < i
        BY <3>1
      <3>. QED
        BY <1>2, <3>1, <3>2 DEF Climbs
    <2>4. \A j \in 1 .. (k - 1) : \A p \in Range(lines[j]) : p < lines[k][i]
      <3>1. ASSUME NEW j \in 1 .. (k - 1), NEW p \in Range(lines[j]) PROVE p < lines[k][i]
        <4>1. j \in 1 .. m /\ j + c < k + c
          OBVIOUS
        <4>2. p \in Range(L[j + c])
          BY <1>2, <4>1
        <4>. QED
          BY <1>1, <2>1, <4>1, <4>2
      <3>. QED
        BY <3>1
    <2>. QED
      BY <2>2, <2>3, <2>4
  <1>. QED
    BY <1>1, <1>2, <1>3, <1>4, <1>5

\* The newlines in their order, none missing
NewlinesOf(l, from, to, ends) ==
  /\ ends \in Seq(Nat)
  /\ \A k \in 1 .. Len(ends) : ends[k] \in from + 1 .. to /\ Byte(l, ends[k]) = "n"
  /\ \A j, k \in 1 .. Len(ends) : j < k => ends[j] < ends[k]
  /\ \A p \in from + 1 .. to : Byte(l, p) = "n" => \E k \in 1 .. Len(ends) : ends[k] = p

\* Newlines finds them.
LEMMA NewlinesAre ==
  ASSUME NEW l, NEW from \in Nat, NEW to \in Nat
  PROVE  NewlinesOf(l, from, to, Newlines(l, from, to))
  <1>. DEFINE S == {p \in from + 1 .. to : Byte(l, p) = "n"}
  <1>1. S \in SUBSET Nat
    OBVIOUS
  <1>2. IsFiniteSet(S)
    <2>1. IsFiniteSet(from + 1 .. to)
      BY FS_Interval
    <2>. QED
      BY <2>1, FS_Subset
  <1>3. Newlines(l, from, to) = Sorted(S)
    BY DEF Newlines
  <1>4. \A x : x \in S <=> x \in from + 1 .. to /\ Byte(l, x) = "n"
    OBVIOUS
  <1>. HIDE DEF S
  <1>5. /\ Sorted(S) \in Seq(S)
        /\ {Sorted(S)[i] : i \in DOMAIN Sorted(S)} = S
        /\ \A i, j \in DOMAIN Sorted(S) : i < j => Sorted(S)[i] < Sorted(S)[j]
    BY <1>1, <1>2, SortedLists
  <1>6. Sorted(S) \in Seq(Nat) /\ DOMAIN Sorted(S) = 1 .. Len(Sorted(S))
    <2>. DEFINE q == Sorted(S)
    <2>1. q \in Seq(S) /\ \A x \in S : x \in Nat
      BY <1>1, <1>5, Zenon
    <2>. HIDE DEF q
    <2>2. q \in Seq(Nat) /\ DOMAIN q = 1 .. Len(q)
      BY <2>1
    <2>. QED
      BY <2>2 DEF q
  <1>7. \A k \in 1 .. Len(Sorted(S)) : Sorted(S)[k] \in S
    BY <1>5, <1>6
  <1>8. \A p \in S : \E k \in 1 .. Len(Sorted(S)) : Sorted(S)[k] = p
    BY <1>5, <1>6
  <1>. QED
    BY <1>3, <1>4, <1>5, <1>6, <1>7, <1>8 DEF NewlinesOf

\* Where the k-th part ends
Until(to, ends, k) == IF k > Len(ends) THEN to ELSE ends[k] - 1

\* Each part is a run without a newline, and lies after the part before it.
LEMMA PiecesAre ==
  ASSUME NEW l, NEW from \in Nat, NEW to \in Nat, from <= to, NEW ends, NewlinesOf(l, from, to, ends)
  PROVE  /\ Len(ends) \in Nat
         /\ \A k \in 1 .. Len(ends) + 1 :
              /\ Before(from, ends, k) \in Nat /\ Until(to, ends, k) \in Nat
              /\ from <= Before(from, ends, k) /\ Before(from, ends, k) <= Until(to, ends, k)
              /\ Until(to, ends, k) <= to
              /\ Run(Piece(from, to, ends, k), Before(from, ends, k), Until(to, ends, k))
              /\ k = 1 => Before(from, ends, k) = from
              /\ k # 1 => Before(from, ends, k) > from /\ Byte(l, Before(from, ends, k)) = "n"
              /\ \A r \in Before(from, ends, k) + 1 .. Until(to, ends, k) : Byte(l, r) # "n"
         /\ \A j, k \in 1 .. Len(ends) + 1 : j < k => Until(to, ends, j) < Before(from, ends, k)
  <1>. DEFINE n == Len(ends)
  <1>0. n \in Nat /\ \A k \in 1 .. n : ends[k] \in from + 1 .. to /\ ends[k] \in Nat
    BY DEF NewlinesOf
  <1>1. \A k \in 1 .. n + 1 : (k = 1 \/ k - 1 \in 1 .. n) /\ (k = n + 1 \/ k \in 1 .. n)
    BY <1>0
  <1>2. \A k \in 1 .. n + 1 : /\ Before(from, ends, k) \in from .. to
                              /\ k = 1 => Before(from, ends, k) = from
                              /\ k # 1 => Before(from, ends, k) = ends[k - 1] /\ k - 1 \in 1 .. n
    BY <1>0, <1>1 DEF Before
  <1>3. \A k \in 1 .. n + 1 : /\ Until(to, ends, k) \in from .. to
                              /\ k = n + 1 => Until(to, ends, k) = to
                              /\ k # n + 1 => Until(to, ends, k) = ends[k] - 1 /\ k \in 1 .. n
    BY <1>0, <1>1 DEF Until
  <1>. HIDE DEF n
  <1>4. \A j, k \in 1 .. n : j < k => ends[j] < ends[k]
    BY DEF NewlinesOf, n
  <1>5. \A k \in 1 .. n + 1 : Before(from, ends, k) <= Until(to, ends, k)
    <2>. SUFFICES ASSUME NEW k \in 1 .. n + 1 PROVE Before(from, ends, k) <= Until(to, ends, k)
      OBVIOUS
    <2>1. CASE k = 1 \/ k = n + 1
      BY <2>1, <1>0, <1>2, <1>3
    <2>2. CASE k # 1 /\ k # n + 1
      <3>1. k - 1 \in 1 .. n /\ k \in 1 .. n /\ k - 1 < k
        BY <2>2, <1>1
      <3>2. ends[k - 1] < ends[k] /\ ends[k] \in Nat /\ ends[k - 1] \in Nat
        BY <3>1, <1>0, <1>4
      <3>. QED
        BY <2>2, <3>2, <1>2, <1>3
    <2>. QED
      BY <2>1, <2>2
  <1>6. ASSUME NEW j \in 1 .. n + 1, NEW k \in 1 .. n + 1, j < k
        PROVE  Until(to, ends, j) < Before(from, ends, k)
    <2>1. j # n + 1 /\ k # 1 /\ j \in 1 .. n /\ k - 1 \in 1 .. n /\ (j = k - 1 \/ j < k - 1)
      BY <1>6, <1>0
    <2>2. ends[j] \in Nat /\ ends[k - 1] \in Nat /\ ends[j] <= ends[k - 1]
      BY <2>1, <1>0, <1>4
    <2>. QED
      BY <2>1, <2>2, <1>2, <1>3
  <1>7. ASSUME NEW k \in 1 .. n + 1
        PROVE  Run(Piece(from, to, ends, k), Before(from, ends, k), Until(to, ends, k))
    <2>1. Piece(from, to, ends, k) = Positions(Before(from, ends, k), Until(to, ends, k))
      BY DEF Piece, Until
    <2>2. Before(from, ends, k) \in Nat /\ Until(to, ends, k) \in Nat
      BY <1>2, <1>3
    <2>. QED
      BY <2>1, <2>2, <1>5, PositionsRun
  <1>8. ASSUME NEW k \in 1 .. n + 1, NEW r \in Before(from, ends, k) + 1 .. Until(to, ends, k)
        PROVE  Byte(l, r) # "n"
    <2>. SUFFICES ASSUME Byte(l, r) = "n" PROVE FALSE
      OBVIOUS
    <2>1. r \in from + 1 .. to
      BY <1>2, <1>3
    <2>2. PICK j \in 1 .. n : ends[j] = r
      BY <2>1 DEF NewlinesOf, n
    <2>3. CASE j < k
      <3>1. k - 1 \in 1 .. n /\ (j = k - 1 \/ j < k - 1) /\ k # 1
        BY <2>3, <1>1
      <3>2. ends[j] <= ends[k - 1] /\ ends[k - 1] \in Nat
        BY <3>1, <1>0, <1>4
      <3>. QED
        BY <3>1, <3>2, <2>2, <1>2
    <2>4. CASE j >= k
      <3>1. k \in 1 .. n /\ k # n + 1 /\ (j = k \/ k < j)
        BY <2>4, <1>0
      <3>2. ends[k] <= ends[j] /\ ends[k] \in Nat
        BY <3>1, <1>0, <1>4
      <3>. QED
        BY <3>1, <3>2, <2>2, <1>3
    <2>. QED
      BY <2>3, <2>4
  <1>9. \A k \in 1 .. n + 1 : k # 1 => Before(from, ends, k) > from /\ Byte(l, Before(from, ends, k)) = "n"
    <2>1. \A k \in 1 .. n : ends[k] > from /\ Byte(l, ends[k]) = "n"
      BY <1>0 DEF NewlinesOf, n
    <2>. QED
      BY <2>1, <1>2
  <1>10. \A k \in 1 .. n + 1 : /\ Before(from, ends, k) \in Nat /\ Until(to, ends, k) \in Nat
                               /\ from <= Before(from, ends, k) /\ Until(to, ends, k) <= to
    BY <1>2, <1>3
  <1>. QED
    BY <1>0, <1>2, <1>5, <1>6, <1>7, <1>8, <1>9, <1>10 DEF n

\* Every other byte is in a part.
LEMMA PieceOf ==
  ASSUME NEW l, NEW from \in Nat, NEW to \in Nat, from <= to, NEW ends, NewlinesOf(l, from, to, ends),
         NEW p \in from + 1 .. to, Byte(l, p) # "n"
  PROVE  \E k \in 1 .. Len(ends) + 1 : p \in Before(from, ends, k) + 1 .. Until(to, ends, k)
  <1>. DEFINE n == Len(ends)
              Later == {k \in 1 .. n + 1 : k = n + 1 \/ p < ends[k]}
  <1>0. n \in Nat /\ \A k \in 1 .. n : ends[k] \in Nat /\ ends[k] # p
    BY DEF NewlinesOf
  <1>1. PICK k \in Later : \A j \in Later : k <= j
    <2>1. Later \in SUBSET Nat /\ n + 1 \in Later
      BY <1>0
    <2>. HIDE DEF Later
    <2>. QED
      BY <2>1, SmallestOf
  <1>2. k \in 1 .. n + 1 /\ (k = n + 1 \/ p < ends[k])
    OBVIOUS
  <1>3. k # 1 => k - 1 \in 1 .. n /\ ends[k - 1] < p
    <2>. SUFFICES ASSUME k # 1 PROVE k - 1 \in 1 .. n /\ ends[k - 1] < p
      OBVIOUS
    <2>1. k - 1 \in 1 .. n /\ k - 1 # n + 1
      BY <1>0, <1>2
    <2>2. k - 1 \notin Later
      <3>. HIDE DEF Later
      <3>. QED
        BY <1>1, <1>2, <2>1
    <2>. QED
      BY <2>1, <2>2, <1>0
  <1>4. Before(from, ends, k) < p
    BY <1>0, <1>3 DEF Before
  <1>5. p <= Until(to, ends, k)
    BY <1>0, <1>2 DEF Until
  <1>6. Before(from, ends, k) \in Nat /\ Until(to, ends, k) \in Nat
    BY <1>2, PiecesAre
  <1>. QED
    BY <1>2, <1>4, <1>5, <1>6

-----------------------------------------------------------------------------
\* The lines a chunk is cut into, the last of them unfinished
LineOf(pending, from, to, ends) ==
  [k \in 1 .. Len(ends) + 1 |-> (IF k = 1 THEN pending ELSE <<>>) \o Piece(from, to, ends, k)]

\* They climb, each after those before it, the first one going on from what was held.
LEMMA LinesClimb ==
  ASSUME NEW l, NEW from \in Nat, NEW to \in Nat, from <= to, NEW ends, NewlinesOf(l, from, to, ends),
         NEW pending, Climbs(pending), \A p \in Range(pending) : p <= from
  PROVE  LET L == LineOf(pending, from, to, ends)
         IN  /\ \A k \in 1 .. Len(ends) + 1 :
                  /\ Climbs(L[k])
                  /\ k # 1 => Run(L[k], Before(from, ends, k), Until(to, ends, k))
                  /\ \A x \in Range(L[k]) :
                       \/ k = 1 /\ x \in Range(pending)
                       \/ x \in Before(from, ends, k) + 1 .. Until(to, ends, k)
             /\ Len(L[1]) = Len(pending) + Until(to, ends, 1) - from
             /\ \A i \in 1 .. Len(pending) : L[1][i] = pending[i]
             /\ \A i \in 1 .. Until(to, ends, 1) - from : L[1][Len(pending) + i] = from + i
             /\ \A j, k \in 1 .. Len(ends) + 1 : j < k => \A x \in Range(L[j]), y \in Range(L[k]) : x < y
  <1>. DEFINE L == LineOf(pending, from, to, ends)
              n == Len(ends)
              B(k) == Before(from, ends, k)
              E(k) == Until(to, ends, k)
  <1>1. /\ n \in Nat
        /\ \A k \in 1 .. n + 1 : /\ B(k) \in Nat /\ E(k) \in Nat /\ from <= B(k) /\ B(k) <= E(k)
                                 /\ Run(Piece(from, to, ends, k), B(k), E(k))
                                 /\ k = 1 => B(k) = from
        /\ \A j, k \in 1 .. n + 1 : j < k => E(j) < B(k)
    <2>1. /\ Len(ends) \in Nat
          /\ \A k \in 1 .. Len(ends) + 1 :
              /\ Before(from, ends, k) \in Nat /\ Until(to, ends, k) \in Nat
              /\ from <= Before(from, ends, k) /\ Before(from, ends, k) <= Until(to, ends, k)
              /\ Until(to, ends, k) <= to
              /\ Run(Piece(from, to, ends, k), Before(from, ends, k), Until(to, ends, k))
              /\ k = 1 => Before(from, ends, k) = from
              /\ k # 1 => Before(from, ends, k) > from /\ Byte(l, Before(from, ends, k)) = "n"
              /\ \A r \in Before(from, ends, k) + 1 .. Until(to, ends, k) : Byte(l, r) # "n"
          /\ \A j, k \in 1 .. Len(ends) + 1 : j < k => Until(to, ends, j) < Before(from, ends, k)
      BY PiecesAre
    <2>. QED
      BY <2>1, Zenon
  <1>2. L[1] = pending \o Piece(from, to, ends, 1) /\ 1 \in 1 .. n + 1
    BY <1>1 DEF LineOf
  <1>3. ASSUME NEW k \in 1 .. n + 1, k # 1 PROVE L[k] = Piece(from, to, ends, k)
    <2>1. L[k] = <<>> \o Piece(from, to, ends, k)
      BY <1>3 DEF LineOf
    <2>2. Piece(from, to, ends, k) \in Seq(Nat)
      BY <1>1 DEF Run
    <2>. QED
      BY <2>1, <2>2, ConcatEmptySeq
  <1>. HIDE DEF L, n, B, E
  <1>4. ASSUME NEW q, Run(q, B(1), E(1)), L[1] = pending \o q
        PROVE  /\ Climbs(L[1])
               /\ \A x \in Range(L[1]) : x \in Range(pending) \/ x \in B(1) + 1 .. E(1)
               /\ Len(L[1]) = Len(pending) + E(1) - from
               /\ \A i \in 1 .. Len(pending) : L[1][i] = pending[i]
               /\ \A i \in 1 .. E(1) - from : L[1][Len(pending) + i] = from + i
    <2>. DEFINE u == L[1]
                m == Len(pending)
                z == E(1) - from
    <2>1. B(1) = from /\ z \in Nat /\ m \in Nat
      BY <1>1, <1>2 DEF Climbs
    <2>2. q \in Seq(Nat) /\ Len(q) = z /\ \A i \in 1 .. z : q[i] = from + i
      BY <1>4, <2>1 DEF Run
    <2>3. /\ u \in Seq(Nat) /\ Len(u) = m + z
          /\ \A i \in 1 .. m : u[i] = pending[i]
          /\ \A i \in 1 .. z : u[m + i] = from + i
      <3>1. pending \in Seq(Nat)
        BY DEF Climbs
      <3>2. /\ pending \o q \in Seq(Nat) /\ Len(pending \o q) = Len(pending) + Len(q)
            /\ \A i \in 1 .. Len(pending) + Len(q) :
                  (pending \o q)[i] = IF i <= Len(pending) THEN pending[i] ELSE q[i - Len(pending)]
        BY <2>2, <3>1, ConcatProperties
      <3>3. ASSUME NEW i \in 1 .. z PROVE ~(m + i <= m) /\ m + i \in 1 .. m + z /\ (m + i) - m = i
        BY <2>1
      <3>4. ASSUME NEW i \in 1 .. m PROVE i <= m /\ i \in 1 .. m + z
        BY <2>1
      <3>5. pending \o q = u /\ Len(pending) = m /\ Len(q) = z
        BY <1>4, <2>2
      <3>. HIDE DEF u, m, z
      <3>6. /\ u \in Seq(Nat) /\ Len(u) = m + z
            /\ \A i \in 1 .. m + z : u[i] = IF i <= m THEN pending[i] ELSE q[i - m]
        BY <3>2, <3>5, Zenon
      <3>7. \A i \in 1 .. m : u[i] = pending[i]
        BY <3>4, <3>6, Zenon
      <3>8. \A i \in 1 .. z : u[m + i] = q[(m + i) - m]
        BY <3>3, <3>6, Zenon
      <3>. QED
        BY <2>2, <3>3, <3>6, <3>7, <3>8, ZenonT(60)
    <2>. HIDE DEF u, m, z
    <2>4. \A i \in 1 .. m : pending[i] \in Nat /\ pending[i] <= from
      BY DEF Range, Climbs, m
    <2>5. \A i \in 1 .. m + z : i \in 1 .. m \/ (i - m \in 1 .. z /\ m + (i - m) = i)
      BY <2>1
    <2>6. ASSUME NEW h \in 1 .. m + z, NEW i \in 1 .. m + z, h < i PROVE u[h] < u[i]
      <3>1. CASE i \in 1 .. m
        <4>1. h \in 1 .. m
          BY <2>6, <3>1, <2>1
        <4>. QED
          BY <2>3, <2>6, <3>1, <4>1 DEF Climbs, m
      <3>2. CASE i \notin 1 .. m
        <4>1. i - m \in 1 .. z /\ u[i] = from + (i - m)
          BY <2>3, <2>5, <3>2
        <4>2. CASE h \in 1 .. m
          BY <4>1, <4>2, <2>1, <2>3, <2>4
        <4>3. CASE h \notin 1 .. m
          <5>1. h - m \in 1 .. z /\ u[h] = from + (h - m)
            BY <2>3, <2>5, <4>3
          <5>. QED
            BY <4>1, <5>1, <2>1, <2>6
        <4>. QED
          BY <4>2, <4>3
      <3>. QED
        BY <3>1, <3>2
    <2>7. Climbs(u)
      BY <2>3, <2>6 DEF Climbs
    <2>8. ASSUME NEW i \in 1 .. m + z PROVE u[i] \in Range(pending) \/ u[i] \in from + 1 .. from + z
      <3>1. CASE i \in 1 .. m
        <4>1. pending \in Seq(Nat) /\ i \in 1 .. Len(pending) /\ u[i] = pending[i]
          BY <2>3, <3>1 DEF Climbs, m
        <4>2. pending[i] \in Range(pending)
          BY <4>1 DEF Range
        <4>. QED
          BY <4>1, <4>2
      <3>2. CASE i \notin 1 .. m
        <4>1. PICK d \in 1 .. z : m + d = i
          BY <2>5, <3>2
        <4>2. u[i] = from + d
          BY <2>3, <4>1
        <4>. QED
          BY <4>2, <2>1
      <3>. QED
        BY <3>1, <3>2
    <2>9. from + z = E(1)
      BY <1>1, <1>2, <2>1 DEF z
    <2>10. \A x \in Range(u) : x \in Range(pending) \/ x \in from + 1 .. E(1)
      <3>1. DOMAIN u = 1 .. m + z
        BY <2>3
      <3>. QED
        BY <2>8, <2>9, <3>1 DEF Range
    <2>11. m + z = m + E(1) - from
      BY <1>1, <1>2, <2>1 DEF z
    <2>. QED
      BY <2>1, <2>3, <2>7, <2>10, <2>11 DEF u, m, z
  <1>5. ASSUME NEW k \in 1 .. n + 1, k # 1
        PROVE  Climbs(L[k]) /\ Run(L[k], B(k), E(k)) /\ \A x \in Range(L[k]) : x \in B(k) + 1 .. E(k)
    <2>1. Run(L[k], B(k), E(k))
      BY <1>1, <1>3, <1>5
    <2>. QED
      BY <2>1, <1>1, RunClimbs
  <1>6. /\ Climbs(L[1])
        /\ \A x \in Range(L[1]) : x \in Range(pending) \/ x \in B(1) + 1 .. E(1)
        /\ Len(L[1]) = Len(pending) + E(1) - from
        /\ \A i \in 1 .. Len(pending) : L[1][i] = pending[i]
        /\ \A i \in 1 .. E(1) - from : L[1][Len(pending) + i] = from + i
    BY <1>1, <1>2, <1>4
  <1>7. \A k \in 1 .. n + 1 : \A x \in Range(L[k]) : x \in Nat /\ x <= E(k) /\ (k # 1 => x > B(k))
    <2>1. \A x \in Range(pending) : x \in Nat /\ x <= from
      BY DEF Climbs, Range
    <2>2. from <= E(1) /\ E(1) \in Nat /\ B(1) \in Nat
      BY <1>1, <1>2
    <2>3. \A x \in Range(L[1]) : x \in Nat /\ x <= E(1)
      BY <1>6, <2>1, <2>2
    <2>4. ASSUME NEW k \in 1 .. n + 1, k # 1
          PROVE  \A x \in Range(L[k]) : x \in Nat /\ x <= E(k) /\ x > B(k)
      BY <1>1, <1>5, <2>4
    <2>. QED
      BY <2>3, <2>4
  <1>8. ASSUME NEW j \in 1 .. n + 1, NEW k \in 1 .. n + 1, j < k,
               NEW x \in Range(L[j]), NEW y \in Range(L[k])
        PROVE  x < y
    <2>1. k # 1 /\ E(j) < B(k) /\ E(j) \in Nat /\ B(k) \in Nat
      BY <1>1, <1>8
    <2>. QED
      BY <2>1, <1>7
  <1>9. \A k \in 1 .. n + 1 : k # 1 \/ k = 1
    OBVIOUS
  <1>10. \A k \in 1 .. n + 1 : /\ Climbs(L[k])
                               /\ k # 1 => Run(L[k], B(k), E(k))
                               /\ \A x \in Range(L[k]) : \/ k = 1 /\ x \in Range(pending)
                                                        \/ x \in B(k) + 1 .. E(k)
    BY <1>5, <1>6, <1>9
  <1>. QED
    BY <1>6, <1>8, <1>10 DEF L, n, B, E

\* What comes of a chunk: m lines, the first c of them left out, and then the line
\* that is held or is too long.
Outcome(pending, discarding, from, to, ends, m, c) ==
  LET L   == LineOf(pending, from, to, ends)
      n   == Len(ends)
      out == Consume(pending, discarding, from, to, ends)
  IN  /\ out.lines = Cut(L, m, c) /\ c = (IF discarding THEN 1 ELSE 0)
      /\ \/ /\ m + c = n + 1 /\ ~(discarding /\ n = 0) /\ Len(L[n + 1]) > LineLimit
            /\ out.pending = <<>> /\ out.discarding
         \/ /\ m + c = n /\ discarding /\ n = 0
            /\ out.pending = <<>> /\ out.discarding
         \/ /\ m + c = n /\ ~(discarding /\ n = 0) /\ Len(L[n + 1]) <= LineLimit
            /\ out.pending = L[n + 1] /\ ~out.discarding
      /\ out.discarding \in BOOLEAN

\* Consume is one of three: a line too long, more of what is discarded, a line held.
LEMMA ConsumeIs ==
  ASSUME NEW pending, NEW discarding \in BOOLEAN, NEW from, NEW to, NEW ends, Len(ends) \in Nat,
         Len(LineOf(pending, from, to, ends)[Len(ends) + 1]) \in Nat
  PROVE  \E m \in Int, c \in Nat : Outcome(pending, discarding, from, to, ends, m, c)
  <1>. DEFINE L == LineOf(pending, from, to, ends)
              n == Len(ends)
              skip  == discarding /\ n = 0
              long  == ~skip /\ Len(L[n + 1]) > LineLimit
              first == IF discarding THEN 2 ELSE 1
              last  == IF long THEN n + 1 ELSE n
              m == last + 1 - first
              c == IF discarding THEN 1 ELSE 0
              out == Consume(pending, discarding, from, to, ends)
  <1>1. out = [lines      |-> [k \in 1 .. m |-> Truncated(L[k + first - 1])],
               pending    |-> IF skip \/ long THEN <<>> ELSE L[n + 1],
               discarding |-> skip \/ long]
    BY DEF Consume, LineOf
  <1>2. n \in Nat /\ LineLimit \in Nat /\ Len(L[n + 1]) \in Nat
    BY StreamAssumption
  <1>3. m \in Int /\ c \in Nat /\ m + c = last /\ first \in Int
    <2>1. first - 1 = c /\ first \in Int /\ c \in Nat
      OBVIOUS
    <2>2. last \in Nat
      BY <1>2
    <2>. HIDE DEF first, last, c
    <2>. QED
      BY <2>1, <2>2
  <1>4. (long => last = n + 1) /\ (~long => last = n)
    OBVIOUS
  <1>5. (skip \/ long) \in BOOLEAN
    OBVIOUS
  <1>6. \A k \in 1 .. m : k + first - 1 = k + c
    BY <1>3
  <1>. HIDE DEF L, first, m
  <1>7. [k \in 1 .. m |-> Truncated(L[k + first - 1])] = Cut(L, m, c)
    BY <1>6 DEF Cut
  <1>8. out.lines = Cut(L, m, c) /\ out.pending = (IF skip \/ long THEN <<>> ELSE L[n + 1])
        /\ out.discarding = (skip \/ long)
    <2>. HIDE DEF skip, long, out, c
    <2>. QED
      BY <1>1, <1>7, Zenon
  <1>9. \/ /\ m + c = n + 1 /\ ~(discarding /\ n = 0) /\ Len(L[n + 1]) > LineLimit
           /\ skip \/ long
        \/ /\ m + c = n /\ discarding /\ n = 0 /\ (skip \/ long)
        \/ /\ m + c = n /\ ~(discarding /\ n = 0) /\ Len(L[n + 1]) <= LineLimit
           /\ ~(skip \/ long)
    BY <1>2, <1>3, <1>4
  <1>10. Outcome(pending, discarding, from, to, ends, m, c)
    <2>. HIDE DEF out, n
    <2>. QED
      BY <1>5, <1>8, <1>9, Zenon DEF Outcome, L, n, out, skip
  <1>. QED
    BY <1>3, <1>10

\* What has been given when more lines are
Given(given, lines) == given \cup UNION {Range(lines[k]) : k \in DOMAIN lines}

\* ... is what was given before or is in a line.
LEMMA GivenIs ==
  ASSUME NEW given, NEW lines
  PROVE  \A x : x \in Given(given, lines) <=> x \in given \/ \E k \in DOMAIN lines : x \in Range(lines[k])
  BY DEF Given

\* One unfinished line goes on from what was given.
LEMMA PendingGoesOn ==
  ASSUME NEW given \in SUBSET Nat, NEW q \in Seq(Nat)
  PROVE  GoesOn(given, <<q>>) <=> Climbs(q) /\ \A x \in Range(q) : \A p \in given : p < x
  <1>1. DOMAIN <<q>> = {1} /\ <<q>>[1] = q
    OBVIOUS
  <1>2. DOMAIN q = 1 .. Len(q) /\ Len(q) \in Nat
    OBVIOUS
  <1>3. GoesOn(given, <<q>>) <=>
          \A i \in 1 .. Len(q) : /\ \A p \in given : p < q[i]
                                /\ \A h \in 1 .. (i - 1) : q[h] < q[i]
    <2>1. 1 .. (1 - 1) = {}
      OBVIOUS
    <2>2. GoesOn(given, <<q>>) <=>
          \A k \in {1} : \A i \in DOMAIN <<q>>[k] :
             /\ \A p \in given : p < <<q>>[k][i]
             /\ \A h \in 1 .. (i - 1) : <<q>>[k][h] < <<q>>[k][i]
             /\ \A j \in 1 .. (k - 1) : \A p \in Range(<<q>>[j]) : p < <<q>>[k][i]
      BY <1>1, Zenon DEF GoesOn
    <2>3. GoesOn(given, <<q>>) <=>
          \A i \in DOMAIN q :
             /\ \A p \in given : p < q[i]
             /\ \A h \in 1 .. (i - 1) : q[h] < q[i]
             /\ \A j \in 1 .. (1 - 1) : \A p \in Range(<<q>>[j]) : p < q[i]
      BY <1>1, <2>2, Zenon
    <2>. QED
      BY <1>2, <2>1, <2>3
  <1>4. (\A i \in 1 .. Len(q) : \A h \in 1 .. (i - 1) : q[h] < q[i]) <=> Climbs(q)
    <2>1. \A i \in 1 .. Len(q) : \A h \in 1 .. (i - 1) : h \in 1 .. Len(q) /\ h < i
      BY <1>2
    <2>2. \A h, i \in 1 .. Len(q) : h < i => h \in 1 .. (i - 1)
      BY <1>2
    <2>. QED
      BY <2>1, <2>2, Zenon DEF Climbs
  <1>5. (\A i \in 1 .. Len(q) : \A p \in given : p < q[i]) <=> \A x \in Range(q) : \A p \in given : p < x
    BY <1>2 DEF Range
  <1>. QED
    BY <1>3, <1>4, <1>5, Zenon

\* The lines of a chunk and what is held of it go on from what was given and held
\* before.
LEMMA ConsumeGoesOn ==
  ASSUME NEW l, NEW from \in Nat, NEW to \in Nat, from <= to, NEW ends, NewlinesOf(l, from, to, ends),
         NEW pending, Climbs(pending), NEW discarding \in BOOLEAN, NEW given \in SUBSET Nat,
         \A p \in given \cup Range(pending) : p <= from,
         \A x \in Range(pending) : \A p \in given : p < x
  PROVE  LET out == Consume(pending, discarding, from, to, ends)
         IN  /\ out.lines \in Seq(Seq(Nat)) /\ out.discarding \in BOOLEAN
             /\ GoesOn(given, out.lines)
             /\ Climbs(out.pending)
             /\ Given(given, out.lines) \subseteq Nat
             /\ \A x \in Range(out.pending) : \A p \in Given(given, out.lines) : p < x
             /\ \A p \in Given(given, out.lines) \cup Range(out.pending) : p <= to
  <1>. DEFINE L == LineOf(pending, from, to, ends)
              n == Len(ends)
              out == Consume(pending, discarding, from, to, ends)
              B(k) == Before(from, ends, k)
              E(k) == Until(to, ends, k)
  <1>1. /\ n \in Nat
        /\ \A k \in 1 .. n + 1 : /\ B(k) \in Nat /\ E(k) \in Nat /\ from <= B(k) /\ B(k) <= E(k) /\ E(k) <= to
    BY PiecesAre
  <1>2. \A p \in Range(pending) : p <= from
    OBVIOUS
  <1>3. /\ \A k \in 1 .. n + 1 :
             /\ Climbs(L[k])
             /\ \A x \in Range(L[k]) : \/ k = 1 /\ x \in Range(pending)
                                      \/ x \in B(k) + 1 .. E(k)
        /\ \A j, k \in 1 .. n + 1 : j < k => \A x \in Range(L[j]), y \in Range(L[k]) : x < y
    BY <1>2, LinesClimb
  <1>4. PICK m \in Int, c \in Nat : Outcome(pending, discarding, from, to, ends, m, c)
    <2>1. n + 1 \in 1 .. n + 1 /\ Len(L[n + 1]) \in Nat
      BY <1>1, <1>3 DEF Climbs
    <2>. QED
      BY <1>1, <2>1, ConsumeIs
  <1>5. /\ out.lines = Cut(L, m, c) /\ m + c <= n + 1 /\ out.discarding \in BOOLEAN
        /\ out.pending = <<>> \/ (out.pending = L[n + 1] /\ m + c = n)
    <2>1. /\ out.lines = Cut(L, m, c) /\ out.discarding \in BOOLEAN
          /\ \/ m + c = n + 1 /\ out.pending = <<>>
             \/ m + c = n /\ out.pending = <<>>
             \/ m + c = n /\ out.pending = L[n + 1]
      BY <1>4, Zenon DEF Outcome
    <2>. QED
      BY <1>1, <2>1
  <1>. HIDE DEF L, n, out, B, E
  <1>6. \A k \in 1 .. n + 1 : \A x \in Range(L[k]) : x \in Nat /\ x <= to /\ \A p \in given : p < x
    <2>1. \A x \in Range(pending) : x \in Nat /\ x <= from /\ x <= to
      BY DEF Climbs, Range
    <2>2. ASSUME NEW k \in 1 .. n + 1, NEW x \in B(k) + 1 .. E(k)
          PROVE  x \in Nat /\ x <= to /\ \A p \in given : p < x
      <3>1. x \in Nat /\ x <= to /\ from < x
        BY <1>1
      <3>. QED
        BY <3>1
    <2>. QED
      BY <1>3, <2>1, <2>2
  <1>7. /\ Cut(L, m, c) \in Seq(Seq(Nat)) /\ DOMAIN Cut(L, m, c) = 1 .. m
        /\ \A k \in 1 .. m : k + c \in 1 .. n + 1 /\ Range(Cut(L, m, c)[k]) \subseteq Range(L[k + c])
        /\ GoesOn(given, Cut(L, m, c))
    <2>. DEFINE N == n + 1
    <2>1. /\ N \in Nat /\ m + c <= N
          /\ \A k \in 1 .. N : Climbs(L[k])
          /\ \A j, k \in 1 .. N : j < k => \A x \in Range(L[j]), y \in Range(L[k]) : x < y
          /\ \A k \in 1 .. N : \A x \in Range(L[k]) : \A p \in given : p < x
      <3>1. N \in Nat /\ m + c <= N
        BY <1>1, <1>5
      <3>2. \A k \in 1 .. N : Climbs(L[k])
        BY <1>3, Zenon
      <3>3. \A j, k \in 1 .. N : j < k => \A x \in Range(L[j]), y \in Range(L[k]) : x < y
        BY <1>3, Zenon
      <3>4. \A k \in 1 .. N : \A x \in Range(L[k]) : \A p \in given : p < x
        BY <1>6, Zenon
      <3>. QED
        BY <3>1, <3>2, <3>3, <3>4, Zenon
    <2>. HIDE DEF N
    <2>2. /\ Cut(L, m, c) \in Seq(Seq(Nat)) /\ DOMAIN Cut(L, m, c) = 1 .. m
          /\ \A k \in 1 .. m : /\ k + c \in 1 .. N /\ Cut(L, m, c)[k] = Truncated(L[k + c])
                              /\ Range(Cut(L, m, c)[k]) \subseteq Range(L[k + c])
          /\ GoesOn(given, Cut(L, m, c))
      BY <2>1, LinesGoOn
    <2>. QED
      BY <2>2 DEF N
  <1>8. \A p \in Given(given, out.lines) :
          p \in given \/ \E k \in 1 .. n + 1 : k <= m + c /\ p \in Range(L[k])
    <2>. SUFFICES ASSUME NEW p, p \notin given, NEW k \in 1 .. m, p \in Range(Cut(L, m, c)[k])
                  PROVE  \E j \in 1 .. n + 1 : j <= m + c /\ p \in Range(L[j])
      BY <1>5, <1>7, GivenIs
    <2>1. k + c \in 1 .. n + 1 /\ k + c <= m + c /\ p \in Range(L[k + c])
      BY <1>7
    <2>. QED
      BY <2>1
  <1>9. Given(given, out.lines) \subseteq Nat /\ \A p \in Given(given, out.lines) : p <= to
    <2>1. \A p \in given : p \in Nat /\ p <= to
      OBVIOUS
    <2>. QED
      BY <1>6, <1>8, <2>1
  <1>10. CASE out.pending = <<>>
    <2>1. Range(out.pending) = {} /\ Climbs(out.pending)
      BY <1>10 DEF Range, Climbs
    <2>. QED
      BY <1>5, <1>7, <1>9, <2>1 DEF out
  <1>11. CASE out.pending = L[n + 1] /\ m + c = n
    <2>1. n + 1 \in 1 .. n + 1
      BY <1>1
    <2>2. \A x \in Range(out.pending) : \A p \in Given(given, out.lines) : p < x
      <3>. SUFFICES ASSUME NEW x \in Range(L[n + 1]), NEW p \in Given(given, out.lines) PROVE p < x
        BY <1>11
      <3>1. CASE p \in given
        BY <2>1, <1>6, <3>1
      <3>2. CASE p \notin given
        <4>1. PICK k \in 1 .. n + 1 : k <= m + c /\ p \in Range(L[k])
          BY <3>2, <1>8
        <4>2. k < n + 1
          BY <4>1, <1>1, <1>11
        <4>. QED
          BY <4>1, <4>2, <2>1, <1>3
      <3>. QED
        BY <3>1, <3>2
    <2>3. Climbs(out.pending) /\ \A x \in Range(out.pending) : x <= to
      BY <2>1, <1>3, <1>6, <1>11
    <2>. QED
      BY <1>5, <1>7, <1>9, <2>2, <2>3 DEF out
  <1>. QED
    BY <1>5, <1>10, <1>11

-----------------------------------------------------------------------------
\* The byte at p begins a line since b, or is let through with what begins it.
LetThrough(l, b, p) ==
  /\ Byte(l, p) = "x"
  /\ \E q \in b .. (p - 1) :
       /\ q = b \/ Byte(l, q) = "n"
       /\ \A r \in (q + 1) .. p : Byte(l, r) = "x"
       /\ p - q <= LineLimit

\* The unfinished line at to goes on since s, a newline or where the follower began.
Unfinished(l, b, s, to) ==
  /\ s \in b .. to
  /\ s = b \/ Byte(l, s) = "n"
  /\ \A r \in s + 1 .. to : Byte(l, r) = "x"

\* There is one such place.
LEMMA OneBeginning ==
  ASSUME NEW l, NEW b \in Nat, NEW p \in Nat, NEW s \in b .. p, NEW q \in b .. p,
         s = b \/ Byte(l, s) = "n", \A r \in s + 1 .. p : Byte(l, r) = "x",
         q = b \/ Byte(l, q) = "n", \A r \in q + 1 .. p : Byte(l, r) = "x"
  PROVE  s = q
  <1>1. ASSUME s < q PROVE FALSE
    <2>1. q \in s + 1 .. p /\ q # b
      BY <1>1
    <2>. QED
      BY <2>1
  <1>2. ASSUME q < s PROVE FALSE
    <2>1. s \in q + 1 .. p /\ s # b
      BY <1>2
    <2>. QED
      BY <2>1
  <1>. QED
    BY <1>1, <1>2

\* What is held, and what the limit has already cut off
Held(l, b, s, to, pending, discarding) ==
  /\ Unfinished(l, b, s, to)
  /\ discarding => pending = <<>> /\ to - s > LineLimit
  /\ ~discarding => Run(pending, s, to) /\ to - s <= LineLimit

\* What comes of a chunk is out: every byte of it that is let through is given or
\* held, and nothing of what was held is let go.
Gained(l, b, from, to, pending, given, out) ==
  LET all == Given(given, out.lines) \cup Range(out.pending)
  IN  /\ \E t : Held(l, b, t, to, out.pending, out.discarding)
      /\ Range(pending) \subseteq all
      /\ \A p \in from + 1 .. to : LetThrough(l, b, p) => p \in all

\* Consume adds every byte that is let through, and holds what goes on.
LEMMA ConsumeCovers ==
  ASSUME NEW l, NEW b \in Nat, NEW from \in Nat, NEW to \in Nat, b <= from, from < to,
         \A p \in 1 .. to : Byte(l, p) \in {"x", "n"},
         NEW ends, NewlinesOf(l, from, to, ends),
         NEW s, NEW pending, NEW discarding \in BOOLEAN, NEW given \in SUBSET Nat,
         Held(l, b, s, from, pending, discarding)
  PROVE  Gained(l, b, from, to, pending, given, Consume(pending, discarding, from, to, ends))
  <1>. DEFINE L == LineOf(pending, from, to, ends)
              n == Len(ends)
              out == Consume(pending, discarding, from, to, ends)
              all == Given(given, out.lines) \cup Range(out.pending)
              B(k) == Before(from, ends, k)
              E(k) == Until(to, ends, k)
  <1>0. s \in Nat /\ s \in b .. from /\ from <= to /\ LineLimit \in Nat \ {0}
    BY StreamAssumption DEF Held, Unfinished
  <1>1. /\ n \in Nat
        /\ \A k \in 1 .. n + 1 :
             /\ B(k) \in Nat /\ E(k) \in Nat /\ from <= B(k) /\ B(k) <= E(k) /\ E(k) <= to
             /\ k = 1 => B(k) = from
             /\ k # 1 => B(k) > from /\ Byte(l, B(k)) = "n"
             /\ \A r \in B(k) + 1 .. E(k) : Byte(l, r) # "n"
    <2>1. /\ Len(ends) \in Nat
          /\ \A k \in 1 .. Len(ends) + 1 :
              /\ Before(from, ends, k) \in Nat /\ Until(to, ends, k) \in Nat
              /\ from <= Before(from, ends, k) /\ Before(from, ends, k) <= Until(to, ends, k)
              /\ Until(to, ends, k) <= to
              /\ Run(Piece(from, to, ends, k), Before(from, ends, k), Until(to, ends, k))
              /\ k = 1 => Before(from, ends, k) = from
              /\ k # 1 => Before(from, ends, k) > from /\ Byte(l, Before(from, ends, k)) = "n"
              /\ \A r \in Before(from, ends, k) + 1 .. Until(to, ends, k) : Byte(l, r) # "n"
          /\ \A j, k \in 1 .. Len(ends) + 1 : j < k => Until(to, ends, j) < Before(from, ends, k)
      BY <1>0, PiecesAre
    <2>. QED
      BY <2>1, Zenon
  <1>2. E(n + 1) = to
    BY <1>1 DEF Until
  <1>3. Climbs(pending) /\ \A p \in Range(pending) : p <= from
    <2>1. CASE discarding
      BY <2>1 DEF Held, Climbs, Range
    <2>2. CASE ~discarding
      <3>1. Run(pending, s, from)
        BY <2>2 DEF Held
      <3>. QED
        BY <3>1, <1>0, RunClimbs
    <2>. QED
      BY <2>1, <2>2
  <1>4. /\ \A k \in 1 .. n + 1 :
             /\ Climbs(L[k])
             /\ k # 1 => Run(L[k], B(k), E(k))
        /\ Len(L[1]) = Len(pending) + E(1) - from
        /\ \A i \in 1 .. Len(pending) : L[1][i] = pending[i]
        /\ \A i \in 1 .. E(1) - from : L[1][Len(pending) + i] = from + i
    <2>1. /\ \A k \in 1 .. Len(ends) + 1 :
                /\ Climbs(LineOf(pending, from, to, ends)[k])
                /\ k # 1 => Run(LineOf(pending, from, to, ends)[k], Before(from, ends, k), Until(to, ends, k))
                /\ \A x \in Range(LineOf(pending, from, to, ends)[k]) :
                     \/ k = 1 /\ x \in Range(pending)
                     \/ x \in Before(from, ends, k) + 1 .. Until(to, ends, k)
          /\ Len(LineOf(pending, from, to, ends)[1]) = Len(pending) + Until(to, ends, 1) - from
          /\ \A i \in 1 .. Len(pending) : LineOf(pending, from, to, ends)[1][i] = pending[i]
          /\ \A i \in 1 .. Until(to, ends, 1) - from :
                LineOf(pending, from, to, ends)[1][Len(pending) + i] = from + i
          /\ \A j, k \in 1 .. Len(ends) + 1 : j < k =>
                \A x \in Range(LineOf(pending, from, to, ends)[j]),
                   y \in Range(LineOf(pending, from, to, ends)[k]) : x < y
      <3>1. Climbs(pending) /\ from <= to /\ \A p \in Range(pending) : p <= from
        BY <1>0, <1>3
      <3>. QED
        BY <3>1, LinesClimb
    <2>. QED
      BY <2>1, Zenon
  <1>5. PICK m \in Int, c \in Nat : Outcome(pending, discarding, from, to, ends, m, c)
    <2>1. n + 1 \in 1 .. n + 1 /\ Len(L[n + 1]) \in Nat
      BY <1>1, <1>4 DEF Climbs
    <2>. QED
      BY <1>1, <2>1, ConsumeIs
  <1>6. /\ out.lines = Cut(L, m, c) /\ c = (IF discarding THEN 1 ELSE 0)
        /\ \/ /\ m + c = n + 1 /\ ~(discarding /\ n = 0) /\ Len(L[n + 1]) > LineLimit
              /\ out.pending = <<>> /\ out.discarding
           \/ /\ m + c = n /\ discarding /\ n = 0
              /\ out.pending = <<>> /\ out.discarding
           \/ /\ m + c = n /\ ~(discarding /\ n = 0) /\ Len(L[n + 1]) <= LineLimit
              /\ out.pending = L[n + 1] /\ ~out.discarding
    BY <1>5, Zenon DEF Outcome
  <1>. HIDE DEF L, n, out, B, E, all
  \* Each line but one of what is discarded is a run from its beginning ...
  <1>7. ASSUME ~discarding PROVE Run(L[1], s, E(1))
    <2>1. Run(pending, s, from) /\ 1 \in 1 .. n + 1
      BY <1>1, <1>7 DEF Held
    <2>. DEFINE u == L[1]
                d == from - s
                z == E(1) - from
    <2>2. /\ d \in Nat /\ z \in Nat /\ Len(pending) = d /\ \A i \in 1 .. d : pending[i] = s + i
      BY <1>0, <1>1, <2>1 DEF Run
    <2>3. u \in Seq(Nat) /\ Len(u) = d + z
      <3>1. d + z = d + E(1) - from
        BY <1>0, <1>1, <2>1
      <3>. QED
        BY <1>4, <2>1, <2>2, <3>1 DEF Climbs
    <2>4. (\A i \in 1 .. d : u[i] = s + i) /\ \A i \in 1 .. z : u[d + i] = from + i
      BY <1>4, <2>2
    <2>5. s + d = from /\ d + z = E(1) - s
      BY <1>0, <1>1, <2>1
    <2>. HIDE DEF u, d, z
    <2>6. \A i \in 1 .. d + z : u[i] = s + i
      <3>. SUFFICES ASSUME NEW i \in 1 .. d + z PROVE u[i] = s + i
        OBVIOUS
      <3>1. CASE i <= d
        BY <2>2, <2>4, <3>1
      <3>2. CASE ~(i <= d)
        <4>1. PICK j \in 1 .. z : i = d + j
          <5>1. i - d \in 1 .. z /\ i = d + (i - d)
            BY <2>2, <3>2
          <5>. QED
            BY <5>1
        <4>2. u[i] = from + j /\ s + i = (s + d) + j
          BY <2>2, <2>4, <4>1, <1>0
        <4>. QED
          BY <4>2, <2>5
      <3>. QED
        BY <3>1, <3>2
    <2>. QED
      BY <2>3, <2>5, <2>6 DEF Run, u
  <1>8. ASSUME NEW k \in 1 .. n + 1, k > c, k <= m + c PROVE Range(Truncated(L[k])) \subseteq all
    <2>1. k - c \in 1 .. m /\ (k - c) + c = k
      BY <1>8
    <2>2. DOMAIN out.lines = 1 .. m /\ out.lines[k - c] = Truncated(L[k])
      BY <1>6, <2>1 DEF Cut
    <2>. QED
      BY <2>1, <2>2, GivenIs DEF all
  \* ... and what the limit lets through of it is in what was cut or is held.
  <1>9. ASSUME NEW k \in 1 .. n + 1, k > c, NEW a \in Nat, Run(L[k], a, E(k)), a <= E(k),
               NEW p \in a + 1 .. E(k), p - a <= LineLimit
        PROVE  p \in all
    <2>1. p - a \in 1 .. Len(L[k]) /\ L[k][p - a] = p /\ L[k] \in Seq(Nat)
      <3>1. /\ Len(L[k]) = E(k) - a /\ L[k] \in Seq(Nat)
            /\ \A i \in 1 .. Len(L[k]) : L[k][i] = a + i
        BY <1>9 DEF Run
      <3>2. p - a \in 1 .. E(k) - a /\ a + (p - a) = p
        BY <1>1
      <3>. QED
        BY <3>1, <3>2
    <2>2. CASE k <= m + c
      <3>1. p - a \in 1 .. Len(Truncated(L[k])) /\ Truncated(L[k])[p - a] = p /\ Truncated(L[k]) \in Seq(Nat)
        BY <1>9, <2>1, TruncatedIs
      <3>2. p \in Range(Truncated(L[k]))
        BY <3>1 DEF Range
      <3>. QED
        BY <1>8, <1>9, <2>2, <3>2
    <2>3. CASE ~(k <= m + c)
      <3>1. k = n + 1 /\ m + c = n /\ (out.pending = L[n + 1] \/ (discarding /\ n = 0))
        BY <1>1, <1>6, <2>3
      <3>2. out.pending = L[n + 1]
        <4>1. discarding => c = 1
          BY <1>6
        <4>. QED
          BY <1>9, <3>1, <4>1
      <3>. QED
        BY <2>1, <3>1, <3>2 DEF Range, all
    <2>. QED
      BY <2>2, <2>3
  <1>10. \E t : Held(l, b, t, to, out.pending, out.discarding)
    <2>0. n + 1 \in 1 .. n + 1
      BY <1>1
    <2>1. ASSUME NEW a \in b .. to, a = b \/ Byte(l, a) = "n", \A r \in a + 1 .. to : Byte(l, r) # "n",
                 ~(discarding /\ n = 0) => Run(L[n + 1], a, to),
                 discarding /\ n = 0 => to - a > LineLimit
          PROVE  Held(l, b, a, to, out.pending, out.discarding)
      <3>1. Unfinished(l, b, a, to)
        <4>1. \A r \in a + 1 .. to : r \in 1 .. to
          BY <1>0
        <4>. QED
          BY <2>1, <4>1 DEF Unfinished
      <3>2. Run(L[n + 1], a, to) => Len(L[n + 1]) = to - a
        BY DEF Run
      <3>. QED
        BY <1>6, <2>1, <3>1, <3>2, Zenon DEF Held
    <2>2. CASE n = 0
      <3>1. s \in b .. to /\ \A r \in s + 1 .. to : Byte(l, r) # "n"
        <4>1. \A r \in s + 1 .. from : Byte(l, r) = "x"
          BY DEF Held, Unfinished
        <4>2. \A r \in from + 1 .. to : Byte(l, r) # "n"
          BY <1>1, <1>2, <2>0, <2>2
        <4>. QED
          BY <1>0, <4>1, <4>2
      <3>2. s = b \/ Byte(l, s) = "n"
        BY DEF Held, Unfinished
      <3>3. ~discarding => Run(L[n + 1], s, to)
        BY <1>2, <1>7, <2>2
      <3>4. discarding => to - s > LineLimit
        BY <1>0 DEF Held
      <3>. QED
        BY <2>1, <2>2, <3>1, <3>2, <3>3, <3>4
    <2>3. CASE n # 0
      <3>1. n + 1 # 1
        BY <1>1, <2>3
      <3>2. B(n + 1) \in b .. to /\ Byte(l, B(n + 1)) = "n" /\ Run(L[n + 1], B(n + 1), to)
            /\ \A r \in B(n + 1) + 1 .. to : Byte(l, r) # "n"
        BY <1>0, <1>1, <1>2, <1>4, <2>0, <3>1, SMTT(60)
      <3>. QED
        BY <2>1, <2>3, <3>2
    <2>. QED
      BY <2>2, <2>3
  <1>11. Range(pending) \subseteq all
    <2>1. CASE discarding
      BY <2>1 DEF Held, Range
    <2>2. CASE ~discarding
      <3>1. c = 0 /\ 1 \in 1 .. n + 1 /\ Run(pending, s, from) /\ from - s <= LineLimit
        BY <1>1, <1>6, <2>2 DEF Held
      <3>2. \A p \in Range(pending) : p \in s + 1 .. from
        BY <1>0, <3>1, RunClimbs
      <3>. SUFFICES ASSUME NEW p \in s + 1 .. from PROVE p \in all
        BY <3>2
      <3>3. p \in s + 1 .. E(1) /\ p - s <= LineLimit /\ s <= E(1) /\ 1 > c
        BY <1>0, <1>1, <3>1
      <3>. QED
        BY <1>0, <1>7, <1>9, <2>2, <3>1, <3>3
    <2>. QED
      BY <2>1, <2>2
  <1>12. ASSUME NEW p \in from + 1 .. to, LetThrough(l, b, p) PROVE p \in all
    <2>1. Byte(l, p) # "n" /\ p \in Nat
      BY <1>12 DEF LetThrough
    <2>2. PICK q \in b .. (p - 1) : /\ q = b \/ Byte(l, q) = "n"
                                    /\ \A r \in (q + 1) .. p : Byte(l, r) = "x"
                                    /\ p - q <= LineLimit
      BY <1>12 DEF LetThrough
    <2>3. PICK k \in 1 .. n + 1 : p \in B(k) + 1 .. E(k)
      <3>1. \E k \in 1 .. Len(ends) + 1 : p \in Before(from, ends, k) + 1 .. Until(to, ends, k)
        BY <1>0, <2>1, PieceOf
      <3>. QED
        BY <3>1 DEF n, B, E
    <2>4. \A r \in B(k) + 1 .. p : Byte(l, r) = "x"
      <3>1. \A r \in B(k) + 1 .. p : r \in B(k) + 1 .. E(k) /\ r \in 1 .. to
        BY <1>0, <1>1, <2>3
      <3>. QED
        BY <1>1, <3>1
    <2>5. CASE k # 1
      <3>1. B(k) \in b .. p /\ q \in b .. p /\ Byte(l, B(k)) = "n"
        BY <1>0, <1>1, <2>3, <2>5
      <3>2. q = B(k)
        BY <2>1, <2>2, <2>4, <3>1, OneBeginning
      <3>3. k > c
        BY <1>6, <2>5
      <3>. QED
        BY <1>1, <1>4, <1>9, <2>2, <2>3, <2>5, <3>2, <3>3
    <2>6. CASE k = 1
      <3>1. s \in b .. p /\ q \in b .. p /\ B(1) = from
        BY <1>0, <1>1, <2>3, <2>6
      <3>2. \A r \in s + 1 .. p : Byte(l, r) = "x"
        <4>1. \A r \in s + 1 .. from : Byte(l, r) = "x"
          BY DEF Held, Unfinished
        <4>. QED
          BY <1>0, <2>4, <2>6, <3>1, <4>1
      <3>3. s = b \/ Byte(l, s) = "n"
        BY DEF Held, Unfinished
      <3>4. q = s
        BY <2>1, <2>2, <3>1, <3>2, <3>3, OneBeginning
      <3>5. ~discarding
        <4>1. ~(from - s > LineLimit)
          BY <1>0, <2>2, <3>4
        <4>. QED
          BY <4>1 DEF Held
      <3>6. 1 > c /\ 1 \in 1 .. n + 1 /\ s <= E(1) /\ p \in s + 1 .. E(1)
        BY <1>0, <1>1, <1>6, <2>3, <2>6, <3>5
      <3>. QED
        BY <1>0, <1>7, <1>9, <2>2, <3>4, <3>5, <3>6
    <2>. QED
      BY <2>5, <2>6
  <1>. QED
    BY <1>10, <1>11, <1>12 DEF Gained, out, all

-----------------------------------------------------------------------------
\* The follower f has given and holds positions in their order, those of the bytes
\* it has read of a log of w bytes that has lost b: all of them, or, of a file that
\* has become shorter, the lost ones alone.
Ordered(f, b, w) ==
  /\ f.inOrder
  /\ Climbs(f.pending)
  /\ \A x \in Range(f.pending) : \A p \in f.given : p < x
  /\ \A p \in f.given \cup Range(f.pending) :
       p <= b + f.offset /\ p <= w /\ (f.offset > w - b => p <= b)

\* Of a log that has lost nothing, the follower f has given or holds what the limit
\* lets through.
Covered(l, f, w) ==
  /\ f.boundary <= f.offset /\ f.offset <= w
  /\ \E s \in f.boundary .. f.offset : Held(l, f.boundary, s, f.offset, f.pending, f.discarding)
  /\ \A p \in f.boundary + 1 .. f.offset :
       LetThrough(l, f.boundary, p) => p \in f.given \cup Range(f.pending)

\* One that has not read its log yet
Fresh(f) == f.given = {} /\ f.pending = <<>> /\ ~f.discarding

FollowerType ==
  [pc : {"idle", "start", "sending", "waiting", "ended"}, offset : Nat, pending : Seq(Nat),
   discarding : BOOLEAN, outbox : Nat, began : BOOLEAN, boundary : Nat, initial : Nat,
   given : SUBSET Nat, inOrder : BOOLEAN]

\* The inductive invariant of the followers
StreamTyped ==
  /\ written \in [Logs -> Seq({"x", "n"})]
  /\ base \in [Logs -> Nat]
  /\ selected \in Seq(Logs)
  /\ follower \in [Logs -> FollowerType]

FollowerInv(l) ==
  /\ base[l] <= Len(written[l])
  /\ follower[l].pc = "start" => l \in Range(selected) /\ Fresh(follower[l])
  /\ Ordered(follower[l], base[l], Len(written[l]))
  /\ base[l] = 0 /\ follower[l].pc \in {"sending", "waiting"} =>
       Covered(l, follower[l], Len(written[l]))

StreamInv == StreamTyped /\ \A l \in Logs : FollowerInv(l)

\* The record of a follower
LEMMA FollowerTyped ==
  ASSUME NEW pc \in {"idle", "start", "sending", "waiting", "ended"}, NEW offset \in Nat,
         NEW pending \in Seq(Nat), NEW discarding \in BOOLEAN, NEW outbox \in Nat,
         NEW began \in BOOLEAN, NEW boundary \in Nat, NEW initial \in Nat,
         NEW given \in SUBSET Nat, NEW inOrder \in BOOLEAN
  PROVE  [pc |-> pc, offset |-> offset, pending |-> pending, discarding |-> discarding,
          outbox |-> outbox, began |-> began, boundary |-> boundary, initial |-> initial,
          given |-> given, inOrder |-> inOrder] \in FollowerType
  BY DEF FollowerType

\* One that has not begun or has ended
LEMMA IdleOrdered ==
  ASSUME NEW b \in Nat, NEW w \in Nat, NEW pc \in {"idle", "start", "ended"},
         NEW f, f = [Idle EXCEPT !.pc = pc]
  PROVE  f \in FollowerType /\ f.pc = pc /\ Fresh(f) /\ Ordered(f, b, w)
  <1>1. f = [pc |-> pc, offset |-> 0, pending |-> <<>>, discarding |-> FALSE,
             outbox |-> 0, began |-> FALSE, boundary |-> 0, initial |-> 0,
             given |-> {}, inOrder |-> TRUE]
    BY DEF Idle
  <1>2. f \in FollowerType
    <2>1. /\ 0 \in Nat /\ <<>> \in Seq(Nat) /\ {} \in SUBSET Nat /\ FALSE \in BOOLEAN /\ TRUE \in BOOLEAN
          /\ pc \in {"idle", "start", "sending", "waiting", "ended"}
      OBVIOUS
    <2>2. [pc |-> pc, offset |-> 0, pending |-> <<>>, discarding |-> FALSE,
           outbox |-> 0, began |-> FALSE, boundary |-> 0, initial |-> 0,
           given |-> {}, inOrder |-> TRUE] \in FollowerType
      BY <2>1, FollowerTyped, Zenon
    <2>. QED
      BY <1>1, <2>2, Zenon
  <1>3. f.pc = pc /\ Fresh(f) /\ f.inOrder
    BY <1>1 DEF Fresh
  <1>4. Climbs(f.pending) /\ Range(f.pending) = {}
    <2>1. Climbs(<<>>) /\ Range(<<>>) = {}
      BY DEF Climbs, Range
    <2>. QED
      BY <1>3, <2>1 DEF Fresh
  <1>. QED
    BY <1>2, <1>3, <1>4 DEF Ordered, Fresh

\* What a follower is about does not change with where it is in sending its lines.
LEMMA SameHoldings ==
  ASSUME NEW l, NEW b \in Nat, NEW w \in Nat, NEW f, NEW g,
         g.offset = f.offset, g.pending = f.pending, g.discarding = f.discarding,
         g.boundary = f.boundary, g.given = f.given, g.inOrder = f.inOrder
  PROVE  /\ Ordered(f, b, w) => Ordered(g, b, w)
         /\ Covered(l, f, w) => Covered(l, g, w)
  BY Zenon DEF Ordered, Covered

\* A log that grows, and one that loses all it has, disturb no order.
LEMMA OrderedLater ==
  ASSUME NEW f \in FollowerType, NEW b \in Nat, NEW w \in Nat, NEW a \in Nat, NEW v \in Nat,
         Ordered(f, b, w), b <= w, w <= v, (a = b \/ a = w) /\ a <= v
  PROVE  Ordered(f, a, v)
  <1>. DEFINE S == f.given \cup Range(f.pending)
  <1>1. S \in SUBSET Nat /\ f.offset \in Nat
    BY DEF FollowerType, Range
  <1>2. \A p \in S : p <= b + f.offset /\ p <= w /\ (f.offset > w - b => p <= b)
    BY DEF Ordered
  <1>. HIDE DEF S
  <1>. DEFINE o == f.offset
  <1>3. o \in Nat
    BY <1>1
  <1>4. \A p \in S : p \in Nat /\ p <= b + o /\ p <= w /\ (o > w - b => p <= b)
    BY <1>1, <1>2
  <1>. HIDE DEF o
  <1>5. ASSUME NEW p \in S PROVE p <= a + o /\ p <= v /\ (o > v - a => p <= a)
    <2>1. CASE a = b
      BY <1>3, <1>4, <2>1
    <2>2. CASE a = w
      BY <1>3, <1>4, <2>2
    <2>. QED
      BY <2>1, <2>2
  <1>6. \A p \in S : p <= a + f.offset /\ p <= v /\ (f.offset > v - a => p <= a)
    BY <1>5 DEF o
  <1>. QED
    BY <1>6 DEF Ordered, S

\* A share of a budget is a number.
LEMMA ShareIsNat ==
  ASSUME NEW n \in Nat, n > 0, NEW total \in Nat, NEW i
  PROVE  Share(n, total, i) \in Nat
  <1>1. total \div n \in Nat
    BY SMT
  <1>. QED
    BY <1>1 DEF Share

\* The lines of a snapshot show positions in their order, of bytes that are there.
LEMMA SnapshotGoesOn ==
  ASSUME StreamTyped, NEW l \in Logs, base[l] <= Len(written[l]), l \in Range(selected)
  PROVE  /\ SnapshotLines(l) \in Seq(Seq(Nat))
         /\ GoesOn({}, SnapshotLines(l))
         /\ \A p \in Given({}, SnapshotLines(l)) : p \in Nat /\ p <= Len(written[l])
  <1>. DEFINE w == Len(written[l])
              boundary == Size(l)
              count == Share(Len(selected), InitialLines, Place(l))
              limit == Share(Len(selected), SnapshotBytes, Place(l))
              start == base[l] + (IF boundary > limit THEN boundary - limit ELSE 0)
              end   == base[l] + boundary
              ends  == Newlines(l, start, end)
              n     == Len(ends)
              upto  == n + (IF Before(start, ends, n + 1) = end THEN 0 ELSE 1)
              cut   == IF boundary > limit /\ ends # <<>> THEN 1 ELSE 0
              skip  == IF upto - cut > count THEN upto - count ELSE cut
              m     == upto - skip
              L     == [k \in 1 .. n + 1 |-> Piece(start, end, ends, k)]
  <1>1. w \in Nat /\ base[l] \in Nat /\ Len(selected) \in Nat /\ Len(selected) > 0
    BY DEF StreamTyped, Range
  <1>2. count \in Nat /\ limit \in Nat
    BY <1>1, ShareIsNat, StreamAssumption
  <1>3. end = w /\ boundary \in Nat /\ start \in Nat /\ end \in Nat /\ start <= end
    <2>1. boundary = w - base[l] /\ boundary \in Nat
      BY <1>1 DEF Size
    <2>. HIDE DEF w, boundary, limit, count
    <2>2. end = w /\ end \in Nat
      BY <1>1, <2>1
    <2>3. start \in Nat /\ start <= base[l] + boundary
      BY <1>1, <1>2, <2>1, SMTT(60)
    <2>. QED
      BY <2>1, <2>2, <2>3
  <1>. HIDE DEF w, boundary, count, limit, start, end
  <1>4. NewlinesOf(l, start, end, ends)
    BY <1>3, NewlinesAre
  <1>. HIDE DEF ends
  <1>5. /\ n \in Nat
        /\ \A k \in 1 .. n + 1 :
             /\ Before(start, ends, k) \in Nat /\ Until(end, ends, k) \in Nat
             /\ start <= Before(start, ends, k) /\ Before(start, ends, k) <= Until(end, ends, k)
             /\ Until(end, ends, k) <= end
             /\ Run(Piece(start, end, ends, k), Before(start, ends, k), Until(end, ends, k))
        /\ \A j, k \in 1 .. n + 1 : j < k => Until(end, ends, j) < Before(start, ends, k)
    BY <1>3, <1>4, PiecesAre
  <1>6. upto \in Nat /\ upto <= n + 1 /\ cut \in Nat
    BY <1>5
  <1>. HIDE DEF upto, cut, n
  <1>7. skip \in Nat /\ m \in Int /\ m + skip <= n + 1
    BY <1>2, <1>5, <1>6
  <1>. HIDE DEF skip, m
  <1>8. \A k \in 1 .. n + 1 : /\ Climbs(L[k])
                              /\ \A x \in Range(L[k]) : x \in Before(start, ends, k) + 1 .. Until(end, ends, k)
    BY <1>5, RunClimbs
  <1>. HIDE DEF L
  <1>9. \A j, k \in 1 .. n + 1 : j < k => \A x \in Range(L[j]), y \in Range(L[k]) : x < y
    <2>. SUFFICES ASSUME NEW j \in 1 .. n + 1, NEW k \in 1 .. n + 1, j < k,
                         NEW x \in Range(L[j]), NEW y \in Range(L[k])
                  PROVE  x < y
      OBVIOUS
    <2>1. x \in Before(start, ends, j) + 1 .. Until(end, ends, j)
      BY <1>8
    <2>2. y \in Before(start, ends, k) + 1 .. Until(end, ends, k)
      BY <1>8
    <2>. QED
      BY <1>5, <2>1, <2>2
  <1>10. /\ Cut(L, m, skip) \in Seq(Seq(Nat)) /\ DOMAIN Cut(L, m, skip) = 1 .. m
         /\ \A k \in 1 .. m : /\ k + skip \in 1 .. n + 1 /\ Cut(L, m, skip)[k] = Truncated(L[k + skip])
                              /\ Range(Cut(L, m, skip)[k]) \subseteq Range(L[k + skip])
         /\ GoesOn({}, Cut(L, m, skip))
    <2>. DEFINE N == n + 1
    <2>1. /\ N \in Nat /\ m + skip <= N
          /\ \A k \in 1 .. N : Climbs(L[k])
          /\ \A j, k \in 1 .. N : j < k => \A x \in Range(L[j]), y \in Range(L[k]) : x < y
      BY <1>5, <1>7, <1>8, <1>9
    <2>2. \A k \in 1 .. N : \A x \in Range(L[k]) : \A p \in {} : p < x
      OBVIOUS
    <2>. HIDE DEF N
    <2>3. /\ Cut(L, m, skip) \in Seq(Seq(Nat)) /\ DOMAIN Cut(L, m, skip) = 1 .. m
          /\ \A k \in 1 .. m : /\ k + skip \in 1 .. N /\ Cut(L, m, skip)[k] = Truncated(L[k + skip])
                              /\ Range(Cut(L, m, skip)[k]) \subseteq Range(L[k + skip])
          /\ GoesOn({}, Cut(L, m, skip))
      BY <1>7, <2>1, <2>2, LinesGoOn
    <2>. QED
      BY <2>3 DEF N
  <1>11. \A p \in Given({}, Cut(L, m, skip)) : p \in Nat /\ p <= w
    <2>1. ASSUME NEW k \in 1 .. m, NEW p \in Range(Cut(L, m, skip)[k]) PROVE p \in Nat /\ p <= w
      <3>1. k + skip \in 1 .. n + 1 /\ p \in Range(L[k + skip])
        BY <1>10
      <3>. DEFINE a == Before(start, ends, k + skip)
                  z == Until(end, ends, k + skip)
      <3>2. a \in Nat /\ z \in Nat /\ z <= end /\ p \in a + 1 .. z
        BY <1>5, <1>8, <3>1
      <3>. HIDE DEF a, z
      <3>. QED
        BY <1>3, <3>2
    <2>2. \A p \in Given({}, Cut(L, m, skip)) : \E k \in 1 .. m : p \in Range(Cut(L, m, skip)[k])
      <3>1. \A x : x \in Given({}, Cut(L, m, skip)) <=>
                     x \in {} \/ \E k \in DOMAIN Cut(L, m, skip) : x \in Range(Cut(L, m, skip)[k])
        BY GivenIs
      <3>. QED
        BY <1>10, <3>1, Zenon
    <2>. QED
      BY <2>1, <2>2, Zenon
  <1>12. CASE present[l]
    <2>1. SnapshotLines(l) = [k \in 1 .. m |-> Truncated(Piece(start, end, ends, skip + k))]
      BY <1>12 DEF SnapshotLines, LastLines, boundary, count, limit, start, end, ends, n, upto, cut, skip, m
    <2>2. \A k \in 1 .. m : Piece(start, end, ends, skip + k) = L[k + skip]
      <3>1. \A k \in 1 .. m : k + skip \in 1 .. n + 1 /\ skip + k = k + skip
        <4>1. \A k \in 1 .. m : k + skip \in 1 .. n + 1
          BY <1>10, Zenon
        <4>2. \A k \in 1 .. m : skip + k = k + skip
          BY <1>7
        <4>. QED
          BY <4>1, <4>2, Zenon
      <3>. QED
        BY <3>1 DEF L
    <2>3. SnapshotLines(l) = Cut(L, m, skip)
      BY <2>1, <2>2 DEF Cut
    <2>. QED
      BY <1>10, <1>11, <2>3 DEF w
  <1>13. CASE ~present[l]
    <2>1. SnapshotLines(l) = <<>>
      BY <1>13 DEF SnapshotLines
    <2>2. GoesOn({}, <<>>) /\ \A p : p \notin Given({}, <<>>)
      BY GivenIs DEF GoesOn
    <2>. QED
      BY <2>1, <2>2
  <1>. QED
    BY <1>12, <1>13

\* What a follower is once it has lines to send
LEMMA GaveIs ==
  ASSUME NEW f \in FollowerType, NEW lines \in Seq(Seq(Nat)), Given(f.given, lines) \subseteq Nat
  PROVE  LET g == Gave(f, lines)
         IN  /\ g \in FollowerType
             /\ g.pc = "sending" /\ g.outbox = Len(lines) /\ g.given = Given(f.given, lines)
             /\ f.inOrder /\ GoesOn(f.given, lines) => g.inOrder
             /\ g.offset = f.offset /\ g.pending = f.pending /\ g.discarding = f.discarding
             /\ g.began = f.began /\ g.boundary = f.boundary /\ g.initial = f.initial
  <1>. DEFINE P == Given(f.given, lines)
              D == f.inOrder /\ GoesOn(f.given, lines)
              n == Len(lines)
              g == [f EXCEPT !.pc = "sending", !.outbox = n, !.given = P, !.inOrder = D]
  <1>1. Gave(f, lines) = g
    BY DEF Gave, Given
  <1>2. P \in SUBSET Nat /\ D \in BOOLEAN /\ n \in Nat
    OBVIOUS
  <1>. HIDE DEF P, D, n
  <1>3. g \in FollowerType
    BY <1>2 DEF FollowerType
  <1>4. /\ g.pc = "sending" /\ g.outbox = n /\ g.given = P /\ g.inOrder = D
        /\ g.offset = f.offset /\ g.pending = f.pending /\ g.discarding = f.discarding
        /\ g.began = f.began /\ g.boundary = f.boundary /\ g.initial = f.initial
    BY DEF FollowerType
  <1>5. D => g.inOrder
    BY <1>2, <1>4, Zenon
  <1>. HIDE DEF g
  <1>. QED
    BY <1>1, <1>3, <1>4, <1>5, Zenon DEF P, D, n

\* Bytes that are added to a log change nothing of what was read of it.
LEMMA CoveredLater ==
  ASSUME NEW l, NEW f \in FollowerType, NEW w \in Nat, NEW v \in Nat, w <= v, Covered(l, f, w),
         \A p \in 1 .. w : written'[l][p] = written[l][p]
  PROVE  Covered(l, f, v)'
  <1>. DEFINE b == f.boundary
              o == f.offset
              Same(p) == written'[l][p] = written[l][p]
  <1>1. b \in Nat /\ o \in Nat /\ b <= o /\ o <= w
    BY DEF FollowerType, Covered
  <1>2. \A p \in 1 .. o : Same(p)
    BY <1>1
  <1>3. PICK s \in b .. o : Held(l, b, s, o, f.pending, f.discarding)
    BY DEF Covered
  <1>. HIDE DEF b, o, Same
  <1>4. (s # b => Same(s)) /\ \A r \in s + 1 .. o : Same(r)
    BY <1>1, <1>2
  <1>5. Held(l, b, s, o, f.pending, f.discarding)'
    <2>1. Unfinished(l, b, s, o)'
      BY <1>3, <1>4 DEF Held, Unfinished, Byte, Same
    <2>. QED
      BY <1>3, <2>1 DEF Held
  <1>6. ASSUME NEW p \in b + 1 .. o, LetThrough(l, b, p)' PROVE LetThrough(l, b, p)
    <2>1. PICK q \in b .. (p - 1) : /\ q = b \/ written'[l][q] = "n"
                                    /\ \A r \in (q + 1) .. p : written'[l][r] = "x"
                                    /\ p - q <= LineLimit
      BY <1>6 DEF LetThrough, Byte
    <2>2. Same(p) /\ (q # b => Same(q)) /\ \A r \in q + 1 .. p : Same(r)
      BY <1>1, <1>2
    <2>. QED
      BY <1>6, <2>1, <2>2 DEF LetThrough, Byte, Same
  <1>7. \A p \in b + 1 .. o : LetThrough(l, b, p) => p \in f.given \cup Range(f.pending)
    BY DEF Covered, b, o
  <1>8. o <= v
    BY <1>1
  <1>9. \A p \in b + 1 .. o : LetThrough(l, b, p)' => p \in f.given \cup Range(f.pending)
    BY <1>6, <1>7
  <1>. QED
    BY <1>1, <1>5, <1>8, <1>9 DEF Covered, b, o

\* A log that nobody reads in this step
LEMMA Undisturbed ==
  ASSUME StreamTyped, NEW l \in Logs, FollowerInv(l),
         follower'[l] = follower[l], l \in Range(selected) => (l \in Range(selected))',
         \/ written'[l] = written[l] /\ base'[l] = base[l]
         \/ (\E c : written'[l] = Append(written[l], c)) /\ base'[l] = base[l]
         \/ written'[l] = written[l] /\ base'[l] = Len(written[l]) /\ base[l] < Len(written[l])
  PROVE  FollowerInv(l)'
  <1>1. PICK f \in FollowerType, b \in Nat, w \in Nat : f = follower[l] /\ b = base[l] /\ w = Len(written[l])
    BY DEF StreamTyped
  <1>2. PICK a \in Nat, v \in Nat : a = base'[l] /\ v = Len(written'[l]) /\ w <= v
                                    /\ (a = b \/ (a = w /\ a # 0)) /\ a <= v
    <2>1. Len(written'[l]) \in Nat /\ w <= Len(written'[l])
      BY <1>1 DEF StreamTyped
    <2>. QED
      BY <1>1, <2>1 DEF FollowerInv
  <1>3. \A p \in 1 .. w : written'[l][p] = written[l][p]
    BY <1>1 DEF StreamTyped
  <1>4. Ordered(f, a, v)
    BY <1>1, <1>2, OrderedLater DEF FollowerInv
  <1>5. ASSUME a = 0, f.pc \in {"sending", "waiting"} PROVE Covered(l, f, v)'
    <2>1. Covered(l, f, w)
      BY <1>1, <1>2, <1>5 DEF FollowerInv
    <2>. QED
      BY <1>2, <1>3, <2>1, CoveredLater
  <1>6. f.pc = "start" => (l \in Range(selected))' /\ Fresh(f)
    BY <1>1 DEF FollowerInv
  <1>7. f = follower'[l]
    BY <1>1
  <1>8. Ordered(follower[l], base[l], Len(written[l]))'
    BY <1>2, <1>4, <1>7, Zenon
  <1>9. (base[l] = 0 /\ follower[l].pc \in {"sending", "waiting"})' => Covered(l, follower[l], Len(written[l]))'
    BY <1>2, <1>5, <1>7, Zenon
  <1>. QED
    BY <1>2, <1>6, <1>7, <1>8, <1>9 DEF FollowerInv

\* The log whose follower takes the step
LEMMA OneFollower ==
  ASSUME StreamInv, NEW l \in Logs, NEW g \in FollowerType, follower' = [follower EXCEPT ![l] = g],
         g.pc # "start", Ordered(g, base[l], Len(written[l])),
         base[l] = 0 /\ g.pc \in {"sending", "waiting"} => Covered(l, g, Len(written[l])),
         UNCHANGED <<written, base, selected>>
  PROVE  StreamInv'
  <1>1. StreamTyped'
    BY DEF StreamInv, StreamTyped
  <1>2. follower'[l] = g /\ \A m \in Logs : m # l => follower'[m] = follower[m]
    BY DEF StreamInv, StreamTyped
  <1>3. ASSUME NEW m \in Logs, m # l PROVE FollowerInv(m)'
    <2>1. follower'[m] = follower[m]
      BY <1>2, <1>3
    <2>. QED
      BY <2>1, Undisturbed DEF StreamInv
  <1>4. FollowerInv(l)'
    <2>1. PICK b \in Nat, w \in Nat : b = base[l] /\ w = Len(written[l]) /\ b <= w
      BY DEF StreamInv, StreamTyped, FollowerInv
    <2>2. b = base'[l] /\ w = Len(written'[l])
      BY <2>1
    <2>3. ASSUME b = 0, g.pc \in {"sending", "waiting"} PROVE Covered(l, g, w)'
      <3>1. Covered(l, g, w)
        BY <2>1, <2>3
      <3>. QED
        BY <3>1, CoveredLater
    <2>4. Ordered(g, b, w)
      BY <2>1
    <2>5. Ordered(follower[l], base[l], Len(written[l]))'
      BY <1>2, <2>2, <2>4, Zenon
    <2>6. (base[l] = 0 /\ follower[l].pc \in {"sending", "waiting"})' => Covered(l, follower[l], Len(written[l]))'
      BY <1>2, <2>2, <2>3, Zenon
    <2>. QED
      BY <1>2, <2>1, <2>2, <2>5, <2>6 DEF FollowerInv
  <1>. QED
    BY <1>1, <1>3, <1>4 DEF StreamInv

\* The snapshot: it begins with nothing given, and goes on from where the file ends.
LEMMA SnapshotPreserves ==
  ASSUME StreamInv, NEW l \in Logs, Snapshot(l)
  PROVE  StreamInv'
  <1>1. PICK f \in FollowerType, b \in Nat, w \in Nat :
          f = follower[l] /\ b = base[l] /\ w = Len(written[l]) /\ b <= w
    BY DEF StreamInv, StreamTyped, FollowerInv
  <1>2. f.pc = "start" /\ Fresh(f) /\ f.inOrder /\ l \in Range(selected)
    BY <1>1 DEF Snapshot, StreamInv, FollowerInv, Ordered
  <1>3. PICK lines : lines = SnapshotLines(l)
    OBVIOUS
  <1>4. /\ lines \in Seq(Seq(Nat)) /\ GoesOn({}, lines)
        /\ \A p \in Given({}, lines) : p \in Nat /\ p <= w
    BY <1>1, <1>2, <1>3, SnapshotGoesOn DEF StreamInv
  <1>5. PICK o \in Nat : o = Size(l) /\ o = w - b /\ b + o = w
    <2>1. w - b \in Nat /\ b + (w - b) = w
      BY <1>1
    <2>. QED
      BY <1>1, <2>1 DEF Size
  <1>. DEFINE h == Gave(f, lines)
              g == [h EXCEPT !.offset = o, !.began = TRUE, !.boundary = w, !.initial = Len(lines)]
  <1>6. /\ h \in FollowerType
        /\ h.pc = "sending" /\ h.given = Given({}, lines) /\ h.inOrder
        /\ h.pending = <<>> /\ ~h.discarding
    <2>1. f.given = {} /\ Given(f.given, lines) \subseteq Nat
      BY <1>2, <1>4 DEF Fresh
    <2>2. /\ h \in FollowerType
          /\ h.pc = "sending" /\ h.outbox = Len(lines) /\ h.given = Given(f.given, lines)
          /\ f.inOrder /\ GoesOn(f.given, lines) => h.inOrder
          /\ h.offset = f.offset /\ h.pending = f.pending /\ h.discarding = f.discarding
          /\ h.began = f.began /\ h.boundary = f.boundary /\ h.initial = f.initial
      BY <1>4, <2>1, GaveIs
    <2>. HIDE DEF h
    <2>. QED
      BY <1>2, <1>4, <2>1, <2>2 DEF Fresh
  <1>. HIDE DEF h
  <1>7. /\ g \in FollowerType
        /\ g.pc = "sending" /\ g.given = Given({}, lines) /\ g.inOrder
        /\ g.pending = <<>> /\ ~g.discarding /\ g.offset = o /\ g.boundary = w
    <2>1. Len(lines) \in Nat
      BY <1>4
    <2>2. g \in FollowerType
      BY <1>5, <1>6, <2>1 DEF FollowerType
    <2>3. /\ g.pc = h.pc /\ g.given = h.given /\ g.inOrder = h.inOrder /\ g.pending = h.pending
          /\ g.discarding = h.discarding /\ g.offset = o /\ g.boundary = w
      BY <1>6 DEF FollowerType
    <2>. HIDE DEF g
    <2>. QED
      BY <1>6, <2>2, <2>3, Zenon
  <1>8. follower' = [follower EXCEPT ![l] = g]
    BY <1>1, <1>3, <1>5 DEF Snapshot, h, StreamInv, StreamTyped
  <1>. HIDE DEF g
  <1>9. Climbs(g.pending) /\ Range(g.pending) = {} /\ Run(g.pending, w, w)
    <2>1. Climbs(<<>>) /\ Range(<<>>) = {}
      BY DEF Climbs, Range
    <2>2. Run(<<>>, w, w)
      BY DEF Run
    <2>. QED
      BY <1>7, <2>1, <2>2
  <1>10. Ordered(g, b, w)
    <2>1. \A p \in g.given : p <= b + g.offset /\ p <= w
      BY <1>4, <1>5, <1>7
    <2>2. ~(g.offset > w - b)
      BY <1>5, <1>7
    <2>. QED
      BY <1>7, <1>9, <2>1, <2>2 DEF Ordered
  <1>11. ASSUME b = 0 PROVE Covered(l, g, w)
    <2>1. g.offset = w
      BY <1>5, <1>7, <1>11
    <2>2. Held(l, w, w, w, g.pending, g.discarding)
      <3>1. LineLimit \in Nat /\ w - w <= LineLimit
        BY StreamAssumption
      <3>. QED
        BY <1>7, <1>9, <3>1 DEF Held, Unfinished
    <2>3. w \in w .. w /\ w + 1 .. w = {}
      OBVIOUS
    <2>. QED
      BY <1>7, <2>1, <2>2, <2>3 DEF Covered
  <1>12. Ordered(g, base[l], Len(written[l])) /\ (base[l] = 0 => Covered(l, g, Len(written[l])))
    BY <1>1, <1>10, <1>11
  <1>. QED
    BY <1>7, <1>8, <1>12, OneFollower DEF Snapshot

\* Sending a line moves neither what was given nor what is held.
LEMMA SendPreserves ==
  ASSUME StreamInv, NEW l \in Logs, Send(l)
  PROVE  StreamInv'
  <1>1. PICK f \in FollowerType, b \in Nat, w \in Nat :
          f = follower[l] /\ b = base[l] /\ w = Len(written[l])
    BY DEF StreamInv, StreamTyped
  <1>2. f.pc = "sending" /\ Ordered(f, b, w) /\ (b = 0 => Covered(l, f, w))
    BY <1>1 DEF Send, StreamInv, FollowerInv
  <1>3. ASSUME NEW g \in FollowerType, follower' = [follower EXCEPT ![l] = g], g.pc # "start",
               g.offset = f.offset, g.pending = f.pending, g.discarding = f.discarding,
               g.boundary = f.boundary, g.given = f.given, g.inOrder = f.inOrder
        PROVE  StreamInv'
    <2>1. /\ Ordered(f, b, w) => Ordered(g, b, w)
          /\ Covered(l, f, w) => Covered(l, g, w)
      BY <1>3, SameHoldings
    <2>2. Ordered(g, base[l], Len(written[l])) /\ (base[l] = 0 => Covered(l, g, Len(written[l])))
      BY <1>1, <1>2, <2>1
    <2>. QED
      BY <1>3, <2>2, OneFollower DEF Send
  <1>4. CASE f.outbox = 0
    <2>. DEFINE g == [f EXCEPT !.pc = "waiting"]
    <2>1. follower' = [follower EXCEPT ![l] = g]
      BY <1>1, <1>4 DEF Send, StreamInv, StreamTyped
    <2>2. g \in FollowerType /\ g.pc = "waiting"
      BY DEF FollowerType
    <2>3. /\ g.offset = f.offset /\ g.pending = f.pending /\ g.discarding = f.discarding
          /\ g.boundary = f.boundary /\ g.given = f.given /\ g.inOrder = f.inOrder
      BY DEF FollowerType
    <2>. HIDE DEF g
    <2>. QED
      BY <1>3, <2>1, <2>2, <2>3
  <1>5. CASE f.outbox # 0
    <2>. DEFINE k == f.outbox - 1
                g == [f EXCEPT !.outbox = k]
    <2>1. follower' = [follower EXCEPT ![l] = g]
      BY <1>1, <1>5 DEF Send, StreamInv, StreamTyped
    <2>0. k \in Nat
      BY <1>5 DEF FollowerType
    <2>. HIDE DEF k
    <2>2. g \in FollowerType /\ g.pc = f.pc
      BY <2>0 DEF FollowerType
    <2>3. /\ g.offset = f.offset /\ g.pending = f.pending /\ g.discarding = f.discarding
          /\ g.boundary = f.boundary /\ g.given = f.given /\ g.inOrder = f.inOrder
      BY DEF FollowerType
    <2>. HIDE DEF g
    <2>. QED
      BY <1>2, <1>3, <2>1, <2>2, <2>3
  <1>. QED
    BY <1>4, <1>5

\* A follower that ends holds nothing.
LEMMA EndPreserves ==
  ASSUME StreamInv, NEW l \in Logs, follower' = [follower EXCEPT ![l] = [Idle EXCEPT !.pc = "ended"]],
         UNCHANGED <<written, base, selected>>
  PROVE  StreamInv'
  <1>1. PICK g : g = [Idle EXCEPT !.pc = "ended"]
    OBVIOUS
  <1>2. base[l] \in Nat /\ Len(written[l]) \in Nat
    BY DEF StreamInv, StreamTyped
  <1>3. g \in FollowerType /\ g.pc = "ended" /\ Ordered(g, base[l], Len(written[l]))
    BY <1>1, <1>2, IdleOrdered
  <1>. QED
    BY <1>1, <1>3, OneFollower

\* What a poll has read of the log when it is done, of w bytes of which b are lost:
\* a file that has become shorter from its beginning, any other from where it was.
Polled(l, f, b, w, size, from, next, start, end, out) ==
  /\ size = w - b /\ b + size = w
  /\ from <= next /\ next <= size
  /\ size < f.offset => from = 0
  /\ ~(size < f.offset) => from = f.offset
  /\ start = b + from /\ end = b + next /\ start <= end /\ end <= w
  /\ out = Consume(f.pending, f.discarding, start, end, Newlines(l, start, end))
  /\ next # f.offset

PollOf(l, f, b, w) ==
  \E size, from, next, start, end \in Nat : \E out :
    /\ Polled(l, f, b, w, size, from, next, start, end, out)
    /\ follower' = [follower EXCEPT ![l] =
         IF start = end THEN [f EXCEPT !.offset = next]
         ELSE [Gave(f, out.lines) EXCEPT !.offset = next, !.pending = out.pending,
                                         !.discarding = out.discarding]]

LEMMA PollIs ==
  ASSUME NEW l \in Logs, NEW f \in FollowerType, NEW b \in Nat, NEW w \in Nat, Poll(l),
         f = follower[l], b = base[l], w = Len(written[l]), b <= w
  PROVE  PollOf(l, f, b, w)
  <1>3. PICK size \in Nat : size = Size(l) /\ size = w - b /\ b + size = w
    <2>1. w - b \in Nat /\ b + (w - b) = w
      OBVIOUS
    <2>. QED
      BY <2>1 DEF Size
  <1>. DEFINE from0 == IF size < f.offset THEN 0 ELSE f.offset
              next0 == IF from0 + ReadChunk < size THEN from0 + ReadChunk ELSE size
  <1>4. PICK from \in Nat, next \in Nat :
          /\ from = from0 /\ next = next0
          /\ from <= next /\ next <= size
          /\ size < f.offset => from = 0
          /\ ~(size < f.offset) => from = f.offset
    <2>1. f.offset \in Nat /\ ReadChunk \in Nat
      BY StreamAssumption DEF FollowerType
    <2>2. from0 \in Nat /\ from0 <= size
      BY <2>1
    <2>. HIDE DEF from0
    <2>3. next0 \in Nat /\ from0 <= next0 /\ next0 <= size
      BY <2>1, <2>2
    <2>. HIDE DEF next0
    <2>4. (size < f.offset => from0 = 0) /\ (~(size < f.offset) => from0 = f.offset)
      BY DEF from0
    <2>. QED
      BY <2>2, <2>3, <2>4, Zenon
  <1>5. PICK start \in Nat, end \in Nat : /\ start = b + from /\ end = b + next
                                         /\ start <= end /\ end <= w
    <2>1. b + from \in Nat /\ b + next \in Nat /\ b + from <= b + next /\ b + next <= w
      <3>1. from <= next /\ next <= size /\ b + size = w
        BY <1>3, <1>4, Zenon
      <3>. QED
        BY <3>1, SMTT(60)
    <2>. QED
      BY <2>1
  <1>6. PICK ends : ends = Newlines(l, start, end)
    OBVIOUS
  <1>7. PICK out : out = Consume(f.pending, f.discarding, start, end, ends)
    OBVIOUS
  <1>8. /\ next # f.offset
        /\ follower' = [follower EXCEPT ![l] =
                IF start = end THEN [f EXCEPT !.offset = next]
                ELSE [Gave(f, out.lines) EXCEPT !.offset = next, !.pending = out.pending,
                                                !.discarding = out.discarding]]
        /\ UNCHANGED <<written, base, present, selected, channel, shown, reader,
                       interrupted, failures>>
    <2>. DEFINE F == IF Size(l) < follower[l].offset THEN 0 ELSE follower[l].offset
                N == IF F + ReadChunk < Size(l) THEN F + ReadChunk ELSE Size(l)
    <2>1. /\ N # follower[l].offset
          /\ \E s \in {base[l] + F}, e \in {base[l] + N} :
             \E n \in {Newlines(l, s, e)} :
             \E o \in {Consume(follower[l].pending, follower[l].discarding, s, e, n)} :
               follower' = [follower EXCEPT ![l] =
                 IF s = e THEN [follower[l] EXCEPT !.offset = N]
                 ELSE [Gave(follower[l], o.lines) EXCEPT !.offset = N, !.pending = o.pending,
                                                         !.discarding = o.discarding]]
          /\ UNCHANGED <<written, base, present, selected, channel, shown, reader,
                       interrupted, failures>>
      BY Zenon DEF Poll
    <2>2. F = from /\ N = next
      BY <1>3, <1>4, Zenon
    <2>3. base[l] + from = start /\ base[l] + next = end
      BY <1>5
    <2>. HIDE DEF F, N
    <2>4. base[l] + F = start /\ base[l] + N = end
      BY <2>2, <2>3, Zenon
    <2>5. PICK s \in {base[l] + F}, e \in {base[l] + N} :
            \E n \in {Newlines(l, s, e)} :
             \E o \in {Consume(follower[l].pending, follower[l].discarding, s, e, n)} :
               follower' = [follower EXCEPT ![l] =
                 IF s = e THEN [follower[l] EXCEPT !.offset = N]
                 ELSE [Gave(follower[l], o.lines) EXCEPT !.offset = N, !.pending = o.pending,
                                                         !.discarding = o.discarding]]
      BY <2>1, Zenon
    <2>6. s = start /\ e = end
      BY <2>4, Zenon
    <2>7. PICK n \in {Newlines(l, s, e)} :
             \E o \in {Consume(follower[l].pending, follower[l].discarding, s, e, n)} :
               follower' = [follower EXCEPT ![l] =
                 IF s = e THEN [follower[l] EXCEPT !.offset = N]
                 ELSE [Gave(follower[l], o.lines) EXCEPT !.offset = N, !.pending = o.pending,
                                                         !.discarding = o.discarding]]
      BY <2>5, Zenon
    <2>8. n = ends
      BY <1>6, <2>6, Zenon
    <2>9. PICK o \in {Consume(follower[l].pending, follower[l].discarding, s, e, n)} :
               follower' = [follower EXCEPT ![l] =
                 IF s = e THEN [follower[l] EXCEPT !.offset = N]
                 ELSE [Gave(follower[l], o.lines) EXCEPT !.offset = N, !.pending = o.pending,
                                                         !.discarding = o.discarding]]
      BY <2>7, Zenon
    <2>10. o = out
      BY <1>7, <2>6, <2>8, Zenon
    <2>. QED
      BY <2>1, <2>2, <2>6, <2>9, <2>10, Zenon
  <1>9. /\ size = w - b /\ b + size = w
        /\ from <= next /\ next <= size
        /\ size < f.offset => from = 0
        /\ ~(size < f.offset) => from = f.offset
        /\ start = b + from /\ end = b + next /\ start <= end /\ end <= w
    BY <1>3, <1>4, <1>5, Zenon
  <1>10. Polled(l, f, b, w, size, from, next, start, end, out)
    BY <1>6, <1>7, <1>8, <1>9, Zenon DEF Polled
  <1>. QED
    BY <1>8, <1>10, Zenon DEF PollOf

\* A poll: a file that has become shorter is read from its beginning, which is after
\* all that was given of it; the chunk of any other follows what was read.
LEMMA PollPreserves ==
  ASSUME StreamInv, NEW l \in Logs, Poll(l)
  PROVE  StreamInv'
  <1>1. PICK f \in FollowerType, b \in Nat, w \in Nat :
          f = follower[l] /\ b = base[l] /\ w = Len(written[l]) /\ b <= w
    BY DEF StreamInv, StreamTyped, FollowerInv
  <1>2. f.pc = "waiting" /\ Ordered(f, b, w) /\ (b = 0 => Covered(l, f, w))
    BY <1>1 DEF Poll, StreamInv, FollowerInv
  <1>3. PICK size, from, next, start, end \in Nat : \E out :
           /\ Polled(l, f, b, w, size, from, next, start, end, out)
           /\ follower' = [follower EXCEPT ![l] =
                IF start = end THEN [f EXCEPT !.offset = next]
                ELSE [Gave(f, out.lines) EXCEPT !.offset = next, !.pending = out.pending,
                                                !.discarding = out.discarding]]
    <2>1. PollOf(l, f, b, w)
      BY <1>1, PollIs, Zenon
    <2>. QED
      BY <2>1, Zenon DEF PollOf
  <1>4. /\ size = Size(l) /\ size = w - b /\ b + size = w
        /\ from <= next /\ next <= size
        /\ size < f.offset => from = 0
        /\ ~(size < f.offset) => from = f.offset
    BY <1>1, <1>3, Zenon DEF Polled, Size
  <1>5. start = b + from /\ end = b + next /\ start <= end /\ end <= w
    BY <1>3, Zenon DEF Polled
  <1>6. PICK ends : ends = Newlines(l, start, end)
    OBVIOUS
  <1>7. PICK out : /\ Polled(l, f, b, w, size, from, next, start, end, out)
                   /\ follower' = [follower EXCEPT ![l] =
                        IF start = end THEN [f EXCEPT !.offset = next]
                        ELSE [Gave(f, out.lines) EXCEPT !.offset = next, !.pending = out.pending,
                                                        !.discarding = out.discarding]]
    BY <1>3, Zenon
  <1>12. out = Consume(f.pending, f.discarding, start, end, ends)
    BY <1>6, <1>7, Zenon DEF Polled
  <1>8. /\ next # f.offset
        /\ follower' = [follower EXCEPT ![l] =
                IF start = end THEN [f EXCEPT !.offset = next]
                ELSE [Gave(f, out.lines) EXCEPT !.offset = next, !.pending = out.pending,
                                                !.discarding = out.discarding]]
        /\ UNCHANGED <<written, base, selected>>
    BY <1>7, Zenon DEF Polled, Poll
  <1>9. /\ f.inOrder /\ Climbs(f.pending)
        /\ \A x \in Range(f.pending) : \A p \in f.given : p < x
        /\ \A p \in f.given \cup Range(f.pending) : p \in Nat /\ p <= start
    <2>1. \A p \in f.given \cup Range(f.pending) : p \in Nat
      BY DEF FollowerType, Range
    <2>2. \A p \in f.given \cup Range(f.pending) :
            p <= b + f.offset /\ p <= w /\ (f.offset > size => p <= b)
      BY <1>2, <1>4 DEF Ordered
    <2>3. ASSUME NEW p \in f.given \cup Range(f.pending) PROVE p <= start
      <3>1. f.offset \in Nat
        BY DEF FollowerType
      <3>2. CASE size < f.offset
        BY <1>4, <1>5, <2>1, <2>2, <2>3, <3>1, <3>2
      <3>3. CASE ~(size < f.offset)
        BY <1>4, <1>5, <2>1, <2>2, <2>3, <3>3
      <3>. QED
        BY <3>2, <3>3
    <2>. QED
      BY <1>2, <2>1, <2>3 DEF Ordered
  <1>10. CASE start = end
    <2>. DEFINE g == [f EXCEPT !.offset = next]
    <2>1. size < f.offset /\ next = 0
      BY <1>4, <1>5, <1>8, <1>10
    <2>2. b # 0
      <3>1. f.offset \in Nat /\ (b = 0 => f.offset <= w)
        BY <1>2 DEF FollowerType, Covered
      <3>. QED
        BY <1>4, <2>1, <3>1
    <2>3. g \in FollowerType
      BY DEF FollowerType
    <2>4. /\ g.pc = f.pc /\ g.offset = next /\ g.pending = f.pending
          /\ g.given = f.given /\ g.inOrder = f.inOrder
      BY DEF FollowerType
    <2>5. follower' = [follower EXCEPT ![l] = g]
      BY <1>8, <1>10
    <2>. HIDE DEF g
    <2>6. Ordered(g, b, w)
      <3>1. start = b
        BY <1>4, <1>5, <2>1, <1>10
      <3>2. \A p \in f.given \cup Range(f.pending) : p <= b + next /\ p <= w /\ (next > w - b => p <= b)
        BY <1>1, <1>9, <2>1, <3>1
      <3>. QED
        BY <1>9, <2>4, <3>2, Zenon DEF Ordered
    <2>7. /\ Ordered(g, base[l], Len(written[l])) /\ g.pc # "start"
          /\ base[l] = 0 /\ g.pc \in {"sending", "waiting"} => Covered(l, g, Len(written[l]))
      BY <1>1, <1>2, <2>2, <2>4, <2>6
    <2>. QED
      BY <1>8, <2>3, <2>5, <2>7, OneFollower
  <1>11. CASE start # end
    <2>1. NewlinesOf(l, start, end, ends) /\ f.discarding \in BOOLEAN /\ f.given \in SUBSET Nat /\ f.offset \in Nat
      BY <1>6, NewlinesAre DEF FollowerType
    <2>2. /\ out.lines \in Seq(Seq(Nat)) /\ out.discarding \in BOOLEAN
          /\ GoesOn(f.given, out.lines)
          /\ Climbs(out.pending)
          /\ Given(f.given, out.lines) \subseteq Nat
          /\ \A x \in Range(out.pending) : \A p \in Given(f.given, out.lines) : p < x
          /\ \A p \in Given(f.given, out.lines) \cup Range(out.pending) : p <= end
      <3>1. /\ start <= end /\ Climbs(f.pending)
            /\ \A p \in f.given \cup Range(f.pending) : p <= start
            /\ \A x \in Range(f.pending) : \A p \in f.given : p < x
        BY <1>5, <1>9
      <3>. DEFINE pend == f.pending
                  disc == f.discarding
                  giv == f.given
      <3>0. /\ Climbs(pend) /\ disc \in BOOLEAN /\ giv \in SUBSET Nat
            /\ \A p \in giv \cup Range(pend) : p <= start
            /\ \A x \in Range(pend) : \A p \in giv : p < x
        BY <2>1, <3>1, Zenon
      <3>. HIDE DEF pend, disc, giv
      <3>2. LET o == Consume(pend, disc, start, end, ends)
            IN /\ o.lines \in Seq(Seq(Nat)) /\ o.discarding \in BOOLEAN
               /\ GoesOn(giv, o.lines)
               /\ Climbs(o.pending)
               /\ Given(giv, o.lines) \subseteq Nat
               /\ \A x \in Range(o.pending) : \A p \in Given(giv, o.lines) : p < x
               /\ \A p \in Given(giv, o.lines) \cup Range(o.pending) : p <= end
        <4>1. /\ start <= end /\ NewlinesOf(l, start, end, ends) /\ Climbs(pend) /\ disc \in BOOLEAN
              /\ giv \in SUBSET Nat /\ \A p \in giv \cup Range(pend) : p <= start
              /\ \A x \in Range(pend) : \A p \in giv : p < x
          BY <1>5, <2>1, <3>0, Zenon
        <4>. QED
          BY <4>1, ConsumeGoesOn, ZenonT(60)
      <3>. QED
        BY <1>12, <3>2, Zenon DEF pend, disc, giv
    <2>. DEFINE h == Gave(f, out.lines)
                g == [h EXCEPT !.offset = next, !.pending = out.pending, !.discarding = out.discarding]
    <2>3. /\ h \in FollowerType
          /\ h.pc = "sending" /\ h.given = Given(f.given, out.lines) /\ h.inOrder /\ h.boundary = f.boundary
      <3>1. /\ h \in FollowerType
            /\ h.pc = "sending" /\ h.outbox = Len(out.lines) /\ h.given = Given(f.given, out.lines)
            /\ f.inOrder /\ GoesOn(f.given, out.lines) => h.inOrder
            /\ h.offset = f.offset /\ h.pending = f.pending /\ h.discarding = f.discarding
            /\ h.began = f.began /\ h.boundary = f.boundary /\ h.initial = f.initial
        BY <2>2, GaveIs
      <3>. HIDE DEF h
      <3>. QED
        BY <1>9, <2>2, <3>1
    <2>. HIDE DEF h
    <2>4. /\ g \in FollowerType
          /\ g.pc = "sending" /\ g.given = Given(f.given, out.lines) /\ g.inOrder
          /\ g.pending = out.pending /\ g.discarding = out.discarding
          /\ g.offset = next /\ g.boundary = f.boundary
      <3>1. g \in FollowerType
        BY <2>2, <2>3 DEF FollowerType, Climbs
      <3>2. /\ g.pc = h.pc /\ g.given = h.given /\ g.inOrder = h.inOrder /\ g.boundary = h.boundary
            /\ g.offset = next /\ g.pending = out.pending /\ g.discarding = out.discarding
        BY <2>3 DEF FollowerType
      <3>. HIDE DEF g
      <3>. QED
        BY <2>3, <3>1, <3>2, Zenon
    <2>5. follower' = [follower EXCEPT ![l] = g]
      BY <1>8, <1>11 DEF h
    <2>. HIDE DEF g
    <2>6. Ordered(g, b, w)
      <3>1. \A p \in g.given \cup Range(g.pending) : p \in Nat /\ p <= end
        <4>1. \A p \in Range(out.pending) : p \in Nat
          BY <2>2 DEF Climbs, Range
        <4>. QED
          BY <2>2, <2>4, <4>1
      <3>2. end = b + g.offset /\ end <= w /\ ~(g.offset > w - b)
        BY <1>4, <1>5, <2>4
      <3>3. \A p \in g.given \cup Range(g.pending) :
              p <= b + g.offset /\ p <= w /\ (g.offset > w - b => p <= b)
        BY <1>5, <3>1, <3>2
      <3>. QED
        BY <2>2, <2>4, <3>3 DEF Ordered
    <2>7. ASSUME b = 0 PROVE Covered(l, g, w)
      <3>. DEFINE d == f.boundary
                  all == Given(f.given, out.lines) \cup Range(out.pending)
      <3>1. /\ d \in Nat /\ d <= f.offset /\ f.offset <= w
            /\ \A p \in d + 1 .. f.offset : LetThrough(l, d, p) => p \in f.given \cup Range(f.pending)
        BY <1>2, <2>7 DEF Covered, FollowerType
      <3>2. start = f.offset /\ end = next /\ start < end
        BY <1>4, <1>5, <1>11, <2>1, <2>7, <3>1
      <3>3. PICK s : Held(l, d, s, start, f.pending, f.discarding)
        BY <1>2, <2>7, <3>2 DEF Covered
      <3>4. \A p \in 1 .. end : Byte(l, p) \in {"x", "n"}
        <4>1. written[l] \in Seq({"x", "n"})
          BY DEF StreamInv, StreamTyped
        <4>. QED
          BY <1>1, <1>5, <4>1 DEF Byte
      <3>. HIDE DEF d, all
      <3>5. /\ \E t : Held(l, d, t, end, out.pending, out.discarding)
            /\ Range(f.pending) \subseteq all
            /\ \A p \in start + 1 .. end : LetThrough(l, d, p) => p \in all
        <4>1. d <= start
          BY <3>1, <3>2
        <4>. DEFINE pend == f.pending
                    disc == f.discarding
                    giv == f.given
        <4>2. /\ disc \in BOOLEAN /\ giv \in SUBSET Nat
              /\ Held(l, d, s, start, pend, disc)
          BY <2>1, <3>3, Zenon
        <4>. HIDE DEF pend, disc, giv
        <4>3. Gained(l, d, start, end, pend, giv, Consume(pend, disc, start, end, ends))
          <5>1. /\ d <= start /\ start < end /\ d \in Nat
                /\ \A p \in 1 .. end : Byte(l, p) \in {"x", "n"}
                /\ NewlinesOf(l, start, end, ends) /\ disc \in BOOLEAN /\ giv \in SUBSET Nat
                /\ Held(l, d, s, start, pend, disc)
            BY <2>1, <3>1, <3>2, <3>4, <4>1, <4>2, Zenon
          <5>. QED
            BY <5>1, ConsumeCovers
        <4>. QED
          <5>1. Gained(l, d, start, end, f.pending, f.given, out)
            BY <1>12, <4>3, Zenon DEF pend, disc, giv
          <5>. QED
            BY <5>1 DEF Gained, all
      <3>6. \A p \in d + 1 .. end : LetThrough(l, d, p) => p \in all
        <4>1. \A p \in d + 1 .. end : p \in d + 1 .. f.offset \/ p \in start + 1 .. end
          BY <3>1, <3>2
        <4>2. f.given \subseteq all
          BY DEF all, Given
        <4>. QED
          BY <3>1, <3>5, <4>1, <4>2
      <3>7. \E t \in d .. end : Held(l, d, t, end, out.pending, out.discarding)
        BY <3>5 DEF Held, Unfinished
      <3>8. /\ g.boundary = d /\ g.offset = end /\ g.pending = out.pending /\ g.discarding = out.discarding
            /\ g.given \cup Range(g.pending) = all
        BY <2>4, <3>2 DEF d, all
      <3>9. d <= end /\ end <= w
        BY <1>5, <3>1, <3>2
      <3>. QED
        BY <3>6, <3>7, <3>8, <3>9 DEF Covered
    <2>8. /\ Ordered(g, base[l], Len(written[l])) /\ g.pc # "start"
          /\ base[l] = 0 /\ g.pc \in {"sending", "waiting"} => Covered(l, g, Len(written[l]))
      BY <1>1, <2>4, <2>6, <2>7
    <2>. QED
      BY <1>8, <2>4, <2>5, <2>8, OneFollower
  <1>. QED
    BY <1>10, <1>11

\* The logs a call follows are logs.
LEMMA SelectedLogs ==
  ASSUME NEW names \in Selections
  PROVE  SelectLogs(names) \in Seq(Logs)
  <1>. DEFINE wanted == IF names = <<>> THEN Named ELSE names
              tail == IF Len(wanted) = Len(Named) THEN <<Connection>> ELSE <<>>
  <1>1. wanted \in Seq(Logs)
    <2>1. names \in Seq(Services) /\ Named \in Seq(Services)
      BY StreamAssumption
    <2>2. wanted \in Seq(Services)
      BY <2>1
    <2>. HIDE DEF wanted
    <2>3. \A s \in Services : s \in Logs
      BY DEF Logs
    <2>. QED
      BY <2>2, <2>3
  <1>2. tail \in Seq(Logs)
    <2>1. Connection \in Logs
      BY DEF Logs
    <2>2. <<Connection>> \in Seq(Logs) /\ <<>> \in Seq(Logs)
      BY <2>1
    <2>. QED
      BY <2>2
  <1>3. SelectLogs(names) = wanted \o tail
    BY DEF SelectLogs
  <1>. HIDE DEF wanted, tail
  <1>. QED
    BY <1>1, <1>2, <1>3

LEMMA StreamInvInit == StreamInit => StreamInv
  <1>. SUFFICES ASSUME StreamInit PROVE StreamInv
    OBVIOUS
  <1>1. PICK f : f = [Idle EXCEPT !.pc = "idle"]
    OBVIOUS
  <1>2. f = Idle
    BY <1>1 DEF Idle
  <1>3. f \in FollowerType /\ f.pc = "idle" /\ Fresh(f) /\ Ordered(f, 0, 0)
    BY <1>1, IdleOrdered
  <1>4. StreamTyped
    <2>1. <<>> \in Seq({"x", "n"}) /\ <<>> \in Seq(Logs) /\ 0 \in Nat
      OBVIOUS
    <2>. QED
      BY <1>2, <1>3, <2>1 DEF StreamInit, StreamTyped
  <1>5. ASSUME NEW l \in Logs PROVE FollowerInv(l)
    <2>1. base[l] = 0 /\ written[l] = <<>> /\ Len(written[l]) = 0 /\ follower[l] = f
      BY <1>2 DEF StreamInit
    <2>. QED
      BY <1>3, <2>1 DEF FollowerInv
  <1>. QED
    BY <1>4, <1>5 DEF StreamInv

\* The followers begin with nothing.
LEMMA FollowPreserves ==
  ASSUME StreamInv, NEW names \in Selections, Follow(names)
  PROVE  StreamInv'
  <1>1. PICK logs \in Seq(Logs) : logs = SelectLogs(names)
    BY SelectedLogs
  <1>2. PICK i : i = [Idle EXCEPT !.pc = "idle"]
    OBVIOUS
  <1>3. PICK s : s = [Idle EXCEPT !.pc = "start"]
    OBVIOUS
  <1>4. i = Idle
    BY <1>2 DEF Idle
  <1>5. selected' = logs /\ follower' = [l \in Logs |-> IF l \in Range(logs) THEN s ELSE i]
    BY <1>1, <1>3, <1>4 DEF Follow
  <1>6. \A b, w \in Nat : /\ i \in FollowerType /\ i.pc = "idle" /\ Ordered(i, b, w)
                          /\ s \in FollowerType /\ s.pc = "start" /\ Fresh(s) /\ Ordered(s, b, w)
    BY <1>2, <1>3, IdleOrdered
  <1>7. i \in FollowerType /\ s \in FollowerType
    BY <1>6
  <1>8. StreamTyped'
    BY <1>5, <1>7 DEF Follow, StreamInv, StreamTyped
  <1>9. ASSUME NEW l \in Logs PROVE FollowerInv(l)'
    <2>1. /\ base'[l] = base[l] /\ written'[l] = written[l] /\ base[l] \in Nat /\ Len(written[l]) \in Nat
          /\ base[l] <= Len(written[l])
      BY DEF Follow, StreamInv, StreamTyped, FollowerInv
    <2>2. follower'[l] = IF l \in Range(logs) THEN s ELSE i
      BY <1>5
    <2>3. CASE l \in Range(logs)
      <3>1. follower'[l] = s /\ l \in Range(selected')
        BY <1>5, <2>2, <2>3
      <3>2. Ordered(s, base'[l], Len(written'[l]))
        BY <1>6, <2>1
      <3>3. Ordered(follower[l], base[l], Len(written[l]))'
        BY <3>1, <3>2
      <3>. QED
        BY <1>6, <2>1, <3>1, <3>3 DEF FollowerInv
    <2>4. CASE l \notin Range(logs)
      <3>1. follower'[l] = i
        BY <2>2, <2>4
      <3>2. Ordered(i, base'[l], Len(written'[l]))
        BY <1>6, <2>1
      <3>3. Ordered(follower[l], base[l], Len(written[l]))'
        BY <3>1, <3>2
      <3>. QED
        BY <1>6, <2>1, <3>1, <3>3 DEF FollowerInv
    <2>. QED
      BY <2>3, <2>4
  <1>. QED
    BY <1>8, <1>9 DEF StreamInv

LEMMA StreamInvStep == StreamInv /\ [StreamNext]_streamVars => StreamInv'
  <1>. SUFFICES ASSUME StreamInv, [StreamNext]_streamVars PROVE StreamInv'
    OBVIOUS
  <1>1. ASSUME follower' = follower, selected' = selected, StreamTyped',
               \A l \in Logs :
                 \/ written'[l] = written[l] /\ base'[l] = base[l]
                 \/ (\E c : written'[l] = Append(written[l], c)) /\ base'[l] = base[l]
                 \/ written'[l] = written[l] /\ base'[l] = Len(written[l]) /\ base[l] < Len(written[l])
        PROVE  StreamInv'
    <2>1. ASSUME NEW l \in Logs PROVE FollowerInv(l)'
      BY <1>1, Undisturbed DEF StreamInv
    <2>. QED
      BY <1>1, <2>1 DEF StreamInv
  <1>2. ASSUME UNCHANGED <<written, base, selected, follower>> PROVE StreamInv'
    <2>1. StreamTyped'
      BY <1>2 DEF StreamInv, StreamTyped
    <2>. QED
      BY <1>1, <1>2, <2>1
  <1>3. ASSUME NEW names \in Selections, Follow(names) PROVE StreamInv'
    BY <1>3, FollowPreserves
  <1>4. ASSUME NEW l \in Logs, Snapshot(l) PROVE StreamInv'
    BY <1>4, SnapshotPreserves
  <1>5. ASSUME NEW l \in Logs, Send(l) PROVE StreamInv'
    BY <1>5, SendPreserves
  <1>6. ASSUME NEW l \in Logs, Poll(l) PROVE StreamInv'
    BY <1>6, PollPreserves
  <1>7. ASSUME NEW l \in Logs, Quit(l) \/ Fail(l) PROVE StreamInv'
    BY <1>7, EndPreserves DEF Quit, Fail
  <1>8. ASSUME NEW l \in Logs, NEW b \in {"x", "n"}, Write(l, b) PROVE StreamInv'
    <2>1. StreamTyped'
      <3>1. Append(written[l], b) \in Seq({"x", "n"})
        BY DEF StreamInv, StreamTyped
      <3>. QED
        BY <1>8, <3>1 DEF Write, StreamInv, StreamTyped
    <2>2. \A m \in Logs : \/ written'[m] = written[m] /\ base'[m] = base[m]
                          \/ (\E c : written'[m] = Append(written[m], c)) /\ base'[m] = base[m]
      BY <1>8 DEF Write, StreamInv, StreamTyped
    <2>. QED
      BY <1>1, <1>8, <2>1, <2>2 DEF Write
  <1>9. ASSUME OpenFresh PROVE StreamInv'
    <2>1. StreamTyped'
      <3>1. Len(written[Connection]) \in Nat
        BY DEF StreamInv, StreamTyped, Logs
      <3>. QED
        BY <1>9, <3>1 DEF OpenFresh, StreamInv, StreamTyped
    <2>2. \A m \in Logs : \/ written'[m] = written[m] /\ base'[m] = base[m]
                          \/ written'[m] = written[m] /\ base'[m] = Len(written[m]) /\ base[m] < Len(written[m])
      BY <1>9 DEF OpenFresh, StreamInv, StreamTyped
    <2>. QED
      BY <1>1, <1>9, <2>1, <2>2 DEF OpenFresh
  <1>10. ASSUME ReaderStep \/ Interrupt PROVE StreamInv'
    BY <1>2, <1>10 DEF ReaderStep, Emit, Report, Leave, Interrupt
  <1>11. CASE UNCHANGED streamVars
    BY <1>2, <1>11 DEF streamVars
  <1>. QED
    BY <1>3, <1>4, <1>5, <1>6, <1>7, <1>8, <1>9, <1>10, <1>11 DEF StreamNext, FollowerStep

\* What a follower has given and holds is always bytes in their order, and, of a
\* log that has lost none, all that the limit lets through.
THEOREM StreamInvariance == StreamSpec => []StreamInv
  <1>1. StreamSpec => StreamInit /\ [][StreamNext]_streamVars
    BY PTL DEF StreamSpec
  <1>. QED
    BY <1>1, StreamInvInit, StreamInvStep, PTL

\* Kept is what the limit lets through of a log that has lost nothing.
LEMMA CoveredKept ==
  ASSUME StreamTyped, NEW l \in Logs, base[l] = 0, Covered(l, follower[l], Len(written[l]))
  PROVE  Kept(l) \subseteq follower[l].given \cup Range(follower[l].pending)
  <1>1. PICK f \in FollowerType : f = follower[l]
    BY DEF StreamTyped
  <1>2. ASSUME NEW p \in Kept(l) PROVE p \in f.boundary + 1 .. f.offset /\ LetThrough(l, f.boundary, p)
    <2>1. 0 + f.offset = f.offset
      BY DEF FollowerType
    <2>2. p \in f.boundary + 1 .. 0 + f.offset
      BY <1>1 DEF Kept
    <2>3. LetThrough(l, f.boundary, p)
      BY <1>1 DEF Kept, LetThrough
    <2>. QED
      BY <2>1, <2>2, <2>3
  <1>3. \A p \in f.boundary + 1 .. f.offset :
          LetThrough(l, f.boundary, p) => p \in f.given \cup Range(f.pending)
    BY <1>1 DEF Covered
  <1>. QED
    BY <1>1, <1>2, <1>3

\* No line of a followed log repeats a byte or comes before its time, whatever is
\* truncated between two polls, and no byte a follower has gone past is left out of
\* a log that only grows: readLastLinesAtLimit and consumeLogData of logs.go.
THEOREM NothingLost == StreamSpec => []NothingSkippedOrRepeated
  <1>1. StreamInv => NothingSkippedOrRepeated
    <2>. SUFFICES ASSUME StreamInv, NEW l \in Logs
                  PROVE  /\ follower[l].inOrder /\ GoesOn(follower[l].given, <<follower[l].pending>>)
                         /\ (base[l] = 0 /\ follower[l].pc \in {"sending", "waiting"}) =>
                              Kept(l) \subseteq follower[l].given \cup Range(follower[l].pending)
      BY DEF NothingSkippedOrRepeated
    <2>1. FollowerInv(l) /\ StreamTyped
      BY DEF StreamInv
    <2>2. follower[l].given \in SUBSET Nat /\ follower[l].pending \in Seq(Nat)
      BY <2>1 DEF StreamTyped, FollowerType
    <2>3. follower[l].inOrder /\ GoesOn(follower[l].given, <<follower[l].pending>>)
      BY <2>1, <2>2, PendingGoesOn DEF FollowerInv, Ordered
    <2>. QED
      BY <2>1, <2>3, CoveredKept DEF FollowerInv
  <1>. QED
    BY <1>1, StreamInvariance, PTL

-----------------------------------------------------------------------------
(* LogStream as LogTail                                                      *)

\* The newlines among the bytes after a up to b
NewlinesIn(q, a, b) == {p \in a + 1 .. b : q[p] = "n"}

\* The lines of the bytes q that are due to one who follows them from b
DueOf(q, b) ==
  LET after == NewlinesIn(q, b, Len(q))
      last  == IF after = {} THEN b ELSE CHOOSE p \in after : \A r \in after : r <= p
  IN  Cardinality(after) + (IF Len(q) - last > LineLimit THEN 1 ELSE 0)

\* A line goes on since s.
Since(q, b, s, to) ==
  /\ s \in b .. to /\ (s = b \/ q[s] = "n") /\ \A r \in s + 1 .. to : q[r] # "n"

LEMMA NewlinesCount ==
  ASSUME NEW q, NEW a \in Nat, NEW b \in Nat
  PROVE  /\ NewlinesIn(q, a, b) \in SUBSET Nat /\ IsFiniteSet(NewlinesIn(q, a, b))
         /\ Cardinality(NewlinesIn(q, a, b)) \in Nat
  <1>1. NewlinesIn(q, a, b) \in SUBSET (a + 1 .. b)
    BY DEF NewlinesIn
  <1>2. IsFiniteSet(a + 1 .. b)
    BY FS_Interval
  <1>3. IsFiniteSet(NewlinesIn(q, a, b))
    BY <1>1, <1>2, FS_Subset
  <1>. QED
    BY <1>1, <1>3, FS_CardinalityType

\* The newlines of two stretches, one after the other
LEMMA NewlinesAdd ==
  ASSUME NEW q, NEW a \in Nat, NEW b \in Nat, NEW c \in Nat, a <= b, b <= c
  PROVE  Cardinality(NewlinesIn(q, a, c)) =
           Cardinality(NewlinesIn(q, a, b)) + Cardinality(NewlinesIn(q, b, c))
  <1>. DEFINE S == NewlinesIn(q, a, b)
              T == NewlinesIn(q, b, c)
  <1>1. NewlinesIn(q, a, c) = S \cup T /\ S \cap T = {}
    BY DEF NewlinesIn
  <1>2. IsFiniteSet(S) /\ IsFiniteSet(T) /\ Cardinality(S) \in Nat /\ Cardinality(T) \in Nat
    BY NewlinesCount
  <1>. HIDE DEF S, T
  <1>3. Cardinality(S \cup T) = Cardinality(S) + Cardinality(T) - Cardinality(S \cap T)
    BY <1>2, FS_Union
  <1>4. Cardinality(S \cap T) = 0
    BY <1>1, FS_EmptySet
  <1>. QED
    BY <1>1, <1>2, <1>3, <1>4 DEF S, T

\* An unfinished line has one beginning.
LEMMA LastNewline ==
  ASSUME NEW q \in Seq({"x", "n"}), NEW b \in Nat, b <= Len(q)
  PROVE  \E s \in b .. Len(q) :
           /\ Since(q, b, s, Len(q))
           /\ DueOf(q, b) = Cardinality(NewlinesIn(q, b, Len(q)))
                              + (IF Len(q) - s > LineLimit THEN 1 ELSE 0)
  <1>. DEFINE w == Len(q)
              after == NewlinesIn(q, b, w)
              last  == IF after = {} THEN b ELSE CHOOSE p \in after : \A r \in after : r <= p
  <1>1. w \in Nat /\ b \in 0 .. w
    OBVIOUS
  <1>2. \A p : p \in after <=> p \in b + 1 .. w /\ q[p] = "n"
    BY DEF NewlinesIn
  <1>3. DueOf(q, b) = Cardinality(after) + (IF w - last > LineLimit THEN 1 ELSE 0)
    BY DEF DueOf
  <1>. HIDE DEF after, w
  <1>4. last \in b .. w /\ (last = b \/ q[last] = "n") /\ \A r \in last + 1 .. w : q[r] # "n"
    <2>1. CASE after = {}
      <3>1. last = b
        BY <2>1
      <3>. HIDE DEF last
      <3>2. \A r \in b + 1 .. w : q[r] # "n"
        BY <1>2, <2>1
      <3>. QED
        BY <1>1, <3>1, <3>2
    <2>2. CASE after # {}
      <3>. DEFINE Left == {k \in Nat : \E p \in after : k = w - p}
      <3>0. PICK p \in after : p \in b + 1 .. w
        BY <1>2, <2>2
      <3>1. Left \in SUBSET Nat /\ Left # {}
        <4>1. w - p \in Nat
          BY <1>1, <3>0
        <4>2. w - p \in Left
          BY <3>0, <4>1
        <4>. QED
          BY <4>2
      <3>. HIDE DEF Left
      <3>2. PICK k \in Left : \A j \in Left : k <= j
        BY <3>1, SmallestOf
      <3>3. PICK x \in after : k = w - x
        BY <3>2 DEF Left
      <3>4. ASSUME NEW r \in after PROVE r <= x
        <4>1. r \in b + 1 .. w /\ x \in b + 1 .. w
          BY <1>2
        <4>2. w - r \in Nat
          BY <4>1, <1>1
        <4>3. w - r \in Left
          BY <4>2 DEF Left
        <4>. QED
          BY <3>2, <3>3, <4>1, <4>3, <1>1
      <3>5. last \in after /\ \A r \in after : r <= last
        BY <2>2, <3>4, Zenon
      <3>. HIDE DEF last
      <3>6. last \in b + 1 .. w /\ q[last] = "n"
        BY <1>2, <3>5
      <3>7. \A r \in last + 1 .. w : q[r] # "n"
        <4>. SUFFICES ASSUME NEW r \in last + 1 .. w, q[r] = "n" PROVE FALSE
          OBVIOUS
        <4>1. r \in b + 1 .. w /\ r > last
          BY <1>1, <3>6
        <4>. QED
          BY <1>1, <1>2, <3>5, <3>6, <4>1
      <3>. QED
        BY <1>1, <3>6, <3>7
    <2>. QED
      BY <2>1, <2>2
  <1>. HIDE DEF last
  <1>. QED
    BY <1>3, <1>4 DEF Since, w, after

\* ... and only one.
LEMMA OneSince ==
  ASSUME NEW q, NEW b \in Nat, NEW to \in Nat, NEW s, NEW t, Since(q, b, s, to), Since(q, b, t, to)
  PROVE  s = t
  <1>1. s \in b .. to /\ t \in b .. to
    BY DEF Since
  <1>2. ASSUME s < t PROVE FALSE
    <2>1. t \in s + 1 .. to /\ t # b
      BY <1>1, <1>2
    <2>. QED
      BY <2>1 DEF Since
  <1>3. ASSUME t < s PROVE FALSE
    <2>1. s \in t + 1 .. to /\ s # b
      BY <1>1, <1>3
    <2>. QED
      BY <2>1 DEF Since
  <1>. QED
    BY <1>1, <1>2, <1>3

\* So what is due is known from where the line goes on.
LEMMA DueIs ==
  ASSUME NEW q \in Seq({"x", "n"}), NEW b \in Nat, b <= Len(q), NEW s, Since(q, b, s, Len(q))
  PROVE  /\ DueOf(q, b) = Cardinality(NewlinesIn(q, b, Len(q)))
                            + (IF Len(q) - s > LineLimit THEN 1 ELSE 0)
         /\ DueOf(q, b) \in Nat
  <1>1. Len(q) \in Nat
    OBVIOUS
  <1>2. PICK t \in b .. Len(q) :
           /\ Since(q, b, t, Len(q))
           /\ DueOf(q, b) = Cardinality(NewlinesIn(q, b, Len(q)))
                              + (IF Len(q) - t > LineLimit THEN 1 ELSE 0)
    BY LastNewline
  <1>3. s = t
    BY <1>1, <1>2, OneSince, Zenon
  <1>4. Cardinality(NewlinesIn(q, b, Len(q))) \in Nat
    BY <1>1, NewlinesCount
  <1>. QED
    BY <1>2, <1>3, <1>4

\* Nothing is due of no bytes.
LEMMA DueOfNone ==
  ASSUME NEW q \in Seq({"x", "n"})
  PROVE  DueOf(q, Len(q)) = 0
  <1>. DEFINE w == Len(q)
  <1>1. w \in Nat /\ LineLimit \in Nat
    BY StreamAssumption
  <1>2. Since(q, w, w, w)
    BY <1>1 DEF Since
  <1>3. NewlinesIn(q, w, w) = {}
    BY <1>1 DEF NewlinesIn
  <1>4. DueOf(q, w) = Cardinality(NewlinesIn(q, w, w)) + (IF w - w > LineLimit THEN 1 ELSE 0)
    BY <1>1, <1>2, DueIs
  <1>. QED
    BY <1>1, <1>3, <1>4, FS_EmptySet

\* A byte more makes at most one line more due.
LEMMA DueGrows ==
  ASSUME NEW q \in Seq({"x", "n"}), NEW b \in Nat, b <= Len(q), NEW c \in {"x", "n"}
  PROVE  DueOf(Append(q, c), b) \in {DueOf(q, b), DueOf(q, b) + 1}
  <1>. DEFINE w == Len(q)
              r == Append(q, c)
              N == Cardinality(NewlinesIn(q, b, w))
  <1>1. /\ w \in Nat /\ r \in Seq({"x", "n"}) /\ Len(r) = w + 1 /\ r[w + 1] = c
        /\ \A p \in 1 .. w : r[p] = q[p]
    OBVIOUS
  <1>2. PICK s : Since(q, b, s, w)
    BY LastNewline
  <1>3. DueOf(q, b) = N + (IF w - s > LineLimit THEN 1 ELSE 0) /\ N \in Nat
    BY <1>1, <1>2, DueIs, NewlinesCount
  <1>4. NewlinesIn(r, b, w) = NewlinesIn(q, b, w)
    BY <1>1 DEF NewlinesIn
  <1>5. Cardinality(NewlinesIn(r, b, w + 1)) = N + Cardinality(NewlinesIn(r, w, w + 1))
    BY <1>1, <1>4, NewlinesAdd
  <1>6. LineLimit \in Nat /\ s \in Nat /\ s \in b .. w
    BY <1>2, StreamAssumption DEF Since
  <1>. HIDE DEF r, N, w
  <1>7. CASE c = "n"
    <2>1. NewlinesIn(r, w, w + 1) = {w + 1}
      BY <1>1, <1>7 DEF NewlinesIn
    <2>2. Cardinality(NewlinesIn(r, w, w + 1)) = 1
      BY <2>1, FS_Singleton
    <2>3. Since(r, b, w + 1, w + 1)
      BY <1>1, <1>6, <1>7 DEF Since
    <2>4. DueOf(r, b) = Cardinality(NewlinesIn(r, b, w + 1))
                          + (IF (w + 1) - (w + 1) > LineLimit THEN 1 ELSE 0)
      <3>1. b <= Len(r)
        BY <1>1, <1>6
      <3>2. Since(r, b, w + 1, Len(r))
        BY <1>1, <2>3
      <3>3. DueOf(r, b) = Cardinality(NewlinesIn(r, b, Len(r)))
                          + (IF Len(r) - (w + 1) > LineLimit THEN 1 ELSE 0)
        BY <1>1, <3>1, <3>2, DueIs, Zenon
      <3>. QED
        BY <1>1, <3>3
    <2>5. DueOf(r, b) = N + 1
      BY <1>1, <1>3, <1>5, <1>6, <2>2, <2>4
    <2>. QED
      BY <1>3, <2>5 DEF r
  <1>8. CASE c = "x"
    <2>1. NewlinesIn(r, w, w + 1) = {}
      BY <1>1, <1>8 DEF NewlinesIn
    <2>2. Cardinality(NewlinesIn(r, w, w + 1)) = 0
      BY <2>1, FS_EmptySet
    <2>3. Since(r, b, s, w + 1)
      <3>1. s = b \/ r[s] = "n"
        BY <1>1, <1>2, <1>6 DEF Since
      <3>2. \A i \in s + 1 .. w + 1 : r[i] # "n"
        <4>1. \A i \in s + 1 .. w + 1 : i = w + 1 \/ (i \in s + 1 .. w /\ i \in 1 .. w)
          BY <1>1, <1>6
        <4>. QED
          BY <1>1, <1>2, <1>8, <4>1 DEF Since
      <3>. QED
        BY <1>1, <1>6, <3>1, <3>2 DEF Since
    <2>4. DueOf(r, b) = Cardinality(NewlinesIn(r, b, w + 1))
                          + (IF (w + 1) - s > LineLimit THEN 1 ELSE 0)
      <3>1. b <= Len(r)
        BY <1>1, <1>6
      <3>2. Since(r, b, s, Len(r))
        BY <1>1, <2>3
      <3>3. DueOf(r, b) = Cardinality(NewlinesIn(r, b, Len(r)))
                          + (IF Len(r) - s > LineLimit THEN 1 ELSE 0)
        BY <1>1, <3>1, <3>2, DueIs, Zenon
      <3>. QED
        BY <1>1, <3>3
    <2>5. DueOf(r, b) = N + (IF (w + 1) - s > LineLimit THEN 1 ELSE 0)
      BY <1>1, <1>3, <1>5, <1>6, <2>2, <2>4
    <2>6. DueOf(r, b) \in {DueOf(q, b), DueOf(q, b) + 1}
      BY <1>1, <1>3, <1>6, <2>5
    <2>. QED
      BY <2>6 DEF r
  <1>. QED
    BY <1>7, <1>8

\* What has been cut from the bytes up to o, with or without the line beyond the
\* limit, is due.
LEMMA CutIsDue ==
  ASSUME NEW q \in Seq({"x", "n"}), NEW b \in Nat, NEW o \in Nat, b <= o, o <= Len(q),
         NEW s, Since(q, b, s, o)
  PROVE  Cardinality(NewlinesIn(q, b, o)) + (IF o - s > LineLimit THEN 1 ELSE 0) <= DueOf(q, b)
  <1>. DEFINE w == Len(q)
              N == Cardinality(NewlinesIn(q, b, o))
              M == Cardinality(NewlinesIn(q, o, w))
  <1>1. w \in Nat /\ LineLimit \in Nat /\ b <= w /\ s \in b .. o
    BY StreamAssumption DEF Since
  <1>2. PICK t : Since(q, b, t, w)
    BY <1>1, LastNewline
  <1>3. DueOf(q, b) = Cardinality(NewlinesIn(q, b, w)) + (IF w - t > LineLimit THEN 1 ELSE 0)
    BY <1>1, <1>2, DueIs
  <1>4. Cardinality(NewlinesIn(q, b, w)) = N + M /\ N \in Nat /\ M \in Nat
    BY <1>1, NewlinesAdd, NewlinesCount
  <1>5. CASE NewlinesIn(q, o, w) = {}
    <2>1. \A r \in o + 1 .. w : q[r] # "n"
      BY <1>5 DEF NewlinesIn
    <2>2. Since(q, b, s, w)
      <3>1. \A r \in s + 1 .. w : r \in s + 1 .. o \/ r \in o + 1 .. w
        BY <1>1
      <3>. QED
        BY <1>1, <2>1, <3>1 DEF Since
    <2>3. s = t
      BY <1>1, <1>2, <2>2, OneSince, Zenon
    <2>. HIDE DEF N, M, w
    <2>4. o - s > LineLimit => w - t > LineLimit
      BY <1>1, <2>3 DEF w
    <2>5. N + (IF o - s > LineLimit THEN 1 ELSE 0) <= (N + M) + (IF w - t > LineLimit THEN 1 ELSE 0)
      BY <1>4, <2>4
    <2>. QED
      BY <1>3, <1>4, <2>5 DEF N
  <1>6. CASE NewlinesIn(q, o, w) # {}
    <2>1. M # 0
      BY <1>1, <1>6, NewlinesCount, FS_EmptySet
    <2>. HIDE DEF N, M, w
    <2>. QED
      BY <1>1, <1>3, <1>4, <2>1 DEF N
  <1>. QED
    BY <1>5, <1>6

-----------------------------------------------------------------------------
\* The entries of one log that are on their way to the reader
InTransit(q, l) == Cardinality({i \in DOMAIN q : q[i] = l})

LEMMA InTransitIsNat ==
  ASSUME NEW S, NEW q \in Seq(S), NEW l
  PROVE  IsFiniteSet({i \in DOMAIN q : q[i] = l}) /\ InTransit(q, l) \in Nat
  <1>1. DOMAIN q = 1 .. Len(q) /\ Len(q) \in Nat
    OBVIOUS
  <1>2. IsFiniteSet(1 .. Len(q))
    BY <1>1, FS_Interval
  <1>3. IsFiniteSet({i \in DOMAIN q : q[i] = l})
    BY <1>1, <1>2, FS_Subset
  <1>. QED
    BY <1>3, FS_CardinalityType DEF InTransit

LEMMA InTransitNone ==
  ASSUME NEW l
  PROVE  InTransit(<<>>, l) = 0
  <1>1. {i \in DOMAIN <<>> : <<>>[i] = l} = {}
    OBVIOUS
  <1>. QED
    BY <1>1, FS_EmptySet DEF InTransit

\* One more when one is sent
LEMMA InTransitAppend ==
  ASSUME NEW S, NEW q \in Seq(S), NEW e \in S, NEW l
  PROVE  InTransit(Append(q, e), l) = InTransit(q, l) + (IF e = l THEN 1 ELSE 0)
  <1>. DEFINE n == Len(q)
              r == Append(q, e)
              Q == {i \in DOMAIN q : q[i] = l}
              R == {i \in DOMAIN r : r[i] = l}
  <1>1. /\ n \in Nat /\ DOMAIN q = 1 .. n /\ DOMAIN r = 1 .. n + 1 /\ r[n + 1] = e
        /\ \A i \in 1 .. n : r[i] = q[i]
    OBVIOUS
  <1>2. IsFiniteSet(Q) /\ Cardinality(Q) \in Nat
    BY InTransitIsNat DEF InTransit
  <1>3. n + 1 \notin Q
    BY <1>1
  <1>4. CASE e = l
    <2>1. R = Q \cup {n + 1}
      BY <1>1, <1>4
    <2>. HIDE DEF Q, R
    <2>2. Cardinality(R) = Cardinality(Q) + 1
      BY <1>2, <1>3, <2>1, FS_AddElement
    <2>. QED
      BY <1>4, <2>2 DEF InTransit, Q, R
  <1>5. CASE e # l
    <2>1. R = Q
      BY <1>1, <1>5
    <2>. HIDE DEF Q, R
    <2>2. Cardinality(R) = Cardinality(Q) + 0
      BY <1>2, <2>1
    <2>. QED
      BY <1>5, <2>2 DEF InTransit, Q, R
  <1>. QED
    BY <1>4, <1>5

\* One less when one is taken
LEMMA InTransitTail ==
  ASSUME NEW S, NEW q \in Seq(S), q # <<>>, NEW l
  PROVE  InTransit(q, l) = InTransit(Tail(q), l) + (IF Head(q) = l THEN 1 ELSE 0)
  <1>. DEFINE n == Len(q)
              r == Tail(q)
              Q == {i \in DOMAIN q : q[i] = l}
              R == {i \in DOMAIN r : r[i] = l}
              T == Q \ {1}
              f == [i \in T |-> i - 1]
  <1>1. /\ n \in Nat /\ n >= 1 /\ DOMAIN q = 1 .. n /\ DOMAIN r = 1 .. n - 1 /\ Head(q) = q[1]
        /\ \A i \in 1 .. n - 1 : r[i] = q[i + 1]
    OBVIOUS
  <1>2. IsFiniteSet(Q) /\ IsFiniteSet(T)
    <2>1. IsFiniteSet(Q)
      BY InTransitIsNat
    <2>. QED
      BY <2>1, FS_Subset
  <1>3. \A i \in T : i \in 2 .. n /\ i - 1 \in R
    BY <1>1
  <1>4. \A j \in R : j + 1 \in T /\ (j + 1) - 1 = j
    BY <1>1
  <1>5. f \in Bijection(T, R)
    <2>. HIDE DEF T, R
    <2>1. f \in [T -> R]
      BY <1>3
    <2>2. \A a, b \in T : f[a] = f[b] => a = b
      BY <1>3
    <2>3. \A j \in R : \E a \in T : f[a] = j
      BY <1>4
    <2>. HIDE DEF f
    <2>. QED
      BY <2>1, <2>2, <2>3 DEF Bijection, Injection, Surjection, IsInjective
  <1>6. Cardinality(T) = Cardinality(R) /\ IsFiniteSet(R)
    <2>1. ExistsBijection(T, R)
      BY <1>5 DEF ExistsBijection
    <2>. HIDE DEF T, R, f
    <2>. QED
      BY <1>2, <2>1, FS_Bijection
  <1>7. Cardinality(R) \in Nat /\ Cardinality(Q) \in Nat
    BY <1>2, <1>6, FS_CardinalityType
  <1>10. InTransit(q, l) = Cardinality(Q) /\ InTransit(Tail(q), l) = Cardinality(R)
    BY DEF InTransit
  <1>8. CASE Head(q) = l
    <2>1. 1 \in Q
      BY <1>1, <1>8
    <2>2. Cardinality(T) = Cardinality(Q) - 1
      <3>. HIDE DEF Q
      <3>. QED
        BY <1>2, <2>1, FS_RemoveElement
    <2>. HIDE DEF T, R, Q
    <2>. QED
      BY <1>6, <1>7, <1>8, <1>10, <2>2
  <1>9. CASE Head(q) # l
    <2>1. T = Q
      BY <1>1, <1>9
    <2>. HIDE DEF T, R, Q
    <2>. QED
      BY <1>6, <1>7, <1>9, <1>10, <2>1
  <1>. QED
    BY <1>8, <1>9

\* The lines the chunk with these newlines gives, counted
Counts(out, discarding, ends) ==
  /\ Len(out.lines) \in Nat
  /\ Len(out.lines) + (IF discarding THEN 1 ELSE 0) =
       Len(ends) + (IF out.discarding THEN 1 ELSE 0)

\* A chunk gives a line for each of its newlines, less the one that ends what is
\* discarded, and one more for what has grown too long.
LEMMA ConsumeCounts ==
  ASSUME NEW l, NEW from \in Nat, NEW to \in Nat, from <= to, NEW ends, NewlinesOf(l, from, to, ends),
         NEW pending \in Seq(Nat), NEW discarding \in BOOLEAN, NEW out,
         out = Consume(pending, discarding, from, to, ends)
  PROVE  Counts(out, discarding, ends)
  <1>. DEFINE L == LineOf(pending, from, to, ends)
              n == Len(ends)
  <1>1. n \in Nat
    BY DEF NewlinesOf
  <1>2. Len(L[n + 1]) \in Nat
    <2>. DEFINE a == Before(from, ends, n + 1)
                piece == Piece(from, to, ends, n + 1)
    <2>1. a \in Nat /\ a <= to
      BY <1>1 DEF Before, NewlinesOf
    <2>2. piece = Positions(a, to)
      BY <1>1 DEF Piece
    <2>. HIDE DEF a
    <2>3. piece \in Seq(Nat)
      BY <2>1, <2>2, PositionsRun DEF Run
    <2>. HIDE DEF piece
    <2>4. L[n + 1] = (IF n + 1 = 1 THEN pending ELSE <<>>) \o piece
      <3>1. n + 1 \in 1 .. Len(ends) + 1
        BY <1>1
      <3>. QED
        BY <3>1, Zenon DEF LineOf, piece
    <2>. HIDE DEF L
    <2>5. L[n + 1] = pending \o piece \/ L[n + 1] = <<>> \o piece
      BY <2>4
    <2>6. pending \o piece \in Seq(Nat) /\ <<>> \o piece \in Seq(Nat)
      BY <2>3
    <2>. QED
      BY <2>5, <2>6
  <1>3. PICK m \in Int, c \in Nat : Outcome(pending, discarding, from, to, ends, m, c)
    BY <1>1, <1>2, ConsumeIs
  <1>4. /\ out.lines = [k \in 1 .. m |-> Truncated(L[k + c])] /\ c = (IF discarding THEN 1 ELSE 0)
        /\ \/ m + c = n + 1 /\ out.discarding
           \/ m + c = n /\ discarding /\ n = 0 /\ out.discarding
           \/ m + c = n /\ ~(discarding /\ n = 0) /\ ~out.discarding
    <2>. HIDE DEF L, n
    <2>. QED
      BY <1>3, Zenon DEF Outcome, Cut, L, n
  <1>. HIDE DEF L, n
  <1>5. CASE m < 0
    <2>1. m + c = n /\ discarding /\ n = 0 /\ out.discarding /\ c = 1
      BY <1>1, <1>4, <1>5
    <2>2. out.lines = <<>>
      <3>1. 1 .. m = {}
        BY <1>5
      <3>2. out.lines = [k \in {} |-> Truncated(L[k + c])]
        BY <1>4, <3>1, Zenon
      <3>. QED
        BY <3>2
    <2>. QED
      BY <2>1, <2>2 DEF n, Counts
  <1>6. CASE m >= 0
    <2>1. m \in Nat
      BY <1>6
    <2>2. Len(out.lines) = m
      <3>1. Len([k \in 1 .. m |-> Truncated(L[k + c])]) = m
        BY <2>1
      <3>. QED
        BY <1>4, <3>1
    <2>3. m + c = n + (IF out.discarding THEN 1 ELSE 0)
      BY <1>1, <1>4, <2>1
    <2>. QED
      BY <1>4, <2>1, <2>2, <2>3 DEF n, Counts
  <1>7. m < 0 \/ m >= 0
    OBVIOUS
  <1>. QED
    BY <1>5, <1>6, <1>7, Zenon

-----------------------------------------------------------------------------
\* The lines cut from the bytes q since the snapshot of the follower f
CutSince(q, f) ==
  Cardinality(NewlinesIn(q, f.boundary, f.offset)) + (IF f.discarding THEN 1 ELSE 0)

\* With n lines of it shown and t on their way, every line that the follower f of
\* the bytes q has cut is accounted for.
Accounted(f, q, n, t) ==
  /\ f.pc \in {"idle", "start", "sending", "waiting"}
  /\ f.began <=> f.pc \in {"sending", "waiting"}
  /\ f.pc = "waiting" => f.outbox = 0
  /\ ~f.began => f.initial = 0 /\ f.outbox = 0 /\ n = 0 /\ t = 0
  /\ f.began => n + t + f.outbox = f.initial + CutSince(q, f)

AllAccounted ==
  Accounted(follower[Watched], written[Watched], shown[Watched], InTransit(channel, Watched))

\* The inductive invariant of the lines that are watched
CountTyped == channel \in Seq(Logs) /\ shown \in [Logs -> Nat] /\ base[Watched] = 0

CountInv ==
  /\ CountTyped
  /\ Live => AllAccounted
  /\ Live /\ reader = "choosing" => follower[Watched].pc = "idle"

\* Two states of a follower since the same snapshot
SameStart(g, f) == g.began = f.began /\ g.boundary = f.boundary /\ g.initial = f.initial

LEMMA WatchedIsALog == Watched \in Logs /\ Watched # Connection
  BY StreamAssumption DEF Logs

\* The stream, once over, stays over.
LEMMA LiveBefore ==
  ASSUME [StreamNext]_streamVars, Live'
  PROVE  Live
  <1>1. ASSUME UNCHANGED <<reader, interrupted, failures>> PROVE Live
    BY <1>1 DEF Live
  <1>2. ASSUME NEW names \in Selections, Follow(names) PROVE Live
    BY <1>2 DEF Follow, Live
  <1>3. ASSUME NEW l \in Logs, FollowerStep(l) PROVE Live
    BY <1>1, <1>3 DEF FollowerStep, Snapshot, Send, Poll, Quit
  <1>4. ASSUME NEW l \in Logs, Fail(l) PROVE Live
    BY <1>4 DEF Fail, Live
  <1>5. ASSUME NEW l \in Logs, NEW b \in {"x", "n"}, Write(l, b) PROVE Live
    BY <1>5 DEF Write
  <1>6. CASE ReaderStep
    BY <1>6 DEF ReaderStep, Emit, Report, Leave, LeaveReader, Live
  <1>7. CASE OpenFresh
    BY <1>7 DEF OpenFresh
  <1>8. CASE Interrupt
    BY <1>8 DEF Interrupt, Live
  <1>9. CASE UNCHANGED streamVars
    BY <1>1, <1>9 DEF streamVars
  <1>. QED
    BY <1>2, <1>3, <1>4, <1>5, <1>6, <1>7, <1>8, <1>9 DEF StreamNext

\* What a snapshot makes of a follower
LEMMA SnapshotIs ==
  ASSUME StreamInv, NEW l \in Logs, Snapshot(l), base[l] = 0
  PROVE  \E g \in FollowerType :
           /\ follower'[l] = g /\ g.pc = "sending" /\ g.began /\ g.outbox = g.initial
           /\ g.boundary = Len(written[l]) /\ g.offset = Len(written[l]) /\ ~g.discarding
  <1>1. PICK f \in FollowerType, w \in Nat : f = follower[l] /\ w = Len(written[l])
    BY DEF StreamInv, StreamTyped
  <1>2. f.pc = "start" /\ Fresh(f) /\ l \in Range(selected) /\ base[l] <= Len(written[l])
    BY <1>1 DEF Snapshot, StreamInv, FollowerInv
  <1>3. PICK lines : lines = SnapshotLines(l)
    OBVIOUS
  <1>4. /\ lines \in Seq(Seq(Nat)) /\ \A p \in Given({}, lines) : p \in Nat
    BY <1>2, <1>3, SnapshotGoesOn DEF StreamInv
  <1>5. w = Size(l) /\ 0 + w = w /\ base[l] + Size(l) = w
    <2>1. w - 0 = w /\ 0 + w = w
      OBVIOUS
    <2>. QED
      BY <1>1, <2>1 DEF Size
  <1>6. PICK h : h = Gave(f, lines)
    OBVIOUS
  <1>7. /\ h \in FollowerType /\ h.pc = "sending" /\ h.outbox = Len(lines) /\ ~h.discarding
    <2>1. f.given = {} /\ Given(f.given, lines) \subseteq Nat
      BY <1>2, <1>4 DEF Fresh
    <2>2. /\ h \in FollowerType
          /\ h.pc = "sending" /\ h.outbox = Len(lines) /\ h.given = Given(f.given, lines)
          /\ f.inOrder /\ GoesOn(f.given, lines) => h.inOrder
          /\ h.offset = f.offset /\ h.pending = f.pending /\ h.discarding = f.discarding
          /\ h.began = f.began /\ h.boundary = f.boundary /\ h.initial = f.initial
      BY <1>4, <1>6, <2>1, GaveIs
    <2>. QED
      BY <1>2, <2>2 DEF Fresh
  <1>8. PICK n \in Nat : n = Len(lines)
    BY <1>4
  <1>. DEFINE g == [h EXCEPT !.offset = w, !.began = TRUE, !.boundary = w, !.initial = n]
  <1>9. /\ g \in FollowerType /\ g.pc = "sending" /\ g.began /\ g.outbox = h.outbox /\ g.initial = n
        /\ g.boundary = w /\ g.offset = w /\ g.discarding = h.discarding
    BY <1>7 DEF FollowerType
  <1>10. follower' = [follower EXCEPT ![l] = g]
    <2>1. follower' = [follower EXCEPT ![l] =
                      [Gave(@, lines) EXCEPT !.offset = Size(l), !.began = TRUE,
                         !.boundary = base[l] + Size(l), !.initial = Len(lines)]]
      BY <1>3 DEF Snapshot
    <2>. QED
      BY <1>1, <1>5, <1>6, <1>8, <2>1
  <1>. HIDE DEF g
  <1>11. follower'[l] = g
    BY <1>10 DEF StreamInv, StreamTyped
  <1>. QED
    BY <1>1, <1>7, <1>8, <1>9, <1>11

\* ... and a poll
LEMMA PollCuts ==
  ASSUME StreamInv, NEW l \in Logs, Poll(l), base[l] = 0
  PROVE  \E g :
           /\ follower'[l] = g /\ g.pc = "sending" /\ g.outbox \in Nat
           /\ SameStart(g, follower[l])
           /\ g.outbox + CutSince(written[l], follower[l]) = CutSince(written[l], g)
  <1>1. PICK f \in FollowerType, b \in Nat, w \in Nat :
          f = follower[l] /\ b = base[l] /\ w = Len(written[l]) /\ b <= w
    <2>1. follower[l] \in FollowerType /\ base[l] \in Nat /\ Len(written[l]) \in Nat
      BY DEF StreamInv, StreamTyped
    <2>2. base[l] <= Len(written[l])
      BY DEF StreamInv, FollowerInv
    <2>. QED
      BY <2>1, <2>2, Zenon
  <1>2. /\ f.pc = "waiting" /\ Ordered(f, b, w) /\ Covered(l, f, w) /\ b = 0
    BY <1>1 DEF Poll, StreamInv, FollowerInv
  <1>3. PICK size, from, next, start, end \in Nat : \E out :
           /\ Polled(l, f, b, w, size, from, next, start, end, out)
           /\ follower' = [follower EXCEPT ![l] =
                IF start = end THEN [f EXCEPT !.offset = next]
                ELSE [Gave(f, out.lines) EXCEPT !.offset = next, !.pending = out.pending,
                                                !.discarding = out.discarding]]
    <2>1. PollOf(l, f, b, w)
      BY <1>1, PollIs, Zenon
    <2>. QED
      BY <2>1, Zenon DEF PollOf
  <1>4. PICK out : /\ Polled(l, f, b, w, size, from, next, start, end, out)
                   /\ follower' = [follower EXCEPT ![l] =
                        IF start = end THEN [f EXCEPT !.offset = next]
                        ELSE [Gave(f, out.lines) EXCEPT !.offset = next, !.pending = out.pending,
                                                        !.discarding = out.discarding]]
    BY <1>3, Zenon
  <1>5. /\ start = f.offset /\ end = next /\ start < end /\ end <= w /\ f.boundary <= start
        /\ f.boundary \in Nat
    <2>1. f.offset \in Nat /\ f.boundary \in Nat /\ f.offset <= w /\ f.boundary <= f.offset
      BY <1>2 DEF FollowerType, Covered
    <2>2. /\ size = w - b /\ from <= next /\ next # f.offset
          /\ ~(size < f.offset) => from = f.offset
          /\ start = b + from /\ end = b + next /\ end <= w
      BY <1>4 DEF Polled
    <2>3. size = w /\ from = f.offset /\ start = from /\ end = next
      BY <1>2, <2>1, <2>2
    <2>. QED
      BY <2>1, <2>2, <2>3
  <1>6. PICK ends : ends = Newlines(l, start, end) /\ NewlinesOf(l, start, end, ends)
    BY NewlinesAre
  <1>7. Len(ends) = Cardinality(NewlinesIn(written[l], start, end))
    <2>. DEFINE S == NewlinesIn(written[l], start, end)
    <2>1. Newlines(l, start, end) = Sorted(S)
      BY Zenon DEF Newlines, NewlinesIn, Byte
    <2>2. S \in SUBSET Nat /\ IsFiniteSet(S)
      BY NewlinesCount
    <2>. HIDE DEF S
    <2>3. Len(Sorted(S)) = Cardinality(S)
      BY <2>2, SortedLists
    <2>. QED
      BY <1>6, <2>1, <2>3 DEF S
  <1>8. out = Consume(f.pending, f.discarding, start, end, ends)
    BY <1>4, <1>6, Zenon DEF Polled
  <1>9. /\ Len(out.lines) \in Nat
        /\ Len(out.lines) + (IF f.discarding THEN 1 ELSE 0) =
              Len(ends) + (IF out.discarding THEN 1 ELSE 0)
    <2>. DEFINE pend == f.pending
                disc == f.discarding
    <2>1. pend \in Seq(Nat) /\ disc \in BOOLEAN /\ start <= end
      BY <1>5 DEF FollowerType
    <2>2. out = Consume(pend, disc, start, end, ends)
      BY <1>8
    <2>. HIDE DEF pend, disc
    <2>3. Counts(out, disc, ends)
      <3>1. /\ start <= end /\ NewlinesOf(l, start, end, ends) /\ pend \in Seq(Nat)
            /\ disc \in BOOLEAN /\ out = Consume(pend, disc, start, end, ends)
        BY <1>6, <2>1, <2>2, Zenon
      <3>. QED
        BY <3>1, ConsumeCounts, Zenon
    <2>. QED
      BY <2>3 DEF disc, Counts
  <1>10. PICK g : g = [Gave(f, out.lines) EXCEPT !.offset = next, !.pending = out.pending,
                                                 !.discarding = out.discarding]
    OBVIOUS
  <1>11. follower'[l] = g
    <2>1. start # end
      BY <1>5
    <2>2. follower' = [follower EXCEPT ![l] = g]
      BY <1>4, <1>10, <2>1, Zenon
    <2>. QED
      BY <2>2 DEF StreamInv, StreamTyped
  <1>12. /\ g.pc = "sending" /\ g.began = f.began /\ g.initial = f.initial
         /\ g.boundary = f.boundary /\ g.offset = next /\ g.discarding = out.discarding
         /\ g.outbox = Len(out.lines)
    <2>1. PICK given, order : Gave(f, out.lines) =
            [f EXCEPT !.pc = "sending", !.outbox = Len(out.lines), !.given = given, !.inOrder = order]
      BY Zenon DEF Gave
    <2>2. PICK n, pend, disc : n = Len(out.lines) /\ pend = out.pending /\ disc = out.discarding
      OBVIOUS
    <2>3. g = [[f EXCEPT !.pc = "sending", !.outbox = n, !.given = given, !.inOrder = order]
                 EXCEPT !.offset = next, !.pending = pend, !.discarding = disc]
      BY <1>10, <2>1, <2>2, Zenon
    <2>4. /\ g.pc = "sending" /\ g.began = f.began /\ g.initial = f.initial
          /\ g.boundary = f.boundary /\ g.offset = next /\ g.discarding = disc /\ g.outbox = n
      BY <2>3 DEF FollowerType
    <2>. QED
      BY <2>2, <2>4, Zenon
  <1>13. g.outbox + CutSince(written[l], f) = CutSince(written[l], g)
    <2>. DEFINE q == written[l]
                d == f.boundary
    <2>0. d \in Nat /\ start \in Nat /\ end \in Nat /\ d <= start /\ start <= end
      BY <1>5
    <2>1. PICK N \in Nat, n \in Nat, m \in Nat :
            /\ N = Cardinality(NewlinesIn(q, d, start))
            /\ n = Len(ends) /\ m = Len(out.lines)
      <3>1. Cardinality(NewlinesIn(q, d, start)) \in Nat
        <4>. HIDE DEF d, q
        <4>. QED
          BY <2>0, NewlinesCount
      <3>. HIDE DEF d, q
      <3>. QED
        BY <1>6, <1>9, <3>1 DEF NewlinesOf
    <2>2. Cardinality(NewlinesIn(q, d, end)) = N + n
      <3>1. Cardinality(NewlinesIn(q, d, end)) =
               Cardinality(NewlinesIn(q, d, start)) + Cardinality(NewlinesIn(q, start, end))
        <4>. HIDE DEF d, q
        <4>. QED
          BY <2>0, NewlinesAdd
      <3>. QED
        BY <1>7, <2>1, <3>1
    <2>3. CutSince(q, f) = N + (IF f.discarding THEN 1 ELSE 0)
      BY <1>5, <2>1 DEF CutSince
    <2>4. CutSince(q, g) = N + n + (IF out.discarding THEN 1 ELSE 0)
      BY <1>5, <1>12, <2>2 DEF CutSince
    <2>5. g.outbox = m /\ m + (IF f.discarding THEN 1 ELSE 0) = n + (IF out.discarding THEN 1 ELSE 0)
      BY <1>9, <1>12, <2>1
    <2>6. PICK D \in Nat, E \in Nat :
            D = (IF f.discarding THEN 1 ELSE 0) /\ E = (IF out.discarding THEN 1 ELSE 0)
      OBVIOUS
    <2>7. CutSince(q, f) = N + D /\ CutSince(q, g) = N + n + E /\ g.outbox = m /\ m + D = n + E
      BY <2>3, <2>4, <2>5, <2>6, Zenon
    <2>8. m + (N + D) = N + n + E
      BY <2>7
    <2>. QED
      BY <2>7, <2>8, Zenon
  <1>. QED
    BY <1>1, <1>9, <1>11, <1>12, <1>13 DEF SameStart

LEMMA CountInvInit == StreamInit => CountInv
  <1>. SUFFICES ASSUME StreamInit PROVE CountInv
    OBVIOUS
  <1>1. CountTyped
    BY WatchedIsALog DEF StreamInit, CountTyped
  <1>2. follower[Watched] = Idle /\ shown[Watched] = 0 /\ InTransit(channel, Watched) = 0
    BY WatchedIsALog, InTransitNone DEF StreamInit
  <1>3. Idle.pc = "idle" /\ ~Idle.began /\ Idle.initial = 0 /\ Idle.outbox = 0
    BY DEF Idle
  <1>4. AllAccounted
    BY <1>2, <1>3 DEF AllAccounted, Accounted
  <1>. QED
    BY <1>1, <1>2, <1>3, <1>4 DEF CountInv

LEMMA CountTypedStep ==
  ASSUME CountTyped, StreamTyped, [StreamNext]_streamVars
  PROVE  CountTyped'
  <1>1. ASSUME UNCHANGED <<base, channel, shown>> PROVE CountTyped'
    BY <1>1 DEF CountTyped
  <1>2. ASSUME NEW l \in Logs, Send(l) PROVE CountTyped'
    <2>1. channel' = channel \/ channel' = Append(channel, l)
      BY <1>2 DEF Send
    <2>2. channel' \in Seq(Logs)
      BY <2>1 DEF CountTyped
    <2>. QED
      BY <1>2, <2>2 DEF Send, CountTyped
  <1>3. CASE OpenFresh
    BY <1>3, WatchedIsALog DEF OpenFresh, CountTyped, StreamTyped
  <1>4. ASSUME LeaveReader, UNCHANGED base, channel' \in Seq(Logs) PROVE CountTyped'
    BY <1>4 DEF LeaveReader, CountTyped
  <1>5. CASE Emit
    <2>1. channel # <<>> /\ channel' = Tail(channel) /\ UNCHANGED base
      BY <1>5 DEF Emit
    <2>2. CASE LeaveReader
      <3>1. channel' \in Seq(Logs)
        BY <2>1 DEF CountTyped
      <3>. QED
        BY <1>4, <2>1, <2>2, <3>1
    <2>3. CASE shown' = [shown EXCEPT ![Head(channel)] = @ + 1]
      <3>1. Tail(channel) \in Seq(Logs) /\ Head(channel) \in Logs
        BY <2>1 DEF CountTyped
      <3>2. shown' \in [Logs -> Nat]
        BY <2>3, <3>1 DEF CountTyped
      <3>. QED
        BY <2>1, <3>1, <3>2 DEF CountTyped
    <2>. QED
      BY <1>5, <2>2, <2>3 DEF Emit
  <1>6. CASE Report \/ Leave
    BY <1>4, <1>6 DEF Report, Leave, CountTyped
  <1>7. ASSUME NEW names \in Selections, Follow(names) PROVE CountTyped'
    BY <1>1, <1>7 DEF Follow
  <1>8. ASSUME NEW l \in Logs, Snapshot(l) \/ Poll(l) \/ Quit(l) \/ Fail(l) PROVE CountTyped'
    BY <1>1, <1>8 DEF Snapshot, Poll, Quit, Fail
  <1>9. ASSUME NEW l \in Logs, NEW b \in {"x", "n"}, Write(l, b) PROVE CountTyped'
    BY <1>1, <1>9 DEF Write
  <1>10. CASE Interrupt
    BY <1>1, <1>10 DEF Interrupt
  <1>11. CASE UNCHANGED streamVars
    BY <1>1, <1>11 DEF streamVars
  <1>. QED
    BY <1>2, <1>3, <1>5, <1>6, <1>7, <1>8, <1>9, <1>10, <1>11 DEF StreamNext, FollowerStep, ReaderStep

\* A line more on disk changes nothing of what has been cut.
LEMMA WriteCounts ==
  ASSUME StreamInv, CountInv, NEW l \in Logs, NEW b \in {"x", "n"}, Write(l, b)
  PROVE  AllAccounted'
  <1>1. PICK f \in FollowerType : f = follower[Watched]
    BY WatchedIsALog DEF StreamInv, StreamTyped
  <1>2. Accounted(f, written[Watched], shown[Watched], InTransit(channel, Watched))
    BY <1>1 DEF Write, CountInv, AllAccounted
  <1>3. Accounted(f, written'[Watched], shown[Watched], InTransit(channel, Watched))
    <2>1. CASE l # Watched
      <3>1. written'[Watched] = written[Watched]
        BY <2>1 DEF Write
      <3>. QED
        BY <1>2, <3>1
    <2>2. CASE l = Watched
      <3>1. PICK q \in Seq({"x", "n"}) : q = written[Watched]
        BY WatchedIsALog DEF StreamInv, StreamTyped
      <3>2. written'[Watched] = Append(q, b)
        BY <2>2, <3>1 DEF Write, StreamInv, StreamTyped
      <3>3. ASSUME f.began PROVE CutSince(Append(q, b), f) = CutSince(q, f)
        <4>1. f.pc \in {"sending", "waiting"}
          BY <1>2, <3>3 DEF Accounted
        <4>2. base[Watched] = 0
          BY DEF CountInv, CountTyped
        <4>3. Covered(Watched, f, Len(q))
          BY <1>1, <3>1, <4>1, <4>2, WatchedIsALog DEF StreamInv, FollowerInv
        <4>4. f.boundary \in Nat /\ f.offset \in Nat /\ f.offset <= Len(q)
          BY <4>3 DEF Covered, FollowerType
        <4>5. \A p \in f.boundary + 1 .. f.offset : Append(q, b)[p] = q[p]
          BY <4>4
        <4>6. NewlinesIn(Append(q, b), f.boundary, f.offset) = NewlinesIn(q, f.boundary, f.offset)
          BY <4>5 DEF NewlinesIn
        <4>. QED
          BY <4>6 DEF CutSince
      <3>4. CASE f.began
        BY <1>2, <3>1, <3>2, <3>3, <3>4 DEF Accounted
      <3>5. CASE ~f.began
        BY <1>2, <3>5 DEF Accounted
      <3>. QED
        BY <3>4, <3>5
    <2>. QED
      BY <2>1, <2>2
  <1>. QED
    BY <1>1, <1>3, Zenon DEF Write, AllAccounted

\* The command finds nothing cut and counts nothing.
LEMMA FollowCounts ==
  ASSUME StreamInv, CountInv, Live, NEW names \in Selections, Follow(names)
  PROVE  AllAccounted' /\ follower'[Watched].pc \in {"idle", "start"}
  <1>1. AllAccounted /\ follower[Watched].pc = "idle"
    BY DEF CountInv, Follow
  <1>2. shown[Watched] = 0 /\ InTransit(channel, Watched) = 0
    BY <1>1 DEF AllAccounted, Accounted
  <1>3. \E g : /\ follower'[Watched] = g /\ g.pc \in {"idle", "start"} /\ ~g.began
               /\ g.initial = 0 /\ g.outbox = 0
    <2>1. PICK s : s = [Idle EXCEPT !.pc = "start"]
      OBVIOUS
    <2>2. /\ Idle.pc = "idle" /\ ~Idle.began /\ Idle.initial = 0 /\ Idle.outbox = 0
          /\ s.pc = "start" /\ ~s.began /\ s.initial = 0 /\ s.outbox = 0
      BY <2>1 DEF Idle
    <2>3. follower' = [l \in Logs |-> IF l \in Range(SelectLogs(names)) THEN s ELSE Idle]
      BY <2>1, Zenon DEF Follow
    <2>4. follower'[Watched] = s \/ follower'[Watched] = Idle
      BY <2>3, WatchedIsALog
    <2>. QED
      BY <2>2, <2>4
  <1>4. PICK g : /\ follower'[Watched] = g /\ g.pc \in {"idle", "start"} /\ ~g.began
                 /\ g.initial = 0 /\ g.outbox = 0
    BY <1>3
  <1>5. Accounted(g, written'[Watched], 0, 0)
    BY <1>4 DEF Accounted
  <1>6. shown'[Watched] = 0 /\ InTransit(channel', Watched) = 0
    BY <1>2 DEF Follow
  <1>7. Accounted(follower'[Watched], written'[Watched], shown'[Watched], InTransit(channel', Watched))
    BY <1>4, <1>5, <1>6, Zenon
  <1>. QED
    BY <1>4, <1>7 DEF AllAccounted

\* The follower of another log leaves the account as it is.
LEMMA OthersCount ==
  ASSUME StreamInv, CountInv, Live, NEW l \in Logs, l # Watched,
         Snapshot(l) \/ Send(l) \/ Poll(l)
  PROVE  AllAccounted' /\ follower'[Watched] = follower[Watched]
  <1>1. follower'[Watched] = follower[Watched]
    <2>1. ASSUME NEW g, follower' = [follower EXCEPT ![l] = g]
          PROVE  follower'[Watched] = follower[Watched]
      BY <2>1, WatchedIsALog DEF StreamInv, StreamTyped
    <2>2. CASE Snapshot(l)
      BY <2>2, WatchedIsALog DEF Snapshot, StreamInv, StreamTyped
    <2>3. CASE Send(l)
      BY <2>3, WatchedIsALog DEF Send, StreamInv, StreamTyped
    <2>4. CASE Poll(l)
      BY <2>4, WatchedIsALog DEF Poll, StreamInv, StreamTyped
    <2>. QED
      BY <2>2, <2>3, <2>4
  <1>2. InTransit(channel', Watched) = InTransit(channel, Watched)
    <2>1. channel' = channel \/ channel' = Append(channel, l)
      BY DEF Snapshot, Send, Poll
    <2>2. channel \in Seq(Logs)
      BY DEF CountInv, CountTyped
    <2>3. InTransit(channel, Watched) \in Nat
      BY <2>2, InTransitIsNat
    <2>4. InTransit(Append(channel, l), Watched) =
            InTransit(channel, Watched) + (IF l = Watched THEN 1 ELSE 0)
      BY <2>2, InTransitAppend
    <2>5. InTransit(Append(channel, l), Watched) = InTransit(channel, Watched)
      BY <2>3, <2>4
    <2>. QED
      BY <2>1, <2>5, Zenon
  <1>3. written' = written /\ shown' = shown
    BY DEF Snapshot, Send, Poll
  <1>. QED
    BY <1>1, <1>2, <1>3, Zenon DEF CountInv, AllAccounted

\* A snapshot: its lines are still to be sent, and nothing has been cut after it.
LEMMA SnapshotCounts ==
  ASSUME StreamInv, CountInv, Live, Snapshot(Watched)
  PROVE  AllAccounted'
  <1>1. base[Watched] = 0
    BY DEF CountInv, CountTyped
  <1>2. PICK g \in FollowerType :
          /\ follower'[Watched] = g /\ g.pc = "sending" /\ g.began /\ g.outbox = g.initial
          /\ g.boundary = Len(written[Watched]) /\ g.offset = Len(written[Watched]) /\ ~g.discarding
    BY <1>1, WatchedIsALog, SnapshotIs, Zenon
  <1>3. shown[Watched] = 0 /\ InTransit(channel, Watched) = 0
    <2>1. follower[Watched].pc = "start"
      BY DEF Snapshot
    <2>. QED
      BY <2>1 DEF CountInv, AllAccounted, Accounted
  <1>4. CutSince(written[Watched], g) = 0
    <2>1. g.boundary \in Nat /\ g.offset = g.boundary
      BY <1>2 DEF FollowerType
    <2>2. NewlinesIn(written[Watched], g.boundary, g.offset) = {}
      BY <2>1 DEF NewlinesIn
    <2>. QED
      BY <1>2, <2>2, FS_EmptySet DEF CutSince
  <1>5. 0 + 0 + g.outbox = g.initial + 0
    BY <1>2 DEF FollowerType
  <1>6. Accounted(g, written[Watched], 0, 0)
    BY <1>2, <1>4, <1>5 DEF Accounted
  <1>. QED
    BY <1>2, <1>3, <1>6, Zenon DEF Snapshot, AllAccounted

\* A line that is sent is on its way.
LEMMA SendCounts ==
  ASSUME StreamInv, CountInv, Live, Send(Watched)
  PROVE  AllAccounted' /\ SameStart(follower'[Watched], follower[Watched])
  <1>1. PICK f \in FollowerType : f = follower[Watched]
    BY WatchedIsALog DEF StreamInv, StreamTyped
  <1>2. f.pc = "sending"
    BY <1>1 DEF Send
  <1>0. PICK q, c : q = written[Watched] /\ c = CutSince(q, f)
    OBVIOUS
  <1>3. PICK n \in Nat, t \in Nat : n = shown[Watched] /\ t = InTransit(channel, Watched)
    <2>1. shown[Watched] \in Nat /\ channel \in Seq(Logs)
      BY WatchedIsALog DEF CountInv, CountTyped
    <2>2. InTransit(channel, Watched) \in Nat
      BY <2>1, InTransitIsNat
    <2>. QED
      BY <2>1, <2>2
  <1>4. Accounted(f, q, n, t)
    BY <1>0, <1>1, <1>3 DEF CountInv, AllAccounted
  <1>5. f.began /\ n + t + f.outbox = f.initial + c
    BY <1>0, <1>2, <1>4 DEF Accounted
  <1>6. CASE f.outbox = 0
    <2>. DEFINE g == [f EXCEPT !.pc = "waiting"]
    <2>1. follower'[Watched] = g /\ channel' = channel
      BY <1>1, <1>6, WatchedIsALog DEF Send, StreamInv, StreamTyped
    <2>2. /\ g.pc = "waiting" /\ g.began /\ g.began = f.began /\ g.outbox = 0 /\ g.initial = f.initial
          /\ g.boundary = f.boundary /\ g.offset = f.offset /\ g.discarding = f.discarding
      BY <1>5, <1>6 DEF FollowerType
    <2>. HIDE DEF g
    <2>3. CutSince(q, g) = c
      BY <1>0, <2>2 DEF CutSince
    <2>4. Accounted(g, q, n, t)
      BY <1>5, <1>6, <2>2, <2>3 DEF Accounted
    <2>. QED
      BY <1>0, <1>1, <1>3, <1>5, <2>1, <2>2, <2>4, Zenon DEF Send, AllAccounted, SameStart
  <1>7. CASE f.outbox # 0
    <2>1. PICK k \in Nat : k = f.outbox - 1
      BY <1>7 DEF FollowerType
    <2>. DEFINE g == [f EXCEPT !.outbox = k]
    <2>2. follower'[Watched] = g /\ channel' = Append(channel, Watched)
      BY <1>1, <1>7, <2>1, WatchedIsALog DEF Send, StreamInv, StreamTyped
    <2>3. /\ g.pc = "sending" /\ g.began /\ g.began = f.began /\ g.outbox = k /\ g.initial = f.initial
          /\ g.boundary = f.boundary /\ g.offset = f.offset /\ g.discarding = f.discarding
      BY <1>2, <1>5 DEF FollowerType
    <2>. HIDE DEF g
    <2>4. CutSince(q, g) = c
      BY <1>0, <2>3 DEF CutSince
    <2>5. InTransit(channel', Watched) = t + 1
      <3>1. channel \in Seq(Logs)
        BY DEF CountInv, CountTyped
      <3>2. InTransit(Append(channel, Watched), Watched) =
              InTransit(channel, Watched) + (IF Watched = Watched THEN 1 ELSE 0)
        BY <3>1, WatchedIsALog, InTransitAppend
      <3>. QED
        BY <1>0, <1>3, <2>2, <3>2
    <2>6. n + (t + 1) + k = n + t + f.outbox
      BY <2>1 DEF FollowerType
    <2>7. Accounted(g, q, n, t + 1)
      <3>1. n + (t + 1) + g.outbox = g.initial + c
        BY <1>5, <2>3, <2>6, Zenon
      <3>. QED
        BY <2>3, <2>4, <3>1, Zenon DEF Accounted
    <2>. QED
      BY <1>0, <1>1, <1>3, <1>5, <2>2, <2>3, <2>5, <2>7, Zenon DEF Send, AllAccounted, SameStart
  <1>. QED
    BY <1>6, <1>7

\* What a poll cuts is to be sent.
LEMMA PollCounts ==
  ASSUME StreamInv, CountInv, Live, Poll(Watched)
  PROVE  AllAccounted' /\ SameStart(follower'[Watched], follower[Watched])
  <1>1. PICK f \in FollowerType : f = follower[Watched]
    BY WatchedIsALog DEF StreamInv, StreamTyped
  <1>2. f.pc = "waiting"
    BY <1>1 DEF Poll
  <1>0. PICK q, c : q = written[Watched] /\ c = CutSince(q, f)
    OBVIOUS
  <1>3. PICK n \in Nat, t \in Nat : n = shown[Watched] /\ t = InTransit(channel, Watched)
    <2>1. shown[Watched] \in Nat /\ channel \in Seq(Logs)
      BY WatchedIsALog DEF CountInv, CountTyped
    <2>2. InTransit(channel, Watched) \in Nat
      BY <2>1, InTransitIsNat
    <2>. QED
      BY <2>1, <2>2
  <1>4. Accounted(f, q, n, t)
    BY <1>0, <1>1, <1>3 DEF CountInv, AllAccounted
  <1>5. f.began /\ f.outbox = 0 /\ n + t + 0 = f.initial + c
    BY <1>0, <1>2, <1>4 DEF Accounted
  <1>6. PICK g : /\ follower'[Watched] = g /\ g.pc = "sending" /\ g.outbox \in Nat
                 /\ g.began = f.began /\ g.initial = f.initial /\ SameStart(g, f)
                 /\ g.outbox + c = CutSince(q, g)
    <2>1. base[Watched] = 0 /\ Watched \in Logs
      BY WatchedIsALog DEF CountInv, CountTyped
    <2>2. PICK g : /\ follower'[Watched] = g /\ g.pc = "sending" /\ g.outbox \in Nat
                   /\ SameStart(g, follower[Watched])
                   /\ g.outbox + CutSince(written[Watched], follower[Watched]) =
                        CutSince(written[Watched], g)
      BY <2>1, PollCuts, Zenon
    <2>. QED
      BY <1>0, <1>1, <2>2, Zenon DEF SameStart
  <1>7. n + t + g.outbox = g.initial + CutSince(q, g)
    <2>1. PICK d \in Nat, e \in Nat : d = c /\ e = f.initial
      <3>1. f.boundary \in Nat /\ f.offset \in Nat /\ f.initial \in Nat
        BY DEF FollowerType
      <3>2. Cardinality(NewlinesIn(q, f.boundary, f.offset)) \in Nat
        BY <3>1, NewlinesCount
      <3>. QED
        BY <1>0, <3>1, <3>2 DEF CutSince
    <2>2. PICK k \in Nat : k = g.outbox
      BY <1>6
    <2>3. n + t + 0 = e + d
      BY <1>5, <2>1, Zenon
    <2>4. n + t + k = e + (k + d)
      BY <2>3
    <2>. QED
      BY <1>6, <2>1, <2>2, <2>4, Zenon
  <1>8. Accounted(g, q, n, t)
    BY <1>5, <1>6, <1>7, Zenon DEF Accounted
  <1>. QED
    BY <1>0, <1>1, <1>3, <1>6, <1>8, Zenon DEF Poll, AllAccounted

\* A line that is printed is no longer on its way.
LEMMA EmitCounts ==
  ASSUME StreamInv, CountInv, Live, Emit, ~LeaveReader
  PROVE  /\ AllAccounted'
         /\ reader' = reader /\ interrupted' = interrupted
         /\ follower[Watched].began \/ shown'[Watched] = shown[Watched]
         /\ shown'[Watched] \in {shown[Watched], shown[Watched] + 1}
  <1>1. /\ channel # <<>> /\ channel' = Tail(channel) /\ reader' = reader /\ interrupted' = interrupted
        /\ shown' = [shown EXCEPT ![Head(channel)] = @ + 1]
        /\ written' = written /\ follower' = follower
    BY DEF Emit
  <1>2. channel \in Seq(Logs) /\ shown \in [Logs -> Nat] /\ AllAccounted
    BY DEF CountInv, CountTyped
  <1>0. PICK m : m = shown'[Watched]
    OBVIOUS
  <1>3. PICK t \in Nat, u \in Nat, n \in Nat :
          /\ t = InTransit(channel, Watched) /\ u = InTransit(Tail(channel), Watched)
          /\ n = shown[Watched]
    <2>1. Tail(channel) \in Seq(Logs)
      BY <1>1, <1>2
    <2>2. InTransit(channel, Watched) \in Nat /\ InTransit(Tail(channel), Watched) \in Nat
      BY <1>2, <2>1, InTransitIsNat
    <2>. QED
      BY <1>2, <2>2, WatchedIsALog
  <1>4. t = u + (IF Head(channel) = Watched THEN 1 ELSE 0)
    BY <1>1, <1>2, <1>3, InTransitTail
  <1>5. m = n + (IF Head(channel) = Watched THEN 1 ELSE 0)
    BY <1>0, <1>1, <1>2, <1>3, WatchedIsALog
  <1>6. m + u = n + t /\ m \in {n, n + 1} /\ m \in Nat
    BY <1>3, <1>4, <1>5
  <1>7. PICK f \in FollowerType : f = follower[Watched]
    BY WatchedIsALog DEF StreamInv, StreamTyped
  <1>8. PICK q : q = written[Watched]
    OBVIOUS
  <1>9. Accounted(f, q, n, t)
    BY <1>2, <1>3, <1>7, <1>8 DEF AllAccounted
  <1>10. CASE ~f.began
    <2>1. n = 0 /\ t = 0
      BY <1>9, <1>10 DEF Accounted
    <2>2. m = 0 /\ u = 0
      BY <1>3, <1>4, <1>5, <2>1
    <2>3. Accounted(f, q, m, u)
      BY <1>9, <2>1, <2>2, Zenon
    <2>. QED
      BY <1>0, <1>1, <1>3, <1>6, <1>7, <1>8, <2>1, <2>2, <2>3, Zenon DEF AllAccounted
  <1>11. CASE f.began
    <2>1. n + t + f.outbox = f.initial + CutSince(q, f)
      BY <1>9, <1>11 DEF Accounted
    <2>2. m + u + f.outbox = n + t + f.outbox
      BY <1>6
    <2>3. Accounted(f, q, m, u)
      BY <1>9, <1>11, <2>1, <2>2, Zenon DEF Accounted
    <2>. QED
      BY <1>0, <1>1, <1>3, <1>6, <1>7, <1>8, <1>11, <2>3, Zenon DEF AllAccounted
  <1>. QED
    BY <1>10, <1>11

\* A step keeps the account.
KeepsAccount == AllAccounted' /\ (reader' = "choosing" => follower'[Watched].pc = "idle")

LEMMA CountInvStep ==
  ASSUME StreamInv, CountInv, [StreamNext]_streamVars
  PROVE  CountInv'
  <1>1. CountTyped'
    BY CountTypedStep DEF StreamInv, CountInv
  <1>. SUFFICES ASSUME Live' PROVE KeepsAccount
    BY <1>1 DEF CountInv, KeepsAccount
  <1>2. Live
    BY LiveBefore
  <1>3. reader # "choosing" => ~(reader' = "choosing")
    <2>1. Live' => reader' # "left"
      BY DEF Live
    <2>. QED
      BY DEF StreamNext, streamVars, Follow, FollowerStep, Snapshot, Send, Poll, Quit, Fail, Write,
             ReaderStep, Emit, Report, Leave, LeaveReader, OpenFresh, Interrupt
  <1>4. reader = "choosing" => follower[Watched].pc = "idle"
    BY <1>2 DEF CountInv
  <1>5. ASSUME UNCHANGED <<written, follower, channel, shown>> PROVE KeepsAccount
    BY <1>2, <1>3, <1>4, <1>5, Zenon DEF CountInv, AllAccounted, KeepsAccount
  <1>6. ASSUME NEW names \in Selections, Follow(names) PROVE KeepsAccount
    BY <1>2, <1>6, FollowCounts DEF Follow, KeepsAccount
  <1>7. ASSUME NEW l \in Logs, Snapshot(l) \/ Send(l) \/ Poll(l) PROVE KeepsAccount
    <2>1. AllAccounted'
      BY <1>2, <1>7, OthersCount, SnapshotCounts, SendCounts, PollCounts
    <2>2. ASSUME reader = "choosing" PROVE follower'[Watched].pc = "idle"
      <3>1. follower[Watched].pc = "idle" /\ l # Watched
        BY <1>4, <1>7, <2>2 DEF Snapshot, Send, Poll
      <3>2. follower'[Watched] = follower[Watched]
        BY <1>7, <3>1, WatchedIsALog DEF Snapshot, Send, Poll, StreamInv, StreamTyped
      <3>. QED
        BY <3>1, <3>2
    <2>. QED
      BY <1>3, <2>1, <2>2 DEF KeepsAccount
  <1>8. ASSUME NEW l \in Logs, NEW b \in {"x", "n"}, Write(l, b) PROVE KeepsAccount
    BY <1>3, <1>4, <1>8, WriteCounts DEF Write, KeepsAccount
  <1>9. ASSUME NEW l \in Logs, Quit(l) \/ Fail(l) PROVE FALSE
    BY <1>2, <1>9 DEF Quit, Fail, Live
  <1>10. CASE Emit
    <2>1. ~LeaveReader
      BY DEF LeaveReader, Live
    <2>2. AllAccounted'
      BY <1>2, <1>10, <2>1, EmitCounts, Zenon
    <2>. QED
      BY <1>3, <1>4, <1>10, <2>2 DEF Emit, KeepsAccount
  <1>11. ASSUME Report \/ Leave \/ Interrupt PROVE FALSE
    BY <1>11 DEF Report, Leave, Interrupt, LeaveReader, Live
  <1>12. CASE OpenFresh
    <2>1. UNCHANGED <<written, follower, channel, shown>>
      BY <1>12 DEF OpenFresh
    <2>. QED
      BY <1>5, <2>1, Zenon
  <1>13. CASE UNCHANGED streamVars
    <2>1. UNCHANGED <<written, follower, channel, shown>>
      BY <1>13 DEF streamVars
    <2>. QED
      BY <1>5, <2>1, Zenon
  <1>. QED
    BY <1>6, <1>7, <1>8, <1>9, <1>10, <1>11, <1>12, <1>13 DEF StreamNext, FollowerStep, ReaderStep

\* Every line that the follower of a service's log has cut since its snapshot is on
\* its way to the reader or has been printed: sendLogEntry, streamLogEntries.
THEOREM CountInvariance == StreamSpec => []CountInv
  <1>1. StreamSpec => StreamInit /\ [][StreamNext]_streamVars
    BY PTL DEF StreamSpec
  <1>2. StreamInv /\ CountInv /\ [StreamNext]_streamVars => CountInv'
    BY CountInvStep
  <1>. QED
    BY <1>1, <1>2, CountInvInit, StreamInvariance, PTL

-----------------------------------------------------------------------------
\* Of n printed lines, those that are not of the snapshot
DeliveredOf(f, n) == IF n > f.initial THEN n - f.initial ELSE 0

\* What has been cut of a log is due: so is what has been printed of it.
LEMMA AccountedIsDue ==
  ASSUME StreamInv, base[Watched] = 0, NEW n \in Nat, NEW t \in Nat,
         Accounted(follower[Watched], written[Watched], n, t)
  PROVE  /\ Due(Watched) \in Nat /\ DeliveredOf(follower[Watched], n) \in Nat
         /\ DeliveredOf(follower[Watched], n) <= Due(Watched)
         /\ ~follower[Watched].began => Due(Watched) = 0 /\ DeliveredOf(follower[Watched], n) = 0
  <1>1. PICK f \in FollowerType, q \in Seq({"x", "n"}) : f = follower[Watched] /\ q = written[Watched]
    BY WatchedIsALog DEF StreamInv, StreamTyped
  <1>3. Accounted(f, q, n, t)
    BY <1>1
  <1>5. CASE ~f.began
    <2>1. Due(Watched) = 0
      BY <1>1, <1>5 DEF Due
    <2>2. DeliveredOf(f, n) = 0
      BY <1>3, <1>5 DEF Accounted, DeliveredOf
    <2>. QED
      BY <1>1, <2>1, <2>2
  <1>6. CASE f.began
    <2>1. f.pc \in {"sending", "waiting"} /\ n + t + f.outbox = f.initial + CutSince(q, f)
      BY <1>3, <1>6 DEF Accounted
    <2>2. Covered(Watched, f, Len(q))
      BY <1>1, <2>1, WatchedIsALog DEF StreamInv, FollowerInv
    <2>3. PICK b \in Nat, o \in Nat : b = f.boundary /\ o = f.offset /\ b <= o /\ o <= Len(q)
      BY <2>2 DEF Covered, FollowerType
    <2>4. PICK s : Unfinished(Watched, b, s, o) /\ (f.discarding => o - s > LineLimit)
      BY <2>2, <2>3 DEF Covered, Held
    <2>5. Since(q, b, s, o)
      BY <1>1, <2>4 DEF Unfinished, Since, Byte
    <2>6. Due(Watched) = DueOf(q, b)
      BY <1>1, <1>6, <2>3, Zenon DEF Due, DueOf, NewlinesIn, Byte
    <2>7. Cardinality(NewlinesIn(q, b, o)) + (IF o - s > LineLimit THEN 1 ELSE 0) <= DueOf(q, b)
      BY <2>3, <2>5, CutIsDue
    <2>8. DueOf(q, b) \in Nat
      <3>1. b <= Len(q)
        BY <2>3
      <3>2. PICK w : Since(q, b, w, Len(q))
        BY <3>1, LastNewline
      <3>. QED
        BY <3>1, <3>2, DueIs
    <2>9. CutSince(q, f) = Cardinality(NewlinesIn(q, b, o)) + (IF f.discarding THEN 1 ELSE 0)
      BY <2>3 DEF CutSince
    <2>10. Cardinality(NewlinesIn(q, b, o)) \in Nat
      BY NewlinesCount
    <2>11. CutSince(q, f) \in Nat /\ CutSince(q, f) <= DueOf(q, b)
      BY <2>4, <2>7, <2>8, <2>9, <2>10
    <2>12. f.initial \in Nat /\ f.outbox \in Nat
      BY DEF FollowerType
    <2>13. PICK i \in Nat, k \in Nat, c \in Nat, d \in Nat :
             i = f.initial /\ k = f.outbox /\ c = CutSince(q, f) /\ d = DueOf(q, b)
      BY <2>8, <2>11, <2>12
    <2>14. n + t + k = i + c /\ c <= d
      BY <2>1, <2>11, <2>13, Zenon
    <2>15. (IF n > i THEN n - i ELSE 0) \in Nat /\ (IF n > i THEN n - i ELSE 0) <= d
      BY <2>14
    <2>. QED
      BY <1>1, <1>6, <2>6, <2>13, <2>15, Zenon DEF DeliveredOf
  <1>. QED
    BY <1>1, <1>5, <1>6

LEMMA DeliveredIsDue ==
  ASSUME StreamInv, CountInv, Live
  PROVE  /\ Due(Watched) \in Nat /\ Delivered(Watched) \in Nat
         /\ Delivered(Watched) <= Due(Watched)
         /\ ~follower[Watched].began => Due(Watched) = 0 /\ Delivered(Watched) = 0
  <1>1. PICK n \in Nat, t \in Nat : n = shown[Watched] /\ t = InTransit(channel, Watched)
    <2>1. shown[Watched] \in Nat /\ channel \in Seq(Logs)
      BY WatchedIsALog DEF CountInv, CountTyped
    <2>2. InTransit(channel, Watched) \in Nat
      BY <2>1, InTransitIsNat
    <2>. QED
      BY <2>1, <2>2
  <1>2. Accounted(follower[Watched], written[Watched], n, t) /\ base[Watched] = 0
    BY <1>1 DEF CountInv, CountTyped, AllAccounted
  <1>3. Delivered(Watched) = DeliveredOf(follower[Watched], n)
    BY <1>1, Zenon DEF Delivered, DeliveredOf
  <1>. QED
    BY <1>2, <1>3, AccountedIsDue

\* A step that leaves the log, the snapshot and the printed lines alone is a stutter.
LEMMA StaysInTail ==
  ASSUME Live, Live', SameStart(follower'[Watched], follower[Watched]),
         written'[Watched] = written[Watched], shown'[Watched] = shown[Watched]
  PROVE  UNCHANGED Watching!tailVars
  <1>1. Due(Watched)' = Due(Watched)
    <2>1. Due(Watched) = IF ~follower[Watched].began THEN 0
                         ELSE DueOf(written[Watched], follower[Watched].boundary)
      BY Zenon DEF Due, DueOf, NewlinesIn, Byte
    <2>2. Due(Watched)' = IF ~follower'[Watched].began THEN 0
                          ELSE DueOf(written'[Watched], follower'[Watched].boundary)
      BY Zenon DEF Due, DueOf, NewlinesIn, Byte
    <2>. QED
      BY <2>1, <2>2 DEF SameStart
  <1>2. Delivered(Watched)' = Delivered(Watched)
    BY Zenon DEF Delivered, SameStart
  <1>3. Live' = Live
    BY DEF Live
  <1>. QED
    BY <1>1, <1>2, <1>3 DEF Watching!tailVars

\* A step of the stream is a step of the tail, or none of its own.
LEMMA TailStep ==
  ASSUME StreamInv, CountInv, StreamInv', CountInv', [StreamNext]_streamVars
  PROVE  [Watching!TailNext]_(Watching!tailVars)
  <1>1. CASE ~Live
    <2>1. ~Live'
      BY <1>1, LiveBefore
    <2>2. Live' = Live
      BY <1>1, <2>1 DEF Live
    <2>. QED
      BY <1>1, <2>1, <2>2 DEF Watching!tailVars
  <1>2. CASE Live /\ ~Live'
    <2>1. Live = TRUE /\ Live' = FALSE
      BY <1>2 DEF Live
    <2>2. Watching!Close
      BY <1>2, <2>1 DEF Watching!Close
    <2>. QED
      BY <2>2 DEF Watching!TailNext
  <1>. SUFFICES ASSUME Live, Live' PROVE Watching!TailNext \/ UNCHANGED Watching!tailVars
    BY <1>1, <1>2
  <1>3. Live = TRUE /\ Live' = TRUE
    BY DEF Live
  <1>4. /\ Due(Watched) \in Nat /\ Delivered(Watched) \in Nat
        /\ Delivered(Watched) <= Due(Watched)
        /\ ~follower[Watched].began => Due(Watched) = 0 /\ Delivered(Watched) = 0
    BY DeliveredIsDue
  <1>5. ASSUME ~follower[Watched].began, Due(Watched)' = 0, Delivered(Watched)' = 0
        PROVE  UNCHANGED Watching!tailVars
    BY <1>3, <1>4, <1>5 DEF Watching!tailVars
  <1>6. SameStart(follower[Watched], follower[Watched])
    BY DEF SameStart
  <1>7. ASSUME NEW names \in Selections, Follow(names) PROVE UNCHANGED Watching!tailVars
    <2>1. AllAccounted' /\ follower'[Watched].pc \in {"idle", "start"}
      BY <1>7, FollowCounts
    <2>2. ~follower'[Watched].began /\ follower'[Watched].initial = 0 /\ shown'[Watched] = 0
      BY <2>1 DEF AllAccounted, Accounted
    <2>3. ~follower[Watched].began
      BY <1>7 DEF Follow, CountInv, AllAccounted, Accounted
    <2>4. Due(Watched)' = 0
      BY <2>2 DEF Due
    <2>5. Delivered(Watched)' = 0
      BY <2>2 DEF Delivered
    <2>. QED
      BY <1>5, <2>3, <2>4, <2>5
  <1>8. CASE Snapshot(Watched)
    <2>1. AllAccounted'
      BY <1>8, SnapshotCounts
    <2>2. PICK g \in FollowerType :
            /\ follower'[Watched] = g /\ g.pc = "sending" /\ g.began /\ g.outbox = g.initial
            /\ g.boundary = Len(written[Watched]) /\ g.offset = Len(written[Watched]) /\ ~g.discarding
      <3>1. base[Watched] = 0
        BY DEF CountInv, CountTyped
      <3>. QED
        BY <1>8, <3>1, WatchedIsALog, SnapshotIs, Zenon
    <2>3. ~follower[Watched].began
      BY <1>8 DEF Snapshot, CountInv, AllAccounted, Accounted
    <2>4. shown'[Watched] = 0
      BY <1>8, <2>3 DEF Snapshot, CountInv, AllAccounted, Accounted
    <2>5. Due(Watched)' = 0
      <3>1. PICK q \in Seq({"x", "n"}) : q = written[Watched] /\ q = written'[Watched]
        BY <1>8, WatchedIsALog DEF Snapshot, StreamInv, StreamTyped
      <3>2. Due(Watched)' = IF ~follower'[Watched].began THEN 0
                            ELSE DueOf(written'[Watched], follower'[Watched].boundary)
        BY Zenon DEF Due, DueOf, NewlinesIn, Byte
      <3>3. Due(Watched)' = DueOf(q, Len(q))
        BY <2>2, <3>1, <3>2, Zenon
      <3>. QED
        BY <3>3, DueOfNone
    <2>6. Delivered(Watched)' = 0
      BY <2>2, <2>4 DEF Delivered, FollowerType
    <2>. QED
      BY <1>5, <2>3, <2>5, <2>6
  <1>9. ASSUME NEW l \in Logs, l # Watched, Snapshot(l) \/ Send(l) \/ Poll(l)
        PROVE  UNCHANGED Watching!tailVars
    <2>1. follower'[Watched] = follower[Watched]
      BY <1>9, OthersCount
    <2>2. written' = written /\ shown' = shown
      BY <1>9 DEF Snapshot, Send, Poll
    <2>. QED
      BY <1>6, <2>1, <2>2, StaysInTail
  <1>10. CASE Send(Watched) \/ Poll(Watched)
    <2>1. SameStart(follower'[Watched], follower[Watched])
      BY <1>10, SendCounts, PollCounts
    <2>2. written' = written /\ shown' = shown
      BY <1>10 DEF Send, Poll
    <2>. QED
      BY <2>1, <2>2, StaysInTail
  <1>11. ASSUME NEW l \in Logs, Quit(l) \/ Fail(l) PROVE FALSE
    BY <1>11 DEF Quit, Fail, Live
  <1>12. ASSUME NEW l \in Logs, NEW c \in {"x", "n"}, Write(l, c)
         PROVE  Watching!TailNext
    <2>1. PICK f \in FollowerType, q \in Seq({"x", "n"}) :
            f = follower[Watched] /\ f = follower'[Watched] /\ q = written[Watched]
      BY <1>12, WatchedIsALog DEF Write, StreamInv, StreamTyped
    <2>2. Delivered(Watched)' = Delivered(Watched)
      BY <1>12, Zenon DEF Write, Delivered
    <2>3. Due(Watched) = IF ~f.began THEN 0 ELSE DueOf(q, f.boundary)
      BY <2>1, Zenon DEF Due, DueOf, NewlinesIn, Byte
    <2>4. Due(Watched)' = IF ~f.began THEN 0 ELSE DueOf(written'[Watched], f.boundary)
      BY <2>1, Zenon DEF Due, DueOf, NewlinesIn, Byte
    <2>5. written'[Watched] = q \/ written'[Watched] = Append(q, c)
      BY <1>12, <2>1, WatchedIsALog DEF Write, StreamInv, StreamTyped
    <2>6. ASSUME f.began PROVE DueOf(Append(q, c), f.boundary) \in {DueOf(q, f.boundary), DueOf(q, f.boundary) + 1}
      <3>1. f.pc \in {"sending", "waiting"} /\ base[Watched] = 0
        BY <2>1, <2>6 DEF CountInv, CountTyped, AllAccounted, Accounted
      <3>2. Covered(Watched, f, Len(q))
        BY <2>1, <3>1, WatchedIsALog DEF StreamInv, FollowerInv
      <3>3. f.boundary \in Nat /\ f.boundary <= Len(q)
        BY <3>2 DEF Covered, FollowerType
      <3>. QED
        BY <3>3, DueGrows
    <2>7. Due(Watched)' \in {Due(Watched), Due(Watched) + 1}
      <3>1. CASE ~f.began
        BY <2>3, <2>4, <3>1
      <3>2. CASE f.began
        BY <2>3, <2>4, <2>5, <2>6, <3>2
      <3>. QED
        BY <3>1, <3>2
    <2>8. Watching!Grow
      BY <1>3, <2>2, <2>7 DEF Watching!Grow
    <2>. QED
      BY <2>8 DEF Watching!TailNext
  <1>13. CASE Emit
    <2>1. ~LeaveReader
      BY DEF LeaveReader, Live
    <2>2. /\ follower[Watched].began \/ shown'[Watched] = shown[Watched]
          /\ shown'[Watched] \in {shown[Watched], shown[Watched] + 1}
      BY <1>13, <2>1, EmitCounts, Zenon
    <2>3. written' = written /\ follower' = follower
      BY <1>13 DEF Emit
    <2>4. CASE shown'[Watched] = shown[Watched]
      BY <1>6, <2>3, <2>4, StaysInTail
    <2>5. CASE shown'[Watched] = shown[Watched] + 1
      <3>1. PICK n \in Nat, i \in Nat, u \in Nat :
              n = shown[Watched] /\ i = follower[Watched].initial /\ u = InTransit(channel', Watched)
        <4>1. shown[Watched] \in Nat /\ follower[Watched].initial \in Nat /\ channel' \in Seq(Logs)
          BY WatchedIsALog DEF CountInv, CountTyped, StreamInv, StreamTyped, FollowerType
        <4>2. InTransit(channel', Watched) \in Nat
          BY <4>1, InTransitIsNat
        <4>. QED
          BY <4>1, <4>2
      <3>2. Delivered(Watched) = IF n > i THEN n - i ELSE 0
        BY <3>1 DEF Delivered
      <3>3. Delivered(Watched)' = IF n + 1 > i THEN (n + 1) - i ELSE 0
        BY <2>3, <2>5, <3>1 DEF Delivered
      <3>4. Due(Watched)' = Due(Watched)
        BY <2>3, Zenon DEF Due, Byte
      <3>5. Delivered(Watched)' <= Due(Watched)
        <4>1. Accounted(follower[Watched], written[Watched], n + 1, u) /\ base[Watched] = 0 /\ n + 1 \in Nat
          <5>1. AllAccounted' /\ base[Watched] = 0
            BY DEF CountInv, CountTyped
          <5>. QED
            BY <2>3, <2>5, <3>1, <5>1 DEF AllAccounted
        <4>2. DeliveredOf(follower[Watched], n + 1) <= Due(Watched)
          BY <4>1, AccountedIsDue
        <4>3. DeliveredOf(follower[Watched], n + 1) = IF n + 1 > i THEN (n + 1) - i ELSE 0
          BY <3>1 DEF DeliveredOf
        <4>. QED
          BY <3>3, <4>2, <4>3
      <3>6. CASE n >= i
        <4>1. Delivered(Watched) = n - i /\ Delivered(Watched)' = (n - i) + 1
          BY <3>2, <3>3, <3>6
        <4>2. PICK d \in Nat : d = Due(Watched)
          BY <1>4
        <4>3. Delivered(Watched) < Due(Watched) /\ Delivered(Watched)' = Delivered(Watched) + 1
          <5>1. (n - i) + 1 <= d
            BY <3>5, <4>1, <4>2, Zenon
          <5>2. n - i < d
            BY <5>1
          <5>. QED
            BY <4>1, <4>2, <5>2, Zenon
        <4>4. Watching!Deliver
          BY <1>3, <3>4, <4>3 DEF Watching!Deliver
        <4>. QED
          BY <4>4 DEF Watching!TailNext
      <3>7. CASE n < i
        <4>1. Delivered(Watched) = 0 /\ Delivered(Watched)' = 0
          BY <3>2, <3>3, <3>7
        <4>. QED
          BY <1>3, <3>4, <4>1 DEF Watching!tailVars
      <3>. QED
        BY <3>1, <3>6, <3>7
    <2>. QED
      BY <2>2, <2>4, <2>5
  <1>14. ASSUME Report \/ Leave \/ Interrupt PROVE FALSE
    BY <1>14 DEF Report, Leave, Interrupt, LeaveReader, Live
  <1>15. ASSUME UNCHANGED <<written, follower, shown>> PROVE UNCHANGED Watching!tailVars
    BY <1>6, <1>15, StaysInTail
  <1>16. CASE OpenFresh \/ UNCHANGED streamVars
    <2>1. UNCHANGED <<written, follower, shown>>
      BY <1>16 DEF OpenFresh, streamVars
    <2>. QED
      BY <1>15, <2>1, Zenon
  <1>. QED
    BY <1>7, <1>8, <1>9, <1>10, <1>11, <1>12, <1>13, <1>14, <1>16
       DEF StreamNext, FollowerStep, ReaderStep

\* Following the log of a service is the tail of it, as far as a step can break
\* that: every line is printed once and only when it is due, and none is taken back
\* while the stream is open (streamLogEntries, followLog and sendLogEntry of logs.go).
THEOREM FollowingIsSafe == StreamSpec => Watching!TailInit /\ [][Watching!TailNext]_(Watching!tailVars)
  <1>1. StreamInit => Watching!TailInit
    <2>. SUFFICES ASSUME StreamInit PROVE Watching!TailInit
      OBVIOUS
    <2>1. Live = TRUE
      BY DEF StreamInit, Live
    <2>2. follower[Watched] = Idle /\ shown[Watched] = 0
      BY WatchedIsALog DEF StreamInit
    <2>3. ~Idle.began /\ Idle.initial = 0
      BY DEF Idle
    <2>4. Due(Watched) = 0 /\ Delivered(Watched) = 0
      BY <2>2, <2>3 DEF Due, Delivered
    <2>. QED
      BY <2>1, <2>4 DEF Watching!TailInit
  <1>2. StreamInv /\ CountInv /\ (StreamInv /\ CountInv)' /\ [StreamNext]_streamVars
          => [Watching!TailNext]_(Watching!tailVars)
    BY TailStep
  <1>3. StreamSpec => StreamInit /\ [][StreamNext]_streamVars
    BY PTL DEF StreamSpec
  <1>. QED
    BY <1>1, <1>2, <1>3, StreamInvariance, CountInvariance, PTL
=============================================================================
