--------------------------- MODULE WorkspaceManifest ---------------------------
(***************************************************************************)
(* Commands and the settings page that change the manifest of a workspace, *)
(* .conven/conven.yaml, beside each other and beside people who write the  *)
(* file themselves (internal/config/policy.go, migrate.go, init.go,        *)
(* discover.go, disabled_bindings.go, service_network.go,                  *)
(* workspace_configuration.go).                                            *)
(*                                                                         *)
(* What a manifest says is the set of the changes that went into it.  A    *)
(* file is known by its number, which the file system gives to the next    *)
(* file as soon as nothing names or holds the old one: os.SameFile cannot  *)
(* tell the two apart.                                                     *)
(***************************************************************************)
EXTENDS Naturals, FiniteSets

CONSTANTS
  Writers,   \* the commands that run side by side
  Roles,     \* what the writers may be: functions from Writers to kinds
  MaxByHand  \* times somebody writes the manifest without conven, at most

\* Mark of a manifest that does not decode
Broken == "broken"
Nobody == "nobody"

ASSUME ManifestAssumption ==
  /\ IsFiniteSet(Writers) /\ Nobody \notin Writers /\ Broken \notin Writers
  /\ MaxByHand \in 0 .. 2
NoFile == 0
Files == 1 .. 2 * Cardinality(Writers) + 2

VARIABLES
  manifest,  \* the file at the path, or NoFile
  text,      \* of each file: what it says
  locks,     \* of each file: who holds its flock, or Nobody
  backups,   \* what the files in backups/ say, together
  drafts,    \* the writers whose edited draft is there
  does,      \* of each writer: its kind
  now,       \* of each writer: where it is
  source,    \* of each writer: the manifest it read, to be replaced
  seen,      \* of each writer: the file it read it from
  candidate, \* of each writer: what it is to say
  held,      \* of each writer: the file it has open
  temporary, \* of each writer: the file it is about to rename
  saved,     \* what was ever saved
  typed,     \* the writers whose users changed their drafts
  collided,  \* somebody wrote by hand between a writer's check and its rename
  byHand     \* writes without conven so far

disk == <<manifest, text, backups>>
private == <<source, seen, candidate>>
opened == <<locks, held, temporary>>
history == <<drafts, saved, typed, collided>>
manifestVars == <<disk, private, opened, history, does, now, byHand>>

Finished == {"done", "refused", "killed"}
Missing == manifest = NoFile
Current == IF Missing THEN {} ELSE text[manifest]
Decodes(c) == Broken \notin c

\* The number the next file gets
FreeFile ==
  LET used == {manifest} \cup {held[w] : w \in Writers} \cup {temporary[w] : w \in Writers}
  IN CHOOSE f \in Files \ used : \A g \in Files \ used : f <= g

ManifestInit ==
  /\ does \in Roles
  /\ manifest \in {NoFile, 1} /\ text = [f \in Files |-> IF f = 1 THEN {"old"} ELSE {}]
  /\ backups = {} /\ drafts = {} /\ typed = {}
  /\ locks = [f \in Files |-> Nobody]
  /\ now = [w \in Writers |-> "begin"]
  /\ source = [w \in Writers |-> {}] /\ candidate = [w \in Writers |-> {}]
  /\ seen = [w \in Writers |-> NoFile]
  /\ held = [w \in Writers |-> NoFile] /\ temporary = [w \in Writers |-> NoFile]
  /\ saved = Current /\ collided = FALSE
  /\ byHand = 0

Step(w, l) == now' = [now EXCEPT ![w] = l]
Propose(w, c) == candidate' = [candidate EXCEPT ![w] = c]

\* readManifestForUpdate, readPolicyManifest: the text and the file it is of
ReadSource(w) ==
  /\ source' = [source EXCEPT ![w] = Current] /\ seen' = [seen EXCEPT ![w] = manifest]

-----------------------------------------------------------------------------
(* What a writer wants the manifest to say                                   *)

\* The workspace commands but --migrate refuse a manifest that is broken or of an
\* older version; a missing one is their own affair.
RequireV3(w) ==
  /\ now[w] = "begin" /\ does[w] \in {"edit", "import", "import edit", "reset"}
  /\ \/ Decodes(Current) /\ Step(w, "ready")
     \/ ~Missing /\ Step(w, "refused")
  /\ UNCHANGED <<disk, private, opened, history, does, byHand>>

StartEdit(w) ==
  /\ now[w] = "ready" /\ does[w] = "edit"
  /\ IF Missing THEN Step(w, "refused") /\ UNCHANGED private
     ELSE Step(w, "editor") /\ ReadSource(w) /\ Propose(w, Current)
  /\ UNCHANGED <<disk, opened, history, does, byHand>>

\* The file to import; without an editor it has to decode.
StartImport(w) ==
  /\ now[w] = "ready" /\ does[w] \in {"import", "import edit"}
  /\ ReadSource(w)
  /\ \E c \in {{"file"}, {"file", Broken}} :
       /\ Propose(w, c)
       /\ Step(w, IF does[w] = "import edit" THEN "editor"
                  ELSE IF Decodes(c) THEN "compare" ELSE "refused")
  /\ UNCHANGED <<disk, opened, history, does, byHand>>

\* The scan may find nothing.
StartReset(w) ==
  /\ now[w] = "ready" /\ does[w] = "reset"
  /\ ReadSource(w) /\ Propose(w, {"scan"})
  /\ \E l \in {"compare", "refused"} : Step(w, l)
  /\ UNCHANGED <<disk, opened, history, does, byHand>>

\* The manifest is decoded and rewritten here, unless it is of version 3 or services
\* run, and read again as the one to be replaced.
Migrate(w) ==
  /\ now[w] = "begin" /\ does[w] = "migrate"
  /\ \/ /\ ~Missing /\ Decodes(Current)
        /\ \/ Propose(w, Current \cup {w}) /\ Step(w, "migrated")
           \/ Step(w, "done") /\ UNCHANGED candidate
     \/ Step(w, "refused") /\ UNCHANGED candidate
  /\ UNCHANGED <<disk, source, seen, opened, history, does, byHand>>

ReadAgain(w) ==
  /\ now[w] = "migrated" /\ ReadSource(w) /\ Step(w, "compare")
  /\ UNCHANGED <<disk, candidate, opened, history, does, byHand>>

\* init keeps the manifest that is there.
StartInit(w) ==
  /\ now[w] = "begin" /\ does[w] = "init"
  /\ IF Missing THEN Step(w, "create") /\ Propose(w, {"scan"})
     ELSE Step(w, "done") /\ UNCHANGED candidate
  /\ UNCHANGED <<disk, source, seen, opened, history, does, byHand>>

\* A field of the manifest, or services found: as wanted already, changed, or refused.
Amend(w) ==
  \/ (Missing \/ ~Decodes(Current)) /\ Step(w, "refused") /\ UNCHANGED private
  \/ /\ ~Missing /\ Decodes(Current) /\ ReadSource(w)
     /\ \/ Propose(w, Current) /\ Step(w, "verify")
        \/ Propose(w, Current \cup {w}) /\ Step(w, "publish")

DisableBindings(w) ==
  /\ now[w] = "begin" /\ does[w] = "bindings" /\ Amend(w)
  /\ UNCHANGED <<disk, opened, history, does, byHand>>

SetListeners(w) ==
  /\ now[w] = "begin" /\ does[w] = "listeners"
  /\ Amend(w) \/ (Step(w, "refused") /\ UNCHANGED private)
  /\ UNCHANGED <<disk, opened, history, does, byHand>>

Discover(w) ==
  /\ now[w] = "begin" /\ does[w] = "discover"
  /\ Amend(w) \/ (Step(w, "refused") /\ UNCHANGED private)
  /\ UNCHANGED <<disk, opened, history, does, byHand>>

\* The settings page of the browser holds the fields of the manifest it shows, and
\* sends them all.
OpenPage(w) ==
  /\ now[w] = "begin" /\ does[w] = "page"
  /\ IF Missing \/ ~Decodes(Current) THEN Step(w, "refused") /\ UNCHANGED candidate
     ELSE Step(w, "page") /\ Propose(w, Current)
  /\ UNCHANGED <<disk, source, seen, opened, history, does, byHand>>

\* Mutant: the page is saved whatever was saved since it was opened.
SavePageBlindly(w) ==
  /\ now[w] = "page"
  /\ ReadSource(w) /\ Propose(w, candidate[w] \cup {w}) /\ Step(w, "recheck")
  /\ UNCHANGED <<disk, opened, history, does, byHand>>

\* The revision the page was made from has to be the present one, or the fields are
\* not valid.
SavePage(w) ==
  /\ now[w] = "page"
  /\ \/ /\ Current = candidate[w]
        /\ ReadSource(w) /\ Propose(w, candidate[w] \cup {w}) /\ Step(w, "recheck")
     \/ Step(w, "refused") /\ UNCHANGED private
  /\ UNCHANGED <<disk, opened, history, does, byHand>>

\* beforeCommit
RecheckPage(w) ==
  /\ now[w] = "recheck"
  /\ Step(w, IF Current = source[w] THEN "publish" ELSE "refused")
  /\ UNCHANGED <<disk, private, opened, history, does, byHand>>

-----------------------------------------------------------------------------
(* The editor on a draft                                                     *)

\* The editor fails, or the user leaves text that does not decode.  A draft that was
\* changed is kept; one that cannot be read any more is not, as if never changed.
EditRefused(w) ==
  /\ now[w] = "editor" /\ Step(w, "refused")
  /\ \/ typed' = typed \cup {w} /\ drafts' = drafts \cup {w}
     \/ UNCHANGED <<typed, drafts>>
  /\ UNCHANGED <<disk, private, opened, saved, collided, does, byHand>>

EditUnchanged(w) ==
  /\ now[w] = "editor" /\ Decodes(candidate[w])
  /\ Step(w, IF does[w] = "edit" THEN "verify" ELSE "compare")
  /\ UNCHANGED <<disk, private, opened, history, does, byHand>>

EditChanged(w) ==
  /\ now[w] = "editor"
  /\ Propose(w, (candidate[w] \ {Broken}) \cup {w})
  /\ typed' = typed \cup {w} /\ drafts' = drafts \cup {w}
  /\ Step(w, IF does[w] = "edit" THEN "publish" ELSE "compare")
  /\ UNCHANGED <<disk, source, seen, opened, saved, collided, does, byHand>>

-----------------------------------------------------------------------------
(* Publication                                                               *)

\* applyWorkspacePolicyCandidate: nothing to do, nothing there, or a backup first
Compare(w) ==
  /\ now[w] = "compare"
  /\ \/ seen[w] = NoFile /\ Step(w, "create") /\ UNCHANGED backups
     \/ seen[w] # NoFile /\ candidate[w] = source[w] /\ Step(w, "verify") /\ UNCHANGED backups
     \/ /\ seen[w] # NoFile /\ candidate[w] # source[w] /\ Step(w, "publish")
        /\ backups' = backups \cup (source[w] \ {Broken})
  /\ UNCHANGED <<manifest, text, private, opened, history, does, byHand>>

\* publishNewManifest: a link, which another file at the path defeats
Create(w) ==
  /\ now[w] = "create"
  /\ IF Missing
     THEN /\ manifest' = FreeFile /\ text' = [text EXCEPT ![FreeFile] = candidate[w]]
          /\ saved' = saved \cup candidate[w] /\ drafts' = drafts \ {w}
          /\ Step(w, "done")
     ELSE /\ Step(w, IF does[w] = "init" THEN "done" ELSE "refused")
          /\ UNCHANGED <<manifest, text, drafts, saved>>
  /\ UNCHANGED <<backups, private, opened, typed, collided, does, byHand>>

\* The file to rename is written first; then the manifest is opened.
Open(w) ==
  /\ now[w] \in {"publish", "verify"}
  /\ IF now[w] = "publish"
     THEN /\ temporary' = [temporary EXCEPT ![w] = FreeFile]
          /\ text' = [text EXCEPT ![FreeFile] = candidate[w]]
     ELSE UNCHANGED <<temporary, text>>
  /\ held' = [held EXCEPT ![w] = manifest]
  /\ Step(w, "opened")
  /\ UNCHANGED <<manifest, backups, private, locks, history, does, byHand>>

\* Every return: the lock goes, and what is left of the temporary file.
Close(w) ==
  /\ locks' = [f \in Files |-> IF locks[f] = w THEN Nobody ELSE locks[f]]
  /\ held' = [held EXCEPT ![w] = NoFile] /\ temporary' = [temporary EXCEPT ![w] = NoFile]

\* Nobody waits for the lock of a manifest.
Flock(w) ==
  /\ now[w] = "opened"
  /\ IF locks[held[w]] = Nobody
     THEN Step(w, "locked") /\ locks' = [locks EXCEPT ![held[w]] = w]
          /\ UNCHANGED <<held, temporary>>
     ELSE Step(w, "refused") /\ Close(w)
  /\ UNCHANGED <<disk, private, history, does, byHand>>

\* Mutant: the file that is open is compared, and not the one at the path.
SameText(w) == seen[w] = held[w] /\ text[held[w]] = source[w]

\* The file that was read is still the one at the path, and says the same.
SameManifest(w) ==
  /\ manifest = held[w] /\ seen[w] = held[w]
  /\ text[held[w]] = source[w]

CheckSnapshot(w) ==
  /\ now[w] = "locked"
  /\ IF SameManifest(w) /\ temporary[w] # NoFile THEN Step(w, "rename") /\ UNCHANGED opened
     ELSE Step(w, IF SameManifest(w) THEN "done" ELSE "refused") /\ Close(w)
  /\ UNCHANGED <<disk, private, history, does, byHand>>

Rename(w) ==
  /\ now[w] = "rename"
  /\ manifest' = temporary[w] /\ Close(w)
  /\ saved' = saved \cup candidate[w] /\ drafts' = drafts \ {w}
  /\ Step(w, "done")
  /\ UNCHANGED <<text, backups, private, typed, collided, does, byHand>>

\* A backup, a temporary file or the rename fails: a draft stays.
WriteFails(w) ==
  /\ now[w] \in {"compare", "create", "publish", "rename"}
  /\ Step(w, "refused") /\ Close(w)
  /\ UNCHANGED <<disk, private, history, does, byHand>>

-----------------------------------------------------------------------------
(* Faults                                                                    *)

\* The lock goes with the process; its draft and its temporary file stay.
Kill(w) ==
  /\ now[w] \notin Finished /\ Step(w, "killed")
  /\ locks' = [f \in Files |-> IF locks[f] = w THEN Nobody ELSE locks[f]]
  /\ held' = [held EXCEPT ![w] = NoFile]
  /\ UNCHANGED <<disk, private, temporary, history, does, byHand>>

\* Somebody writes the manifest, in place or by a rename.  No lock keeps him from
\* doing so between a writer's check and its rename: then what he wrote is lost, and
\* after a rename of his the next writer locks another file than the first.
WriteByHand ==
  LET hand == <<"first", "second">>[byHand + 1] IN
  /\ byHand < MaxByHand /\ byHand' = byHand + 1
  /\ \E inPlace \in BOOLEAN, broken \in SUBSET {Broken} :
       LET file == IF inPlace /\ ~Missing THEN manifest ELSE FreeFile IN
       /\ manifest' = file
       /\ text' = [text EXCEPT ![file] = (Current \ {Broken}) \cup {hand} \cup broken]
  /\ saved' = saved \cup {hand}
  /\ collided' = (collided \/ \E w \in Writers : now[w] = "rename")
  /\ UNCHANGED <<backups, private, opened, drafts, typed, does, now>>

WriterMoves(w) ==
  \/ RequireV3(w) \/ StartEdit(w) \/ StartImport(w) \/ StartReset(w) \/ Migrate(w)
  \/ ReadAgain(w) \/ StartInit(w) \/ DisableBindings(w) \/ SetListeners(w) \/ Discover(w)
  \/ OpenPage(w) \/ SavePage(w) \/ RecheckPage(w)
  \/ EditRefused(w) \/ EditUnchanged(w) \/ EditChanged(w)
  \/ Compare(w) \/ Create(w) \/ Open(w) \/ Flock(w) \/ CheckSnapshot(w) \/ Rename(w)
  \/ WriteFails(w)

ManifestNext ==
  \/ \E w \in Writers : WriterMoves(w) \/ Kill(w)
  \/ WriteByHand

ManifestSpec == ManifestInit /\ [][ManifestNext]_manifestVars

-----------------------------------------------------------------------------
(* Properties                                                                *)

\* Whatever was saved, by a writer or by hand, and whatever a user changed in a
\* draft is in the manifest, in a backup or in a draft that was kept: no two
\* writers, and nobody who is killed, lose one another's work unseen.
NoEditLost == ~collided => saved \cup typed \subseteq Current \cup backups \cup drafts
=============================================================================
