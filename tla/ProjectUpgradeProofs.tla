------------------------ MODULE ProjectUpgradeProofs ------------------------
(***************************************************************************)
(* Proofs about ProjectUpgrade, for any builds, commands and drafts.  One  *)
(* invariant, UpgradeInv, ties the step a command is at to the stage in    *)
(* the journal, and the stage to what is on disk.                          *)
(***************************************************************************)
EXTENDS ProjectUpgrade, TLAPS

-----------------------------------------------------------------------------
(* The invariant *)

\* The step the holder of the lock is at belongs to the stage in the journal.
StepsMatchStage ==
  \A c \in Commands :
    /\ at[c] \in Holding => journal.stage # "none"
    /\ at[c] \in {"wipe", "copy", "backed"} => journal.stage = "prepared"
    /\ at[c] \in {"rebuild", "stamp", "open", "import", "migrated"} => journal.stage = "backed_up"
    /\ at[c] \in {"publish", "manifest", "published"} => journal.stage = "databases_migrated"
    /\ at[c] \in {"drop", "dropped"} => journal.stage = "files_published"
    /\ at[c] = "verify" => journal.stage = "verified"

\* A command at work found nothing newer than itself, and if its user did not
\* confirm, the authority was already migrated.
HolderAdmitted ==
  \A c \in Commands : at[c] \in Holding =>
    /\ config <= build[c] /\ authority <= AuthoritySchema[build[c]]
    /\ ~approved[c] => authority = AuthoritySchema[build[c]]

\* An authority is stamped before a daemon may open it.
StampedBeforeUse ==
  /\ journal.stage \in {"databases_migrated", "files_published", "verified"} => authority > 0
  /\ \A c \in Commands : at[c] \in {"open", "import", "migrated", "cleared"} => authority > 0

\* Nothing is changed before the backup is complete.
BackupMatches ==
  /\ journal.stage = "prepared" => Installed = journal.before
  /\ journal.stage \in Stages \ {"prepared"} => backup = journal.before
  /\ \A c \in Commands : at[c] = "backed" => backup = Installed

Moved == \A d \in Drafts : rows[d] # None => store[d] = rows[d]

\* While drafts are in the cache nobody edits them, the journal plans to drop it,
\* and the store holds some of them; once they are gone the store has them all.
DraftsMove ==
  /\ rows # NoDrafts =>
       /\ daemon = 0 /\ written = rows
       /\ \A c \in Commands : at[c] \notin {"cleared", "dropped"}
       /\ \A d \in Drafts : store[d] \in {None, rows[d]}
       /\ journal.stage = "none" => config = 0 /\ cache \in {Absent, 0}
       /\ journal.stage # "none" => journal.cacheToo
       /\ journal.stage # "verified"
  /\ rows = NoDrafts => store = written
  /\ journal.stage \in {"databases_migrated", "files_published", "verified"} => Moved
  /\ \A c \in Commands : at[c] = "migrated" => Moved
  /\ \A c \in Commands : at[c] = "import" =>
       \A d \in Drafts : /\ d \in todo => rows[d] # None
                         /\ d \notin todo /\ rows[d] # None => store[d] = rows[d]

UpgradeInv ==
  /\ UpgradeTypeOK /\ StepsMatchStage
  /\ HolderAdmitted /\ StampedBeforeUse /\ BackupMatches /\ DraftsMove

\* What the assumptions say of one build.
LEMMA OfABuild ==
  ASSUME NEW b \in Builds
  PROVE  /\ b \in Nat /\ b > 0
         /\ AuthoritySchema[b] \in Nat /\ AuthoritySchema[b] > 0
         /\ CacheSchema[b] \in Nat /\ CacheSchema[b] > 0
BY BuildsAreNumbered, SchemasGrow

\* A journal is complete, or there is none.
LEMMA OfTheJournal ==
  ASSUME UpgradeTypeOK
  PROVE  /\ journal.stage \in Stages \cup {"none"}
         /\ journal.stage = "none" <=> journal = NoJournal
         /\ journal.stage # "none" => journal \in [stage : Stages, cacheToo : BOOLEAN, before : Images]
         /\ \A stage \in Stages : journal.stage # "none" =>
              /\ [journal EXCEPT !.stage = stage] \in [stage : Stages, cacheToo : BOOLEAN, before : Images]
              /\ [journal EXCEPT !.stage = stage].stage = stage
              /\ [journal EXCEPT !.stage = stage].cacheToo = journal.cacheToo
              /\ [journal EXCEPT !.stage = stage].before = journal.before
BY DEF UpgradeTypeOK, Stages, NoJournal

\* What is installed is an image, and a new journal keeps it.
LEMMA OfANewJournal ==
  ASSUME UpgradeTypeOK, NEW b \in Builds
  PROVE  /\ Installed \in Images
         /\ CacheBehind(b) \in BOOLEAN
         /\ Prepared(b) \in [stage : Stages, cacheToo : BOOLEAN, before : Images]
         /\ journal.stage # "none" => Prepared(b) = journal
         /\ journal.stage = "none" =>
              /\ Prepared(b).stage = "prepared"
              /\ Prepared(b).cacheToo = CacheBehind(b)
              /\ Prepared(b).before = Installed
<1>1. Installed \in Images
  BY BuildsAreNumbered DEF UpgradeTypeOK, Installed, Images
<1>2. CacheBehind(b) \in BOOLEAN
  BY DEF CacheBehind
<1> QED
  BY <1>1, <1>2, OfTheJournal DEF Prepared, Stages

-----------------------------------------------------------------------------
(* Types and stages *)

\* Every step keeps the types and the one holder of the lock.
LEMMA TypeNext == UpgradeTypeOK /\ StepsMatchStage /\ [Next]_vars => UpgradeTypeOK'
<1> SUFFICES ASSUME UpgradeTypeOK, StepsMatchStage, [Next]_vars PROVE UpgradeTypeOK'
  OBVIOUS
<1> USE BuildsAreNumbered, SchemasGrow, NoneIsNoValue, FaultsAreCounted
<1> USE DEF UpgradeTypeOK, Holding, Steps, Stages, Images, Texts, NoJournal, NoDrafts, Absent
<1>1. CASE \E c \in Commands, b \in Builds, a \in BOOLEAN : Begin(c, b, a)
  BY <1>1 DEF Begin, disk
<1>2. CASE \E c \in Commands : Enter(c)
  <2>1. PICK c \in Commands : Enter(c)
    BY <1>2
  <2>2. build[c] \in Builds
    OBVIOUS
  <2>3. CASE UNCHANGED <<lock, journal, daemon>> /\ at' \in {[at EXCEPT ![c] = "cleared"], [at EXCEPT ![c] = "idle"]}
    BY <2>1, <2>3 DEF Enter, disk
  <2>4. CASE lock' = c /\ journal' = Prepared(build[c]) /\ at' = [at EXCEPT ![c] = ResumeAt(journal'.stage)] /\ daemon' = 0
    <3>1. journal' \in [stage : Stages, cacheToo : BOOLEAN, before : Images]
      BY <2>2, <2>4, OfANewJournal
    <3>2. at[c] = "waiting" /\ lock = None
      BY <2>1 DEF Enter
    <3> QED
      BY <2>1, <2>4, <3>1, <3>2 DEF Enter, disk, ResumeAt
  <2> QED
    BY <2>1, <2>3, <2>4 DEF Enter
<1>3. CASE \E c \in Commands : GiveUp(c)
  BY <1>3 DEF GiveUp, disk
<1>4. CASE \E c \in Commands : Wipe(c)
  BY <1>4 DEF Wipe, Goes, Quiet, disk
<1>5. CASE \E c \in Commands : Copy(c)
  <2>1. Installed \in Images
    BY DEF Installed
  <2> QED
    BY <1>5, <2>1 DEF Copy, Goes, Quiet, disk
<1>6. CASE \E c \in Commands : Record(c, "backed", "backed_up")
  <2>1. PICK c \in Commands : Record(c, "backed", "backed_up")
    BY <1>6
  <2>2. journal.stage # "none"
    BY <2>1 DEF Record, StepsMatchStage, Holding, Steps
  <2> QED
    BY <2>1, <2>2, OfTheJournal DEF Record, Quiet, disk, ResumeAt
<1>7. CASE \E c \in Commands : Record(c, "migrated", "databases_migrated")
  <2>1. PICK c \in Commands : Record(c, "migrated", "databases_migrated")
    BY <1>7
  <2>2. journal.stage # "none"
    BY <2>1 DEF Record, StepsMatchStage, Holding, Steps
  <2> QED
    BY <2>1, <2>2, OfTheJournal DEF Record, Quiet, disk, ResumeAt
<1>8. CASE \E c \in Commands : Record(c, "published", "files_published")
  <2>1. PICK c \in Commands : Record(c, "published", "files_published")
    BY <1>8
  <2>2. journal.stage # "none"
    BY <2>1 DEF Record, StepsMatchStage, Holding, Steps
  <2> QED
    BY <2>1, <2>2, OfTheJournal DEF Record, Quiet, disk, ResumeAt
<1>9. CASE \E c \in Commands : Record(c, "dropped", "verified")
  <2>1. PICK c \in Commands : Record(c, "dropped", "verified")
    BY <1>9
  <2>2. journal.stage # "none"
    BY <2>1 DEF Record, StepsMatchStage, Holding, Steps
  <2> QED
    BY <2>1, <2>2, OfTheJournal DEF Record, Quiet, disk, ResumeAt
<1>10. CASE \E c \in Commands : Rebuild(c)
  <2>1. PICK c \in Commands : Rebuild(c)
    BY <1>10
  <2>2. rebuilt' \in Nat
    BY <2>1, OfABuild DEF Rebuild
  <2> QED
    BY <2>1, <2>2 DEF Rebuild, Goes, Quiet, disk
<1>11. CASE \E c \in Commands : Stamp(c)
  BY <1>11 DEF Stamp, Goes, Quiet
<1>12. CASE \E c \in Commands : OpenDrafts(c)
  BY <1>12 DEF OpenDrafts, Goes, Quiet
<1>13. CASE \E c \in Commands, d \in Drafts : Import(c, d)
  BY <1>13 DEF Import, Quiet
<1>14. CASE \E c \in Commands : StampCache(c)
  BY <1>14 DEF StampCache, Goes, Quiet
<1>15. CASE \E c \in Commands : Publish(c)
  BY <1>15 DEF Publish, Goes, Quiet
<1>16. CASE \E c \in Commands : PublishManifest(c)
  BY <1>16 DEF PublishManifest, Goes, Quiet
<1>17. CASE \E c \in Commands : DropCache(c)
  BY <1>17 DEF DropCache, Goes, Quiet
<1>18. CASE \E c \in Commands : Finish(c)
  BY <1>18 DEF Finish, Goes, disk
<1>19. CASE \E c \in Commands : EnsureDaemon(c)
  <2>1. PICK c \in Commands : EnsureDaemon(c)
    BY <1>19
  <2>2. build[c] \in Builds /\ AuthoritySchema[build[c]] \in Nat /\ CacheSchema[build[c]] \in Nat
    BY OfABuild
  <2>3. at' \in [Commands -> Steps] /\ (\A e \in Commands : at'[e] \in Holding <=> lock' = e)
    BY <2>1 DEF EnsureDaemon, Goes
  <2>4. authority' \in Nat /\ cache' \in Nat \cup {Absent} /\ stored' \in BOOLEAN /\ daemon' \in Builds \cup {0}
    BY <2>1, <2>2 DEF EnsureDaemon
  <2> QED
    BY <2>1, <2>3, <2>4 DEF EnsureDaemon
<1>20. CASE \E c \in Commands : CutShort(c)
  BY <1>20 DEF CutShort, disk
<1>21. CASE \E d \in Drafts, text \in Bodies \cup {None} : SaveDraft(d, text)
  BY <1>21 DEF SaveDraft
<1>22. CASE Mutate
  BY <1>22 DEF Mutate
<1>23. CASE DaemonStops
  BY <1>23 DEF DaemonStops, disk
<1>24. CASE UNCHANGED vars
  BY <1>24 DEF vars, disk
<1>25. CASE \E c \in Commands : RefuseTooNew(c)
  BY <1>25 DEF RefuseTooNew, disk
<1> QED
  BY <1>1, <1>2, <1>3, <1>4, <1>5, <1>6, <1>7, <1>8, <1>9, <1>10, <1>11, <1>12,
     <1>13, <1>14, <1>15, <1>16, <1>17, <1>18, <1>19, <1>20, <1>21, <1>22, <1>23, <1>24, <1>25
     DEF Next, Run, Migrate

\* Every step that leaves a stage records it first.
LEMMA StageNext == UpgradeTypeOK /\ StepsMatchStage /\ [Next]_vars => StepsMatchStage'
<1> SUFFICES ASSUME UpgradeTypeOK, StepsMatchStage, [Next]_vars PROVE StepsMatchStage'
  OBVIOUS
<1> USE DEF StepsMatchStage, Holding, Steps
<1>1. CASE \E c \in Commands, b \in Builds, a \in BOOLEAN : Begin(c, b, a)
  BY <1>1 DEF Begin, UpgradeTypeOK
<1>2. CASE \E c \in Commands : Enter(c)
  <2>1. PICK c \in Commands : Enter(c)
    BY <1>2
  <2>2. build[c] \in Builds /\ lock = None
    BY <2>1 DEF UpgradeTypeOK, Enter
  <2>3. CASE journal' = journal /\ at' \in {[at EXCEPT ![c] = "cleared"], [at EXCEPT ![c] = "idle"]}
    BY <2>3 DEF UpgradeTypeOK
  <2>4. CASE lock' = c /\ journal' = Prepared(build[c]) /\ at' = [at EXCEPT ![c] = ResumeAt(journal'.stage)]
    <3>1. journal'.stage \in Stages
      BY <2>2, <2>4, OfANewJournal
    <3>2. \A e \in Commands : e # c => at'[e] = at[e] /\ at[e] \notin Holding
      BY <2>2, <2>4, NoneIsNoValue DEF UpgradeTypeOK
    <3>3. at'[c] = ResumeAt(journal'.stage)
      BY <2>4 DEF UpgradeTypeOK
    <3> QED
      BY <3>1, <3>2, <3>3 DEF ResumeAt, Stages
  <2> QED
    BY <2>1, <2>3, <2>4 DEF Enter
<1>3. CASE \E c \in Commands : GiveUp(c)
  BY <1>3 DEF GiveUp, UpgradeTypeOK
<1>4. CASE \E c \in Commands : Wipe(c)
  BY <1>4 DEF Wipe, Goes, Quiet, UpgradeTypeOK
<1>5. CASE \E c \in Commands : Copy(c)
  BY <1>5 DEF Copy, Goes, Quiet, UpgradeTypeOK
<1>6. CASE \E c \in Commands : Record(c, "backed", "backed_up")
  <2>1. PICK c \in Commands : Record(c, "backed", "backed_up")
    BY <1>6
  <2>2. journal.stage # "none"
    BY <2>1 DEF Record, StepsMatchStage, Holding, Steps
  <2> QED
    BY <2>1, <2>2, OfTheJournal DEF Record, ResumeAt, UpgradeTypeOK, Stages, Quiet
<1>7. CASE \E c \in Commands : Record(c, "migrated", "databases_migrated")
  <2>1. PICK c \in Commands : Record(c, "migrated", "databases_migrated")
    BY <1>7
  <2>2. journal.stage # "none"
    BY <2>1 DEF Record, StepsMatchStage, Holding, Steps
  <2> QED
    BY <2>1, <2>2, OfTheJournal DEF Record, ResumeAt, UpgradeTypeOK, Stages, Quiet
<1>8. CASE \E c \in Commands : Record(c, "published", "files_published")
  <2>1. PICK c \in Commands : Record(c, "published", "files_published")
    BY <1>8
  <2>2. journal.stage # "none"
    BY <2>1 DEF Record, StepsMatchStage, Holding, Steps
  <2> QED
    BY <2>1, <2>2, OfTheJournal DEF Record, ResumeAt, UpgradeTypeOK, Stages, Quiet
<1>9. CASE \E c \in Commands : Record(c, "dropped", "verified")
  <2>1. PICK c \in Commands : Record(c, "dropped", "verified")
    BY <1>9
  <2>2. journal.stage # "none"
    BY <2>1 DEF Record, StepsMatchStage, Holding, Steps
  <2> QED
    BY <2>1, <2>2, OfTheJournal DEF Record, ResumeAt, UpgradeTypeOK, Stages, Quiet
<1>10. CASE \E c \in Commands : Rebuild(c)
  BY <1>10 DEF Rebuild, Goes, Quiet, UpgradeTypeOK
<1>11. CASE \E c \in Commands : Stamp(c)
  BY <1>11 DEF Stamp, Goes, Quiet, UpgradeTypeOK
<1>12. CASE \E c \in Commands : OpenDrafts(c)
  BY <1>12 DEF OpenDrafts, Goes, Quiet, UpgradeTypeOK
<1>13. CASE \E c \in Commands, d \in Drafts : Import(c, d)
  BY <1>13 DEF Import, Quiet, UpgradeTypeOK
<1>14. CASE \E c \in Commands : StampCache(c)
  BY <1>14 DEF StampCache, Goes, Quiet, UpgradeTypeOK
<1>15. CASE \E c \in Commands : Publish(c)
  BY <1>15 DEF Publish, Goes, Quiet, UpgradeTypeOK
<1>16. CASE \E c \in Commands : PublishManifest(c)
  BY <1>16 DEF PublishManifest, Goes, Quiet, UpgradeTypeOK
<1>17. CASE \E c \in Commands : DropCache(c)
  BY <1>17 DEF DropCache, Goes, Quiet, UpgradeTypeOK
<1>18. CASE \E c \in Commands : Finish(c)
  BY <1>18 DEF Finish, Goes, UpgradeTypeOK, NoJournal
<1>19. CASE \E c \in Commands : EnsureDaemon(c)
  BY <1>19 DEF EnsureDaemon, Goes, UpgradeTypeOK
<1>20. CASE \E c \in Commands : CutShort(c)
  BY <1>20 DEF CutShort, UpgradeTypeOK
<1>21. CASE \E d \in Drafts, text \in Bodies \cup {None} : SaveDraft(d, text)
  BY <1>21 DEF SaveDraft, UpgradeTypeOK
<1>22. CASE Mutate
  BY <1>22 DEF Mutate, UpgradeTypeOK
<1>23. CASE DaemonStops
  BY <1>23 DEF DaemonStops, UpgradeTypeOK
<1>24. CASE UNCHANGED vars
  BY <1>24 DEF vars, disk
<1>25. CASE \E c \in Commands : RefuseTooNew(c)
  BY <1>25 DEF RefuseTooNew, UpgradeTypeOK
<1> QED
  BY <1>1, <1>2, <1>3, <1>4, <1>5, <1>6, <1>7, <1>8, <1>9, <1>10, <1>11, <1>12,
     <1>13, <1>14, <1>15, <1>16, <1>17, <1>18, <1>19, <1>20, <1>21, <1>22, <1>23, <1>24, <1>25
     DEF Next, Run, Migrate

-----------------------------------------------------------------------------
(* Admission, stamps and the backup *)

\* Nobody but the holder changes what it was admitted on.
LEMMA AdmittedNext == UpgradeTypeOK /\ StepsMatchStage /\ HolderAdmitted /\ StampedBeforeUse /\ [Next]_vars => HolderAdmitted'
<1> SUFFICES ASSUME UpgradeTypeOK, StepsMatchStage, HolderAdmitted, StampedBeforeUse, [Next]_vars PROVE HolderAdmitted'
  OBVIOUS
<1> USE DEF HolderAdmitted, Holding, Steps
<1>1. CASE \E c \in Commands, b \in Builds, a \in BOOLEAN : Begin(c, b, a)
  BY <1>1 DEF Begin, disk, UpgradeTypeOK
<1>2. CASE \E c \in Commands : Enter(c)
  <2>1. PICK c \in Commands : Enter(c)
    BY <1>2
  <2>2. build[c] \in Builds /\ lock = None /\ config \in Int /\ authority \in Nat /\ approved[c] \in BOOLEAN
    BY <2>1, BuildsAreNumbered DEF UpgradeTypeOK, Enter
  <2>3. CASE at' \in {[at EXCEPT ![c] = "cleared"], [at EXCEPT ![c] = "idle"]}
    BY <2>1, <2>3 DEF UpgradeTypeOK, Enter, disk
  <2>4. CASE lock' = c /\ Admitted(build[c], approved[c]) /\ at' = [at EXCEPT ![c] = ResumeAt(journal'.stage)]
    <3>1. config <= build[c] /\ authority <= AuthoritySchema[build[c]]
      BY <2>2, <2>4, OfABuild DEF Admitted, TooNew
    <3>2. ~approved[c] => authority = AuthoritySchema[build[c]]
      BY <2>2, <2>4, OfABuild DEF Admitted, TooNew, NeedsConfirmation
    <3>3. \A e \in Commands : e # c => at'[e] \notin Holding
      BY <2>2, <2>4, NoneIsNoValue DEF UpgradeTypeOK
    <3> QED
      BY <2>1, <3>1, <3>2, <3>3 DEF Enter, disk
  <2> QED
    BY <2>1, <2>3, <2>4 DEF Enter
<1>3. CASE \E c \in Commands : GiveUp(c)
  BY <1>3 DEF GiveUp, disk, UpgradeTypeOK
<1>4. CASE \E c \in Commands : Wipe(c)
  BY <1>4 DEF Wipe, Goes, Quiet, disk, UpgradeTypeOK
<1>5. CASE \E c \in Commands : Copy(c)
  BY <1>5 DEF Copy, Goes, Quiet, disk, UpgradeTypeOK
<1>6. CASE \E c \in Commands : Record(c, "backed", "backed_up")
  BY <1>6, NoneIsNoValue DEF Record, Quiet, disk, UpgradeTypeOK, ResumeAt
<1>7. CASE \E c \in Commands : Record(c, "migrated", "databases_migrated")
  BY <1>7, NoneIsNoValue DEF Record, Quiet, disk, UpgradeTypeOK, ResumeAt
<1>8. CASE \E c \in Commands : Record(c, "published", "files_published")
  BY <1>8, NoneIsNoValue DEF Record, Quiet, disk, UpgradeTypeOK, ResumeAt
<1>9. CASE \E c \in Commands : Record(c, "dropped", "verified")
  BY <1>9, NoneIsNoValue DEF Record, Quiet, disk, UpgradeTypeOK, ResumeAt
<1>10. CASE \E c \in Commands : Rebuild(c)
  BY <1>10 DEF Rebuild, Goes, Quiet, UpgradeTypeOK
<1>11. CASE \E c \in Commands : Stamp(c)
  <2>1. PICK c \in Commands : Stamp(c)
    BY <1>11
  <2>2. \A e \in Commands : at'[e] \in Holding => e = c
    BY <2>1, NoneIsNoValue DEF Stamp, Goes, UpgradeTypeOK
  <2>3. authority' = AuthoritySchema[build[c]] /\ build' = build /\ config' = config /\ at[c] = "stamp"
    BY <2>1 DEF Stamp, Goes, Quiet
  <2>4. AuthoritySchema[build[c]] \in Int
    BY OfABuild DEF UpgradeTypeOK
  <2> QED
    BY <2>2, <2>3, <2>4
<1>12. CASE \E c \in Commands : OpenDrafts(c)
  BY <1>12 DEF OpenDrafts, Goes, Quiet, UpgradeTypeOK
<1>13. CASE \E c \in Commands, d \in Drafts : Import(c, d)
  BY <1>13 DEF Import, Quiet, UpgradeTypeOK
<1>14. CASE \E c \in Commands : StampCache(c)
  BY <1>14 DEF StampCache, Goes, Quiet, UpgradeTypeOK
<1>15. CASE \E c \in Commands : Publish(c)
  BY <1>15 DEF Publish, Goes, Quiet, UpgradeTypeOK
<1>16. CASE \E c \in Commands : PublishManifest(c)
  <2>1. PICK c \in Commands : PublishManifest(c)
    BY <1>16
  <2>2. \A e \in Commands : at'[e] \in Holding => e = c
    BY <2>1, NoneIsNoValue DEF PublishManifest, Goes, UpgradeTypeOK
  <2>3. at[c] = "manifest" /\ config' = build[c] /\ build[c] \in Int
    BY <2>1, BuildsAreNumbered DEF PublishManifest, Goes, UpgradeTypeOK
  <2> QED
    BY <2>1, <2>2, <2>3 DEF PublishManifest, Quiet
<1>17. CASE \E c \in Commands : DropCache(c)
  BY <1>17 DEF DropCache, Goes, Quiet, UpgradeTypeOK
<1>18. CASE \E c \in Commands : Finish(c)
  BY <1>18 DEF Finish, Goes, disk, UpgradeTypeOK
<1>19. CASE \E c \in Commands : EnsureDaemon(c)
  <2>1. PICK c \in Commands : EnsureDaemon(c)
    BY <1>19
  <2>2. at[c] = "cleared" /\ authority > 0 /\ authority' \in {authority, AuthoritySchema[build[c]]}
    BY <2>1 DEF EnsureDaemon, Goes, StampedBeforeUse
  <2>3. authority' = authority
    BY <2>1, <2>2 DEF EnsureDaemon, Opens
  <2> QED
    BY <2>1, <2>3 DEF EnsureDaemon, Goes, UpgradeTypeOK
<1>20. CASE \E c \in Commands : CutShort(c)
  BY <1>20 DEF CutShort, disk, UpgradeTypeOK
<1>21. CASE \E d \in Drafts, text \in Bodies \cup {None} : SaveDraft(d, text)
  BY <1>21 DEF SaveDraft, UpgradeTypeOK
<1>22. CASE Mutate
  BY <1>22 DEF Mutate, UpgradeTypeOK
<1>23. CASE DaemonStops
  BY <1>23 DEF DaemonStops, disk, UpgradeTypeOK
<1>24. CASE UNCHANGED vars
  BY <1>24 DEF vars, disk
<1>25. CASE \E c \in Commands : RefuseTooNew(c)
  BY <1>25 DEF RefuseTooNew, disk, UpgradeTypeOK
<1> QED
  BY <1>1, <1>2, <1>3, <1>4, <1>5, <1>6, <1>7, <1>8, <1>9, <1>10, <1>11, <1>12,
     <1>13, <1>14, <1>15, <1>16, <1>17, <1>18, <1>19, <1>20, <1>21, <1>22, <1>23, <1>24, <1>25
     DEF Next, Run, Migrate

\* No daemon opens an authority that was never stamped.
LEMMA StampedNext == UpgradeTypeOK /\ StepsMatchStage /\ StampedBeforeUse /\ [Next]_vars => StampedBeforeUse'
<1> SUFFICES ASSUME UpgradeTypeOK, StepsMatchStage, StampedBeforeUse, [Next]_vars PROVE StampedBeforeUse'
  OBVIOUS
<1> USE DEF StampedBeforeUse
<1>1. CASE \E c \in Commands, b \in Builds, a \in BOOLEAN : Begin(c, b, a)
  <2>1. PICK c \in Commands, b \in Builds, a \in BOOLEAN : Begin(c, b, a)
    BY <1>1
  <2>2. Settled(b) => authority > 0
    BY OfABuild DEF Settled, Outstanding, UpgradeTypeOK
  <2> QED
    BY <2>1, <2>2 DEF Begin, disk, UpgradeTypeOK
<1>2. CASE \E c \in Commands : Enter(c)
  <2>1. PICK c \in Commands : Enter(c)
    BY <1>2
  <2>2. build[c] \in Builds /\ authority' = authority /\ authority \in Nat
    BY <2>1 DEF UpgradeTypeOK, Enter, disk
  <2>3. CASE Settled(build[c]) /\ journal' = journal /\ at' = [at EXCEPT ![c] = "cleared"]
    <3>1. authority > 0
      BY <2>2, <2>3, OfABuild DEF Settled, Outstanding
    <3> QED
      BY <2>2, <2>3, <3>1 DEF UpgradeTypeOK
  <2>4. CASE journal' = journal /\ at' = [at EXCEPT ![c] = "idle"]
    BY <2>2, <2>4 DEF UpgradeTypeOK
  <2>5. CASE journal' = Prepared(build[c]) /\ at' = [at EXCEPT ![c] = ResumeAt(journal'.stage)]
    <3>1. journal'.stage \in Stages /\ (journal'.stage \notin {"prepared", "backed_up"} => authority > 0)
      BY <2>2, <2>5, OfANewJournal, OfTheJournal DEF Stages
    <3>2. at'[c] \notin {"open", "import", "migrated", "cleared"} /\ \A e \in Commands : e # c => at'[e] = at[e]
      BY <2>5, <3>1 DEF ResumeAt, Stages, UpgradeTypeOK
    <3> QED
      BY <2>2, <3>1, <3>2
  <2> QED
    BY <2>1, <2>3, <2>4, <2>5 DEF Enter
<1>3. CASE \E c \in Commands : GiveUp(c)
  BY <1>3 DEF GiveUp, disk, UpgradeTypeOK
<1>4. CASE \E c \in Commands : Wipe(c)
  BY <1>4 DEF Wipe, Goes, Quiet, disk, UpgradeTypeOK
<1>5. CASE \E c \in Commands : Copy(c)
  BY <1>5 DEF Copy, Goes, Quiet, disk, UpgradeTypeOK
<1>6. CASE \E c \in Commands : Record(c, "backed", "backed_up")
  <2>1. PICK c \in Commands : Record(c, "backed", "backed_up")
    BY <1>6
  <2>2. journal.stage # "none" /\ authority' = authority
    BY <2>1 DEF Record, StepsMatchStage, Holding, Steps, disk
  <2> QED
    BY <2>1, <2>2, OfTheJournal DEF Record, ResumeAt, UpgradeTypeOK, Stages, StepsMatchStage
<1>7. CASE \E c \in Commands : Record(c, "migrated", "databases_migrated")
  <2>1. PICK c \in Commands : Record(c, "migrated", "databases_migrated")
    BY <1>7
  <2>2. journal.stage # "none" /\ authority' = authority
    BY <2>1 DEF Record, StepsMatchStage, Holding, Steps, disk
  <2> QED
    BY <2>1, <2>2, OfTheJournal DEF Record, ResumeAt, UpgradeTypeOK, Stages, StepsMatchStage
<1>8. CASE \E c \in Commands : Record(c, "published", "files_published")
  <2>1. PICK c \in Commands : Record(c, "published", "files_published")
    BY <1>8
  <2>2. journal.stage # "none" /\ authority' = authority
    BY <2>1 DEF Record, StepsMatchStage, Holding, Steps, disk
  <2> QED
    BY <2>1, <2>2, OfTheJournal DEF Record, ResumeAt, UpgradeTypeOK, Stages, StepsMatchStage
<1>9. CASE \E c \in Commands : Record(c, "dropped", "verified")
  <2>1. PICK c \in Commands : Record(c, "dropped", "verified")
    BY <1>9
  <2>2. journal.stage # "none" /\ authority' = authority
    BY <2>1 DEF Record, StepsMatchStage, Holding, Steps, disk
  <2> QED
    BY <2>1, <2>2, OfTheJournal DEF Record, ResumeAt, UpgradeTypeOK, Stages, StepsMatchStage
<1>10. CASE \E c \in Commands : Rebuild(c)
  BY <1>10 DEF Rebuild, Goes, Quiet, UpgradeTypeOK
<1>11. CASE \E c \in Commands : Stamp(c)
  <2>1. PICK c \in Commands : Stamp(c)
    BY <1>11
  <2>2. authority' > 0
    BY <2>1, OfABuild DEF Stamp, UpgradeTypeOK
  <2> QED
    BY <2>1, <2>2 DEF Stamp
<1>12. CASE \E c \in Commands : OpenDrafts(c)
  BY <1>12 DEF OpenDrafts, Goes, Quiet, UpgradeTypeOK
<1>13. CASE \E c \in Commands, d \in Drafts : Import(c, d)
  BY <1>13 DEF Import, Quiet, UpgradeTypeOK
<1>14. CASE \E c \in Commands : StampCache(c)
  BY <1>14 DEF StampCache, Goes, Quiet, UpgradeTypeOK
<1>15. CASE \E c \in Commands : Publish(c)
  BY <1>15 DEF Publish, Goes, Quiet, UpgradeTypeOK
<1>16. CASE \E c \in Commands : PublishManifest(c)
  BY <1>16 DEF PublishManifest, Goes, Quiet, UpgradeTypeOK
<1>17. CASE \E c \in Commands : DropCache(c)
  BY <1>17 DEF DropCache, Goes, Quiet, UpgradeTypeOK
<1>18. CASE \E c \in Commands : Finish(c)
  <2>1. PICK c \in Commands : Finish(c)
    BY <1>18
  <2>2. journal.stage = "verified" /\ authority' = authority
    BY <2>1 DEF Finish, Goes, StepsMatchStage, disk
  <2> QED
    BY <2>1, <2>2 DEF Finish, Goes, UpgradeTypeOK, NoJournal
<1>19. CASE \E c \in Commands : EnsureDaemon(c)
  <2>1. PICK c \in Commands : EnsureDaemon(c)
    BY <1>19
  <2>2. at[c] = "cleared" /\ authority > 0 /\ authority' = authority
    BY <2>1 DEF EnsureDaemon, Goes, Opens
  <2> QED
    BY <2>1, <2>2 DEF EnsureDaemon, Goes, UpgradeTypeOK
<1>20. CASE \E c \in Commands : CutShort(c)
  BY <1>20 DEF CutShort, disk, UpgradeTypeOK
<1>21. CASE \E d \in Drafts, text \in Bodies \cup {None} : SaveDraft(d, text)
  BY <1>21 DEF SaveDraft, UpgradeTypeOK
<1>22. CASE Mutate
  BY <1>22 DEF Mutate, UpgradeTypeOK
<1>23. CASE DaemonStops
  BY <1>23 DEF DaemonStops, disk, UpgradeTypeOK
<1>24. CASE UNCHANGED vars
  BY <1>24 DEF vars, disk
<1>25. CASE \E c \in Commands : RefuseTooNew(c)
  BY <1>25 DEF RefuseTooNew, disk, UpgradeTypeOK
<1> QED
  BY <1>1, <1>2, <1>3, <1>4, <1>5, <1>6, <1>7, <1>8, <1>9, <1>10, <1>11, <1>12,
     <1>13, <1>14, <1>15, <1>16, <1>17, <1>18, <1>19, <1>20, <1>21, <1>22, <1>23, <1>24, <1>25
     DEF Next, Run, Migrate

\* Nothing the backup stands for is changed before it is recorded, and it is never
\* made again afterwards.
LEMMA BackupNext == UpgradeTypeOK /\ StepsMatchStage /\ StampedBeforeUse /\ BackupMatches /\ [Next]_vars => BackupMatches'
<1> SUFFICES ASSUME UpgradeTypeOK, StepsMatchStage, StampedBeforeUse, BackupMatches, [Next]_vars PROVE BackupMatches'
  OBVIOUS
<1> USE DEF BackupMatches
<1>1. CASE \E c \in Commands, b \in Builds, a \in BOOLEAN : Begin(c, b, a)
  BY <1>1 DEF Begin, disk, Installed, UpgradeTypeOK
<1>2. CASE \E c \in Commands : Enter(c)
  <2>1. PICK c \in Commands : Enter(c)
    BY <1>2
  <2>2. build[c] \in Builds /\ Installed' = Installed /\ backup' = backup
    BY <2>1 DEF UpgradeTypeOK, Enter, disk, Installed
  <2>3. CASE journal' = journal /\ at' \in {[at EXCEPT ![c] = "cleared"], [at EXCEPT ![c] = "idle"]}
    BY <2>2, <2>3 DEF UpgradeTypeOK
  <2>4. CASE journal' = Prepared(build[c]) /\ at' = [at EXCEPT ![c] = ResumeAt(journal'.stage)]
    <3>1. journal'.stage \in Stages /\ at'[c] # "backed" /\ \A e \in Commands : e # c => at'[e] = at[e]
      BY <2>2, <2>4, OfANewJournal DEF ResumeAt, Stages, UpgradeTypeOK
    <3> QED
      BY <2>2, <2>4, <3>1, OfANewJournal
  <2> QED
    BY <2>1, <2>3, <2>4 DEF Enter
<1>3. CASE \E c \in Commands : GiveUp(c)
  BY <1>3 DEF GiveUp, disk, Installed, UpgradeTypeOK
<1>4. CASE \E c \in Commands : Wipe(c)
  <2>1. PICK c \in Commands : Wipe(c)
    BY <1>4
  <2>2. journal.stage = "prepared" /\ journal' = journal /\ Installed' = Installed
    BY <2>1 DEF Wipe, Goes, StepsMatchStage, disk, Installed
  <2>3. \A e \in Commands : at'[e] # "backed"
    BY <2>1, NoneIsNoValue DEF Wipe, Goes, UpgradeTypeOK, Holding, Steps
  <2> QED
    BY <2>1, <2>2, <2>3 DEF Wipe
<1>5. CASE \E c \in Commands : Copy(c)
  <2>1. PICK c \in Commands : Copy(c)
    BY <1>5
  <2>2. journal.stage = "prepared" /\ journal' = journal /\ Installed' = Installed
    BY <2>1 DEF Copy, Goes, StepsMatchStage, disk, Installed
  <2>3. \A e \in Commands : at'[e] = "backed" => backup' = Installed
    BY <2>1, NoneIsNoValue DEF Copy, Goes, UpgradeTypeOK, Holding, Steps
  <2> QED
    BY <2>1, <2>2, <2>3 DEF Copy
<1>6. CASE \E c \in Commands : Record(c, "backed", "backed_up")
  <2>1. PICK c \in Commands : Record(c, "backed", "backed_up")
    BY <1>6
  <2>2. journal.stage # "none" /\ Installed' = Installed /\ backup' = backup
    BY <2>1 DEF Record, StepsMatchStage, Holding, Steps, disk, Installed
  <2> QED
    BY <2>1, <2>2, OfTheJournal DEF Record, ResumeAt, UpgradeTypeOK, Stages, StepsMatchStage
<1>7. CASE \E c \in Commands : Record(c, "migrated", "databases_migrated")
  <2>1. PICK c \in Commands : Record(c, "migrated", "databases_migrated")
    BY <1>7
  <2>2. journal.stage # "none" /\ Installed' = Installed /\ backup' = backup
    BY <2>1 DEF Record, StepsMatchStage, Holding, Steps, disk, Installed
  <2> QED
    BY <2>1, <2>2, OfTheJournal DEF Record, ResumeAt, UpgradeTypeOK, Stages, StepsMatchStage
<1>8. CASE \E c \in Commands : Record(c, "published", "files_published")
  <2>1. PICK c \in Commands : Record(c, "published", "files_published")
    BY <1>8
  <2>2. journal.stage # "none" /\ Installed' = Installed /\ backup' = backup
    BY <2>1 DEF Record, StepsMatchStage, Holding, Steps, disk, Installed
  <2> QED
    BY <2>1, <2>2, OfTheJournal DEF Record, ResumeAt, UpgradeTypeOK, Stages, StepsMatchStage
<1>9. CASE \E c \in Commands : Record(c, "dropped", "verified")
  <2>1. PICK c \in Commands : Record(c, "dropped", "verified")
    BY <1>9
  <2>2. journal.stage # "none" /\ Installed' = Installed /\ backup' = backup
    BY <2>1 DEF Record, StepsMatchStage, Holding, Steps, disk, Installed
  <2> QED
    BY <2>1, <2>2, OfTheJournal DEF Record, ResumeAt, UpgradeTypeOK, Stages, StepsMatchStage
<1>10. CASE \E c \in Commands : Rebuild(c)
  BY <1>10 DEF Rebuild, Goes, Quiet, Installed, UpgradeTypeOK
<1>11. CASE \E c \in Commands : Stamp(c)
  <2>1. PICK c \in Commands : Stamp(c)
    BY <1>11
  <2>2. journal.stage # "prepared" /\ \A e \in Commands : at'[e] # "backed"
    BY <2>1, NoneIsNoValue DEF Stamp, Goes, StepsMatchStage, UpgradeTypeOK, Holding, Steps
  <2> QED
    BY <2>1, <2>2 DEF Stamp
<1>12. CASE \E c \in Commands : OpenDrafts(c)
  BY <1>12 DEF OpenDrafts, Goes, Quiet, Installed, UpgradeTypeOK
<1>13. CASE \E c \in Commands, d \in Drafts : Import(c, d)
  BY <1>13 DEF Import, Quiet, Installed, UpgradeTypeOK
<1>14. CASE \E c \in Commands : StampCache(c)
  BY <1>14 DEF StampCache, Goes, Quiet, Installed, UpgradeTypeOK
<1>15. CASE \E c \in Commands : Publish(c)
  <2>1. PICK c \in Commands : Publish(c)
    BY <1>15
  <2>2. journal.stage # "prepared" /\ \A e \in Commands : at'[e] # "backed"
    BY <2>1, NoneIsNoValue DEF Publish, Goes, StepsMatchStage, UpgradeTypeOK, Holding, Steps
  <2> QED
    BY <2>1, <2>2 DEF Publish
<1>16. CASE \E c \in Commands : PublishManifest(c)
  <2>1. PICK c \in Commands : PublishManifest(c)
    BY <1>16
  <2>2. journal.stage # "prepared" /\ \A e \in Commands : at'[e] # "backed"
    BY <2>1, NoneIsNoValue DEF PublishManifest, Goes, StepsMatchStage, UpgradeTypeOK, Holding, Steps
  <2> QED
    BY <2>1, <2>2 DEF PublishManifest
<1>17. CASE \E c \in Commands : DropCache(c)
  BY <1>17 DEF DropCache, Goes, Quiet, Installed, UpgradeTypeOK
<1>18. CASE \E c \in Commands : Finish(c)
  BY <1>18 DEF Finish, Goes, disk, Installed, UpgradeTypeOK, NoJournal, Stages
<1>19. CASE \E c \in Commands : EnsureDaemon(c)
  <2>1. PICK c \in Commands : EnsureDaemon(c)
    BY <1>19
  <2>2. at[c] = "cleared" /\ authority > 0 /\ authority' = authority
    BY <2>1 DEF EnsureDaemon, Goes, Opens, StampedBeforeUse, UpgradeTypeOK
  <2>3. Installed' = Installed
    BY <2>1, <2>2 DEF EnsureDaemon, Installed
  <2> QED
    BY <2>1, <2>3 DEF EnsureDaemon, Goes, UpgradeTypeOK
<1>20. CASE \E c \in Commands : CutShort(c)
  BY <1>20 DEF CutShort, disk, Installed, UpgradeTypeOK
<1>21. CASE \E d \in Drafts, text \in Bodies \cup {None} : SaveDraft(d, text)
  BY <1>21 DEF SaveDraft, Installed, UpgradeTypeOK
<1>22. CASE Mutate
  BY <1>22 DEF Mutate, Installed, UpgradeTypeOK
<1>23. CASE DaemonStops
  BY <1>23 DEF DaemonStops, disk, Installed, UpgradeTypeOK
<1>24. CASE UNCHANGED vars
  BY <1>24 DEF vars, disk, Installed
<1>25. CASE \E c \in Commands : RefuseTooNew(c)
  BY <1>25 DEF RefuseTooNew, disk, Installed, UpgradeTypeOK
<1> QED
  BY <1>1, <1>2, <1>3, <1>4, <1>5, <1>6, <1>7, <1>8, <1>9, <1>10, <1>11, <1>12,
     <1>13, <1>14, <1>15, <1>16, <1>17, <1>18, <1>19, <1>20, <1>21, <1>22, <1>23, <1>24, <1>25
     DEF Next, Run, Migrate

-----------------------------------------------------------------------------
(* Drafts *)

\* Drafts leave the cache only once the store has them all, and are edited only then.
LEMMA DraftsNext == UpgradeTypeOK /\ StepsMatchStage /\ StampedBeforeUse /\ DraftsMove /\ [Next]_vars => DraftsMove'
<1> SUFFICES ASSUME UpgradeTypeOK, StepsMatchStage, StampedBeforeUse, DraftsMove, [Next]_vars PROVE DraftsMove'
  OBVIOUS
<1> USE DEF DraftsMove, Moved
<1>1. CASE \E c \in Commands, b \in Builds, a \in BOOLEAN : Begin(c, b, a)
  <2>1. PICK c \in Commands, b \in Builds, a \in BOOLEAN : Begin(c, b, a)
    BY <1>1
  <2>2. Settled(b) => rows = NoDrafts
    BY OfABuild DEF Settled, Outstanding
  <2> QED
    BY <2>1, <2>2 DEF Begin, disk, UpgradeTypeOK
<1>2. CASE \E c \in Commands : Enter(c)
  <2>1. PICK c \in Commands : Enter(c)
    BY <1>2
  <2>2. build[c] \in Builds /\ lock = None /\ UNCHANGED <<config, cache, rows, store, todo, written>>
    BY <2>1 DEF UpgradeTypeOK, Enter, disk
  <2>3. CASE Settled(build[c]) /\ journal' = journal /\ daemon' = daemon /\ at' = [at EXCEPT ![c] = "cleared"]
    <3>1. rows = NoDrafts
      BY <2>2, <2>3, OfABuild DEF Settled, Outstanding
    <3> QED
      BY <2>2, <2>3, <3>1 DEF UpgradeTypeOK
  <2>4. CASE journal' = journal /\ daemon' = daemon /\ at' = [at EXCEPT ![c] = "idle"]
    BY <2>2, <2>4 DEF UpgradeTypeOK
  <2>5. CASE journal' = Prepared(build[c]) /\ daemon' = 0 /\ at' = [at EXCEPT ![c] = ResumeAt(journal'.stage)]
    <3>1. /\ journal'.stage \in Stages
          /\ journal.stage # "none" => journal' = journal
          /\ journal.stage = "none" => journal'.stage = "prepared" /\ journal'.cacheToo = CacheBehind(build[c])
      BY <2>2, <2>5, OfANewJournal
    <3>2. \A e \in Commands : e # c => at'[e] = at[e]
      BY <2>5 DEF UpgradeTypeOK
    <3>3. at'[c] \notin {"cleared", "dropped", "migrated", "import"}
      BY <2>5, <3>1 DEF ResumeAt, Stages, UpgradeTypeOK
    <3>4. rows # NoDrafts => journal'.cacheToo /\ journal'.stage # "verified"
      BY <2>2, <3>1, OfABuild DEF CacheBehind, Absent, Stages
    <3> QED
      BY <2>2, <2>5, <3>1, <3>2, <3>3, <3>4 DEF Stages
  <2> QED
    BY <2>1, <2>3, <2>4, <2>5 DEF Enter
<1>3. CASE \E c \in Commands : GiveUp(c)
  BY <1>3 DEF GiveUp, disk, UpgradeTypeOK
<1>4. CASE \E c \in Commands : Wipe(c)
  BY <1>4 DEF Wipe, Goes, Quiet, disk, UpgradeTypeOK
<1>5. CASE \E c \in Commands : Copy(c)
  BY <1>5 DEF Copy, Goes, Quiet, disk, UpgradeTypeOK
<1>6. CASE \E c \in Commands : Record(c, "backed", "backed_up")
  <2>1. PICK c \in Commands : Record(c, "backed", "backed_up")
    BY <1>6
  <2>2. journal.stage # "none" /\ UNCHANGED disk /\ at[c] \in Holding
    BY <2>1 DEF Record, StepsMatchStage, Holding, Steps
  <2> QED
    BY <2>1, <2>2, OfTheJournal DEF Record, Quiet, disk, ResumeAt, UpgradeTypeOK, Stages, StepsMatchStage
<1>7. CASE \E c \in Commands : Record(c, "migrated", "databases_migrated")
  <2>1. PICK c \in Commands : Record(c, "migrated", "databases_migrated")
    BY <1>7
  <2>2. journal.stage # "none" /\ UNCHANGED disk /\ at[c] \in Holding
    BY <2>1 DEF Record, StepsMatchStage, Holding, Steps
  <2> QED
    BY <2>1, <2>2, OfTheJournal DEF Record, Quiet, disk, ResumeAt, UpgradeTypeOK, Stages, StepsMatchStage
<1>8. CASE \E c \in Commands : Record(c, "published", "files_published")
  <2>1. PICK c \in Commands : Record(c, "published", "files_published")
    BY <1>8
  <2>2. journal.stage # "none" /\ UNCHANGED disk /\ at[c] \in Holding
    BY <2>1 DEF Record, StepsMatchStage, Holding, Steps
  <2> QED
    BY <2>1, <2>2, OfTheJournal DEF Record, Quiet, disk, ResumeAt, UpgradeTypeOK, Stages, StepsMatchStage
<1>9. CASE \E c \in Commands : Record(c, "dropped", "verified")
  <2>1. PICK c \in Commands : Record(c, "dropped", "verified")
    BY <1>9
  <2>2. journal.stage # "none" /\ UNCHANGED disk /\ at[c] \in Holding
    BY <2>1 DEF Record, StepsMatchStage, Holding, Steps
  <2> QED
    BY <2>1, <2>2, OfTheJournal DEF Record, Quiet, disk, ResumeAt, UpgradeTypeOK, Stages, StepsMatchStage
<1>10. CASE \E c \in Commands : Rebuild(c)
  BY <1>10 DEF Rebuild, Goes, Quiet, UpgradeTypeOK
<1>11. CASE \E c \in Commands : Stamp(c)
  BY <1>11 DEF Stamp, Goes, Quiet, UpgradeTypeOK
<1>12. CASE \E c \in Commands : OpenDrafts(c)
  <2>1. PICK c \in Commands : OpenDrafts(c)
    BY <1>12
  <2>2. \A e \in Commands : e # c => at[e] \notin Holding
    BY <2>1, NoneIsNoValue DEF OpenDrafts, Goes, UpgradeTypeOK, Holding, Steps
  <2> QED
    BY <2>1, <2>2 DEF OpenDrafts, Goes, Quiet, UpgradeTypeOK, Holding, Steps
<1>13. CASE \E c \in Commands, d \in Drafts : Import(c, d)
  <2>1. PICK c \in Commands, d \in Drafts : Import(c, d)
    BY <1>13
  <2>2. /\ rows[d] \in Bodies \cup {None} /\ store \in Texts /\ d \in Drafts
        /\ store' = [store EXCEPT ![d] = rows[d]] /\ todo' = todo \ {d}
        /\ UNCHANGED <<config, cache, rows, journal, at, daemon, written>>
    BY <2>1 DEF Import, Quiet, UpgradeTypeOK, Texts
  <2>3. at[c] = "import" /\ lock = c /\ journal.stage = "backed_up"
    BY <2>1 DEF Import, StepsMatchStage, UpgradeTypeOK, Holding, Steps
  <2>4. store'[d] = rows[d] /\ (\A e \in Drafts : e # d => store'[e] = store[e])
    BY <2>2 DEF Texts
  <2>5. rows[d] # None
    BY <2>1, <2>3 DEF Import
  <2>6. rows # NoDrafts
    BY <2>1, <2>5 DEF NoDrafts
  <2>7. \A e \in Commands : at[e] \in Holding => e = c
    BY <2>3, NoneIsNoValue DEF UpgradeTypeOK
  <2> QED
    BY <2>1, <2>2, <2>3, <2>4, <2>6, <2>7 DEF Stages, Holding, Steps, Import
<1>14. CASE \E c \in Commands : StampCache(c)
  <2>1. PICK c \in Commands : StampCache(c)
    BY <1>14
  <2>2. at[c] = "import" /\ todo = {} /\ journal.stage = "backed_up"
    BY <2>1 DEF StampCache, Goes, StepsMatchStage
  <2>3. Moved
    BY <2>1, <2>2
  <2> QED
    BY <2>1, <2>2, <2>3 DEF StampCache, Goes, Quiet, UpgradeTypeOK
<1>15. CASE \E c \in Commands : Publish(c)
  BY <1>15 DEF Publish, Goes, Quiet, UpgradeTypeOK
<1>16. CASE \E c \in Commands : PublishManifest(c)
  <2>1. PICK c \in Commands : PublishManifest(c)
    BY <1>16
  <2>2. journal.stage # "none"
    BY <2>1 DEF PublishManifest, Goes, StepsMatchStage
  <2> QED
    BY <2>1, <2>2 DEF PublishManifest, Goes, Quiet, UpgradeTypeOK
<1>17. CASE \E c \in Commands : DropCache(c)
  <2>1. PICK c \in Commands : DropCache(c)
    BY <1>17
  <2>2. /\ at[c] = "drop" /\ journal.stage = "files_published" /\ Moved
        /\ at' = [at EXCEPT ![c] = "dropped"]
        /\ UNCHANGED <<config, store, journal, daemon, written, todo>>
    BY <2>1 DEF DropCache, Goes, Quiet, StepsMatchStage
  <2>3. rows' = NoDrafts
    BY <2>1, <2>2 DEF DropCache
  <2>4. store = written
    <3>1. CASE rows # NoDrafts
      <4>1. \A d \in Drafts : store[d] = rows[d]
        BY <2>2, <3>1
      <4> QED
        BY <3>1, <4>1 DEF UpgradeTypeOK, Texts
    <3> QED
      BY <3>1
  <2>5. \A d \in Drafts : rows'[d] = None
    BY <2>3 DEF NoDrafts
  <2>6. \A e \in Commands : at'[e] # "import"
    BY <2>2, NoneIsNoValue DEF UpgradeTypeOK, Holding, Steps
  <2> QED
    BY <2>2, <2>3, <2>4, <2>5, <2>6 DEF UpgradeTypeOK
<1>18. CASE \E c \in Commands : Finish(c)
  <2>1. PICK c \in Commands : Finish(c)
    BY <1>18
  <2>2. journal.stage = "verified" /\ rows = NoDrafts
    BY <2>1 DEF Finish, Goes, StepsMatchStage
  <2> QED
    BY <2>1, <2>2 DEF Finish, Goes, UpgradeTypeOK, NoJournal, disk
<1>19. CASE \E c \in Commands : EnsureDaemon(c)
  <2>1. PICK c \in Commands : EnsureDaemon(c)
    BY <1>19
  <2>2. rows = NoDrafts /\ rows' = rows
    BY <2>1 DEF EnsureDaemon, Goes
  <2> QED
    BY <2>1, <2>2 DEF EnsureDaemon, Goes, UpgradeTypeOK
<1>20. CASE \E c \in Commands : CutShort(c)
  BY <1>20 DEF CutShort, disk, UpgradeTypeOK
<1>21. CASE \E d \in Drafts, text \in Bodies \cup {None} : SaveDraft(d, text)
  <2>1. PICK d \in Drafts, text \in Bodies \cup {None} : SaveDraft(d, text)
    BY <1>21
  <2>2. rows = NoDrafts /\ rows' = NoDrafts
    BY <2>1 DEF SaveDraft
  <2>3. \A e \in Drafts : rows'[e] = None
    BY <2>2 DEF NoDrafts
  <2> QED
    BY <2>1, <2>2, <2>3 DEF SaveDraft
<1>22. CASE Mutate
  BY <1>22 DEF Mutate, UpgradeTypeOK
<1>23. CASE DaemonStops
  BY <1>23 DEF DaemonStops, disk, UpgradeTypeOK
<1>24. CASE UNCHANGED vars
  BY <1>24 DEF vars, disk
<1>25. CASE \E c \in Commands : RefuseTooNew(c)
  BY <1>25 DEF RefuseTooNew, disk, UpgradeTypeOK
<1> QED
  BY <1>1, <1>2, <1>3, <1>4, <1>5, <1>6, <1>7, <1>8, <1>9, <1>10, <1>11, <1>12,
     <1>13, <1>14, <1>15, <1>16, <1>17, <1>18, <1>19, <1>20, <1>21, <1>22, <1>23, <1>24, <1>25
     DEF Next, Run, Migrate

-----------------------------------------------------------------------------
(* Theorems *)

\* A project as the baseline left it satisfies the invariant.
LEMMA UpgradeInvInit == Init => UpgradeInv
<1> SUFFICES ASSUME Init PROVE UpgradeInv
  OBVIOUS
<1> USE DEF Init
<1>1. UpgradeTypeOK
  <2>1. lock = None /\ \A c \in Commands : at[c] = "idle" /\ lock # c
    BY NoneIsNoValue
  <2>2. rows \in Texts /\ store \in Texts /\ written \in Texts
    BY DEF Texts, NoDrafts
  <2>3. at \in [Commands -> Steps] /\ approved \in [Commands -> BOOLEAN]
    BY DEF Steps
  <2>4. \A c \in Commands : at[c] \in Holding <=> lock = c
    BY <2>1 DEF Holding, Steps
  <2>5. cache \in Nat \cup {Absent} /\ faults \in 0..MaxFaults
    BY FaultsAreCounted
  <2> QED
    BY <2>1, <2>2, <2>3, <2>4, <2>5 DEF UpgradeTypeOK
<1>2. StepsMatchStage /\ HolderAdmitted
  BY DEF StepsMatchStage, HolderAdmitted, Holding, Steps
<1>3. StampedBeforeUse /\ BackupMatches
  BY DEF StampedBeforeUse, BackupMatches, NoJournal, Stages
<1>4. DraftsMove
  BY DEF DraftsMove, NoJournal, NoDrafts
<1> QED
  BY <1>1, <1>2, <1>3, <1>4 DEF UpgradeInv

\* Every step preserves it.
LEMMA UpgradeInvNext == UpgradeInv /\ [Next]_vars => UpgradeInv'
BY TypeNext, StageNext, AdmittedNext, StampedNext, BackupNext, DraftsNext DEF UpgradeInv

\* UpgradeInv holds in every state of a project, however its upgrades are cut short.
THEOREM UpgradeInvariance == Spec => []UpgradeInv
<1> QED
  BY UpgradeInvInit, UpgradeInvNext, PTL DEF Spec

\* Files, journal and commands keep their shape, and one command is at work
\* (lifecycle.go: Reconcile, lockFile, saveJournal).
THEOREM UpgradeTypeCorrect == Spec => []UpgradeTypeOK
<1>1. UpgradeInv => UpgradeTypeOK
  BY DEF UpgradeInv
<1> QED
  BY <1>1, UpgradeInvariance, PTL

\* What an upgrade changes was backed up before, also when it is resumed
\* (lifecycle.go: backupProject, existingBackup).
THEOREM BackupComesFirst == Spec => []BackedUpFirst
<1>1. UpgradeInv => BackedUpFirst
  BY OfTheJournal DEF UpgradeInv, BackupMatches, BackedUpFirst
<1> QED
  BY <1>1, UpgradeInvariance, PTL

\* An upgrade loses, restores or overwrites no draft
\* (lifecycle.go: migrateDrafts, invalidateCache).
THEOREM DraftsAreKept == Spec => []DraftsKept
<1>1. UpgradeInv => DraftsKept
  BY DEF UpgradeInv, DraftsMove, DraftsKept, Present
<1> QED
  BY <1>1, UpgradeInvariance, PTL

\* Only a stamp, a manifest and the start of a daemon touch what may not go back.
LEMMA WhoChangesVersions ==
  ASSUME Next,
         ~\E c \in Commands : Stamp(c) \/ PublishManifest(c) \/ EnsureDaemon(c)
  PROVE  UNCHANGED <<config, authority>>
BY DEF Next, Run, Migrate, Begin, Enter, GiveUp, Wipe, Copy, Record, Rebuild, OpenDrafts, Import,
       StampCache, Publish, DropCache, Finish, RefuseTooNew, CutShort, SaveDraft, Mutate, DaemonStops, disk

\* A daemon that starts finds the authority stamped and leaves the stamp alone.
LEMMA DaemonsLeaveVersions ==
  ASSUME UpgradeInv, NEW c \in Commands, EnsureDaemon(c)
  PROVE  UNCHANGED <<config, authority>>
<1>1. authority > 0
  BY DEF UpgradeInv, StampedBeforeUse, EnsureDaemon, Goes
<1> QED
  BY <1>1 DEF EnsureDaemon, Opens, UpgradeInv, UpgradeTypeOK

\* Neither manifest nor authority is ever brought back to an older build's
\* (lifecycle.go: the inspection under the lock, setSQLiteVersion).
THEOREM NoDowngrade == Spec => NeverDowngraded
<1>1. UpgradeInv /\ [Next]_vars => [config' >= config /\ authority' >= authority]_vars
  <2> SUFFICES ASSUME UpgradeInv, Next PROVE config' >= config /\ authority' >= authority
    BY DEF vars
  <2>0. config \in Int /\ authority \in Int
    BY BuildsAreNumbered DEF UpgradeInv, UpgradeTypeOK
  <2>1. CASE \E c \in Commands : Stamp(c)
    <3>1. PICK c \in Commands : Stamp(c)
      BY <2>1
    <3>2. AuthoritySchema[build[c]] \in Int
      BY OfABuild DEF UpgradeInv, UpgradeTypeOK
    <3> QED
      BY <2>0, <3>1, <3>2 DEF Stamp
  <2>2. CASE \E c \in Commands : PublishManifest(c)
    <3>1. PICK c \in Commands : PublishManifest(c)
      BY <2>2
    <3>2. build[c] \in Int /\ config <= build[c]
      BY <3>1, BuildsAreNumbered
         DEF UpgradeInv, UpgradeTypeOK, HolderAdmitted, PublishManifest, Goes, Holding, Steps
    <3> QED
      BY <2>0, <3>1, <3>2 DEF PublishManifest
  <2>3. CASE \E c \in Commands : EnsureDaemon(c)
    BY <2>0, <2>3, DaemonsLeaveVersions
  <2> QED
    BY <2>0, <2>1, <2>2, <2>3, WhoChangesVersions
<1> QED
  BY <1>1, UpgradeInvariance, PTL DEF Spec, NeverDowngraded

\* A command at work is ended for a file that is too new only by a cache, which a
\* daemon of a newer build stamped meanwhile: manifest and authority are as it
\* found them, or as it left them (lifecycle.go: setSQLiteVersion, the last Inspect).
THEOREM OnlyCachesBecomeTooNew ==
  Spec => [][\A c \in Commands : RefuseTooNew(c) => cache > CacheSchema[build[c]]]_vars
<1>1. ASSUME UpgradeInv, NEW c \in Commands, RefuseTooNew(c)
      PROVE  cache > CacheSchema[build[c]]
  <2>0. build[c] \in Builds
    BY <1>1 DEF UpgradeInv, UpgradeTypeOK
  <2>1. config \in Builds \cup {0} /\ authority \in Nat
    BY <1>1 DEF UpgradeInv, UpgradeTypeOK
  <2>2. at[c] \in Holding
    BY <1>1 DEF RefuseTooNew, Holding, Steps
  <2>3. config <= build[c] /\ authority <= AuthoritySchema[build[c]]
    BY <1>1, <2>2 DEF UpgradeInv, HolderAdmitted
  <2>4. config \in Nat
    BY <2>1, BuildsAreNumbered
  <2>5. build[c] \in Nat /\ AuthoritySchema[build[c]] \in Nat
    BY <2>0, OfABuild
  <2> QED
    BY <1>1, <2>1, <2>3, <2>4, <2>5 DEF RefuseTooNew, TooNew
<1>2. UpgradeInv /\ [Next]_vars =>
        [\A c \in Commands : RefuseTooNew(c) => cache > CacheSchema[build[c]]]_vars
  BY <1>1
<1> QED
  BY <1>2, UpgradeInvariance, PTL DEF Spec

\* The authority is migrated only on a user's word, whoever began the upgrade
\* (lifecycle.go: RequiresConfirmation, checked again under the lock).
THEOREM MigrationsAreConfirmed == Spec => MigrationIsConfirmed
<1>1. UpgradeInv /\ [Next]_vars => [authority' # authority => lock # None /\ approved[lock]]_vars
  <2> SUFFICES ASSUME UpgradeInv, Next, authority' # authority PROVE lock # None /\ approved[lock]
    BY DEF vars
  <2>1. PICK c \in Commands : Stamp(c)
    BY WhoChangesVersions, DaemonsLeaveVersions DEF PublishManifest
  <2>2. at[c] \in Holding /\ lock = c
    BY <2>1 DEF Stamp, Goes, UpgradeInv, UpgradeTypeOK, Holding, Steps
  <2>3. approved[c]
    BY <2>1, <2>2 DEF Stamp, UpgradeInv, HolderAdmitted
  <2> QED
    BY <2>2, <2>3, NoneIsNoValue
<1> QED
  BY <1>1, UpgradeInvariance, PTL DEF Spec, MigrationIsConfirmed

===============================================================================
