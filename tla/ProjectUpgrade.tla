--------------------------- MODULE ProjectUpgrade ---------------------------
(***************************************************************************)
(* Upgrade of a personal project (internal/projectlifecycle).  Every       *)
(* command first reconciles the files of its project with its own build:   *)
(* it inspects them, takes a lock, inspects again, and goes through stages *)
(* recorded in a journal: back up, migrate the databases, publish files,   *)
(* drop the cache, verify.  It can be cut short between any two file       *)
(* operations; the next command, perhaps of another build, goes on from    *)
(* the journal.  Once the project is settled the command makes sure that a *)
(* daemon of its build runs, which serves drafts and signed state.         *)
(*                                                                         *)
(* A build is a number, 0 the baseline that kept drafts in the cache.  A   *)
(* file is represented by the build, or the schema, that it was written    *)
(* for; a draft by its text.                                               *)
(***************************************************************************)
EXTENDS Integers

CONSTANTS
  Commands,         \* processes that run commands, one at a time each
  Builds,           \* installed builds, in the order of their release
  AuthoritySchema,  \* the schema of the authority database each build expects
  CacheSchema,      \* and that of the projection cache
  Drafts,           \* identifiers of drafts
  Bodies,           \* their texts
  None,             \* no text, no backup, no process
  MaxFaults         \* bound: how often a command is cut short

ASSUME BuildsAreNumbered == Builds \subseteq Nat \ {0}
ASSUME SchemasGrow ==
  /\ AuthoritySchema \in [Builds -> Nat \ {0}]
  /\ CacheSchema \in [Builds -> Nat \ {0}]
  /\ \A b, c \in Builds : b < c => /\ AuthoritySchema[b] <= AuthoritySchema[c]
                                   /\ CacheSchema[b] <= CacheSchema[c]
ASSUME NoneIsNoValue == None \notin Bodies \cup Commands
ASSUME FaultsAreCounted == MaxFaults \in Nat

VARIABLES
  config,       \* the build that wrote config.json
  managed,      \* the build whose managed files are in place
  authority,    \* schema stamped on personal-authority.db
  rebuilt,      \* the schema its snapshot was derived from signed events for
  cache,        \* schema stamped on personal-projection.db, or Absent
  rows,         \* drafts in the cache
  stored,       \* whether drafts.db is there
  store,        \* drafts in it
  journal,      \* reconciliation journal
  backup,       \* what the backup of this upgrade holds, None while incomplete
  lock,         \* holder of upgrade.lock
  at,           \* where each command is
  build,        \* its build
  approved,     \* whether its user confirmed
  todo,         \* rows the holder of the lock has still to import
  daemon,       \* build of the daemon, 0 when none runs
  written,      \* what the user last wrote, to compare the files with
  faults

disk == <<config, managed, authority, rebuilt, cache, rows, stored, store>>
vars == <<disk, journal, backup, lock, at, build, approved, todo, daemon, written, faults>>

Absent == -1
Texts == [Drafts -> Bodies \cup {None}]
NoDrafts == [d \in Drafts |-> None]
Stages == {"prepared", "backed_up", "databases_migrated", "files_published", "verified"}
Installed == [config |-> config, managed |-> managed, authority |-> authority]
NoJournal == [stage |-> "none", cacheToo |-> FALSE, before |-> None]

\* A project as the baseline left it, its daemon stopped for good.
Init ==
  /\ config = 0 /\ managed = 0 /\ authority = 0 /\ rebuilt = 0
  /\ cache \in {Absent, 0}
  /\ rows \in Texts /\ (cache = Absent => rows = NoDrafts)
  /\ stored = FALSE /\ store = NoDrafts
  /\ journal = NoJournal /\ backup = None /\ lock = None
  /\ at = [c \in Commands |-> "idle"]
  /\ build \in [Commands -> Builds]
  /\ approved = [c \in Commands |-> FALSE]
  /\ todo = {} /\ daemon = 0 /\ written = rows /\ faults = 0

-----------------------------------------------------------------------------
(* What a build finds. *)

TooNew(b) == \/ config > b
             \/ authority > AuthoritySchema[b]
             \/ cache > CacheSchema[b]

\* A cache that is not there is behind only a manifest of the baseline.
CacheBehind(b) == \/ cache = Absent /\ config = 0
                  \/ cache # Absent /\ cache < CacheSchema[b]

DraftsUnmoved == ~stored /\ rows # NoDrafts

Outstanding(b) ==
  \/ config # b \/ managed # b
  \/ authority < AuthoritySchema[b]
  \/ CacheBehind(b)
  \/ DraftsUnmoved

NeedsConfirmation(b) == authority < AuthoritySchema[b] \/ DraftsUnmoved

Settled(b) == ~TooNew(b) /\ ~Outstanding(b) /\ journal.stage = "none"

Admitted(b, a) == ~TooNew(b) /\ (NeedsConfirmation(b) => a)

-----------------------------------------------------------------------------
(* Entering the upgrade. *)

\* Mutant: a journal that says "prepared" is taken for a finished backup.
ResumeAfterBackup(stage) ==
  CASE stage = "prepared" -> "backed"
    [] stage = "backed_up" -> "rebuild"
    [] stage = "databases_migrated" -> "publish"
    [] stage = "files_published" -> "drop"
    [] stage = "verified" -> "verify"

\* The first step still to be made at each stage.
ResumeAt(stage) ==
  CASE stage = "prepared" -> "wipe"
    [] stage = "backed_up" -> "rebuild"
    [] stage = "databases_migrated" -> "publish"
    [] stage = "files_published" -> "drop"
    [] stage = "verified" -> "verify"

\* A command begins: it may go on, is refused, or waits for the lock.
Begin(c, b, a) ==
  /\ at[c] = "idle"
  /\ Settled(b) \/ Admitted(b, a)
  /\ at' = [at EXCEPT ![c] = IF Settled(b) THEN "cleared" ELSE "waiting"]
  /\ build' = [build EXCEPT ![c] = b]
  /\ approved' = [approved EXCEPT ![c] = a]
  /\ UNCHANGED <<disk, journal, backup, lock, todo, daemon, written, faults>>

Prepared(b) ==
  IF journal.stage # "none" THEN journal
  ELSE [stage |-> "prepared", cacheToo |-> CacheBehind(b), before |-> Installed]

\* Mutant: what was inspected before the lock is taken for granted.
EnterUninspected(c) ==
  /\ at[c] = "waiting" /\ lock = None
  /\ lock' = c
  /\ journal' = Prepared(build[c])
  /\ at' = [at EXCEPT ![c] = ResumeAt(journal'.stage)]
  /\ daemon' = 0
  /\ UNCHANGED <<disk, backup, build, approved, todo, written, faults>>

\* With the lock it inspects again, stops the daemon, and loads or creates the
\* journal, the record of what it is going to change.
Enter(c) ==
  LET b == build[c] IN
  /\ at[c] = "waiting" /\ lock = None
  /\ \/ /\ Settled(b)
        /\ at' = [at EXCEPT ![c] = "cleared"]
        /\ UNCHANGED <<lock, journal, daemon>>
     \/ /\ ~Settled(b) /\ ~Admitted(b, approved[c])
        /\ at' = [at EXCEPT ![c] = "idle"]
        /\ UNCHANGED <<lock, journal, daemon>>
     \/ /\ ~Settled(b) /\ Admitted(b, approved[c])
        /\ lock' = c
        /\ journal' = Prepared(b)
        /\ at' = [at EXCEPT ![c] = ResumeAt(journal'.stage)]
        /\ daemon' = 0
  /\ UNCHANGED <<disk, backup, build, approved, todo, written, faults>>

\* The lock stays taken until the command's patience ends.
GiveUp(c) ==
  /\ at[c] = "waiting" /\ lock # None
  /\ at' = [at EXCEPT ![c] = "idle"]
  /\ UNCHANGED <<disk, journal, backup, lock, build, approved, todo, daemon, written, faults>>

-----------------------------------------------------------------------------
(* The stages. *)

Goes(c, from, to) == at[c] = from /\ at' = [at EXCEPT ![c] = to]
Quiet == UNCHANGED <<lock, build, approved, daemon, written, faults>>

\* A directory of an earlier attempt is emptied first.
Wipe(c) ==
  /\ Goes(c, "wipe", "copy")
  /\ backup' = None
  /\ Quiet /\ UNCHANGED <<disk, journal, todo>>

Copy(c) ==
  /\ Goes(c, "copy", "backed")
  /\ backup' = Installed
  /\ Quiet /\ UNCHANGED <<disk, journal, todo>>

Record(c, from, stage) ==
  /\ at[c] = from
  /\ journal' = [journal EXCEPT !.stage = stage]
  /\ at' = [at EXCEPT ![c] = ResumeAt(stage)]
  /\ Quiet /\ UNCHANGED <<disk, backup, todo>>

\* The authority's snapshot is derived again from its signed events, and only
\* then is the database stamped.
Rebuild(c) ==
  /\ Goes(c, "rebuild", "stamp")
  /\ rebuilt' = AuthoritySchema[build[c]]
  /\ Quiet /\ UNCHANGED <<config, managed, authority, cache, rows, stored, store, journal, backup, todo>>

Stamp(c) ==
  /\ Goes(c, "stamp", "open")
  /\ authority <= AuthoritySchema[build[c]]
  /\ authority' = AuthoritySchema[build[c]]
  /\ Quiet /\ UNCHANGED <<config, managed, rebuilt, cache, rows, stored, store, journal, backup, todo>>

\* Mutant: a drafts.db that is there is taken for a finished import.
OpenOnce(c) ==
  /\ Goes(c, "open", "import")
  /\ stored' = TRUE
  /\ todo' = IF stored THEN {} ELSE {d \in Drafts : rows[d] # None}
  /\ Quiet /\ UNCHANGED <<config, managed, authority, rebuilt, cache, rows, store, journal, backup>>

\* Opening drafts.db creates it, stamped; then the rows are imported one by one.
OpenDrafts(c) ==
  /\ Goes(c, "open", "import")
  /\ stored' = TRUE
  /\ todo' = {d \in Drafts : rows[d] # None}
  /\ Quiet /\ UNCHANGED <<config, managed, authority, rebuilt, cache, rows, store, journal, backup>>

Import(c, d) ==
  /\ at[c] = "import" /\ d \in todo
  /\ store' = [store EXCEPT ![d] = rows[d]]
  /\ todo' = todo \ {d}
  /\ Quiet /\ UNCHANGED <<config, managed, authority, rebuilt, cache, rows, stored, journal, backup, at>>

\* The cache is rebuilt as well, if it is there, and stamped.
StampCache(c) ==
  /\ Goes(c, "import", "migrated") /\ todo = {}
  /\ cache <= CacheSchema[build[c]]
  /\ cache' = IF cache = Absent THEN Absent ELSE CacheSchema[build[c]]
  /\ Quiet /\ UNCHANGED <<config, managed, authority, rebuilt, rows, stored, store, journal, backup, todo>>

Publish(c) ==
  /\ Goes(c, "publish", "manifest")
  /\ managed' = build[c]
  /\ Quiet /\ UNCHANGED <<config, authority, rebuilt, cache, rows, stored, store, journal, backup, todo>>

PublishManifest(c) ==
  /\ Goes(c, "manifest", "published")
  /\ config' = build[c]
  /\ Quiet /\ UNCHANGED <<managed, authority, rebuilt, cache, rows, stored, store, journal, backup, todo>>

\* The cache goes when the plan in the journal, perhaps another build's, says so.
DropCache(c) ==
  /\ Goes(c, "drop", "dropped")
  /\ cache' = IF journal.cacheToo THEN Absent ELSE cache
  /\ rows' = IF journal.cacheToo THEN NoDrafts ELSE rows
  /\ Quiet /\ UNCHANGED <<config, managed, authority, rebuilt, stored, store, journal, backup, todo>>

\* Mutant: the journal stays.
FinishOnly(c) ==
  /\ Goes(c, "verify", "cleared") /\ ~TooNew(build[c])
  /\ lock' = None
  /\ UNCHANGED <<disk, journal, backup, build, approved, todo, daemon, written, faults>>

\* The final inspection looks for files that are too new, not for what is left.
Finish(c) ==
  /\ Goes(c, "verify", "cleared") /\ ~TooNew(build[c])
  /\ journal' = NoJournal
  /\ lock' = None
  /\ UNCHANGED <<disk, backup, build, approved, todo, daemon, written, faults>>

\* A command of a newer build may have started its daemon since the inspection: what
\* it stamped is too new to be stamped or approved here, and the journal stays.
RefuseTooNew(c) ==
  /\ \/ at[c] = "import" /\ todo = {} /\ cache > CacheSchema[build[c]]
     \/ at[c] = "verify" /\ TooNew(build[c])
  /\ at' = [at EXCEPT ![c] = "idle"]
  /\ lock' = None
  /\ UNCHANGED <<disk, journal, backup, build, approved, todo, daemon, written, faults>>

\* A file operation fails, or the process dies: the lock goes with it.
CutShort(c) ==
  /\ at[c] \notin {"idle", "waiting", "cleared"} /\ faults < MaxFaults
  /\ at' = [at EXCEPT ![c] = "idle"]
  /\ lock' = None
  /\ faults' = faults + 1
  /\ UNCHANGED <<disk, journal, backup, build, approved, todo, daemon, written>>

-----------------------------------------------------------------------------
(* The daemon. *)

\* Both databases accept a version 0 for a new file, and stamp it.
Opens(b) == authority \in {0, AuthoritySchema[b]} /\ cache \in {Absent, 0, CacheSchema[b]}

\* The command goes on with a daemon of its build, replacing any other.  Nothing
\* keeps another command from upgrading the project in the meantime.
EnsureDaemon(c) ==
  LET b == build[c] IN
  /\ Goes(c, "cleared", "idle")
  /\ \/ daemon = b /\ UNCHANGED <<daemon, authority, cache, stored>>
     \/ /\ daemon # b /\ Opens(b)
        /\ daemon' = b
        /\ authority' = AuthoritySchema[b]
        /\ cache' = CacheSchema[b]
        /\ stored' = TRUE
     \/ /\ daemon # b /\ ~Opens(b)
        /\ daemon' = 0
        /\ UNCHANGED <<authority, cache, stored>>
  /\ UNCHANGED <<config, managed, rebuilt, rows, store, journal, backup, lock, build, approved,
                 todo, written, faults>>

\* The user saves a draft, or deletes it (None).
SaveDraft(d, text) ==
  /\ daemon # 0
  /\ store' = [store EXCEPT ![d] = text]
  /\ written' = [written EXCEPT ![d] = text]
  /\ UNCHANGED <<config, managed, authority, rebuilt, cache, rows, stored, journal, backup, lock, at,
                 build, approved, todo, daemon, faults>>

\* The daemon commits an event and updates the snapshot as its build does.
Mutate ==
  /\ daemon # 0
  /\ rebuilt' = IF AuthoritySchema[daemon] < rebuilt THEN AuthoritySchema[daemon] ELSE rebuilt
  /\ UNCHANGED <<config, managed, authority, cache, rows, stored, store, journal, backup, lock, at,
                 build, approved, todo, daemon, written, faults>>

DaemonStops ==
  /\ daemon # 0 /\ daemon' = 0
  /\ UNCHANGED <<disk, journal, backup, lock, at, build, approved, todo, written, faults>>

-----------------------------------------------------------------------------
Migrate(c) ==
  \/ Rebuild(c) \/ Stamp(c) \/ OpenDrafts(c)
  \/ \E d \in Drafts : Import(c, d)
  \/ StampCache(c)

\* What a command does once it waits for, or has, the lock.
Run(c) ==
  \/ Enter(c)
  \/ Wipe(c) \/ Copy(c) \/ Record(c, "backed", "backed_up")
  \/ Migrate(c) \/ Record(c, "migrated", "databases_migrated")
  \/ Publish(c) \/ PublishManifest(c) \/ Record(c, "published", "files_published")
  \/ DropCache(c) \/ Record(c, "dropped", "verified")
  \/ Finish(c) \/ RefuseTooNew(c)
  \/ EnsureDaemon(c)

Next ==
  \/ \E c \in Commands : \E b \in Builds, a \in BOOLEAN : Begin(c, b, a)
  \/ \E c \in Commands : Run(c) \/ GiveUp(c) \/ CutShort(c)
  \/ \E d \in Drafts, text \in Bodies \cup {None} : SaveDraft(d, text)
  \/ Mutate
  \/ DaemonStops

Newest == CHOOSE b \in Builds : \A c \in Builds : c <= b

\* A command that was started is executed; and now and then, whatever else is run,
\* a command of the newest build is, by a user who confirms.
Spec ==
  /\ Init /\ [][Next]_vars
  /\ \A c \in Commands : WF_vars(Run(c))
  /\ SF_vars(\E c \in Commands : Begin(c, Newest, TRUE))

-----------------------------------------------------------------------------
(* Properties. *)

Steps == {"idle", "waiting", "wipe", "copy", "backed", "rebuild", "stamp", "open", "import",
          "migrated", "publish", "manifest", "published", "drop", "dropped", "verify", "cleared"}
Holding == Steps \ {"idle", "waiting", "cleared"}
Images == [config : Nat, managed : Nat, authority : Nat]

\* Files, journal, backup and commands have the shape the code gives them; a
\* journal names a stage that every build resumes, and one command is at work.
UpgradeTypeOK ==
  /\ config \in Builds \cup {0} /\ managed \in Builds \cup {0}
  /\ authority \in Nat /\ rebuilt \in Nat
  /\ cache \in Nat \cup {Absent}
  /\ rows \in Texts /\ stored \in BOOLEAN /\ store \in Texts
  /\ \/ journal = NoJournal
     \/ journal \in [stage : Stages, cacheToo : BOOLEAN, before : Images]
  /\ backup \in Images \cup {None}
  /\ lock \in Commands \cup {None}
  /\ at \in [Commands -> Steps]
  /\ \A c \in Commands : at[c] \in Holding <=> lock = c
  /\ build \in [Commands -> Builds] /\ approved \in [Commands -> BOOLEAN]
  /\ todo \subseteq Drafts /\ daemon \in Builds \cup {0}
  /\ written \in Texts /\ faults \in 0..MaxFaults

\* While an upgrade is under way or cut short, the backup its journal stands for
\* holds the manifest, the managed files and the authority as they were before
\* the first of them was changed, whichever build resumed in between.
BackedUpFirst ==
  journal.stage # "none" /\ Installed # journal.before => backup = journal.before

\* Where the user's drafts are: in the cache until it is dropped, then drafts.db.
Present(d) == IF rows # NoDrafts THEN rows[d] ELSE store[d]

\* No draft is lost, brought back or overwritten by an upgrade, wherever it is
\* cut short and whoever resumes it: what the user last wrote is what there is.
DraftsKept == \A d \in Drafts : Present(d) = written[d]

\* A manifest and an authority of a newer build are never brought back to an
\* older one, not even by a command that inspected them before the upgrade.
NeverDowngraded == [][config' >= config /\ authority' >= authority]_vars

\* The authority is migrated by a command whose user confirmed, also when the
\* upgrade was begun by another command.
MigrationIsConfirmed ==
  [][authority' # authority => lock # None /\ approved[lock]]_vars

\* However often it is cut short, and by whichever build it was begun, the
\* upgrade to the newest build is completed and its journal goes.
UpgradeCompletes == <>[](Settled(Newest) /\ config = Newest)

\* An authority stamped with a schema has its snapshot derived for that schema.
\* Does not hold: a daemon of an older build can write between the two.
StampedMeansRebuilt == authority <= rebuilt

=============================================================================
