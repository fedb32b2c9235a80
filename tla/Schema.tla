-------------------------------- MODULE Schema -------------------------------
(***************************************************************************)
(* How a database comes to its schema: `alembic upgrade head`, which       *)
(* scripts/start.sh runs first (backend/alembic/versions), and what every  *)
(* start of the server then does (db.init_database, _ensure_runtime_columns,*)
(* themes.ensure_builtin_themes_seeded).  SQLite commits every CREATE and  *)
(* ALTER by itself: a start that is interrupted leaves what it has done,   *)
(* and one that tries to add what is there already fails.                  *)
(***************************************************************************)
EXTENDS Naturals, Sequences, FiniteSets, SequencesExt, Selections

CONSTANT Starters   \* runs of start.sh, or of something that calls init_database itself

VARIABLES tables,
          columns,    \* of those that older versions of their table did not have
          seeded,     \* the built-in themes are there
          revision,   \* alembic_version: how many migrations were applied
          starts,     \* how far each start has come
          history     \* ghost: what has happened to the database so far

schemaVars == <<tables, columns, seeded, revision, starts, history>>

Create(t) == <<"create", t>>
Add(t, c) == <<"add", t, c>>
Seed == <<"seed">>

(* Tables that all statements treat alike are kept once: users stands for  *)
(* the three of the first migration, app_settings for those of the last    *)
(* one that have only the columns they began with.                         *)
Auth == <<"users">>
Social == <<"friendships", "shared_items">>
Core == <<"app_settings", "documents", "voice_presets", "jobs">>
Tables == Auth \o Core \o <<"user_settings">> \o Social

(* What _ensure_runtime_columns adds, in its order: the columns that some  *)
(* migration also adds, and the rest of each table's.                      *)
RuntimeColumns == <<Add("jobs", "owner"), Add("jobs", "rest"), Add("jobs", "heartbeat_at"),
                    Add("documents", "owner"), Add("documents", "rest"),
                    Add("voice_presets", "owner"), Add("voice_presets", "source")>>
Columns == {<<s[2], s[3]>> : s \in ToSet(RuntimeColumns)}
Late(t) == {c \in Columns : c[1] = t}

Creates(names) == [i \in DOMAIN names |-> Create(names[i])]

(* The tables of the first and of the last migration are created whatever  *)
(* exists; the others look first.                                          *)
Migrations == <<
    [guarded |-> FALSE, does |-> Creates(Auth)],
    [guarded |-> TRUE,
     does |-> <<Create("user_settings"), Add("documents", "owner"), Add("jobs", "owner"),
                Add("voice_presets", "owner")>>],
    [guarded |-> TRUE, does |-> <<Add("voice_presets", "source")>>],
    [guarded |-> TRUE, does |-> <<Add("jobs", "heartbeat_at")>>],
    [guarded |-> TRUE, does |-> Creates(Social)],
    [guarded |-> FALSE, does |-> Creates(Core)] >>
Newest == Len(Migrations)

Down == [at |-> "down", todo |-> << >>, revision |-> 0]

SchemaTypeOK ==
    /\ tables \subseteq ToSet(Tables) /\ columns \subseteq Columns
    /\ seeded \in BOOLEAN /\ revision \in 0 .. Newest
    /\ \A p \in Starters : starts[p].at \in {"down", "upgrade", "migrate", "begin", "create", "alter", "seed", "up"}
    /\ history \subseteq {"direct", "upgrade", "overlap", "interrupted", "failed"}

(* A clean installation, or one whose tables an old init_database made.    *)
InitSchema ==
    /\ \/ tables = {} /\ history = {}
       \/ tables = ToSet(Core) /\ history = {"direct"}
    /\ columns = {} /\ seeded = FALSE /\ revision = 0
    /\ starts = [p \in Starters |-> Down]

-----------------------------------------------------------------------------
Present(s) == CASE s[1] = "create" -> s[2] \in tables
                [] s[1] = "add" -> <<s[2], s[3]>> \in columns
                [] OTHER -> seeded

Missing(statements) ==
    Selected(statements, {i \in DOMAIN statements : LET s == statements[i] IN
                            ~Present(s) /\ (s[1] = "add" => s[2] \in tables)})

Goes(p, at, todo) == starts' = [starts EXCEPT ![p].at = at, ![p].todo = todo]
Starting(p) == starts[p].at \notin {"down", "up"}

(* start.sh reads the revision; anything else calls init_database at once. *)
Launch(p, at) ==
    /\ starts[p] = Down
    /\ starts' = [starts EXCEPT ![p] = [at |-> at, todo |-> << >>, revision |-> revision]]
    /\ history' = history \cup (IF \E q \in Starters : Starting(q) THEN {"overlap"} ELSE {})
                          \cup (IF at = "upgrade" THEN {"upgrade"}
                                ELSE IF revision < Newest THEN {"direct"} ELSE {})
    /\ UNCHANGED <<tables, columns, seeded, revision>>

StartScript(p) == Launch(p, "upgrade")
StartDirectly(p) == Launch(p, "begin")

(* The next migration: what of it is to be done is decided by one look.    *)
Migrate(p) ==
    LET next == starts[p].revision + 1 IN
    /\ starts[p].at = "upgrade"
    /\ IF next > Newest THEN Goes(p, "begin", << >>)
       ELSE Goes(p, "migrate", IF Migrations[next].guarded THEN Missing(Migrations[next].does)
                               ELSE Migrations[next].does)
    /\ UNCHANGED <<tables, columns, seeded, revision, history>>

\* Mutant: the revision is not written.
MigratedUnrecorded(p) ==
    /\ starts[p].at = "migrate" /\ starts[p].todo = << >>
    /\ starts' = [starts EXCEPT ![p].at = "upgrade", ![p].revision = @ + 1]
    /\ UNCHANGED <<tables, columns, seeded, revision, history>>

(* alembic_version follows the migration; somebody else must not have.     *)
Migrated(p) ==
    /\ starts[p].at = "migrate" /\ starts[p].todo = << >>
    /\ revision = starts[p].revision
    /\ revision' = revision + 1
    /\ starts' = [starts EXCEPT ![p].at = "upgrade", ![p].revision = revision + 1]
    /\ UNCHANGED <<tables, columns, seeded, history>>

\* Mutant: tables that exist are taken to have all their columns.
InspectTables(p) ==
    /\ starts[p].todo = << >>
    /\ \/ starts[p].at = "begin" /\ Goes(p, "create", Missing(Creates(Tables)))
       \/ starts[p].at = "create" /\ Goes(p, "seed", Missing(<<Seed>>))
       \/ starts[p].at = "seed" /\ Goes(p, "up", << >>)
    /\ UNCHANGED <<tables, columns, seeded, revision, history>>

(* create_all, then the columns, then the themes, each after one look.     *)
Inspect(p) ==
    /\ starts[p].todo = << >>
    /\ \/ starts[p].at = "begin" /\ Goes(p, "create", Missing(Creates(Tables)))
       \/ starts[p].at = "create" /\ Goes(p, "alter", Missing(RuntimeColumns))
       \/ starts[p].at = "alter" /\ Goes(p, "seed", Missing(<<Seed>>))
       \/ starts[p].at = "seed" /\ Goes(p, "up", << >>)
    /\ UNCHANGED <<tables, columns, seeded, revision, history>>

(* One statement.  A table is created with all its columns.                *)
Execute(p) ==
    LET s == Head(starts[p].todo) IN
    /\ starts[p].todo # << >> /\ ~Present(s)
    /\ tables' = IF s[1] = "create" THEN tables \cup {s[2]} ELSE tables
    /\ columns' = columns \cup CASE s[1] = "create" -> Late(s[2])
                                 [] s[1] = "add" -> {<<s[2], s[3]>>}
                                 [] OTHER -> {}
    /\ seeded' = (seeded \/ s = Seed)
    /\ Goes(p, starts[p].at, Tail(starts[p].todo))
    /\ UNCHANGED <<revision, history>>

(* What it would add is there, or another upgrade has moved the revision:  *)
(* the start ends with an error.                                           *)
EndsInError(p) ==
    /\ \/ starts[p].todo # << >> /\ Present(Head(starts[p].todo))
       \/ starts[p].at = "migrate" /\ starts[p].todo = << >> /\ revision # starts[p].revision
    /\ starts' = [starts EXCEPT ![p] = Down]
    /\ history' = IF starts[p].at = "migrate" THEN history \cup {"failed"} ELSE history
    /\ UNCHANGED <<tables, columns, seeded, revision>>

(* The process is ended on its way, or when it serves.                     *)
Interrupt(p) ==
    /\ starts[p].at # "down"
    /\ starts' = [starts EXCEPT ![p] = Down]
    /\ history' = IF Starting(p) THEN history \cup {"interrupted"} ELSE history
    /\ UNCHANGED <<tables, columns, seeded, revision>>

Proceed(p) == Migrate(p) \/ Migrated(p) \/ Inspect(p) \/ Execute(p) \/ EndsInError(p)

NextSchema == \E p \in Starters : StartScript(p) \/ StartDirectly(p) \/ Proceed(p) \/ Interrupt(p)

(* A start goes on by itself.  Nothing starts anew what has failed.        *)
SchemaFairness == \A p \in Starters : WF_schemaVars(Proceed(p))

SpecSchema == InitSchema /\ [][NextSchema]_schemaVars /\ SchemaFairness

-----------------------------------------------------------------------------
Complete == tables = ToSet(Tables) /\ columns = Columns /\ seeded

(* Of the starts that are under way at one time, one brings the database   *)
(* to its whole schema: the one that is ahead, since all go in one order   *)
(* (db.py:72).  Unless it is interrupted, or upgrades a database whose     *)
(* tables init_database has made.                                          *)
SchemaIsCompleted ==
    (\E p \in Starters : Starting(p))
        ~> Complete \/ "interrupted" \in history \/ {"direct", "upgrade"} \subseteq history

(* An upgrade fails only on a database that was not left to upgrades alone *)
(* (20260902_01_complete_application_schema): an earlier one was           *)
(* interrupted, another ran beside it, or init_database made tables before *)
(* the last migration.  However often it runs otherwise, it succeeds.      *)
UpgradesFailOnlyWhenDisturbed ==
    "failed" \in history => history \cap {"direct", "overlap", "interrupted"} # {}
=============================================================================
