--------------------------- MODULE FinanceSettings ---------------------------
(***************************************************************************)
(* services/financeSettings.service.js: the platform's money rules as      *)
(* immutable versions, each in effect from a date.  A save merges a change *)
(* onto the version in effect at its date and re-applies it to versions    *)
(* already scheduled later; every process caches the version in effect.    *)
(* A rule is a member of Fields; dates and times are ticks.                *)
(***************************************************************************)
EXTENDS Integers, FiniteSets, FiniteSetsExt

CONSTANTS
    Fields, Values, Default,  \* the rules, what they may be, what they are seeded with
    Admins,                   \* save requests in flight, at most
    Reads,                    \* reads of the current rules in flight, at most
    Processes,                \* server processes, each with a cache
    LastDate,                 \* bound: the clock and the dates of versions
    LastVersion,              \* bound: no save begins once there are more versions
    Tolerance,                \* how far back a date still counts as now
    CacheTime                 \* how long a process may serve what it read

ASSUME RulesAssumption == Fields # {} /\ Default \in [Fields -> Values]
ASSUME ProcessesAssumption == Processes # {}
ASSUME DatesAssumption == LastDate \in Nat /\ LastVersion \in Nat /\ Tolerance \in Nat /\ CacheTime \in Nat

VARIABLES
    rows,    \* the collection: [version, from, set]
    now,     \* the clock
    cache,   \* of each process: the row it serves, until when, and, for
             \* ServedIsCurrent only, the newest version saved when it looked
    save,    \* the save requests: pc, what is asked, what was read, rows to insert
    fill     \* the reads that missed the cache

settingsVars == <<rows, now, cache, save, fill>>

Dates == 0..LastDate
Patches == UNION {[fields -> Values] : fields \in (SUBSET Fields) \ {{}}}
Row == [version : Nat \ {0}, from : Dates, set : [Fields -> Values]]

\* at: the process that serves the request; patch: the fields and their values asked for from
\* `when' on; base: the values in effect then; changed: the fields that differ; later: the newest
\* version of each later date; todo: the rows still to be inserted.
Save == [pc : {"idle", "base", "seed", "later", "number", "insert", "rest"}, at : Processes,
         patch : Patches, when : Dates, attempt : 1..3, base : [Fields -> Values],
         changed : SUBSET Fields, later : SUBSET Row, todo : SUBSET Row]
\* row: the version in effect at `when', if any; seen: the newest version saved by then.
Read == [pc : {"idle", "look", "seed", "next"}, at : Processes, when : Dates, row : SUBSET Row, seen : Nat]
SomeProcess == CHOOSE p \in Processes : TRUE
NoSave == [pc |-> "idle", at |-> SomeProcess, patch |-> Default, when |-> 0, attempt |-> 1,
           base |-> Default, changed |-> {}, later |-> {}, todo |-> {}]
NoFill == [pc |-> "idle", at |-> SomeProcess, when |-> 0, row |-> {}, seen |-> 0]
Empty == [row |-> {}, until |-> 0, seen |-> 0]

SettingsInit ==
    /\ rows = {} /\ now = 0
    /\ cache = [p \in Processes |-> Empty]
    /\ save = [a \in Admins |-> NoSave]
    /\ fill = [q \in Reads |-> NoFill]

-----------------------------------------------------------------------------
\* findActiveAt's order: the later date wins, then the newer version.
Beats(r, s) == r.from > s.from \/ (r.from = s.from /\ r.version > s.version)
ActiveAt(known, d) ==
    {r \in known : r.from <= d /\ \A s \in known : s.from <= d => ~Beats(s, r)}
Latest(known) == IF known = {} THEN 0 ELSE Max({r.version : r \in known})

\* seedIfEmpty: version 1 since the epoch; a second seeder meets the unique index.
Seeded(known) ==
    IF \E r \in known : r.version = 1 THEN known
    ELSE known \union {[version |-> 1, from |-> 0, set |-> Default]}

-----------------------------------------------------------------------------
(* getActiveSettings without a date: served from the cache or looked up.   *)

GetActiveSettings(q, p) ==
    /\ fill[q].pc = "idle" /\ cache[p].until <= now
    /\ fill' = [fill EXCEPT ![q] = [NoFill EXCEPT !.pc = "look", !.at = p, !.when = now]]
    /\ UNCHANGED <<rows, now, cache, save>>

Look(q) ==
    /\ fill[q].pc = "look"
    /\ LET active == ActiveAt(rows, fill[q].when) IN
       fill' = [fill EXCEPT ![q] =
           IF active = {} THEN [@ EXCEPT !.pc = "seed"]
           ELSE [@ EXCEPT !.pc = "next", !.row = active, !.seen = Latest(rows)]]
    /\ UNCHANGED <<rows, now, cache, save>>

SeedRead(q) ==
    /\ fill[q].pc = "seed"
    /\ rows' = Seeded(rows)
    /\ fill' = [fill EXCEPT ![q].pc = "look"]
    /\ UNCHANGED <<now, cache, save>>

CacheUntil_FullMinute(when) == now + CacheTime

\* The cache lasts CacheTime, but no longer than until the next scheduled version.
CacheUntil(when) == Min({now + CacheTime} \union {r.from : r \in {s \in rows : s.from > when}})

Fill(q) ==
    /\ fill[q].pc = "next"
    /\ cache' = [cache EXCEPT ![fill[q].at] =
           [row |-> fill[q].row, until |-> CacheUntil(fill[q].when), seen |-> fill[q].seen]]
    /\ fill' = [fill EXCEPT ![q] = NoFill]
    /\ UNCHANGED <<rows, now, save>>

-----------------------------------------------------------------------------
(* createVersion: the fields of `patch' are to have its values from w on.  *)

CreateVersion(a, p, patch, w) ==
    /\ save[a].pc = "idle" /\ Cardinality(rows) <= LastVersion
    /\ w >= now - Tolerance
    /\ save' = [save EXCEPT ![a] =
           [NoSave EXCEPT !.pc = "base", !.at = p, !.patch = patch, !.when = w]]
    /\ UNCHANGED <<rows, now, cache, fill>>

\* activeAtUncached; a change that changes nothing is refused (NO_CHANGES).
ReadBase(a) ==
    /\ save[a].pc = "base"
    /\ LET s == save[a]
           active == ActiveAt(rows, s.when)
       IN save' = [save EXCEPT ![a] =
           IF active = {} THEN [@ EXCEPT !.pc = "seed"]
           ELSE LET base == (CHOOSE r \in active : TRUE).set
                    changed == {f \in DOMAIN s.patch : s.patch[f] # base[f]}
                IN IF changed = {} THEN NoSave
                   ELSE [@ EXCEPT !.pc = "later", !.base = base, !.changed = changed]]
    /\ UNCHANGED <<rows, now, cache, fill>>

SeedSave(a) ==
    /\ save[a].pc = "seed"
    /\ rows' = Seeded(rows)
    /\ save' = [save EXCEPT ![a].pc = "base"]
    /\ UNCHANGED <<now, cache, fill>>

\* The newest version at each later date.
LaterThan(w) == {r \in rows : r.from > w /\ \A s \in rows : s.from = r.from => s.version <= r.version}

ReadLater(a) ==
    /\ save[a].pc = "later"
    /\ save' = [save EXCEPT ![a] =
           [@ EXCEPT !.pc = "number", !.later = LaterThan(save[a].when)]]
    /\ UNCHANGED <<rows, now, cache, fill>>

Patched(set, patch, fields) == [f \in Fields |-> IF f \in fields THEN patch[f] ELSE set[f]]

\* The row a scheduled version was built on: the one before it, or the base.
Before(s, r) ==
    LET earlier == {e \in s.later : e.from < r.from}
    IN IF earlier = {} THEN s.base ELSE (CHOOSE e \in earlier : \A d \in earlier : d.from <= e.from).set

Kept_Everything(s, r) == s.changed

\* The changed fields that every scheduled version up to r left as it found them.
Kept(s, r) ==
    {f \in s.changed : \A e \in s.later : e.from <= r.from => e.set[f] = Before(s, e)[f]}

\* The change itself, then what is re-applied to later versions, oldest date first.
NewRows(s, latest) ==
    LET carried == {r \in s.later : Kept(s, r) # {}}
    IN {[version |-> latest + 1, from |-> s.when, set |-> Patched(s.base, s.patch, s.changed)]}
       \union {[version |-> latest + 1 + Cardinality({e \in carried : e.from <= r.from}),
                from |-> r.from, set |-> Patched(r.set, s.patch, Kept(s, r))] : r \in carried}

ReadLatest(a) ==
    /\ save[a].pc = "number"
    /\ save' = [save EXCEPT ![a] =
           [@ EXCEPT !.pc = "insert", !.todo = NewRows(save[a], Latest(rows))]]
    /\ UNCHANGED <<rows, now, cache, fill>>

Oldest(todo) == CHOOSE r \in todo : \A s \in todo : r.version <= s.version

\* insertMany, ordered: one row after the other; the saver's process forgets its cache.
Insert(a) ==
    /\ save[a].pc \in {"insert", "rest"}
    /\ LET row == Oldest(save[a].todo)
           left == save[a].todo \ {row}
       IN /\ \A r \in rows : r.version # row.version
          /\ rows' = rows \union {row}
          /\ save' = [save EXCEPT ![a] =
                 IF left = {} THEN NoSave ELSE [@ EXCEPT !.todo = left, !.pc = "rest"]]
          /\ cache' = IF left = {} THEN [cache EXCEPT ![save[a].at] = Empty] ELSE cache
    /\ UNCHANGED <<now, fill>>

\* A version number already taken: all over again, three times at most (CONCURRENT_UPDATE).
Collide(a) ==
    /\ save[a].pc \in {"insert", "rest"}
    /\ \E r \in rows : r.version = Oldest(save[a].todo).version
    /\ save' = [save EXCEPT ![a] =
           IF @.attempt = 3 THEN NoSave
           ELSE [NoSave EXCEPT !.pc = "base", !.at = save[a].at, !.patch = save[a].patch,
                               !.when = save[a].when, !.attempt = save[a].attempt + 1]]
    /\ UNCHANGED <<rows, now, cache, fill>>

-----------------------------------------------------------------------------
SettingsTick == now < LastDate /\ now' = now + 1 /\ UNCHANGED <<rows, cache, save, fill>>

SettingsNext ==
    \/ \E q \in Reads :
        \/ \E p \in Processes : GetActiveSettings(q, p)
        \/ Look(q) \/ SeedRead(q) \/ Fill(q)
    \/ \E a \in Admins :
        \/ \E p \in Processes, patch \in Patches, w \in Dates : CreateVersion(a, p, patch, w)
        \/ ReadBase(a) \/ SeedSave(a) \/ ReadLater(a) \/ ReadLatest(a) \/ Insert(a) \/ Collide(a)
    \/ SettingsTick

SettingsSpec == SettingsInit /\ [][SettingsNext]_settingsVars

-----------------------------------------------------------------------------
\* The variables have their types, no two versions have the same number, a cache holds one
\* version that was saved, and a save in the middle of its inserts has rows left.
SettingsTypeOK ==
    /\ now \in Dates
    /\ rows \subseteq Row /\ \A r, s \in rows : r.version = s.version => r = s
    /\ cache \in [Processes -> [row : SUBSET Row, until : Nat, seen : Nat]]
    /\ \A p \in Processes : cache[p].row \subseteq rows /\ \A r, s \in cache[p].row : r = s
    /\ save \in [Admins -> Save]
    /\ \A a \in Admins : save[a].pc \in {"insert", "rest"} => save[a].todo # {}
    /\ fill \in [Reads -> Read]

-----------------------------------------------------------------------------
\* What a process serves from its cache is what a look into the database would
\* have given, but for versions saved after it looked: a version scheduled by
\* then takes effect at its own date, not when the cache happens to expire.
ServedIsCurrent ==
    \A p \in Processes : cache[p].until > now =>
        \A r \in rows, served \in cache[p].row :
            r.from <= now /\ r.version <= cache[p].seen => ~Beats(r, served)

\* The values in force at each date, an insert that has begun counted as done.
Written == rows \union UNION {save[a].todo : a \in {b \in Admins : save[b].pc = "rest"}}
ValueAt(f, d) ==
    LET active == ActiveAt(Written, d)
    IN IF active = {} THEN Default[f] ELSE (CHOOSE r \in active : TRUE).set[f]
Plan == [f \in Fields |-> [d \in Dates |-> ValueAt(f, d)]]
Timeline == INSTANCE SettingsTimeline WITH plan <- Plan

\* A save changes the fields it names, from its date until the next version
\* that changes them, and nothing else (while one save is made at a time).
KeepsTheTimeline == Timeline!Spec
TimelineStep == [Timeline!Next]_Plan
=============================================================================
