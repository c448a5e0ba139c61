----------------------- MODULE FinanceSettingsProofs -----------------------
(***************************************************************************)
(* Proofs about FinanceSettings, for any rules, values, saves, reads and   *)
(* processes, however they interleave.                                     *)
(*                                                                         *)
(* Inv, the inductive invariant: the types; the versions saved are         *)
(* numbered without a gap (Numbered), so that the newest is the largest    *)
(* number, and so are those a save is about to insert (SaveFine); and what *)
(* a read or a cache holds is not beaten by any version that was saved     *)
(* when the database was looked at, for dates before the next scheduled    *)
(* one (Current).  Numbers without a gap are what makes a later insert     *)
(* newer than anything looked at before.                                   *)
(*                                                                         *)
(* Planned, on top of it: with one save at a time what a save has read     *)
(* stays true until its rows are in.  Then the rows put in force what      *)
(* SettingsTimeline promises (MergeIsChange): a change is carried into the *)
(* scheduled versions exactly as long as the value it changes lasts        *)
(* (KeptLasts).                                                            *)
(***************************************************************************)
EXTENDS FinanceSettings, FiniteSetTheorems, WellFoundedInduction, TLAPS

Numbers(known, n) ==
    /\ \A r \in known : r.version \in 1..n
    /\ \A v \in 1..n : \E r \in known : r.version = v
Numbered == Latest(rows) \in Nat /\ Numbers(rows, Latest(rows))

\* Together with the versions known no number below that of a row to be inserted is left out.
NoGap(known, todo) ==
    \A r \in todo : \A v \in 1..r.version : \E s \in known \union todo : s.version = v

SaveFine(v, known) ==
    /\ v.pc \in {"later", "number"} => v.changed \subseteq DOMAIN v.patch
    /\ v.pc = "number" => IsFiniteSet(v.later) /\ \A r, s \in v.later : r.from = s.from => r = s
    /\ v.pc \in {"insert", "rest"} => v.todo # {} /\ NoGap(known, v.todo)

\* Among the versions numbered up to `seen' the one of `row' is in effect on every date before
\* `until' on which another one might be.
Current(row, until, seen) ==
    /\ row \subseteq rows /\ \A r, s \in row : r = s
    /\ seen \in 0..Latest(rows)
    /\ \A r \in rows, s \in row : r.version <= seen /\ r.from < until => ~Beats(r, s)

Inv ==
    /\ SettingsTypeOK
    /\ IsFiniteSet(rows) /\ Numbered
    /\ \A a \in Admins : SaveFine(save[a], rows)
    /\ \A q \in Reads : fill[q].pc = "next" => Current(fill[q].row, fill[q].when + 1, fill[q].seen)
    /\ \A p \in Processes : Current(cache[p].row, cache[p].until, cache[p].seen)

-----------------------------------------------------------------------------
(* The least and the newest.                                               *)

LEMMA LeastOf == ASSUME NEW S \in SUBSET Nat, S # {} PROVE \E w \in S : \A v \in S : w <= v
<1>1. PICK w \in S : \A v \in S : ~(<<v, w>> \in OpToRel(<, Nat))
  BY WFMin, NatLessThanWellFounded
<1>2. ASSUME NEW v \in S PROVE ~(v < w)
  <2>1. <<v, w>> \in Nat \X Nat
    OBVIOUS
  <2>2. <<v, w>>[1] = v /\ <<v, w>>[2] = w
    OBVIOUS
  <2>3. <<v, w>> \in OpToRel(<, Nat) <=> <<v, w>>[1] < <<v, w>>[2]
    BY <2>1, Zenon DEF OpToRel
  <2> QED
    BY <1>1, <2>2, <2>3, Zenon
<1>3. \A v \in S : w <= v
  BY <1>2
<1> QED
  BY <1>3

LEMMA MinOK == ASSUME NEW S \in SUBSET Nat, S # {} PROVE Min(S) \in S /\ \A v \in S : Min(S) <= v
BY LeastOf DEF Min

\* The newest of versions numbered from 1 to n is n.
LEMMA LatestOK ==
    ASSUME NEW known \in SUBSET Row, NEW n \in Nat, Numbers(known, n)
    PROVE  Latest(known) = n
<1>0. {r.version : r \in known} = 1..n
  BY DEF Numbers
<1>1. CASE n = 0
  <2>1. known = {}
    BY <1>1 DEF Numbers
  <2> QED
    BY <1>1, <2>1 DEF Latest
<1>2. CASE n # 0
  <2>1. n \in 1..n /\ known # {}
    BY <1>0, <1>2
  <2>2. \A v \in 1..n : n >= v
    OBVIOUS
  <2>3. \A v \in 1..n : (\A u \in 1..n : v >= u) => v = n
    BY <2>1
  <2>4. Max(1..n) = n
    BY <2>1, <2>2, <2>3 DEF Max
  <2> QED
    BY <1>0, <2>1, <2>4 DEF Latest
<1> QED
  BY <1>1, <1>2

\* Two versions that do not beat each other are the same.
LEMMA ActiveIsOne ==
    ASSUME Inv, NEW d \in Dates
    PROVE  /\ ActiveAt(rows, d) \subseteq rows
           /\ \A r, s \in ActiveAt(rows, d) : r = s
           /\ \A r \in rows, s \in ActiveAt(rows, d) : r.from <= d => ~Beats(r, s)
<1>1. \A r \in rows : r.version \in Nat /\ r.from \in Nat
  BY DEF Inv, SettingsTypeOK, Row, Dates
<1>2. ASSUME NEW r \in ActiveAt(rows, d), NEW s \in ActiveAt(rows, d) PROVE r = s
  <2>1. r \in rows /\ s \in rows /\ ~Beats(r, s) /\ ~Beats(s, r)
    BY DEF ActiveAt
  <2>2. r.version = s.version
    BY <1>1, <2>1 DEF Beats
  <2> QED
    BY <2>1, <2>2 DEF Inv, SettingsTypeOK
<1> QED
  BY <1>2 DEF ActiveAt

-----------------------------------------------------------------------------
(* The registers of saves and reads.                                       *)

LEMMA DefaultOK == Default \in Patches /\ Default \in [Fields -> Values] /\ SomeProcess \in Processes
<1>1. Default \in [Fields -> Values] /\ Fields \in (SUBSET Fields) \ {{}}
  BY RulesAssumption
<1>2. SomeProcess \in Processes
  BY ProcessesAssumption DEF SomeProcess
<1> QED
  BY <1>1, <1>2 DEF Patches

LEMMA NoSaveOK == NoSave \in Save /\ \A known : SaveFine(NoSave, known)
<1>1. NoSave \in Save
  BY DefaultOK, DatesAssumption DEF NoSave, Save, Dates
<1> QED
  BY <1>1 DEF NoSave, SaveFine

LEMMA NoFillOK == NoFill \in Read /\ NoFill.pc = "idle"
BY DefaultOK, DatesAssumption DEF NoFill, Read, Dates

\* A cache that serves nothing.
LEMMA EmptyOK ==
    ASSUME Latest(rows) \in Nat
    PROVE  /\ Empty \in [row : SUBSET Row, until : Nat, seen : Nat]
           /\ Current(Empty.row, Empty.until, Empty.seen)
BY DEF Empty, Current

\* Before anything is saved or read the invariant holds.
THEOREM InitInv == SettingsInit => Inv
<1> SUFFICES ASSUME SettingsInit PROVE Inv
  OBVIOUS
<1>1. rows = {} /\ now \in Dates /\ Latest(rows) = 0 /\ IsFiniteSet(rows)
  BY DatesAssumption, FS_EmptySet DEF SettingsInit, Dates, Latest
<1>2. Numbered
  BY <1>1 DEF Numbered, Numbers
<1>3. \A p \in Processes : cache[p] = Empty
  BY DEF SettingsInit
<1>4. SettingsTypeOK
  <2>1. \A p \in Processes : cache[p].row = {}
    BY <1>3 DEF Empty
  <2>2. cache \in [Processes -> [row : SUBSET Row, until : Nat, seen : Nat]]
    BY <1>1, EmptyOK DEF SettingsInit
  <2>3. save \in [Admins -> Save] /\ \A a \in Admins : save[a].pc = "idle"
    BY NoSaveOK DEF SettingsInit, NoSave
  <2>4. fill \in [Reads -> Read]
    BY NoFillOK DEF SettingsInit
  <2> QED
    BY <1>1, <2>1, <2>2, <2>3, <2>4 DEF SettingsTypeOK
<1>5. \A a \in Admins : SaveFine(save[a], rows)
  BY NoSaveOK DEF SettingsInit
<1>6. \A q \in Reads : fill[q].pc # "next"
  BY NoFillOK DEF SettingsInit
<1>7. \A p \in Processes : Current(cache[p].row, cache[p].until, cache[p].seen)
  BY <1>1, <1>3, EmptyOK
<1> QED
  BY <1>1, <1>2, <1>4, <1>5, <1>6, <1>7 DEF Inv

\* A read goes on and nothing else changes.
LEMMA ReadOn ==
    ASSUME Inv, UNCHANGED <<rows, now, cache, save>>, NEW q \in Reads, NEW v \in Read,
           fill' = [fill EXCEPT ![q] = v], v.pc = "next" => Current(v.row, v.when + 1, v.seen)
    PROVE  Inv'
<1>1. fill \in [Reads -> Read]
  BY DEF Inv, SettingsTypeOK
<1>2. fill' \in [Reads -> Read] /\ fill'[q] = v /\ \A r \in Reads : r # q => fill'[r] = fill[r]
  BY <1>1
<1>3. \A row, until, seen : Current(row, until, seen)' <=> Current(row, until, seen)
  BY DEF Current
<1>4. \A r \in Reads : fill'[r].pc = "next" => Current(fill'[r].row, fill'[r].when + 1, fill'[r].seen)
  BY <1>2 DEF Inv
<1>5. \A r \in Reads : fill'[r].pc = "next" => Current(fill[r].row, fill[r].when + 1, fill[r].seen)'
  BY <1>3, <1>4
<1>6. \A p \in Processes : Current(cache[p].row, cache[p].until, cache[p].seen)'
  BY <1>3 DEF Inv
<1>7. SettingsTypeOK' /\ Numbered' /\ IsFiniteSet(rows')
  BY <1>2 DEF Inv, SettingsTypeOK, Numbered
<1>8. \A a \in Admins : SaveFine(save'[a], rows')
  BY DEF Inv
<1> QED
  BY <1>5, <1>6, <1>7, <1>8 DEF Inv

\* A save goes on and nothing else changes.
LEMMA SaveOn ==
    ASSUME Inv, UNCHANGED <<rows, now, cache, fill>>, NEW a \in Admins, NEW v \in Save,
           save' = [save EXCEPT ![a] = v], SaveFine(v, rows)
    PROVE  Inv'
<1>1. save \in [Admins -> Save]
  BY DEF Inv, SettingsTypeOK
<1>2. save' \in [Admins -> Save] /\ save'[a] = v /\ \A b \in Admins : b # a => save'[b] = save[b]
  BY <1>1
<1>3. \A row, until, seen : Current(row, until, seen)' <=> Current(row, until, seen)
  BY DEF Current
<1>4. \A b \in Admins : SaveFine(save'[b], rows')
  BY <1>2 DEF Inv
<1>5. \A b \in Admins : save'[b].pc \in {"insert", "rest"} => save'[b].todo # {}
  BY <1>4 DEF SaveFine
<1>6. \A p \in Processes : Current(cache[p].row, cache[p].until, cache[p].seen)'
  BY <1>3 DEF Inv
<1>7. \A q \in Reads : fill'[q].pc = "next" => Current(fill[q].row, fill[q].when + 1, fill[q].seen)'
  BY <1>3 DEF Inv
<1>8. SettingsTypeOK' /\ Numbered' /\ IsFiniteSet(rows')
  BY <1>2, <1>5 DEF Inv, SettingsTypeOK, Numbered
<1> QED
  BY <1>4, <1>6, <1>7, <1>8 DEF Inv

-----------------------------------------------------------------------------
(* A version is added.                                                     *)

\* What the next version leaves as it was.
LEMMA Grows ==
    ASSUME Inv, NEW x \in Row, x.version = Latest(rows) + 1, rows' = rows \union {x}
    PROVE  /\ rows' \subseteq Row /\ \A r, s \in rows' : r.version = s.version => r = s
           /\ IsFiniteSet(rows') /\ Numbered' /\ Latest(rows)' = x.version
           /\ \A row, until, seen : Current(row, until, seen) => Current(row, until, seen)'
           /\ \A v : SaveFine(v, rows) => SaveFine(v, rows')
<1> DEFINE n == Latest(rows)
<1>1. n \in Nat /\ Numbers(rows, n) /\ rows \subseteq Row /\ IsFiniteSet(rows)
  BY DEF Inv, Numbered, SettingsTypeOK
<1>2. \A r \in rows : r.version \in 1..n
  BY <1>1 DEF Numbers
<1>3. rows' \subseteq Row /\ \A r, s \in rows' : r.version = s.version => r = s
  <2>1. \A r, s \in rows : r.version = s.version => r = s
    BY DEF Inv, SettingsTypeOK
  <2> QED
    BY <1>1, <1>2, <2>1
<1>4. IsFiniteSet(rows')
  BY <1>1, FS_AddElement
<1>5. Numbers(rows', n + 1)
  <2>1. \A v \in 1..n + 1 : v = n + 1 \/ v \in 1..n
    BY <1>1
  <2> QED
    BY <1>1, <2>1 DEF Numbers
<1>6. Latest(rows') = n + 1
  <2>1. n + 1 \in Nat /\ rows' \in SUBSET Row
    BY <1>1, <1>3
  <2> QED
    BY <1>5, <2>1, LatestOK
<1>7. Numbered' /\ Latest(rows)' = x.version
  BY <1>1, <1>5, <1>6 DEF Numbered
<1>8. ASSUME NEW row, NEW until, NEW seen, Current(row, until, seen) PROVE Current(row, until, seen)'
  <2>1. row \subseteq rows' /\ (\A r, s \in row : r = s) /\ seen \in 0..n
    BY <1>8 DEF Current
  <2>2. seen \in 0..Latest(rows')
    BY <1>1, <1>6, <2>1
  <2>3. ASSUME NEW r \in rows', NEW s \in row, r.version <= seen, r.from < until PROVE ~Beats(r, s)
    <3>1. CASE r = x
      <4>1. r.version = n + 1
        BY <3>1
      <4> QED
        BY <1>1, <2>1, <2>3, <4>1
    <3>2. CASE r \in rows
      BY <1>8, <2>3, <3>2 DEF Current
    <3> QED
      BY <3>1, <3>2
  <2> QED
    BY <2>1, <2>2, <2>3 DEF Current
<1>9. \A v : SaveFine(v, rows) => SaveFine(v, rows')
  BY DEF SaveFine, NoGap
<1> QED
  BY <1>3, <1>4, <1>7, <1>8, <1>9

\* The invariant after a version was added or none, and one save or read went on.
LEMMA AddedOK ==
    ASSUME Inv, UNCHANGED now, NEW x \in Row,
           rows' = rows \/ (rows' = rows \union {x} /\ x.version = Latest(rows) + 1),
           save' \in [Admins -> Save], fill' \in [Reads -> Read],
           cache' \in [Processes -> [row : SUBSET Row, until : Nat, seen : Nat]],
           \A a \in Admins : save'[a] = save[a] \/ SaveFine(save'[a], rows'),
           \A q \in Reads : fill'[q] = fill[q] \/ fill'[q].pc # "next",
           \A p \in Processes : cache'[p] = cache[p] \/ cache'[p] = Empty
    PROVE  Inv'
<1>1. /\ rows' \subseteq Row /\ \A r, s \in rows' : r.version = s.version => r = s
      /\ IsFiniteSet(rows') /\ Numbered'
  <2>1. CASE rows' = rows
    BY <2>1 DEF Inv, SettingsTypeOK, Numbered
  <2>2. CASE rows' = rows \union {x} /\ x.version = Latest(rows) + 1
    BY <2>2, Grows
  <2> QED
    BY <2>1, <2>2
<1>2. \A row, until, seen : Current(row, until, seen) => Current(row, until, seen)'
  <2>1. CASE rows' = rows
    BY <2>1 DEF Current
  <2>2. CASE rows' = rows \union {x} /\ x.version = Latest(rows) + 1
    BY <2>2, Grows
  <2> QED
    BY <2>1, <2>2
<1>3. \A v : SaveFine(v, rows) => SaveFine(v, rows')
  BY Grows
<1>4. \A a \in Admins : SaveFine(save'[a], rows')
  BY <1>3 DEF Inv
<1>5. ASSUME NEW q \in Reads, fill'[q].pc = "next"
      PROVE  Current(fill[q].row, fill[q].when + 1, fill[q].seen)'
  <2>1. PICK v : v = fill[q] /\ v = fill'[q]
    BY <1>5
  <2>2. Current(v.row, v.when + 1, v.seen)
    BY <1>5, <2>1 DEF Inv
  <2>3. Current(v.row, v.when + 1, v.seen)'
    BY <1>2, <2>2
  <2> QED
    BY <2>1, <2>3
<1>6. ASSUME NEW p \in Processes PROVE Current(cache[p].row, cache[p].until, cache[p].seen)'
  <2>1. PICK v : v = cache'[p]
    OBVIOUS
  <2>2. CASE v = cache[p]
    <3>1. Current(v.row, v.until, v.seen)
      BY <2>2 DEF Inv
    <3> QED
      BY <1>2, <2>1, <3>1
  <2>3. CASE v = Empty
    <3>1. (Latest(rows) \in Nat)'
      BY <1>1 DEF Numbered
    <3>2. Current(v.row, v.until, v.seen)'
      BY <2>3, <3>1 DEF Empty, Current
    <3> QED
      BY <2>1, <3>2
  <2> QED
    BY <2>1, <2>2, <2>3
<1>7. \A p \in Processes : cache'[p].row \subseteq rows' /\ \A r, s \in cache'[p].row : r = s
  BY <1>6 DEF Current
<1>8. \A a \in Admins : save'[a].pc \in {"insert", "rest"} => save'[a].todo # {}
  BY <1>4 DEF SaveFine
<1>9. SettingsTypeOK'
  BY <1>1, <1>7, <1>8 DEF Inv, SettingsTypeOK
<1> QED
  BY <1>1, <1>4, <1>5, <1>6, <1>9 DEF Inv

-----------------------------------------------------------------------------
(* Reading what is in effect.                                              *)

LEMMA GetActiveOK == ASSUME Inv, NEW q \in Reads, NEW p \in Processes, GetActiveSettings(q, p) PROVE Inv'
<1> DEFINE v == [NoFill EXCEPT !.pc = "look", !.at = p, !.when = now]
<1>1. v \in Read /\ v.pc = "look"
  BY NoFillOK DEF Inv, SettingsTypeOK, Read, NoFill
<1>2. fill' = [fill EXCEPT ![q] = v] /\ UNCHANGED <<rows, now, cache, save>>
  BY DEF GetActiveSettings
<1> HIDE DEF v
<1> QED
  BY <1>1, <1>2, ReadOn

LEMMA LookOK == ASSUME Inv, NEW q \in Reads, Look(q) PROVE Inv'
<1> DEFINE active == ActiveAt(rows, fill[q].when)
           v == IF active = {} THEN [fill[q] EXCEPT !.pc = "seed"]
                ELSE [fill[q] EXCEPT !.pc = "next", !.row = active, !.seen = Latest(rows)]
<1>1. fill' = [fill EXCEPT ![q] = v] /\ UNCHANGED <<rows, now, cache, save>>
  BY DEF Look, Inv, SettingsTypeOK
<1>2. fill[q] \in Read /\ fill[q].when \in Dates /\ Latest(rows) \in Nat /\ rows \subseteq Row
  BY DEF Inv, SettingsTypeOK, Read, Numbered
<1>3. active \subseteq rows /\ (\A r, s \in active : r = s)
      /\ \A r \in rows, s \in active : r.from <= fill[q].when => ~Beats(r, s)
  BY <1>2, ActiveIsOne
<1>4. active \in SUBSET Row
  BY <1>2, <1>3
<1>5. CASE active = {}
  <2>1. v \in Read /\ v.pc = "seed"
    BY <1>2, <1>5 DEF Read
  <2> HIDE DEF v
  <2> QED
    BY <1>1, <2>1, ReadOn
<1>6. CASE active # {}
  <2> HIDE DEF active
  <2>1. v \in Read /\ v.row = active /\ v.seen = Latest(rows) /\ v.when = fill[q].when
    BY <1>2, <1>4, <1>6 DEF Read
  <2>2. \A r \in rows : r.from \in Nat
    BY <1>2 DEF Row, Dates
  <2>3. Current(v.row, v.when + 1, v.seen)
    <3>1. v.when \in Nat
      BY <1>2, <2>1 DEF Dates
    <3> HIDE DEF v
    <3>2. \A r \in rows : r.from < v.when + 1 => r.from <= fill[q].when
      BY <2>1, <2>2, <3>1
    <3> QED
      BY <1>2, <1>3, <2>1, <3>2 DEF Current
  <2> HIDE DEF v
  <2> QED
    BY <1>1, <2>1, <2>3, ReadOn
<1> QED
  BY <1>5, <1>6

\* The seed is the first version, if there is none.
LEMMA SeededOK ==
    ASSUME Inv
    PROVE  \E x \in Row : \/ Seeded(rows) = rows
                          \/ Seeded(rows) = rows \union {x} /\ x.version = Latest(rows) + 1
<1> DEFINE x == [version |-> 1, from |-> 0, set |-> Default]
<1>1. x \in Row /\ x.version = 1
  BY DefaultOK, DatesAssumption DEF Row, Dates
<1>2. CASE \E r \in rows : r.version = 1
  BY <1>1, <1>2 DEF Seeded
<1>3. CASE ~\E r \in rows : r.version = 1
  <2>1. Latest(rows) = 0
    BY <1>3 DEF Inv, Numbered, Numbers
  <2>2. Seeded(rows) = rows \union {x}
    BY <1>3 DEF Seeded
  <2> QED
    BY <1>1, <2>1, <2>2
<1> QED
  BY <1>2, <1>3

LEMMA SeedReadOK == ASSUME Inv, NEW q \in Reads, SeedRead(q) PROVE Inv'
<1>1. PICK x \in Row : rows' = rows \/ (rows' = rows \union {x} /\ x.version = Latest(rows) + 1)
  BY SeededOK DEF SeedRead
<1>2. fill \in [Reads -> Read]
  BY DEF Inv, SettingsTypeOK
<1>3. fill' \in [Reads -> Read] /\ \A r \in Reads : fill'[r] = fill[r] \/ fill'[r].pc # "next"
  <2>1. [fill[q] EXCEPT !.pc = "look"] \in Read
    BY <1>2 DEF Read
  <2>2. fill' = [fill EXCEPT ![q] = [fill[q] EXCEPT !.pc = "look"]]
    BY <1>2 DEF SeedRead
  <2>3. \A r \in Reads : fill'[r] = IF r = q THEN [fill[q] EXCEPT !.pc = "look"] ELSE fill[r]
    BY <1>2, <2>2
  <2>4. [fill[q] EXCEPT !.pc = "look"].pc = "look"
    BY <1>2 DEF Read
  <2> QED
    BY <1>2, <2>1, <2>2, <2>3, <2>4
<1>4. UNCHANGED <<now, cache, save>>
  BY DEF SeedRead
<1>5. save' \in [Admins -> Save] /\ cache' \in [Processes -> [row : SUBSET Row, until : Nat, seen : Nat]]
  BY <1>4 DEF Inv, SettingsTypeOK
<1> QED
  BY <1>1, <1>3, <1>4, <1>5, AddedOK

\* A cache ends no later than the next scheduled version begins.
LEMMA CacheUntilOK ==
    ASSUME Inv, NEW d \in Dates
    PROVE  CacheUntil(d) \in Nat /\ \A r \in rows : r.from < CacheUntil(d) => r.from <= d
<1> DEFINE S == {now + CacheTime} \union {r.from : r \in {s \in rows : s.from > d}}
<1>1. now + CacheTime \in Nat /\ \A r \in rows : r.from \in Nat
  BY DatesAssumption DEF Inv, SettingsTypeOK, Row, Dates
<1>2. S \in SUBSET Nat /\ S # {}
  BY <1>1
<1>3. ASSUME NEW r \in rows, r.from > d PROVE r.from \in S
  BY <1>3
<1>4. CacheUntil(d) = Min(S)
  BY DEF CacheUntil
<1> HIDE DEF S
<1>5. Min(S) \in Nat /\ \A x \in S : Min(S) <= x
  BY <1>2, MinOK
<1>6. d \in Nat
  BY DEF Dates
<1>7. ASSUME NEW r \in rows, r.from < CacheUntil(d) PROVE r.from <= d
  BY <1>1, <1>3, <1>4, <1>5, <1>6, <1>7
<1> QED
  BY <1>4, <1>5, <1>7

LEMMA FillOK == ASSUME Inv, NEW q \in Reads, Fill(q) PROVE Inv'
<1> DEFINE v == fill[q]
           c == [row |-> v.row, until |-> CacheUntil(v.when), seen |-> v.seen]
<1>1. v \in Read /\ v.at \in Processes /\ v.when \in Dates /\ v.when \in Nat /\ v.row \in SUBSET Row /\ v.seen \in Nat
  BY DEF Inv, SettingsTypeOK, Read, Dates
<1>2. Current(v.row, v.when + 1, v.seen)
  BY DEF Fill, Inv
<1>3. CacheUntil(v.when) \in Nat /\ \A r \in rows : r.from < CacheUntil(v.when) => r.from <= v.when
  BY <1>1, CacheUntilOK
<1>4. \A r \in rows : r.from \in Nat
  BY DEF Inv, SettingsTypeOK, Row, Dates
<1>5. c.row = v.row /\ c.until = CacheUntil(v.when) /\ c.seen = v.seen
      /\ c \in [row : SUBSET Row, until : Nat, seen : Nat]
  BY <1>1, <1>3
<1>6. cache' = [cache EXCEPT ![v.at] = c] /\ fill' = [fill EXCEPT ![q] = NoFill] /\ UNCHANGED <<rows, now, save>>
  BY DEF Fill
<1> HIDE DEF v, c
<1>7. Current(c.row, c.until, c.seen)
  <2>1. \A r \in rows : r.from < c.until => r.from < v.when + 1
    BY <1>1, <1>3, <1>4, <1>5
  <2> QED
    BY <1>2, <1>5, <2>1 DEF Current
<1>8. /\ cache' \in [Processes -> [row : SUBSET Row, until : Nat, seen : Nat]]
      /\ \A p \in Processes : cache'[p] = IF p = v.at THEN c ELSE cache[p]
  BY <1>1, <1>5, <1>6 DEF Inv, SettingsTypeOK
<1>9. fill' \in [Reads -> Read] /\ \A r \in Reads : fill'[r] = IF r = q THEN NoFill ELSE fill[r]
  BY <1>6, NoFillOK DEF Inv, SettingsTypeOK
<1>10. \A row, until, seen : Current(row, until, seen)' <=> Current(row, until, seen)
  BY <1>6 DEF Current
<1>11. \A p \in Processes : Current(cache'[p].row, cache'[p].until, cache'[p].seen)
  BY <1>7, <1>8 DEF Inv
<1>12. \A p \in Processes : Current(cache[p].row, cache[p].until, cache[p].seen)'
  BY <1>10, <1>11
<1>13. ASSUME NEW r \in Reads, fill'[r].pc = "next" PROVE Current(fill[r].row, fill[r].when + 1, fill[r].seen)'
  <2>1. fill'[r] = fill[r]
    BY <1>9, <1>13, NoFillOK
  <2> QED
    BY <1>10, <1>13, <2>1 DEF Inv
<1>14. \A p \in Processes : cache'[p].row \subseteq rows /\ \A r, s \in cache'[p].row : r = s
  BY <1>11 DEF Current
<1>15. SettingsTypeOK' /\ IsFiniteSet(rows') /\ Numbered'
  BY <1>6, <1>8, <1>9, <1>14 DEF Inv, SettingsTypeOK, Numbered
<1>16. \A a \in Admins : SaveFine(save'[a], rows')
  BY <1>6 DEF Inv
<1> QED
  BY <1>12, <1>13, <1>15, <1>16 DEF Inv

-----------------------------------------------------------------------------
(* A save up to its inserts.                                               *)

\* What is asked for names rules and gives them values.
LEMMA PatchOK ==
    ASSUME NEW patch \in Patches
    PROVE  DOMAIN patch \subseteq Fields /\ \A g \in DOMAIN patch : patch[g] \in Values
BY DEF Patches

LEMMA SaveTyped ==
    ASSUME Inv, NEW a \in Admins
    PROVE  /\ save[a] \in Save /\ save[a].at \in Processes /\ save[a].patch \in Patches
           /\ save[a].when \in Dates /\ save[a].attempt \in 1..3 /\ save[a].base \in [Fields -> Values]
           /\ save[a].changed \in SUBSET Fields /\ save[a].later \in SUBSET Row /\ save[a].todo \in SUBSET Row
           /\ SaveFine(save[a], rows)
<1>1. save[a] \in Save /\ SaveFine(save[a], rows)
  BY DEF Inv, SettingsTypeOK
<1> QED
  BY <1>1 DEF Save

LEMMA CreateVersionOK ==
    ASSUME Inv, NEW a \in Admins, NEW p \in Processes, NEW patch \in Patches, NEW w \in Dates,
           CreateVersion(a, p, patch, w)
    PROVE  Inv'
<1> DEFINE v == [NoSave EXCEPT !.pc = "base", !.at = p, !.patch = patch, !.when = w]
<1>1. v \in Save /\ v.pc = "base"
  BY NoSaveOK DEF Save, NoSave
<1>2. save' = [save EXCEPT ![a] = v] /\ UNCHANGED <<rows, now, cache, fill>>
  BY DEF CreateVersion
<1> HIDE DEF v
<1>3. SaveFine(v, rows)
  BY <1>1 DEF SaveFine
<1> QED
  BY <1>1, <1>2, <1>3, SaveOn

LEMMA ReadBaseOK == ASSUME Inv, NEW a \in Admins, ReadBase(a) PROVE Inv'
<1> DEFINE s == save[a]
           active == ActiveAt(rows, s.when)
           base == (CHOOSE r \in active : TRUE).set
           changed == {g \in DOMAIN s.patch : s.patch[g] # base[g]}
           v == IF active = {} THEN [s EXCEPT !.pc = "seed"]
                ELSE IF changed = {} THEN NoSave
                ELSE [s EXCEPT !.pc = "later", !.base = base, !.changed = changed]
<1>1. save' = [save EXCEPT ![a] = v] /\ UNCHANGED <<rows, now, cache, fill>>
  BY DEF ReadBase, Inv, SettingsTypeOK
<1>2. s \in Save /\ s.patch \in Patches /\ s.when \in Dates
  BY SaveTyped
<1>3. CASE active = {}
  <2>1. v \in Save /\ v.pc = "seed"
    BY <1>2, <1>3 DEF Save
  <2> HIDE DEF v
  <2>2. SaveFine(v, rows)
    BY <2>1 DEF SaveFine
  <2> QED
    BY <1>1, <2>1, <2>2, SaveOn
<1>4. CASE active # {} /\ changed = {}
  <2>1. v = NoSave
    BY <1>4
  <2> HIDE DEF v
  <2> QED
    BY <1>1, <2>1, NoSaveOK, SaveOn
<1>5. CASE active # {} /\ changed # {}
  <2>1. base \in [Fields -> Values]
    <3>1. active \subseteq rows
      BY <1>2, ActiveIsOne
    <3>2. rows \subseteq Row
      BY DEF Inv, SettingsTypeOK
    <3> HIDE DEF active
    <3>3. (CHOOSE r \in active : TRUE) \in Row
      BY <1>5, <3>1, <3>2
    <3> QED
      BY <3>3 DEF Row
  <2>2. changed \in SUBSET Fields /\ changed \subseteq DOMAIN s.patch
    BY <1>2, PatchOK
  <2> HIDE DEF base, changed
  <2>3. v = [s EXCEPT !.pc = "later", !.base = base, !.changed = changed]
    BY <1>5
  <2> HIDE DEF v, s
  <2>4. v \in Save /\ v.pc = "later" /\ v.changed = changed /\ v.patch = s.patch
    BY <1>2, <2>1, <2>2, <2>3 DEF Save
  <2>5. SaveFine(v, rows)
    BY <2>2, <2>4 DEF SaveFine
  <2> QED
    BY <1>1, <2>4, <2>5, SaveOn
<1> QED
  BY <1>3, <1>4, <1>5

LEMMA SeedSaveOK == ASSUME Inv, NEW a \in Admins, SeedSave(a) PROVE Inv'
<1> DEFINE v == [save[a] EXCEPT !.pc = "base"]
<1>1. PICK x \in Row : rows' = rows \/ (rows' = rows \union {x} /\ x.version = Latest(rows) + 1)
  BY SeededOK DEF SeedSave
<1>2. v \in Save /\ v.pc = "base"
  BY SaveTyped DEF Save
<1>3. save' = [save EXCEPT ![a] = v] /\ UNCHANGED <<now, cache, fill>>
  BY DEF SeedSave
<1> HIDE DEF v
<1>4. save' \in [Admins -> Save] /\ \A b \in Admins : save'[b] = save[b] \/ save'[b] = v
  BY <1>2, <1>3 DEF Inv, SettingsTypeOK
<1>5. SaveFine(v, rows')
  BY <1>2 DEF SaveFine
<1>6. fill' \in [Reads -> Read] /\ cache' \in [Processes -> [row : SUBSET Row, until : Nat, seen : Nat]]
  BY <1>3 DEF Inv, SettingsTypeOK
<1> QED
  BY <1>1, <1>3, <1>4, <1>5, <1>6, AddedOK

LEMMA ReadLaterOK == ASSUME Inv, NEW a \in Admins, ReadLater(a) PROVE Inv'
<1> DEFINE later == LaterThan(save[a].when)
           v == [save[a] EXCEPT !.pc = "number", !.later = later]
<1>1. save' = [save EXCEPT ![a] = v] /\ UNCHANGED <<rows, now, cache, fill>> /\ save[a].pc = "later"
  BY DEF ReadLater
<1>2. later \subseteq rows /\ rows \subseteq Row /\ IsFiniteSet(rows)
  BY DEF LaterThan, Inv, SettingsTypeOK
<1>3. IsFiniteSet(later)
  BY <1>2, FS_Subset
<1>4. ASSUME NEW r \in later, NEW s \in later, r.from = s.from PROVE r = s
  <2>1. r.version <= s.version /\ s.version <= r.version /\ r \in rows /\ s \in rows
    BY <1>4 DEF LaterThan
  <2>2. r.version = s.version
    BY <1>2, <2>1 DEF Row
  <2> QED
    BY <2>1, <2>2 DEF Inv, SettingsTypeOK
<1> HIDE DEF later
<1>5. /\ v \in Save /\ v.pc = "number" /\ v.later = later
      /\ v.changed = save[a].changed /\ v.patch = save[a].patch
  BY <1>2, SaveTyped DEF Save
<1>6. save[a].changed \subseteq DOMAIN save[a].patch
  BY <1>1, SaveTyped DEF SaveFine
<1> HIDE DEF v
<1>7. SaveFine(v, rows)
  BY <1>3, <1>4, <1>5, <1>6 DEF SaveFine
<1> QED
  BY <1>1, <1>5, <1>7, SaveOn

-----------------------------------------------------------------------------
(* The numbers of the rows a save inserts.                                 *)

\* How many of the rows in C are of r's date or before.
Rank(C, r) == Cardinality({e \in C : e.from <= r.from})

LEMMA RankType ==
    ASSUME NEW C, IsFiniteSet(C), NEW r \in C, r.from \in Nat
    PROVE  Rank(C, r) \in Nat \ {0}
<1> DEFINE A == {e \in C : e.from <= r.from}
<1>1. IsFiniteSet(A) /\ r \in A
  BY FS_Subset
<1>2. Cardinality(A) \in Nat /\ Cardinality(A) # 0
  BY <1>1, FS_CardinalityType, FS_EmptySet
<1> QED
  BY <1>2 DEF Rank

\* The row before r, when there is one.
LEMMA RankBefore ==
    ASSUME NEW C \in SUBSET Row, IsFiniteSet(C), \A r, s \in C : r.from = s.from => r = s,
           NEW r \in C, Rank(C, r) > 1
    PROVE  \E s \in C : Rank(C, s) = Rank(C, r) - 1
<1> DEFINE A == {e \in C : e.from <= r.from}
           B == A \ {r}
           E == {r.from - e.from : e \in B}
<1>0. \A e \in C : e.from \in Nat
  BY DEF Row, Dates
<1>1. IsFiniteSet(A) /\ r \in A /\ Cardinality(A) = Rank(C, r) /\ Rank(C, r) \in Nat
  BY <1>0, FS_Subset, RankType DEF Rank
<1>2. IsFiniteSet(B) /\ Cardinality(B) = Rank(C, r) - 1
  <2> HIDE DEF A
  <2> QED
    BY <1>1, FS_RemoveElement
<1>3. B # {}
  BY <1>1, <1>2, FS_EmptySet
<1>4. E \in SUBSET Nat /\ E # {}
  BY <1>0, <1>3
<1>5. PICK d \in E : \A x \in E : d <= x
  <2> HIDE DEF E
  <2> QED
    BY <1>4, LeastOf
<1>6. PICK s \in B : d = r.from - s.from
  BY <1>5
<1>7. s \in C /\ s.from < r.from
  BY <1>0, <1>6
<1>8. ASSUME NEW e \in B PROVE e.from <= s.from
  <2>1. r.from - e.from \in E
    BY <1>8
  <2>2. r.from - s.from <= r.from - e.from
    BY <1>5, <1>6, <2>1
  <2> QED
    BY <1>0, <1>7, <2>2
<1>9. \A e \in C : e.from <= s.from => e \in B
  BY <1>0, <1>7
<1>10. {e \in C : e.from <= s.from} = B
  BY <1>8, <1>9
<1> HIDE DEF B
<1> QED
  BY <1>2, <1>7, <1>10 DEF Rank

LEMMA RanksOK ==
    ASSUME NEW C \in SUBSET Row, IsFiniteSet(C), \A r, s \in C : r.from = s.from => r = s,
           NEW r \in C, NEW k \in 1..Rank(C, r)
    PROVE  \E s \in C : Rank(C, s) = k
<1> DEFINE K == {j \in Nat : j < Rank(C, r) /\ ~\E s \in C : Rank(C, s) = Rank(C, r) - j}
<1>1. \A s \in C : Rank(C, s) \in Nat \ {0}
  BY RankType DEF Row, Dates
<1>2. CASE K = {}
  <2>1. PICK n \in Nat : n = Rank(C, r) /\ k \in 1..n
    BY <1>1
  <2>2. n - k \in Nat /\ n - k < n /\ n - (n - k) = k
    BY <2>1
  <2> QED
    BY <1>2, <2>1, <2>2
<1>3. CASE K # {}
  <2>1. K \in SUBSET Nat
    OBVIOUS
  <2>2. PICK m \in K : \A j \in K : m <= j
    <3> HIDE DEF K
    <3> QED
      BY <1>3, <2>1, LeastOf
  <2>3. PICK n \in Nat : n = Rank(C, r)
    BY <1>1
  <2>4. m \in Nat /\ m < n /\ ~\E s \in C : Rank(C, s) = n - m
    BY <2>2, <2>3
  <2>5. m # 0
    BY <2>3, <2>4
  <2>6. m - 1 \in Nat /\ m - 1 < n /\ m - 1 \notin K
    BY <2>2, <2>4, <2>5
  <2>7. PICK s \in C : Rank(C, s) = n - (m - 1)
    BY <2>3, <2>6
  <2>8. Rank(C, s) > 1 /\ Rank(C, s) - 1 = n - m
    BY <2>4, <2>7
  <2> QED
    BY <2>4, <2>8, RankBefore
<1> QED
  BY <1>2, <1>3

\* The rows to be inserted are versions, and follow on the newest one.
LEMMA NewRowsOK ==
    ASSUME Inv, NEW s \in Save, SaveFine(s, rows), s.pc = "number"
    PROVE  LET new == NewRows(s, Latest(rows))
           IN  new \in SUBSET Row /\ new # {} /\ NoGap(rows, new)
<1> DEFINE n == Latest(rows)
           carried == {r \in s.later : Kept(s, r) # {}}
           First == [version |-> n + 1, from |-> s.when, set |-> Patched(s.base, s.patch, s.changed)]
           Again(r) == [version |-> n + 1 + Rank(carried, r), from |-> r.from,
                        set |-> Patched(r.set, s.patch, Kept(s, r))]
           new == {First} \union {Again(r) : r \in carried}
<1>1. new = NewRows(s, n)
  BY DEF NewRows, Rank
<1>2. /\ s.patch \in Patches /\ s.when \in Dates /\ s.base \in [Fields -> Values]
      /\ s.later \in SUBSET Row /\ s.changed \subseteq DOMAIN s.patch
  BY DEF Save, SaveFine
<1>3. carried \in SUBSET Row /\ IsFiniteSet(carried) /\ \A r, e \in carried : r.from = e.from => r = e
  BY <1>2, FS_Subset DEF SaveFine
<1>4. ASSUME NEW set \in [Fields -> Values], NEW fields, fields \subseteq s.changed
      PROVE  Patched(set, s.patch, fields) \in [Fields -> Values]
  BY <1>2, <1>4, PatchOK DEF Patched
<1>5. n \in Nat /\ Numbers(rows, n)
  BY DEF Inv, Numbered
<1> HIDE DEF n
<1>6. First \in Row
  BY <1>2, <1>4, <1>5 DEF Row
<1>7. ASSUME NEW r \in carried PROVE Again(r) \in Row /\ Rank(carried, r) \in Nat \ {0}
  <2>1. r.from \in Dates /\ r.from \in Nat /\ r.set \in [Fields -> Values] /\ Kept(s, r) \subseteq s.changed
    BY <1>3 DEF Row, Dates, Kept
  <2>2. Rank(carried, r) \in Nat \ {0}
    <3> HIDE DEF carried
    <3> QED
      BY <1>3, <2>1, RankType
  <2>3. Patched(r.set, s.patch, Kept(s, r)) \in [Fields -> Values]
    BY <1>4, <2>1
  <2> HIDE DEF carried
  <2> QED
    BY <1>5, <2>1, <2>2, <2>3 DEF Row
<1>8. new \in SUBSET Row /\ new # {}
  BY <1>6, <1>7
<1>9. ASSUME NEW x \in new, NEW u \in 1..x.version PROVE \E y \in rows \union new : y.version = u
  <2>1. x.version \in Nat /\ u \in Nat
    <3> HIDE DEF new
    <3>1. x \in Row
      BY <1>8
    <3>2. x.version \in Nat
      BY <3>1 DEF Row
    <3> QED
      BY <3>2
  <2>2. CASE u <= n
    BY <1>5, <2>1, <2>2 DEF Numbers
  <2>3. CASE u = n + 1
    <3>1. First.version = u
      BY <2>3
    <3> QED
      BY <3>1
  <2>4. CASE u > n + 1
    <3>1. x # First
      BY <1>5, <2>1, <2>4
    <3>2. PICK r \in carried : x = Again(r)
      BY <3>1
    <3> HIDE DEF carried
    <3>3. x.version = n + 1 + Rank(carried, r) /\ Rank(carried, r) \in Nat
      BY <1>7, <3>2
    <3>4. u - (n + 1) \in 1..Rank(carried, r)
      BY <1>5, <2>1, <2>4, <3>3
    <3>5. PICK e \in carried : Rank(carried, e) = u - (n + 1)
      BY <1>3, <3>4, RanksOK
    <3>6. Again(e).version = u /\ Again(e) \in new
      BY <1>5, <2>1, <3>5
    <3> QED
      BY <3>6
  <2> HIDE DEF new
  <2> QED
    BY <1>5, <2>1, <2>2, <2>3, <2>4
<1>10. NoGap(rows, new)
  BY <1>9 DEF NoGap
<1> HIDE DEF new
<1> QED
  BY <1>1, <1>8, <1>10 DEF n

LEMMA ReadLatestOK == ASSUME Inv, NEW a \in Admins, ReadLatest(a) PROVE Inv'
<1> DEFINE new == NewRows(save[a], Latest(rows))
           v == [save[a] EXCEPT !.pc = "insert", !.todo = new]
<1>1. save' = [save EXCEPT ![a] = v] /\ UNCHANGED <<rows, now, cache, fill>> /\ save[a].pc = "number"
  BY DEF ReadLatest
<1>2. new \in SUBSET Row /\ new # {} /\ NoGap(rows, new)
  BY <1>1, SaveTyped, NewRowsOK
<1> HIDE DEF new
<1>3. v \in Save /\ v.pc = "insert" /\ v.todo = new
  BY <1>2, SaveTyped DEF Save
<1> HIDE DEF v
<1>4. SaveFine(v, rows)
  BY <1>2, <1>3 DEF SaveFine
<1> QED
  BY <1>1, <1>3, <1>4, SaveOn

-----------------------------------------------------------------------------
(* The inserts.                                                            *)

LEMMA OldestOK ==
    ASSUME NEW todo \in SUBSET Row, todo # {}
    PROVE  Oldest(todo) \in todo /\ \A s \in todo : Oldest(todo).version <= s.version
<1> DEFINE E == {r.version : r \in todo}
<1>1. E \in SUBSET Nat /\ E # {}
  BY DEF Row
<1>2. PICK d \in E : \A x \in E : d <= x
  <2> HIDE DEF E
  <2> QED
    BY <1>1, LeastOf
<1>3. PICK r \in todo : d = r.version
  BY <1>2
<1>4. \A s \in todo : r.version <= s.version
  BY <1>2, <1>3
<1> QED
  BY <1>3, <1>4 DEF Oldest

\* The row inserted is numbered next, or its number was taken.
LEMMA OldestIsNext ==
    ASSUME Inv, NEW todo \in SUBSET Row, todo # {}, NoGap(rows, todo),
           \A r \in rows : r.version # Oldest(todo).version
    PROVE  Oldest(todo).version = Latest(rows) + 1
<1>1. PICK n \in Nat : n = Latest(rows) /\ Numbers(rows, n)
  BY DEF Inv, Numbered
<1>2. PICK x \in todo : x = Oldest(todo) /\ \A s \in todo : x.version <= s.version
  BY OldestOK
<1>3. x.version \in Nat \ {0}
  BY DEF Row
<1>4. x.version \notin 1..n
  BY <1>1, <1>2 DEF Numbers
<1>5. ASSUME x.version > n + 1 PROVE FALSE
  <2>1. n + 1 \in 1..x.version
    BY <1>3, <1>5
  <2>2. PICK s \in rows \union todo : s.version = n + 1
    BY <2>1 DEF NoGap
  <2>3. s \notin todo
    BY <1>2, <1>3, <1>5, <2>2
  <2>4. s.version \in 1..n
    BY <1>1, <2>2, <2>3 DEF Numbers
  <2> QED
    BY <2>2, <2>4
<1> QED
  BY <1>1, <1>2, <1>3, <1>4, <1>5

LEMMA InsertOK == ASSUME Inv, NEW a \in Admins, Insert(a) PROVE Inv'
<1> DEFINE todo == save[a].todo
           x == Oldest(todo)
           left == todo \ {x}
           v == IF left = {} THEN NoSave ELSE [save[a] EXCEPT !.todo = left, !.pc = "rest"]
<1>1. todo \in SUBSET Row /\ todo # {} /\ NoGap(rows, todo)
  BY SaveTyped DEF Insert, SaveFine
<1>2. /\ \A r \in rows : r.version # x.version
      /\ rows' = rows \union {x}
      /\ save' = [save EXCEPT ![a] = v]
      /\ cache' = IF left = {} THEN [cache EXCEPT ![save[a].at] = Empty] ELSE cache
      /\ UNCHANGED <<now, fill>>
  BY DEF Insert, Inv, SettingsTypeOK
<1>3. x \in todo /\ x \in Row /\ x.version = Latest(rows) + 1
  BY <1>1, <1>2, OldestOK, OldestIsNext
<1>4. v \in Save /\ SaveFine(v, rows')
  <2>1. CASE left = {}
    BY <2>1, NoSaveOK
  <2>2. CASE left # {}
    <3>1. left \in SUBSET Row /\ rows' \union left = rows \union todo
      BY <1>1, <1>2, <1>3
    <3>2. NoGap(rows', left)
      BY <1>1, <3>1 DEF NoGap
    <3> HIDE DEF left
    <3>3. v \in Save /\ v.todo = left /\ v.pc = "rest"
      BY <2>2, <3>1, SaveTyped DEF Save
    <3> HIDE DEF v
    <3> QED
      BY <2>2, <3>2, <3>3 DEF SaveFine
  <2> QED
    BY <2>1, <2>2
<1> HIDE DEF v, left
<1>5. save' \in [Admins -> Save] /\ \A b \in Admins : save'[b] = save[b] \/ SaveFine(save'[b], rows')
  <2>1. \A b \in Admins : save'[b] = IF b = a THEN v ELSE save[b]
    BY <1>2 DEF Inv, SettingsTypeOK
  <2>2. save' \in [Admins -> Save]
    BY <1>2, <1>4 DEF Inv, SettingsTypeOK
  <2> QED
    BY <1>4, <2>1, <2>2
<1>6. /\ cache' \in [Processes -> [row : SUBSET Row, until : Nat, seen : Nat]]
      /\ \A p \in Processes : cache'[p] = cache[p] \/ cache'[p] = Empty
  <2>1. cache \in [Processes -> [row : SUBSET Row, until : Nat, seen : Nat]]
    BY DEF Inv, SettingsTypeOK
  <2>2. Empty \in [row : SUBSET Row, until : Nat, seen : Nat]
    BY DEF Empty
  <2> QED
    BY <1>2, <2>1, <2>2
<1>7. fill' \in [Reads -> Read] /\ UNCHANGED fill
  BY <1>2 DEF Inv, SettingsTypeOK
<1> HIDE DEF x
<1> QED
  BY <1>2, <1>3, <1>5, <1>6, <1>7, AddedOK

LEMMA CollideOK == ASSUME Inv, NEW a \in Admins, Collide(a) PROVE Inv'
<1> DEFINE w == [NoSave EXCEPT !.pc = "base", !.at = save[a].at, !.patch = save[a].patch,
                               !.when = save[a].when, !.attempt = save[a].attempt + 1]
<1>1. CASE save[a].attempt = 3
  <2>1. save' = [save EXCEPT ![a] = NoSave] /\ UNCHANGED <<rows, now, cache, fill>>
    BY <1>1 DEF Collide, Inv, SettingsTypeOK
  <2> QED
    BY <2>1, NoSaveOK, SaveOn
<1>2. CASE save[a].attempt # 3
  <2>1. save' = [save EXCEPT ![a] = w] /\ UNCHANGED <<rows, now, cache, fill>>
    BY <1>2 DEF Collide, Inv, SettingsTypeOK
  <2>2. save[a].attempt + 1 \in 1..3
    BY <1>2, SaveTyped
  <2>3. w \in Save /\ w.pc = "base"
    BY <2>2, SaveTyped, NoSaveOK DEF Save, NoSave
  <2> HIDE DEF w
  <2>4. SaveFine(w, rows)
    BY <2>3 DEF SaveFine
  <2> QED
    BY <2>1, <2>3, <2>4, SaveOn
<1> QED
  BY <1>1, <1>2

-----------------------------------------------------------------------------
(* What follows.                                                           *)

\* Every step of an admin, a read and the clock keeps the invariant.
THEOREM StepInv == Inv /\ [SettingsNext]_settingsVars => Inv'
<1> SUFFICES ASSUME Inv, [SettingsNext]_settingsVars PROVE Inv'
  OBVIOUS
<1>1. CASE UNCHANGED settingsVars
  BY <1>1 DEF settingsVars, Inv, SettingsTypeOK, Numbered, SaveFine, Current
<1>2. ASSUME NEW q \in Reads, (\E p \in Processes : GetActiveSettings(q, p)) \/ Look(q) \/ SeedRead(q) \/ Fill(q)
      PROVE  Inv'
  BY <1>2, GetActiveOK, LookOK, SeedReadOK, FillOK
<1>3. ASSUME NEW a \in Admins,
             \/ \E p \in Processes, patch \in Patches, w \in Dates : CreateVersion(a, p, patch, w)
             \/ ReadBase(a) \/ SeedSave(a) \/ ReadLater(a) \/ ReadLatest(a) \/ Insert(a) \/ Collide(a)
      PROVE  Inv'
  BY <1>3, CreateVersionOK, ReadBaseOK, SeedSaveOK, ReadLaterOK, ReadLatestOK, InsertOK, CollideOK
<1>4. CASE SettingsTick
  <2>1. now' \in Dates /\ UNCHANGED <<rows, cache, save, fill>>
    BY <1>4, DatesAssumption DEF SettingsTick, Inv, SettingsTypeOK, Dates
  <2> QED
    BY <2>1 DEF Inv, SettingsTypeOK, Numbered, SaveFine, Current
<1> QED
  BY <1>1, <1>2, <1>3, <1>4 DEF SettingsNext

LEMMA Invariance == SettingsSpec => []Inv
BY InitInv, StepInv, PTL DEF SettingsSpec

\* The variables keep their types, and no two versions have the same number.
THEOREM TypeCorrect == SettingsSpec => []SettingsTypeOK
<1>1. Inv => SettingsTypeOK
  BY DEF Inv
<1> QED
  BY <1>1, Invariance, PTL

\* Versions are numbered one after the other, however many saves race, collide or stop half way.
THEOREM NumberedInTurn == SettingsSpec => [](\E n \in Nat : {r.version : r \in rows} = 1..n)
<1>1. Inv => \E n \in Nat : {r.version : r \in rows} = 1..n
  BY DEF Inv, Numbered, Numbers
<1> QED
  BY <1>1, Invariance, PTL

\* A cache never serves a version that another one, saved before the cache was filled, has
\* superseded by now: scheduled versions take effect on their date in every process.
THEOREM ServesCurrent == SettingsSpec => []ServedIsCurrent
<1>1. Inv => ServedIsCurrent
  <2> SUFFICES ASSUME Inv, NEW p \in Processes, cache[p].until > now, NEW r \in rows,
                      NEW served \in cache[p].row, r.from <= now, r.version <= cache[p].seen
               PROVE  ~Beats(r, served)
    BY DEF ServedIsCurrent
  <2>1. r.from \in Nat /\ now \in Nat /\ cache[p].until \in Nat
    BY DEF Inv, SettingsTypeOK, Row, Dates
  <2>2. r.from < cache[p].until
    BY <2>1
  <2> QED
    BY <2>2 DEF Inv, Current
<1> QED
  BY <1>1, Invariance, PTL

-----------------------------------------------------------------------------
(* SettingsTimeline.  One save at a time; r governs d when it is the last  *)
(* of the scheduled versions L due by d.                                   *)

\* What the versions known put in force for rule f on date d.
ValueOf(active, f) == IF active = {} THEN Default[f] ELSE (CHOOSE r \in active : TRUE).set[f]
Val(known, f, d) == ValueOf(ActiveAt(known, d), f)

Distinct(known) == \A r, s \in known : r.from = s.from /\ r.version = s.version => r = s

LEMMA ValIs ==
    ASSUME NEW known \in SUBSET Row, Distinct(known), NEW d \in Dates, NEW r \in ActiveAt(known, d), NEW f
    PROVE  Val(known, f, d) = r.set[f]
<1>1. ASSUME NEW s \in ActiveAt(known, d) PROVE s = r
  <2>1. r \in known /\ s \in known /\ ~Beats(r, s) /\ ~Beats(s, r)
    BY DEF ActiveAt
  <2>2. r.version \in Nat /\ s.version \in Nat /\ r.from \in Nat /\ s.from \in Nat
    BY <2>1 DEF Row, Dates
  <2>3. r.from = s.from /\ r.version = s.version
    BY <2>1, <2>2 DEF Beats
  <2> QED
    BY <2>1, <2>3 DEF Distinct
<1>2. (CHOOSE s \in ActiveAt(known, d) : TRUE) = r
  BY <1>1
<1> QED
  BY <1>2 DEF Val, ValueOf

LEMMA RowsOK ==
    ASSUME Inv
    PROVE  /\ rows \in SUBSET Row /\ Distinct(rows) /\ Latest(rows) \in Nat
           /\ \A r \in rows : /\ r.version \in Nat /\ r.version <= Latest(rows) /\ r.from \in Nat
                              /\ r.from \in Dates /\ r.set \in [Fields -> Values]
BY DEF Inv, SettingsTypeOK, Numbered, Numbers, Distinct, Row, Dates

\* A date with a version has a newest one.
LEMMA NewestAt ==
    ASSUME Inv, NEW t \in rows
    PROVE  \E e \in rows : e.from = t.from /\ \A u \in rows : u.from = t.from => u.version <= e.version
<1> DEFINE n == Latest(rows)
           S == {n - u.version : u \in {v \in rows : v.from = t.from}}
<1>1. n \in Nat /\ \A u \in rows : u.version \in Nat /\ u.version <= n
  BY RowsOK
<1> HIDE DEF n
<1>2. S \in SUBSET Nat /\ S # {}
  BY <1>1
<1>3. PICK m \in S : \A k \in S : m <= k
  <2> HIDE DEF S
  <2> QED
    BY <1>2, LeastOf
<1>4. PICK e \in rows : e.from = t.from /\ m = n - e.version
  BY <1>3
<1>5. ASSUME NEW u \in rows, u.from = t.from PROVE u.version <= e.version
  <2>1. n - u.version \in S
    BY <1>5
  <2>2. n - e.version <= n - u.version
    BY <1>3, <1>4, <2>1
  <2> QED
    BY <1>1, <2>2
<1> QED
  BY <1>4, <1>5

\* Once there is a version there is one in effect on every date.
LEMMA ActiveExists ==
    ASSUME Inv, NEW d \in Dates, NEW t \in rows, t.from <= d
    PROVE  ActiveAt(rows, d) # {}
<1> DEFINE S == {d - u.from : u \in {v \in rows : v.from <= d}}
<1>1. d \in Nat /\ \A u \in rows : u.version \in Nat /\ u.from \in Nat
  BY RowsOK DEF Dates
<1>2. S \in SUBSET Nat /\ S # {}
  <2>1. d - t.from \in S
    OBVIOUS
  <2>2. \A u \in rows : u.from <= d => d - u.from \in Nat
    BY <1>1
  <2> QED
    BY <2>1, <2>2
<1>3. PICK m \in S : \A k \in S : m <= k
  <2> HIDE DEF S
  <2> QED
    BY <1>2, LeastOf
<1>4. PICK x \in rows : x.from <= d /\ m = d - x.from
  BY <1>3
<1>5. ASSUME NEW u \in rows, u.from <= d PROVE u.from <= x.from
  <2>1. d - u.from \in S
    BY <1>5
  <2>2. d - x.from <= d - u.from
    BY <1>3, <1>4, <2>1
  <2> QED
    BY <1>1, <2>2
<1>6. PICK e \in rows : e.from = x.from /\ \A u \in rows : u.from = x.from => u.version <= e.version
  BY NewestAt
<1>7. ASSUME NEW u \in rows, u.from <= d PROVE ~Beats(u, e)
  BY <1>1, <1>5, <1>6, <1>7 DEF Beats
<1> QED
  BY <1>4, <1>6, <1>7 DEF ActiveAt

-----------------------------------------------------------------------------
(* A save merged onto the versions it read.                                *)

Merging(s) ==
    /\ s.when \in Dates /\ s.later = LaterThan(s.when)
    /\ \E b \in ActiveAt(rows, s.when) : s.base = b.set

Governs(L, r, d) == r \in L /\ r.from <= d /\ \A e \in L : e.from <= d => e.from <= r.from

LEMMA LaterOK ==
    ASSUME Inv, NEW s, Merging(s)
    PROVE  /\ s.later \subseteq rows /\ IsFiniteSet(s.later)
           /\ \A r \in s.later : r.from > s.when
           /\ \A r, e \in s.later : r.from = e.from => r = e
           /\ \A t \in rows : t.from > s.when => \E e \in s.later : e.from = t.from /\ t.version <= e.version
<1>1. s.later = LaterThan(s.when)
  BY DEF Merging
<1>2. s.later \subseteq rows /\ \A r \in s.later : r.from > s.when
  BY <1>1 DEF LaterThan
<1>3. IsFiniteSet(s.later)
  BY <1>2, FS_Subset DEF Inv
<1>4. ASSUME NEW r \in s.later, NEW e \in s.later, r.from = e.from PROVE r = e
  <2>1. r \in rows /\ e \in rows /\ r.version <= e.version /\ e.version <= r.version
    BY <1>1, <1>4 DEF LaterThan
  <2>2. r.version = e.version
    BY <2>1, RowsOK
  <2> QED
    BY <1>4, <2>1, <2>2, RowsOK DEF Distinct
<1>5. ASSUME NEW t \in rows, t.from > s.when
      PROVE  \E e \in s.later : e.from = t.from /\ t.version <= e.version
  <2>1. PICK e \in rows : e.from = t.from /\ \A u \in rows : u.from = t.from => u.version <= e.version
    BY NewestAt
  <2>2. e \in s.later
    BY <1>1, <1>5, <2>1 DEF LaterThan
  <2> QED
    BY <2>1, <2>2
<1> QED
  BY <1>2, <1>3, <1>4, <1>5

\* A scheduled version governs every date by which one is due.
LEMMA SomeGoverns ==
    ASSUME Inv, NEW L \in SUBSET rows, NEW d \in Nat, NEW t \in L, t.from <= d
    PROVE  \E r \in L : Governs(L, r, d)
<1> DEFINE S == {d - u.from : u \in {v \in L : v.from <= d}}
<1>1. \A u \in L : u.from \in Nat
  BY RowsOK
<1>2. S \in SUBSET Nat /\ S # {}
  BY <1>1
<1>3. PICK m \in S : \A k \in S : m <= k
  <2> HIDE DEF S
  <2> QED
    BY <1>2, LeastOf
<1>4. PICK r \in L : r.from <= d /\ m = d - r.from
  BY <1>3
<1>5. ASSUME NEW e \in L, e.from <= d PROVE e.from <= r.from
  <2>1. d - e.from \in S
    BY <1>5
  <2>2. d - r.from <= d - e.from
    BY <1>3, <1>4, <2>1
  <2> QED
    BY <1>1, <2>2
<1> QED
  BY <1>4, <1>5 DEF Governs

\* The value in force before the save.
LEMMA OldOK ==
    ASSUME Inv, NEW s, Merging(s), NEW f \in Fields, NEW d \in Dates, s.when <= d
    PROVE  /\ \A r \in s.later : Governs(s.later, r, d) => Val(rows, f, d) = r.set[f]
           /\ (\A r \in s.later : ~(r.from <= d)) => Val(rows, f, d) = s.base[f]
<1>0. d \in Nat /\ s.when \in Nat /\ rows \in SUBSET Row /\ Distinct(rows)
  BY RowsOK DEF Merging, Dates
<1>1. \A r \in rows : r.version \in Nat /\ r.from \in Nat
  BY RowsOK
<1>2. ASSUME NEW r \in s.later, Governs(s.later, r, d) PROVE Val(rows, f, d) = r.set[f]
  <2>1. r \in rows /\ r.from <= d /\ r.from > s.when
    BY <1>2, LaterOK DEF Governs
  <2>2. ASSUME NEW t \in rows, t.from <= d PROVE ~Beats(t, r)
    <3>1. CASE t.from > s.when
      <4>1. PICK e \in s.later : e.from = t.from /\ t.version <= e.version
        BY <3>1, LaterOK
      <4>2. e.from <= r.from /\ (e.from = r.from => e = r)
        BY <1>2, <2>2, <4>1, LaterOK DEF Governs
      <4> QED
        BY <1>1, <2>1, <4>1, <4>2 DEF Beats
    <3>2. CASE ~(t.from > s.when)
      BY <1>0, <1>1, <2>1, <3>2 DEF Beats
    <3> QED
      BY <3>1, <3>2
  <2>3. r \in ActiveAt(rows, d)
    BY <2>1, <2>2 DEF ActiveAt
  <2> QED
    BY <1>0, <2>3, ValIs
<1>3. ASSUME \A r \in s.later : ~(r.from <= d) PROVE Val(rows, f, d) = s.base[f]
  <2>1. PICK b \in ActiveAt(rows, s.when) : s.base = b.set
    BY DEF Merging
  <2>2. b \in rows /\ b.from <= s.when /\ \A t \in rows : t.from <= s.when => ~Beats(t, b)
    BY DEF ActiveAt
  <2>3. ASSUME NEW t \in rows, t.from <= d PROVE ~Beats(t, b)
    <3>1. ~(t.from > s.when)
      BY <1>3, <2>3, LaterOK
    <3> QED
      BY <1>0, <1>1, <2>2, <3>1
  <2>4. b.from <= d
    BY <1>0, <1>1, <2>2
  <2>5. b \in ActiveAt(rows, d)
    BY <2>2, <2>3, <2>4 DEF ActiveAt
  <2> QED
    BY <1>0, <2>1, <2>5, ValIs
<1> QED
  BY <1>2, <1>3

\* What a scheduled version is built on is what is in force the moment before its date.
LEMMA BeforeOK ==
    ASSUME Inv, NEW s, Merging(s), NEW f \in Fields, NEW e \in s.later
    PROVE  /\ e.from \in Dates /\ e.from - 1 \in Dates /\ s.when <= e.from - 1
           /\ Val(rows, f, e.from) = e.set[f]
           /\ Val(rows, f, e.from - 1) = Before(s, e)[f]
<1>1. e \in rows /\ e.from \in Dates /\ e.from \in Nat /\ e.from > s.when /\ s.when \in Nat
  BY LaterOK, RowsOK DEF Merging, Dates
<1>2. e.from - 1 \in Dates /\ s.when <= e.from - 1 /\ s.when <= e.from
  BY <1>1, DatesAssumption DEF Dates
<1>3. \A r \in s.later : r.from \in Nat
  BY LaterOK, RowsOK
<1>4. Val(rows, f, e.from) = e.set[f]
  <2>1. Governs(s.later, e, e.from)
    BY <1>3 DEF Governs
  <2> QED
    BY <1>1, <1>2, <2>1, OldOK
<1> DEFINE earlier == {r \in s.later : r.from < e.from}
           d == e.from - 1
<1>5. \A r \in s.later : r.from <= d <=> r.from < e.from
  BY <1>1, <1>3
<1>6. CASE earlier = {}
  <2>1. \A r \in s.later : ~(r.from <= d)
    BY <1>5, <1>6
  <2>2. Val(rows, f, d) = s.base[f]
    <3> HIDE DEF d
    <3> QED
      BY <1>2, <2>1, OldOK DEF d
  <2>3. Before(s, e) = s.base
    BY <1>6 DEF Before
  <2> QED
    BY <1>1, <1>2, <1>4, <2>2, <2>3
<1>7. CASE earlier # {}
  <2> DEFINE last == CHOOSE r \in earlier : \A x \in earlier : x.from <= r.from
  <2>1. \E r \in earlier : \A x \in earlier : x.from <= r.from
    <3>1. PICK t \in s.later : t.from <= d
      BY <1>5, <1>7
    <3>2. PICK r \in s.later : Governs(s.later, r, d)
      BY <1>1, <3>1, LaterOK, SomeGoverns DEF Dates
    <3>3. r \in earlier /\ \A x \in earlier : x.from <= r.from
      BY <1>5, <3>2 DEF Governs
    <3> QED
      BY <3>3
  <2>2. last \in earlier /\ \A x \in earlier : x.from <= last.from
    BY <2>1
  <2>3. Before(s, e) = last.set
    BY <1>7 DEF Before
  <2> HIDE DEF last
  <2>4. last \in s.later /\ Governs(s.later, last, d)
    BY <1>5, <2>2 DEF Governs
  <2>5. Val(rows, f, d) = last.set[f]
    <3> HIDE DEF d
    <3> QED
      BY <1>2, <2>4, OldOK DEF d
  <2> QED
    BY <1>1, <1>2, <1>4, <2>3, <2>5
<1> QED
  BY <1>6, <1>7

\* Between the dates of scheduled versions nothing changes.
LEMMA SteadyOK ==
    ASSUME Inv, NEW s, Merging(s), NEW f \in Fields, NEW d \in Dates, s.when < d,
           \A e \in s.later : e.from # d
    PROVE  Val(rows, f, d) = Val(rows, f, d - 1)
<1>1. d \in Nat /\ s.when \in Nat /\ d - 1 \in Dates /\ d - 1 \in Nat /\ s.when <= d - 1 /\ s.when <= d
  BY DatesAssumption DEF Merging, Dates
<1>2. \A r \in s.later : r.from \in Nat
  BY LaterOK, RowsOK
<1>3. \A r \in s.later : r.from <= d <=> r.from <= d - 1
  BY <1>1, <1>2
<1>4. CASE \A r \in s.later : ~(r.from <= d)
  BY <1>1, <1>3, <1>4, OldOK
<1>5. CASE ~\A r \in s.later : ~(r.from <= d)
  <2>1. PICK r \in s.later : Governs(s.later, r, d)
    BY <1>1, <1>5, LaterOK, SomeGoverns
  <2>2. Governs(s.later, r, d - 1)
    BY <1>3, <2>1 DEF Governs
  <2>3. Val(rows, f, d) = r.set[f]
    BY <1>1, <2>1, OldOK
  <2>4. Val(rows, f, d - 1) = r.set[f]
    BY <1>1, <2>2, OldOK
  <2> QED
    BY <2>3, <2>4
<1> QED
  BY <1>4, <1>5

\* f keeps on d the value it has on w.
Lasting(f, w, d) == w <= d /\ \A x \in (w + 1)..d : Val(rows, f, x) = Val(rows, f, x - 1)

LEMMA LastingOK ==
    ASSUME Inv, NEW f \in Fields, NEW w \in Dates, NEW d \in Dates, Lasting(f, w, d)
    PROVE  Val(rows, f, d) = Val(rows, f, w)
<1> DEFINE S == {x \in w..d : Val(rows, f, x) # Val(rows, f, w)}
<1>1. w \in Nat /\ d \in Nat /\ w <= d
  BY DEF Lasting, Dates
<1>2. CASE S = {}
  BY <1>1, <1>2
<1>3. CASE S # {}
  <2>1. S \in SUBSET Nat
    BY <1>1
  <2>2. PICK x \in S : \A y \in S : x <= y
    <3> HIDE DEF S
    <3> QED
      BY <1>3, <2>1, LeastOf
  <2>3. x \in w..d /\ Val(rows, f, x) # Val(rows, f, w) /\ x # w
    BY <2>2
  <2>4. x \in (w + 1)..d /\ x - 1 \in w..d /\ x - 1 < x
    BY <1>1, <2>3
  <2>5. x - 1 \notin S
    BY <1>1, <2>2, <2>4
  <2>6. Val(rows, f, x - 1) = Val(rows, f, w)
    BY <2>4, <2>5
  <2>7. Val(rows, f, x) = Val(rows, f, x - 1)
    BY <2>4 DEF Lasting
  <2> QED
    BY <2>3, <2>6, <2>7
<1> QED
  BY <1>2, <1>3

\* A change is carried into the scheduled versions for as long as the value it changes lasts.
LEMMA KeptLasts ==
    ASSUME Inv, NEW s, Merging(s), NEW f \in s.changed, f \in Fields, NEW d \in Dates,
           NEW r \in s.later, Governs(s.later, r, d)
    PROVE  f \in Kept(s, r) <=> Lasting(f, s.when, d)
<1>1. d \in Nat /\ s.when \in Nat /\ r.from <= d /\ r.from > s.when /\ \A e \in s.later : e.from \in Nat
  BY LaterOK, RowsOK DEF Merging, Dates, Governs
<1>2. \A e \in s.later : /\ Val(rows, f, e.from) = e.set[f]
                         /\ Val(rows, f, e.from - 1) = Before(s, e)[f]
  BY BeforeOK
<1>3. f \in Kept(s, r) <=> \A e \in s.later : e.from <= r.from => e.set[f] = Before(s, e)[f]
  BY DEF Kept
<1>4. \A e \in s.later : e.from <= d <=> e.from <= r.from
  BY <1>1 DEF Governs
<1>5. ASSUME f \in Kept(s, r) PROVE Lasting(f, s.when, d)
  <2>1. ASSUME NEW x \in (s.when + 1)..d PROVE Val(rows, f, x) = Val(rows, f, x - 1)
    <3>1. x \in Dates /\ s.when < x /\ x <= d
      BY <1>1, DatesAssumption DEF Dates
    <3>2. CASE \E e \in s.later : e.from = x
      <4>1. PICK e \in s.later : e.from = x
        BY <3>2
      <4>2. e.set[f] = Before(s, e)[f]
        BY <1>3, <1>4, <1>5, <3>1, <4>1
      <4> QED
        BY <1>2, <4>1, <4>2
    <3>3. CASE \A e \in s.later : e.from # x
      BY <3>1, <3>3, SteadyOK
    <3> QED
      BY <3>2, <3>3
  <2>2. s.when <= d
    BY <1>1
  <2> QED
    BY <2>1, <2>2 DEF Lasting
<1>6. ASSUME Lasting(f, s.when, d), NEW e \in s.later, e.from <= r.from
      PROVE  e.set[f] = Before(s, e)[f]
  <2>1. e.from > s.when /\ e.from <= d
    BY <1>4, <1>6, LaterOK
  <2>2. e.from \in (s.when + 1)..d
    BY <1>1, <2>1
  <2> QED
    BY <1>2, <1>6, <2>2 DEF Lasting
<1> QED
  BY <1>3, <1>5, <1>6

\* Where no scheduled version is due yet the value lasts.
LEMMA FreeLasts ==
    ASSUME Inv, NEW s, Merging(s), NEW f \in Fields, NEW d \in Dates, s.when <= d,
           \A r \in s.later : ~(r.from <= d)
    PROVE  Lasting(f, s.when, d)
<1>1. d \in Nat /\ s.when \in Nat /\ \A e \in s.later : e.from \in Nat
  BY LaterOK, RowsOK DEF Merging, Dates
<1>2. ASSUME NEW x \in (s.when + 1)..d PROVE Val(rows, f, x) = Val(rows, f, x - 1)
  <2>1. x \in Dates /\ s.when < x /\ x <= d
    BY <1>1, DatesAssumption DEF Dates
  <2>2. \A e \in s.later : e.from # x
    BY <1>1, <2>1
  <2> QED
    BY <2>1, <2>2, SteadyOK
<1> QED
  BY <1>2 DEF Lasting

-----------------------------------------------------------------------------
(* The versions once the save is through.                                  *)

Carried(s) == {r \in s.later : Kept(s, r) # {}}
ChangeRow(s) ==
    [version |-> Latest(rows) + 1, from |-> s.when, set |-> Patched(s.base, s.patch, s.changed)]
Again(s, r) ==
    [version |-> Latest(rows) + 1 + Rank(Carried(s), r), from |-> r.from,
     set |-> Patched(r.set, s.patch, Kept(s, r))]

\* What is inserted is newer than all there is, and at dates of its own.
LEMMA InsertedOK ==
    ASSUME Inv, NEW s, Merging(s)
    PROVE  LET new == NewRows(s, Latest(rows)) IN
           /\ new = {ChangeRow(s)} \union {Again(s, r) : r \in Carried(s)}
           /\ \A r \in Carried(s) : Rank(Carried(s), r) \in Nat \ {0}
           /\ \A x \in new : x.version \in Nat /\ x.version > Latest(rows) /\ x.from \in Nat
           /\ \A x \in new : x.from >= s.when
           /\ \A x, y \in new : x.from = y.from => x = y
<1> DEFINE new == NewRows(s, Latest(rows))
<1>1. new = {ChangeRow(s)} \union {Again(s, r) : r \in Carried(s)}
  BY DEF NewRows, Carried, ChangeRow, Again, Rank
<1>2. /\ Carried(s) \in SUBSET s.later /\ IsFiniteSet(Carried(s)) /\ Latest(rows) \in Nat
      /\ \A r \in s.later : r.from \in Nat /\ r.from > s.when
      /\ s.when \in Nat
  BY LaterOK, RowsOK, FS_Subset DEF Carried, Merging, Dates
<1>3. ASSUME NEW r \in Carried(s) PROVE Rank(Carried(s), r) \in Nat \ {0}
  BY <1>2, RankType
<1>4. ChangeRow(s).version = Latest(rows) + 1 /\ ChangeRow(s).from = s.when
  BY DEF ChangeRow
<1>5. \A r \in Carried(s) : /\ Again(s, r).version = Latest(rows) + 1 + Rank(Carried(s), r)
                            /\ Again(s, r).from = r.from
  BY DEF Again
<1>6. ASSUME NEW x \in new
      PROVE  x.version \in Nat /\ x.version > Latest(rows) /\ x.from \in Nat /\ x.from >= s.when
  <2>1. CASE x = ChangeRow(s)
    BY <1>2, <1>4, <2>1
  <2>2. ASSUME NEW r \in Carried(s), x = Again(s, r)
        PROVE  x.version \in Nat /\ x.version > Latest(rows) /\ x.from \in Nat /\ x.from >= s.when
    BY <1>2, <1>3, <1>5, <2>2
  <2> QED
    BY <1>1, <2>1, <2>2
<1>7. ASSUME NEW x \in new, NEW y \in new, x.from = y.from PROVE x = y
  <2>1. \A r \in Carried(s) : Again(s, r).from # ChangeRow(s).from
    BY <1>2, <1>4, <1>5
  <2>2. \A r, e \in Carried(s) : Again(s, r).from = Again(s, e).from => r = e
    BY <1>2, <1>5, LaterOK
  <2> QED
    BY <1>1, <1>7, <2>1, <2>2
<1> QED
  BY <1>1, <1>3, <1>6, <1>7

LEMMA MergedOK ==
    ASSUME Inv, NEW s, Merging(s), NewRows(s, Latest(rows)) \in SUBSET Row,
           NEW known, known = rows \union NewRows(s, Latest(rows)),
           NEW f \in Fields, NEW d \in Dates
    PROVE  /\ d < s.when => Val(known, f, d) = Val(rows, f, d)
           /\ s.when <= d /\ (\A r \in s.later : ~(r.from <= d)) =>
                Val(known, f, d) = IF f \in s.changed THEN s.patch[f] ELSE s.base[f]
           /\ \A r \in s.later : Governs(s.later, r, d) =>
                Val(known, f, d) = IF f \in Kept(s, r) THEN s.patch[f] ELSE r.set[f]
<1> DEFINE new == NewRows(s, Latest(rows))
<1>1. /\ d \in Nat /\ s.when \in Nat /\ known \in SUBSET Row /\ Latest(rows) \in Nat
      /\ \A t \in rows : t.version \in Nat /\ t.version <= Latest(rows) /\ t.from \in Nat
      /\ Distinct(rows)
  BY RowsOK DEF Merging, Dates
<1>2. /\ new = {ChangeRow(s)} \union {Again(s, r) : r \in Carried(s)}
      /\ \A x \in new : x.version \in Nat /\ x.version > Latest(rows) /\ x.from \in Nat
      /\ \A x \in new : x.from >= s.when
      /\ \A x, y \in new : x.from = y.from => x = y
  BY InsertedOK
<1> HIDE DEF new
<1>3. known = rows \union new
  BY DEF new
<1>4. Distinct(known)
  <2> SUFFICES ASSUME NEW x \in known, NEW y \in known, x.from = y.from, x.version = y.version
               PROVE  x = y
    BY DEF Distinct
  <2>1. CASE x \in rows /\ y \in rows
    BY <1>1, <2>1 DEF Distinct
  <2>2. CASE x \in new /\ y \in new
    BY <1>2, <2>2
  <2>3. ~(x \in rows /\ y \in new) /\ ~(x \in new /\ y \in rows)
    BY <1>1, <1>2
  <2> QED
    BY <1>3, <2>1, <2>2, <2>3
<1>5. ASSUME d < s.when PROVE Val(known, f, d) = Val(rows, f, d)
  <2>1. \A t \in new : ~(t.from <= d)
    BY <1>1, <1>2, <1>5
  <2>2. ASSUME NEW t \in known PROVE t \in ActiveAt(known, d) <=> t \in ActiveAt(rows, d)
    BY <1>3, <2>1 DEF ActiveAt
  <2>3. ActiveAt(known, d) = ActiveAt(rows, d)
    BY <1>3, <2>2 DEF ActiveAt
  <2> QED
    BY <2>3 DEF Val
<1>6. ASSUME s.when <= d, \A r \in s.later : ~(r.from <= d)
      PROVE  Val(known, f, d) = IF f \in s.changed THEN s.patch[f] ELSE s.base[f]
  <2>1. ChangeRow(s) \in new /\ ChangeRow(s).from = s.when /\ ChangeRow(s).version = Latest(rows) + 1
    BY <1>2 DEF ChangeRow
  <2>2. ASSUME NEW t \in known, t.from <= d PROVE ~Beats(t, ChangeRow(s))
    <3>1. CASE t \in rows
      <4>1. ~(t.from > s.when)
        BY <1>6, <2>2, <3>1, LaterOK
      <4> QED
        BY <1>1, <2>1, <3>1, <4>1 DEF Beats
    <3>2. CASE t = ChangeRow(s)
      BY <1>1, <2>1, <3>2 DEF Beats
    <3>3. ASSUME NEW r \in Carried(s), t = Again(s, r) PROVE FALSE
      BY <1>6, <2>2, <3>3 DEF Again, Carried
    <3> QED
      BY <1>2, <1>3, <3>1, <3>2, <3>3
  <2>3. ChangeRow(s) \in ActiveAt(known, d)
    BY <1>3, <1>6, <2>1, <2>2 DEF ActiveAt
  <2>4. Val(known, f, d) = ChangeRow(s).set[f]
    BY <1>1, <1>4, <2>3, ValIs
  <2> QED
    BY <2>4 DEF ChangeRow, Patched
<1>7. ASSUME NEW r \in s.later, Governs(s.later, r, d)
      PROVE  Val(known, f, d) = IF f \in Kept(s, r) THEN s.patch[f] ELSE r.set[f]
  <2>1. r \in rows /\ r.from <= d /\ r.from > s.when /\ r.from \in Nat /\ r.version <= Latest(rows)
    BY <1>1, <1>7, LaterOK DEF Governs
  <2>2. ASSUME NEW t \in rows, t.from <= d
        PROVE  t.from <= r.from /\ (t.from = r.from => t.version <= r.version)
    <3>1. CASE t.from > s.when
      <4>1. PICK e \in s.later : e.from = t.from /\ t.version <= e.version
        BY <3>1, LaterOK
      <4>2. e.from <= r.from /\ (e.from = r.from => e = r)
        BY <1>7, <2>2, <4>1, LaterOK DEF Governs
      <4> QED
        BY <4>1, <4>2
    <3>2. CASE ~(t.from > s.when)
      BY <1>1, <2>1, <3>2
    <3> QED
      BY <3>1, <3>2
  <2>3. ASSUME NEW t \in new, t.from <= d
        PROVE  t.from <= r.from /\ (t.from = r.from => r \in Carried(s) /\ t = Again(s, r))
    <3>1. CASE t = ChangeRow(s)
      <4>1. t.from = s.when
        BY <3>1 DEF ChangeRow
      <4> QED
        BY <1>1, <2>1, <4>1
    <3>2. ASSUME NEW e \in Carried(s), t = Again(s, e)
          PROVE  t.from <= r.from /\ (t.from = r.from => r \in Carried(s) /\ t = Again(s, r))
      <4>1. t.from = e.from /\ e \in s.later
        BY <3>2 DEF Again, Carried
      <4>2. e.from <= r.from /\ (e.from = r.from => e = r)
        BY <1>7, <2>3, <4>1, LaterOK DEF Governs
      <4> QED
        BY <3>2, <4>1, <4>2
    <3> QED
      BY <1>2, <3>1, <3>2
  <2>4. CASE r \in Carried(s)
    <3>1. Again(s, r) \in new /\ Again(s, r).from = r.from
      BY <1>2, <2>4 DEF Again
    <3>2. Again(s, r).version \in Nat /\ Again(s, r).version > Latest(rows)
      BY <1>2, <3>1
    <3>3. ASSUME NEW t \in rows, t.from <= d PROVE ~Beats(t, Again(s, r))
      BY <1>1, <2>1, <2>2, <3>1, <3>2, <3>3 DEF Beats
    <3>4. ASSUME NEW t \in new, t.from <= d PROVE ~Beats(t, Again(s, r))
      <4>1. t.from \in Nat /\ t.from <= r.from /\ (t.from = r.from => t.version = Again(s, r).version)
        BY <1>2, <2>3, <3>4
      <4> QED
        BY <2>1, <3>1, <3>2, <4>1 DEF Beats
    <3>5. Again(s, r) \in ActiveAt(known, d)
      BY <1>3, <2>1, <3>1, <3>3, <3>4 DEF ActiveAt
    <3>6. Val(known, f, d) = Again(s, r).set[f]
      BY <1>1, <1>4, <3>5, ValIs
    <3> QED
      BY <3>6 DEF Again, Patched
  <2>5. CASE r \notin Carried(s)
    <3>1. Kept(s, r) = {}
      BY <1>7, <2>5 DEF Carried
    <3>2. ASSUME NEW t \in rows, t.from <= d PROVE ~Beats(t, r)
      BY <1>1, <2>1, <2>2, <3>2 DEF Beats
    <3>3. ASSUME NEW t \in new, t.from <= d PROVE ~Beats(t, r)
      <4>1. t.from \in Nat /\ t.from <= r.from /\ t.from # r.from
        BY <1>2, <2>3, <2>5, <3>3
      <4> QED
        BY <2>1, <4>1 DEF Beats
    <3>4. r \in ActiveAt(known, d)
      BY <1>3, <2>1, <3>2, <3>3 DEF ActiveAt
    <3>5. Val(known, f, d) = r.set[f]
      BY <1>1, <1>4, <3>4, ValIs
    <3> QED
      BY <3>1, <3>5
  <2> QED
    BY <2>4, <2>5
<1> QED
  BY <1>5, <1>6, <1>7

\* The versions merged are a change made on the date of the save.
LEMMA MergeIsChange ==
    ASSUME Inv, NEW s, Merging(s), NewRows(s, Latest(rows)) \in SUBSET Row,
           NEW known, known = rows \union NewRows(s, Latest(rows)),
           NEW f \in Fields, NEW d \in Dates
    PROVE  Val(known, f, d) = IF Lasting(f, s.when, d) THEN Val(known, f, s.when) ELSE Val(rows, f, d)
<1>1. d \in Nat /\ s.when \in Nat /\ s.when \in Dates /\ \A r \in s.later : ~(r.from <= s.when)
  <2>1. \A r \in s.later : r.from > s.when /\ r.from \in Nat
    BY LaterOK, RowsOK
  <2> QED
    BY <2>1 DEF Merging, Dates
<1>2. /\ Val(known, f, s.when) = IF f \in s.changed THEN s.patch[f] ELSE s.base[f]
      /\ Val(rows, f, s.when) = s.base[f]
  BY <1>1, MergedOK, OldOK
<1>3. CASE d < s.when
  <2>1. ~Lasting(f, s.when, d)
    BY <1>1, <1>3 DEF Lasting
  <2> QED
    BY <1>3, <2>1, MergedOK
<1>4. ASSUME Lasting(f, s.when, d) PROVE Val(rows, f, d) = s.base[f]
  BY <1>1, <1>2, <1>4, LastingOK
<1>5. CASE s.when <= d /\ \A r \in s.later : ~(r.from <= d)
  <2>1. Lasting(f, s.when, d)
    BY <1>5, FreeLasts
  <2>2. Val(known, f, d) = IF f \in s.changed THEN s.patch[f] ELSE s.base[f]
    BY <1>5, MergedOK
  <2> QED
    BY <1>2, <2>1, <2>2
<1>6. CASE s.when <= d /\ ~\A r \in s.later : ~(r.from <= d)
  <2>1. PICK r \in s.later : Governs(s.later, r, d)
    BY <1>1, <1>6, LaterOK, SomeGoverns
  <2>2. /\ Val(known, f, d) = IF f \in Kept(s, r) THEN s.patch[f] ELSE r.set[f]
        /\ Val(rows, f, d) = r.set[f]
    BY <1>6, <2>1, MergedOK, OldOK
  <2>3. CASE f \in s.changed
    <3>1. f \in Kept(s, r) <=> Lasting(f, s.when, d)
      BY <2>1, <2>3, KeptLasts
    <3> QED
      BY <1>2, <2>2, <2>3, <3>1
  <2>4. CASE f \notin s.changed
    <3>1. f \notin Kept(s, r)
      BY <2>4 DEF Kept
    <3> QED
      BY <1>2, <1>4, <2>2, <2>4, <3>1
  <2> QED
    BY <2>3, <2>4
<1> QED
  BY <1>1, <1>3, <1>5, <1>6

-----------------------------------------------------------------------------
(* One save at a time.                                                     *)

LoneSaves == \A a, b \in Admins : save[a].pc # "idle" /\ save[b].pc # "idle" => a = b

\* The rows of an insert that has begun are newer than all there are.
Pending(todo) ==
    /\ rows # {}
    /\ \A r \in todo, t \in rows : t.version < r.version
    /\ \A r, t \in todo : r.version = t.version => r = t

\* What a save has read still holds.
PlannedSave(s) ==
    /\ s.pc = "later" => \E b \in ActiveAt(rows, s.when) : s.base = b.set
    /\ s.pc \in {"number", "insert"} => Merging(s)
    /\ s.pc = "insert" => s.todo = NewRows(s, Latest(rows))
    /\ s.pc = "rest" => Pending(s.todo)

Planned == \A a \in Admins : PlannedSave(save[a])

PlanOf(known) == [f \in Fields |-> [d \in Dates |-> Val(known, f, d)]]

LEMMA PlanIs == Plan = PlanOf(Written) /\ Plan' = PlanOf(Written')
BY DEF Plan, PlanOf, ValueAt, Val, ValueOf

\* The more versions of C are due, the higher the rank.
LEMMA RankLess ==
    ASSUME NEW C \in SUBSET Row, IsFiniteSet(C), NEW r \in C, NEW e \in C, r.from < e.from
    PROVE  Rank(C, r) < Rank(C, e)
<1> DEFINE A == {x \in C : x.from <= r.from}
           B == {x \in C : x.from <= e.from}
<1>1. \A x \in C : x.from \in Nat
  BY DEF Row, Dates
<1>2. IsFiniteSet(B) /\ e \in B /\ A \in SUBSET (B \ {e})
  BY <1>1, FS_Subset
<1>3. Rank(C, r) = Cardinality(A) /\ Rank(C, e) = Cardinality(B)
  BY DEF Rank
<1> HIDE DEF A, B
<1>4. IsFiniteSet(B \ {e}) /\ Cardinality(B \ {e}) = Cardinality(B) - 1
  BY <1>2, FS_RemoveElement
<1>5. Cardinality(A) <= Cardinality(B \ {e})
  BY <1>2, <1>4, FS_Subset
<1>6. Cardinality(A) \in Nat /\ Cardinality(B) \in Nat
  BY <1>2, <1>4, FS_Subset, FS_CardinalityType
<1> QED
  BY <1>3, <1>4, <1>5, <1>6

\* What a save inserts is pending.
LEMMA InsertIsPending ==
    ASSUME Inv, NEW s, Merging(s) PROVE Pending(NewRows(s, Latest(rows)))
<1> DEFINE new == NewRows(s, Latest(rows))
           C == Carried(s)
<1>1. /\ new = {ChangeRow(s)} \union {Again(s, r) : r \in C}
      /\ \A r \in C : Rank(C, r) \in Nat \ {0}
      /\ \A x \in new : x.version \in Nat /\ x.version > Latest(rows)
  BY InsertedOK
<1>2. C \in SUBSET Row /\ IsFiniteSet(C) /\ (\A r, e \in C : r.from = e.from => r = e)
      /\ \A r \in C : r.from \in Nat
  BY LaterOK, RowsOK, FS_Subset DEF Carried
<1>3. Latest(rows) \in Nat /\ \A t \in rows : t.version \in Nat /\ t.version <= Latest(rows)
  BY RowsOK
<1>4. rows # {}
  BY DEF Merging, ActiveAt
<1>5. \A r \in new, t \in rows : t.version < r.version
  BY <1>1, <1>3
<1>6. ChangeRow(s).version = Latest(rows) + 1
  BY DEF ChangeRow
<1>7. \A r \in C : Again(s, r).version = Latest(rows) + 1 + Rank(C, r)
  BY DEF Again
<1>8. ASSUME NEW r \in C, NEW e \in C, Again(s, r).version = Again(s, e).version PROVE r = e
  <2>1. Rank(C, r) = Rank(C, e) /\ Rank(C, r) \in Nat
    BY <1>1, <1>3, <1>7, <1>8
  <2>2. ~(r.from < e.from) /\ ~(e.from < r.from)
    <3> HIDE DEF C
    <3> QED
      BY <1>2, <2>1, RankLess
  <2> QED
    BY <1>2, <2>2
<1>9. \A r \in C : Again(s, r).version # ChangeRow(s).version
  BY <1>1, <1>3, <1>6, <1>7
<1>10. \A r, t \in new : r.version = t.version => r = t
  BY <1>1, <1>8, <1>9
<1> QED
  BY <1>4, <1>5, <1>10 DEF Pending

\* What has been read still holds while nothing is saved.
LEMMA PlannedStays == ASSUME rows' = rows, NEW s, PlannedSave(s) PROVE PlannedSave(s)'
BY DEF PlannedSave, Merging, Pending, ActiveAt, LaterThan

\* A step of a save before its inserts.
LEMMA BeforeInserts ==
    ASSUME Inv, Planned, rows' = rows, NEW a \in Admins, NEW v, save' = [save EXCEPT ![a] = v],
           save[a].pc # "rest", v.pc # "rest", PlannedSave(v)
    PROVE  Planned' /\ Plan' = Plan
<1>1. \A b \in Admins : save'[b] = IF b = a THEN v ELSE save[b]
  BY DEF Inv, SettingsTypeOK
<1>2. ASSUME NEW b \in Admins PROVE PlannedSave(save[b])'
  <2>1. PICK s : s = save'[b]
    OBVIOUS
  <2>2. PlannedSave(s)
    BY <1>1, <2>1 DEF Planned
  <2>3. PlannedSave(s)'
    BY <2>2, PlannedStays
  <2> QED
    BY <2>1, <2>3
<1>3. \A b \in Admins : /\ save'[b].pc = "rest" <=> save[b].pc = "rest"
                        /\ save[b].pc = "rest" => save'[b].todo = save[b].todo
  BY <1>1
<1>4. Written' = Written
  <2>1. ASSUME NEW x PROVE x \in Written' <=> x \in Written
    BY <1>3 DEF Written
  <2> QED
    BY <2>1
<1> QED
  BY <1>2, <1>4, PlanIs DEF Planned

\* A step that leaves the versions and the saves alone.
LEMMA Aside == ASSUME Inv, Planned, UNCHANGED <<rows, save>> PROVE Planned' /\ Plan' = Plan
<1>1. ASSUME NEW b \in Admins PROVE PlannedSave(save[b])'
  <2>1. PICK s : s = save'[b]
    OBVIOUS
  <2>2. PlannedSave(s)'
    BY <2>1, PlannedStays DEF Planned
  <2> QED
    BY <2>1, <2>2
<1>2. Written' = Written
  BY DEF Written
<1> QED
  BY <1>1, <1>2, PlanIs DEF Planned

\* Whoever seeds, the rules are what they were seeded with.
LEMMA SeedAside ==
    ASSUME Inv, Planned, rows' = Seeded(rows),
           \A b \in Admins : save'[b] = save[b] \/ (save[b].pc = "seed" /\ save'[b].pc = "base")
    PROVE  Planned' /\ Plan' = Plan
<1>1. PICK n \in Nat : Numbers(rows, n)
  BY DEF Inv, Numbered
<1>2. \A b \in Admins : save[b].pc = "seed" => save[b].pc # "rest"
  OBVIOUS
<1>3. CASE rows # {}
  <2>1. 1 \in 1..n
    BY <1>1, <1>3 DEF Numbers
  <2>2. rows' = rows
    BY <1>1, <2>1 DEF Numbers, Seeded
  <2>3. ASSUME NEW b \in Admins PROVE PlannedSave(save[b])'
    <3>1. PICK s : s = save'[b]
      OBVIOUS
    <3>2. PlannedSave(s)
      BY <3>1 DEF Planned, PlannedSave
    <3>3. PlannedSave(s)'
      BY <2>2, <3>2, PlannedStays
    <3> QED
      BY <3>1, <3>3
  <2>4. Written' = Written
    <3>1. ASSUME NEW x PROVE x \in Written' <=> x \in Written
      BY <2>2 DEF Written
    <3> QED
      BY <3>1
  <2> QED
    BY <2>3, <2>4, PlanIs DEF Planned
<1>4. CASE rows = {}
  <2> DEFINE first == [version |-> 1, from |-> 0, set |-> Default]
  <2>1. rows' = {first}
    BY <1>4 DEF Seeded
  <2>2. \A b \in Admins : save[b].pc \notin {"later", "number", "insert", "rest"}
    BY <1>4 DEF Planned, PlannedSave, Merging, Pending, ActiveAt
  <2>3. \A b \in Admins : save'[b].pc \notin {"later", "number", "insert", "rest"}
    BY <2>2
  <2>4. Planned'
    BY <2>3 DEF Planned, PlannedSave
  <2>5. Written = {} /\ Written' = {first}
    BY <1>4, <2>1, <2>2, <2>3 DEF Written
  <2>6. ASSUME NEW f \in Fields, NEW d \in Dates PROVE Val({}, f, d) = Val({first}, f, d)
    <3>1. Val({}, f, d) = Default[f]
      BY DEF Val, ValueOf, ActiveAt
    <3>2. first \in Row /\ first.set = Default /\ first.from <= d
      BY DefaultOK, DatesAssumption DEF Row, Dates
    <3>3. first \in ActiveAt({first}, d)
      BY <3>2 DEF ActiveAt, Beats
    <3>4. Distinct({first})
      BY DEF Distinct
    <3> HIDE DEF first
    <3>5. Val({first}, f, d) = Default[f]
      BY <3>2, <3>3, <3>4, ValIs
    <3> QED
      BY <3>1, <3>5
  <2>7. PlanOf({}) = PlanOf({first})
    <3> HIDE DEF first
    <3> QED
      BY <2>6 DEF PlanOf
  <2> QED
    BY <2>4, <2>5, <2>7, PlanIs
<1> QED
  BY <1>3, <1>4

\* The insert of the first row makes the change, the others complete it.
LEMMA InsertChanges ==
    ASSUME Inv, Planned, LoneSaves, NEW a \in Admins, Insert(a)
    PROVE  Planned' /\ [Timeline!Next]_Plan
<1> DEFINE s == save[a]
           todo == s.todo
           x == Oldest(todo)
           left == todo \ {x}
           v == IF left = {} THEN NoSave ELSE [s EXCEPT !.todo = left, !.pc = "rest"]
<1>1. /\ s.pc \in {"insert", "rest"} /\ rows' = rows \union {x}
      /\ save' = [save EXCEPT ![a] = v]
  BY DEF Insert, Inv, SettingsTypeOK
<1>2. s \in Save /\ todo \in SUBSET Row /\ todo # {}
  BY <1>1, SaveTyped DEF SaveFine
<1>3. x \in todo /\ \A r \in todo : x.version <= r.version
  BY <1>2, OldestOK
<1>4. Pending(todo)
  BY <1>1, InsertIsPending DEF Planned, PlannedSave
<1>5. \A b \in Admins : b # a => save[b].pc = "idle" /\ save'[b] = save[b]
  BY <1>1 DEF LoneSaves, Inv, SettingsTypeOK
<1>6. save'[a] = v /\ s.pc # "idle"
  BY <1>1 DEF Inv, SettingsTypeOK
<1>7. v.pc = "rest" => v.todo = left
  <2>1. CASE left = {}
    BY <2>1 DEF NoSave
  <2>2. CASE left # {}
    BY <1>2, <2>2 DEF Save
  <2> QED
    BY <2>1, <2>2
<1>8. (v.pc = "rest" /\ left # {}) \/ (v.pc = "idle" /\ left = {})
  <2>1. CASE left = {}
    BY <2>1 DEF NoSave
  <2>2. CASE left # {}
    BY <1>2, <2>2 DEF Save
  <2> QED
    BY <2>1, <2>2
<1>9. Written' = rows \union todo
  <2>1. Written' = rows' \union left
    <3>1. CASE v.pc = "rest" /\ left # {}
      <4>1. save'[a].pc = "rest" /\ save'[a].todo = left
        BY <1>6, <1>7, <3>1
      <4>2. \A b \in Admins : save'[b].pc = "rest" <=> b = a
        BY <1>5, <4>1
      <4> HIDE DEF left, v, x, todo
      <4>3. ASSUME NEW y PROVE y \in Written' <=> y \in rows' \/ y \in left
        BY <4>1, <4>2 DEF Written
      <4> QED
        BY <4>3
    <3>2. CASE v.pc = "idle" /\ left = {}
      <4>1. \A b \in Admins : save'[b].pc # "rest"
        BY <1>5, <1>6, <3>2
      <4> QED
        BY <3>2, <4>1 DEF Written
    <3> QED
      BY <1>8, <3>1, <3>2
  <2> QED
    BY <1>1, <1>3, <2>1
<1>10. Written = IF s.pc = "rest" THEN rows \union todo ELSE rows
  <2>1. CASE s.pc = "rest"
    BY <1>5, <2>1 DEF Written
  <2>2. CASE s.pc # "rest"
    <3>1. \A b \in Admins : save[b].pc # "rest"
      BY <1>5, <2>2
    <3> QED
      BY <2>2, <3>1 DEF Written
  <2> QED
    BY <2>1, <2>2
<1>11. Planned'
  <2> SUFFICES ASSUME NEW b \in Admins PROVE PlannedSave(save[b])'
    BY DEF Planned
  <2>1. CASE b # a
    BY <1>5, <2>1 DEF PlannedSave
  <2>2. CASE b = a
    <3>1. ASSUME NEW r \in left, NEW t \in rows' PROVE t.version < r.version
      <4>1. r \in todo /\ r # x /\ r \in Row /\ x \in Row
        BY <1>2, <1>3
      <4>2. r.version \in Nat /\ x.version \in Nat /\ r.version # x.version /\ x.version <= r.version
        BY <1>3, <1>4, <4>1 DEF Pending, Row
      <4>3. CASE t = x
        BY <4>2, <4>3
      <4>4. CASE t \in rows
        BY <1>4, <4>1, <4>4 DEF Pending
      <4> QED
        BY <1>1, <4>3, <4>4
    <3>2. PICK u, rest : u = save'[a] /\ rest = left
      OBVIOUS
    <3>3. Pending(rest)'
      BY <1>1, <1>4, <3>1, <3>2 DEF Pending
    <3>4. u.pc = "idle" \/ (u.pc = "rest" /\ u.todo = rest)
      BY <1>6, <1>7, <1>8, <3>2
    <3>5. PlannedSave(u)'
      BY <3>3, <3>4 DEF PlannedSave
    <3> QED
      BY <2>2, <3>2, <3>5
  <2> QED
    BY <2>1, <2>2
<1>12. CASE s.pc = "rest"
  <2>1. Plan' = Plan
    BY <1>9, <1>10, <1>12, PlanIs
  <2> QED
    BY <1>11, <2>1
<1>13. CASE s.pc = "insert"
  <2>1. Merging(s) /\ todo = NewRows(s, Latest(rows)) /\ s.when \in Dates
    BY <1>13 DEF Planned, PlannedSave, Merging
  <2> DEFINE known == rows \union todo
  <2>2. Plan' = PlanOf(known) /\ Plan = PlanOf(rows)
    BY <1>9, <1>10, <1>13, PlanIs
  <2>3. known \in SUBSET Row
    BY <1>2, RowsOK
  <2>4. ASSUME NEW f \in Fields, NEW d \in Dates
        PROVE  /\ Val(known, f, d) \in Values
               /\ Val(known, f, d) = IF Lasting(f, s.when, d) THEN Val(known, f, s.when) ELSE Val(rows, f, d)
    <3>1. \A r \in ActiveAt(known, d) : r.set[f] \in Values
      BY <2>3 DEF ActiveAt, Row
    <3>2. Val(known, f, d) \in Values
      BY <3>1, DefaultOK DEF Val, ValueOf
    <3> QED
      BY <1>2, <2>1, <3>2, MergeIsChange
  <2> HIDE DEF known
  <2>5. ASSUME NEW f \in Fields, NEW d \in Dates
        PROVE  d \in Timeline!Lasts(Plan[f], s.when) <=> Lasting(f, s.when, d)
    <3>1. s.when \in Nat /\ d \in Nat /\ d <= LastDate /\ LastDate \in Nat
      BY <2>1, DatesAssumption DEF Dates
    <3>2. ASSUME NEW y \in (s.when + 1)..d
          PROVE  Plan[f][y] = Val(rows, f, y) /\ Plan[f][y - 1] = Val(rows, f, y - 1)
      <4>1. y \in Dates /\ y - 1 \in Dates
        BY <3>1 DEF Dates
      <4> QED
        BY <2>2, <4>1 DEF PlanOf
    <3>3. d \in Timeline!Lasts(Plan[f], s.when)
            <=> s.when <= d /\ \A y \in (s.when + 1)..d : Plan[f][y] = Plan[f][y - 1]
      BY <3>1 DEF Timeline!Lasts
    <3> QED
      BY <3>2, <3>3 DEF Lasting
  <2>6. Plan' \in [Fields -> [Dates -> Values]]
    BY <2>2, <2>4 DEF PlanOf
  <2>7. ASSUME NEW f \in Fields, NEW d \in Dates
        PROVE  Plan'[f][d] = IF d \in Timeline!Lasts(Plan[f], s.when) THEN Plan'[f][s.when] ELSE Plan[f][d]
    <3>1. Plan'[f][d] = Val(known, f, d) /\ Plan'[f][s.when] = Val(known, f, s.when)
          /\ Plan[f][d] = Val(rows, f, d)
      BY <2>1, <2>2 DEF PlanOf
    <3> QED
      BY <2>4, <2>5, <3>1
  <2>8. Timeline!Dates = Dates
    BY DEF Timeline!Dates, Dates
  <2>9. Timeline!Change(s.when)
    BY <2>6, <2>7, <2>8 DEF Timeline!Change
  <2> QED
    BY <1>11, <2>1, <2>8, <2>9 DEF Timeline!Next
<1> QED
  BY <1>1, <1>12, <1>13

LEMMA SaveBegins ==
    ASSUME Inv, Planned, NEW a \in Admins, NEW p \in Processes, NEW patch \in Patches, NEW w \in Dates,
           CreateVersion(a, p, patch, w)
    PROVE  Planned' /\ Plan' = Plan
<1> DEFINE v == [NoSave EXCEPT !.pc = "base", !.at = p, !.patch = patch, !.when = w]
<1>1. save' = [save EXCEPT ![a] = v] /\ rows' = rows /\ save[a].pc # "rest"
  BY DEF CreateVersion
<1>2. v.pc = "base"
  BY DEF NoSave
<1> HIDE DEF v
<1>3. PlannedSave(v)
  BY <1>2 DEF PlannedSave
<1> QED
  BY <1>1, <1>2, <1>3, BeforeInserts

LEMMA BaseRead == ASSUME Inv, Planned, NEW a \in Admins, ReadBase(a) PROVE Planned' /\ Plan' = Plan
<1> DEFINE s == save[a]
           active == ActiveAt(rows, s.when)
           base == (CHOOSE r \in active : TRUE).set
           changed == {g \in DOMAIN s.patch : s.patch[g] # base[g]}
           v == IF active = {} THEN [s EXCEPT !.pc = "seed"]
                ELSE IF changed = {} THEN NoSave
                ELSE [s EXCEPT !.pc = "later", !.base = base, !.changed = changed]
<1>1. save' = [save EXCEPT ![a] = v] /\ rows' = rows /\ s.pc # "rest"
  BY DEF ReadBase, Inv, SettingsTypeOK
<1>2. s \in Save
  BY SaveTyped
<1>3. v.pc \in {"seed", "idle"} \/ (active # {} /\ v.pc = "later" /\ v.base = base /\ v.when = s.when)
  <2>1. CASE active = {}
    BY <1>2, <2>1 DEF Save
  <2>2. CASE active # {} /\ changed = {}
    BY <2>2 DEF NoSave
  <2>3. CASE active # {} /\ changed # {}
    BY <1>2, <2>3 DEF Save
  <2> QED
    BY <2>1, <2>2, <2>3
<1>4. active # {} => \E b \in ActiveAt(rows, s.when) : base = b.set
  OBVIOUS
<1> HIDE DEF v
<1>5. PlannedSave(v) /\ v.pc # "rest"
  BY <1>3, <1>4 DEF PlannedSave
<1> QED
  BY <1>1, <1>5, BeforeInserts

LEMMA LaterRead == ASSUME Inv, Planned, NEW a \in Admins, ReadLater(a) PROVE Planned' /\ Plan' = Plan
<1> DEFINE s == save[a]
           v == [s EXCEPT !.pc = "number", !.later = LaterThan(s.when)]
<1>1. save' = [save EXCEPT ![a] = v] /\ rows' = rows /\ s.pc = "later"
  BY DEF ReadLater
<1>2. s \in Save /\ s.when \in Dates
  BY SaveTyped
<1>3. v.pc = "number" /\ v.later = LaterThan(s.when) /\ v.when = s.when /\ v.base = s.base
  BY <1>2 DEF Save
<1>4. \E b \in ActiveAt(rows, s.when) : s.base = b.set
  BY <1>1 DEF Planned, PlannedSave
<1> HIDE DEF v
<1>5. PlannedSave(v)
  BY <1>2, <1>3, <1>4 DEF PlannedSave, Merging
<1> QED
  BY <1>1, <1>3, <1>5, BeforeInserts

LEMMA LatestRead == ASSUME Inv, Planned, NEW a \in Admins, ReadLatest(a) PROVE Planned' /\ Plan' = Plan
<1> DEFINE s == save[a]
           v == [s EXCEPT !.pc = "insert", !.todo = NewRows(s, Latest(rows))]
<1>1. save' = [save EXCEPT ![a] = v] /\ rows' = rows /\ s.pc = "number"
  BY DEF ReadLatest
<1>2. s \in Save /\ Merging(s)
  BY <1>1, SaveTyped DEF Planned, PlannedSave
<1>3. /\ v.pc = "insert" /\ v.todo = NewRows(s, Latest(rows)) /\ v.later = s.later /\ v.when = s.when
      /\ v.base = s.base /\ v.changed = s.changed /\ v.patch = s.patch
  BY <1>2 DEF Save
<1> HIDE DEF v
<1>4. NewRows(v, Latest(rows)) = NewRows(s, Latest(rows))
  <2>1. ASSUME NEW r PROVE Before(v, r) = Before(s, r)
    BY <1>3 DEF Before
  <2>2. ASSUME NEW r PROVE Kept(v, r) = Kept(s, r)
    BY <1>3, <2>1 DEF Kept
  <2>3. Carried(v) = Carried(s)
    BY <1>3, <2>2 DEF Carried
  <2>4. ChangeRow(v) = ChangeRow(s)
    BY <1>3 DEF ChangeRow
  <2>5. \A r : Again(v, r) = Again(s, r)
    BY <1>3, <2>2, <2>3 DEF Again
  <2>6. ASSUME NEW u
        PROVE  NewRows(u, Latest(rows)) = {ChangeRow(u)} \union {Again(u, r) : r \in Carried(u)}
    BY DEF NewRows, Carried, ChangeRow, Again, Rank
  <2> QED
    BY <2>3, <2>4, <2>5, <2>6
<1>5. PlannedSave(v)
  BY <1>2, <1>3, <1>4 DEF PlannedSave, Merging
<1> QED
  BY <1>1, <1>3, <1>5, BeforeInserts

\* Alone, a save never finds its numbers taken.
LEMMA NoCollision == ASSUME Inv, Planned, NEW a \in Admins, Collide(a) PROVE FALSE
<1> DEFINE todo == save[a].todo
<1>1. todo \in SUBSET Row /\ todo # {}
  BY SaveTyped DEF Collide, SaveFine
<1>2. Oldest(todo) \in todo
  BY <1>1, OldestOK
<1>3. Pending(todo)
  BY InsertIsPending DEF Collide, Planned, PlannedSave
<1>4. PICK r \in rows : r.version = Oldest(todo).version
  BY DEF Collide
<1> QED
  BY <1>2, <1>3, <1>4, RowsOK DEF Pending

\* Every step changes the plan the way SettingsTimeline says, or not at all.
LEMMA TimelineStepOK ==
    ASSUME Inv, Planned, LoneSaves, [SettingsNext]_settingsVars
    PROVE  Planned' /\ [Timeline!Next]_Plan
<1>1. CASE UNCHANGED settingsVars
  BY <1>1, Aside DEF settingsVars
<1>2. ASSUME NEW q \in Reads, (\E p \in Processes : GetActiveSettings(q, p)) \/ Look(q) \/ Fill(q)
      PROVE  Planned' /\ Plan' = Plan
  BY <1>2, Aside DEF GetActiveSettings, Look, Fill
<1>3. ASSUME NEW q \in Reads, SeedRead(q) PROVE Planned' /\ Plan' = Plan
  BY <1>3, SeedAside DEF SeedRead
<1>4. ASSUME NEW a \in Admins, SeedSave(a) PROVE Planned' /\ Plan' = Plan
  <2>1. save[a] \in Save
    BY SaveTyped
  <2>2. \A b \in Admins : save'[b] = save[b] \/ (save[b].pc = "seed" /\ save'[b].pc = "base")
    BY <1>4, <2>1 DEF SeedSave, Save, Inv, SettingsTypeOK
  <2> QED
    BY <1>4, <2>2, SeedAside DEF SeedSave
<1>5. ASSUME NEW a \in Admins,
             \/ \E p \in Processes, patch \in Patches, w \in Dates : CreateVersion(a, p, patch, w)
             \/ ReadBase(a) \/ ReadLater(a) \/ ReadLatest(a) \/ Collide(a)
      PROVE  Planned' /\ Plan' = Plan
  BY <1>5, SaveBegins, BaseRead, LaterRead, LatestRead, NoCollision
<1>6. ASSUME NEW a \in Admins, Insert(a) PROVE Planned' /\ [Timeline!Next]_Plan
  BY <1>6, InsertChanges
<1>7. CASE SettingsTick
  BY <1>7, Aside DEF SettingsTick
<1> QED
  BY <1>1, <1>2, <1>3, <1>4, <1>5, <1>6, <1>7 DEF SettingsNext

LEMMA TimelineStart == SettingsInit => Planned /\ Timeline!Init
<1> SUFFICES ASSUME SettingsInit PROVE Planned /\ Timeline!Init
  OBVIOUS
<1>1. \A b \in Admins : save[b].pc = "idle"
  BY DEF SettingsInit, NoSave
<1>2. Written = {}
  BY <1>1 DEF SettingsInit, Written
<1>3. \A f, d : Val({}, f, d) = Default[f]
  BY DEF Val, ValueOf, ActiveAt
<1>4. Plan = [f \in Fields |-> [d \in Dates |-> Default[f]]]
  BY <1>2, <1>3, PlanIs DEF PlanOf
<1> QED
  BY <1>1, <1>4 DEF Planned, PlannedSave, Timeline!Init, Timeline!Dates, Dates

\* createVersion implements SettingsTimeline: with one save at a time, whatever else reads, seeds or
\* goes by, a change holds from its date until the rule was already due to change, and no other rule
\* or date is touched.
THEOREM LoneSavesImplementTimeline == SettingsSpec /\ []LoneSaves => KeepsTheTimeline
<1>1. Inv /\ Planned /\ LoneSaves /\ [SettingsNext]_settingsVars => Planned' /\ [Timeline!Next]_Plan
  BY TimelineStepOK
<1> QED
  BY <1>1, TimelineStart, Invariance, PTL DEF SettingsSpec, KeepsTheTimeline, Timeline!Spec
=============================================================================
