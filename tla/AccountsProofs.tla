--------------------------- MODULE AccountsProofs ---------------------------
(***************************************************************************)
(* Theorems about Themes, OwnershipBackfill, Accounts and Friends, and     *)
(* last about MCAccounts, where they and Library are one.  The components  *)
(* share no variable, and each has its own specification.                  *)
(***************************************************************************)
EXTENDS MCAccounts, LibraryProofs

(***************************************************************************)
(* Themes.  While users send one request after the other, what a request   *)
(* of a user has seen stays so: others only change rows without an owner   *)
(* and their own.                                                          *)
(***************************************************************************)
OneCallPerOwner == \A c, d \in Callers :
    calls[c] # NoCall /\ calls[d] # NoCall /\ calls[c].user = calls[d].user => c = d

CallsSawTheirTheme == \A c \in Callers :
    /\ ~IsAt(c, "failed")
    /\ IsAt(c, "get") => VisibleTo(calls[c].user, calls[c].id)
    /\ IsAt(c, "delete") => themes[calls[c].id] = calls[c].user

ThemesInv == /\ themes \in [ThemeIds -> Owners \cup {Nobody}]
             /\ stored \in [Owners -> Choices]
             /\ calls \in [Callers -> Call \cup {NoCall}]
             /\ \A c \in Callers :
                  IsAt(c, "create") \/ IsAt(c, "delete") => calls[c].id \in ThemeIds
             /\ apart => OneCallPerOwner /\ CallsSawTheirTheme

\* A call is no NoCall, and has a user and a choice.
LEMMA CallFields ==
    /\ \A x \in Call : x # NoCall /\ x.user \in Owners /\ x.id \in Choices
    /\ \A at \in {"create", "apply", "read", "coerce", "get", "delete", "failed"},
          u \in Owners, id \in Choices : [at |-> at, user |-> u, id |-> id] \in Call
    /\ \A id \in ThemeIds : id # Default /\ id \in Choices
<1>1. \A x \in Call : x # NoCall /\ x.user \in Owners /\ x.id \in Choices
  BY DEF Call, NoCall
<1>2. \A at \in {"create", "apply", "read", "coerce", "get", "delete", "failed"},
         u \in Owners, id \in Choices : [at |-> at, user |-> u, id |-> id] \in Call
  BY DEF Call
<1>3. \A id \in ThemeIds : id # Default /\ id \in Choices
  BY DEF ThemeIds, Default, Choices
<1> QED BY <1>1, <1>2, <1>3

\* No request runs at first.
LEMMA ThemesInitially == InitThemes => ThemesInv
BY DEF InitThemes, ThemesInv, OneCallPerOwner, CallsSawTheirTheme, IsAt, Choices

\* A call that begins or goes on, the rows of themes being as they were.
LEMMA CallStep ==
    ASSUME ThemesInv, NEW c \in Callers, NEW u \in Owners, NEW id \in Choices,
           NEW at \in {"create", "apply", "read", "coerce", "get", "delete"},
           Calls(c, u, at, id), UNCHANGED <<themes, apart>>, stored' \in [Owners -> Choices],
           MayCall(c, u) \/ (calls[c] # NoCall /\ calls[c].user = u),
           at \in {"create", "delete"} => id \in ThemeIds,
           apart /\ at = "get" => VisibleTo(u, id),
           apart /\ at = "delete" => themes[id] = u
    PROVE  ThemesInv'
<1> DEFINE x == [at |-> at, user |-> u, id |-> id]
<1>1. x \in Call /\ x # NoCall /\ x.at = at /\ x.user = u /\ x.id = id
  BY CallFields
<1>2. calls' = [calls EXCEPT ![c] = x]
  BY DEF Calls
<1> HIDE DEF x
<1>3. /\ calls' \in [Callers -> Call \cup {NoCall}] /\ calls'[c] = x
      /\ \A d \in Callers \ {c} : calls'[d] = calls[d]
  BY <1>1, <1>2 DEF ThemesInv
<1>4. \A d \in Callers : IsAt(d, "create")' \/ IsAt(d, "delete")' => calls'[d].id \in ThemeIds
  BY <1>1, <1>3 DEF ThemesInv, IsAt
<1>5. apart => OneCallPerOwner'
  BY <1>1, <1>3 DEF ThemesInv, OneCallPerOwner, MayCall
<1>6. apart => CallsSawTheirTheme'
  BY <1>1, <1>3 DEF ThemesInv, CallsSawTheirTheme, IsAt, VisibleTo
<1> QED BY <1>3, <1>4, <1>5, <1>6 DEF ThemesInv, ThemeIds, Choices

\* A call that ends, the rows of themes being as they were.
LEMMA CallReturns ==
    ASSUME ThemesInv, NEW c \in Callers, Returns(c), UNCHANGED <<themes, stored, apart>>
    PROVE  ThemesInv'
<1>1. /\ calls' \in [Callers -> Call \cup {NoCall}] /\ calls'[c] = NoCall
      /\ \A d \in Callers \ {c} : calls'[d] = calls[d]
  BY DEF Returns, ThemesInv
<1>2. \A d \in Callers : IsAt(d, "create")' \/ IsAt(d, "delete")' => calls'[d].id \in ThemeIds
  BY <1>1 DEF ThemesInv, IsAt
<1>3. apart => OneCallPerOwner'
  BY <1>1 DEF ThemesInv, OneCallPerOwner
<1>4. apart => CallsSawTheirTheme'
  BY <1>1 DEF ThemesInv, CallsSawTheirTheme, IsAt, VisibleTo
<1> QED BY <1>1, <1>2, <1>3, <1>4 DEF ThemesInv, ThemeIds, Choices

\* What a call of the state at has in its fields.
LEMMA CallAt ==
    ASSUME ThemesInv, NEW c \in Callers, NEW at, IsAt(c, at)
    PROVE  /\ calls[c] # NoCall /\ calls[c].at = at
           /\ calls[c].user \in Owners /\ calls[c].id \in Choices
BY CallFields DEF ThemesInv, IsAt

\* An inserted row had no owner, so that no other call saw it as its user's.
LEMMA InsertThemeKeeps ==
    ASSUME ThemesInv, NEW c \in Callers, InsertTheme(c) PROVE ThemesInv'
<1> DEFINE u == calls[c].user
           id == calls[c].id
           x == [at |-> "get", user |-> u, id |-> id]
<1>1. /\ calls[c] # NoCall /\ u \in Owners /\ id \in ThemeIds /\ id \in Choices
  BY CallAt, CallFields DEF InsertTheme, ThemesInv, IsAt
<1>2. x \in Call /\ x # NoCall /\ x.at = "get" /\ x.user = u /\ x.id = id
  BY <1>1, CallFields
<1>3. /\ themes[id] = Nobody /\ themes' = [themes EXCEPT ![id] = u]
      /\ calls' = [calls EXCEPT ![c] = x] /\ UNCHANGED <<stored, apart>>
  BY DEF InsertTheme, Calls
<1>4. /\ themes' \in [ThemeIds -> Owners \cup {Nobody}] /\ themes'[id] = u
      /\ \A i \in ThemeIds \ {id} : themes'[i] = themes[i]
  BY <1>1, <1>3 DEF ThemesInv
<1> HIDE DEF x
<1>5. /\ calls' \in [Callers -> Call \cup {NoCall}] /\ calls'[c] = x
      /\ \A d \in Callers \ {c} : calls'[d] = calls[d]
  BY <1>2, <1>3 DEF ThemesInv
<1>6. \A d \in Callers : IsAt(d, "create")' \/ IsAt(d, "delete")' => calls'[d].id \in ThemeIds
  BY <1>2, <1>5 DEF ThemesInv, IsAt
<1>7. apart => OneCallPerOwner'
  BY <1>1, <1>2, <1>5 DEF ThemesInv, OneCallPerOwner
<1>8. ASSUME apart, NEW d \in Callers
      PROVE  /\ ~IsAt(d, "failed")'
             /\ IsAt(d, "get")' => VisibleTo(calls[d].user, calls[d].id)'
             /\ IsAt(d, "delete")' => themes'[calls'[d].id] = calls'[d].user
  <2>1. CASE d = c
    <3>1. calls'[d] = x
      BY <1>5, <2>1
    <3>2. ~IsAt(d, "failed")' /\ ~IsAt(d, "delete")'
      BY <1>2, <3>1 DEF IsAt
    <3>3. VisibleTo(calls[d].user, calls[d].id)'
      BY <1>2, <1>4, <3>1 DEF VisibleTo
    <3> QED BY <3>2, <3>3
  <2>2. CASE d # c
    <3>1. calls'[d] = calls[d]
      BY <1>5, <2>2
    <3>2. ~IsAt(d, "failed") /\ (IsAt(d, "get") => VisibleTo(calls[d].user, calls[d].id))
          /\ (IsAt(d, "delete") => themes[calls[d].id] = calls[d].user)
      BY <1>8 DEF ThemesInv, CallsSawTheirTheme
    <3>3. CASE calls[d] = NoCall
      BY <3>1, <3>3 DEF IsAt
    <3>4. CASE calls[d] # NoCall
      <4>1. calls[d].user \in Owners /\ calls[d].id \in ThemeIds \cup {Default}
        BY <3>4, CallFields DEF ThemesInv, Choices
      <4>2. calls[d].id \in ThemeIds /\ themes[calls[d].id] = calls[d].user => calls[d].id # id
        BY <1>3, <4>1, NobodyAssumption
      <4>3. calls[d].id \in ThemeIds /\ themes[calls[d].id] = calls[d].user
              => themes'[calls[d].id] = calls[d].user
        BY <1>4, <4>2
      <4>4. ~IsAt(d, "failed")' /\ (IsAt(d, "get")' => IsAt(d, "get"))
            /\ (IsAt(d, "delete")' => IsAt(d, "delete"))
        BY <3>1, <3>2 DEF IsAt
      <4>5. VisibleTo(calls[d].user, calls[d].id) => VisibleTo(calls[d].user, calls[d].id)'
        BY <3>1, <4>1, <4>3 DEF VisibleTo
      <4>6. IsAt(d, "delete") => themes'[calls'[d].id] = calls'[d].user
        BY <3>1, <3>2, <4>3 DEF ThemesInv
      <4> QED BY <3>2, <4>4, <4>5, <4>6
    <3> QED BY <3>3, <3>4
  <2> QED BY <2>1, <2>2
<1>9. apart => CallsSawTheirTheme'
  BY <1>8 DEF CallsSawTheirTheme
<1> QED BY <1>3, <1>4, <1>5, <1>6, <1>7, <1>9 DEF ThemesInv, ThemeIds, Choices

\* A deleted row was the user's, and other users' calls saw others.
LEMMA DeleteThemeKeeps ==
    ASSUME ThemesInv, NEW c \in Callers, DeleteTheme(c) PROVE ThemesInv'
<1> DEFINE id == calls[c].id
<1>1. calls[c] # NoCall /\ (apart => themes[id] = calls[c].user)
  BY DEF DeleteTheme, ThemesInv, CallsSawTheirTheme, IsAt
<1>2. /\ themes' = [themes EXCEPT ![id] = Nobody]
      /\ calls' = [calls EXCEPT ![c] = NoCall] /\ UNCHANGED <<stored, apart>>
  BY DEF DeleteTheme, Returns
<1>3. /\ themes' \in [ThemeIds -> Owners \cup {Nobody}]
      /\ \A i \in ThemeIds \ {id} : themes'[i] = themes[i]
  BY <1>2 DEF ThemesInv
<1>4. /\ calls' \in [Callers -> Call \cup {NoCall}] /\ calls'[c] = NoCall
      /\ \A d \in Callers \ {c} : calls'[d] = calls[d]
  BY <1>2 DEF ThemesInv
<1>5. \A d \in Callers : IsAt(d, "create")' \/ IsAt(d, "delete")' => calls'[d].id \in ThemeIds
  BY <1>4 DEF ThemesInv, IsAt
<1>6. apart => OneCallPerOwner'
  BY <1>4 DEF ThemesInv, OneCallPerOwner
<1>7. ASSUME apart, NEW d \in Callers
      PROVE  /\ ~IsAt(d, "failed")'
             /\ IsAt(d, "get")' => VisibleTo(calls[d].user, calls[d].id)'
             /\ IsAt(d, "delete")' => themes'[calls'[d].id] = calls'[d].user
  <2>1. CASE calls'[d] = NoCall
    BY <2>1 DEF IsAt
  <2>2. CASE calls'[d] # NoCall
    <3>1. d # c /\ calls'[d] = calls[d] /\ calls[d] # NoCall
      BY <1>4, <2>2
    <3>2. ~IsAt(d, "failed") /\ (IsAt(d, "get") => VisibleTo(calls[d].user, calls[d].id))
          /\ (IsAt(d, "delete") => themes[calls[d].id] = calls[d].user)
      BY <1>7 DEF ThemesInv, CallsSawTheirTheme
    <3>3. calls[d].user # calls[c].user
      BY <1>1, <1>7, <3>1 DEF ThemesInv, OneCallPerOwner
    <3>4. calls[d].id \in ThemeIds \cup {Default} /\ calls[d].id \in Choices
      BY <3>1, CallFields DEF ThemesInv, Choices
    <3>5. calls[d].id \in ThemeIds /\ themes[calls[d].id] = calls[d].user
            => themes'[calls[d].id] = calls[d].user
      BY <1>1, <1>3, <1>7, <3>3
    <3>6. ~IsAt(d, "failed")'
      BY <3>1, <3>2 DEF IsAt
    <3>7. IsAt(d, "get")' => VisibleTo(calls[d].user, calls[d].id)'
      BY <3>1, <3>2, <3>4, <3>5 DEF IsAt, VisibleTo
    <3>8. IsAt(d, "delete")' => themes'[calls'[d].id] = calls'[d].user
      <4>1. IsAt(d, "delete")' => IsAt(d, "delete")
        BY <3>1 DEF IsAt
      <4> QED BY <3>1, <3>2, <3>5, <4>1 DEF ThemesInv
    <3> QED BY <3>6, <3>7, <3>8
  <2> QED BY <2>1, <2>2
<1>8. apart => CallsSawTheirTheme'
  BY <1>7 DEF CallsSawTheirTheme
<1> QED BY <1>2, <1>3, <1>4, <1>5, <1>6, <1>8 DEF ThemesInv, ThemeIds, Choices

\* Every step keeps it.
LEMMA ThemesPreserved == ThemesInv /\ [NextThemes]_themesVars => ThemesInv'
<1> SUFFICES ASSUME ThemesInv, [NextThemes]_themesVars PROVE ThemesInv'
  OBVIOUS
<1>1. CASE UNCHANGED themesVars
  BY <1>1 DEF themesVars, ThemesInv, OneCallPerOwner, CallsSawTheirTheme, IsAt, VisibleTo,
              ThemeIds, Choices
<1>2. ASSUME NEW c \in Callers, NEW u \in Owners, ReadStored(c, u) PROVE ThemesInv'
  <2>1. stored[u] \in Choices /\ stored' \in [Owners -> Choices]
    BY <1>2 DEF ReadStored, ThemesInv
  <2>2. Calls(c, u, "coerce", stored[u]) /\ UNCHANGED <<themes, apart>>
        /\ (MayCall(c, u) \/ (calls[c] # NoCall /\ calls[c].user = u))
    BY <1>2 DEF ReadStored, IsAt
  <2> QED BY <2>1, <2>2, CallStep
<1>3. ASSUME NEW c \in Callers, NEW u \in Owners, NEW id \in Choices, ApplyTheme(c, u, id)
      PROVE  ThemesInv'
  <2>1. stored' \in [Owners -> Choices]
    BY <1>3 DEF ApplyTheme, ThemesInv
  <2>2. Calls(c, u, "apply", id) /\ UNCHANGED <<themes, apart>> /\ MayCall(c, u)
    BY <1>3 DEF ApplyTheme
  <2> QED BY <2>1, <2>2, CallStep
<1>4. ASSUME NEW c \in Callers, NEW u \in Owners, NEW id \in ThemeIds, RequestTheme(c, u, id)
      PROVE  ThemesInv'
  <2> DEFINE given == IF themes[id] = Nobody THEN id ELSE id \o <<u>>
  <2>1. Calls(c, u, "create", given) /\ given \in ThemeIds /\ MayCall(c, u)
        /\ UNCHANGED <<themes, stored, apart>>
    BY <1>4 DEF RequestTheme
  <2> HIDE DEF given
  <2>2. given \in Choices /\ stored' \in [Owners -> Choices]
    BY <2>1, CallFields DEF ThemesInv
  <2> QED BY <2>1, <2>2, CallStep
<1>5. ASSUME NEW c \in Callers, NEW u \in Owners, NEW id \in ThemeIds, RequestDeletion(c, u, id)
      PROVE  ThemesInv'
  <2>1. Calls(c, u, "delete", id) /\ themes[id] = u /\ MayCall(c, u)
        /\ UNCHANGED <<themes, stored, apart>>
    BY <1>5 DEF RequestDeletion
  <2>2. id \in Choices /\ stored' \in [Owners -> Choices]
    BY <2>1, CallFields DEF ThemesInv
  <2> QED BY <2>1, <2>2, CallStep
<1>6. ASSUME NEW c \in Callers, Coerce(c) PROVE ThemesInv'
  <2> DEFINE u == calls[c].user
             id == IF VisibleTo(u, calls[c].id) THEN calls[c].id ELSE Default
  <2>1. Calls(c, u, "get", id) /\ UNCHANGED <<themes, stored, apart>>
    BY <1>6 DEF Coerce
  <2>2. u \in Owners /\ calls[c] # NoCall /\ calls[c].user = u /\ calls[c].id \in Choices
    BY <1>6, CallAt DEF Coerce
  <2>3. VisibleTo(u, id) /\ id \in Choices
    BY <2>2 DEF VisibleTo, Choices
  <2>4. stored' \in [Owners -> Choices]
    BY <2>1 DEF ThemesInv
  <2> HIDE DEF u, id
  <2> QED BY <2>1, <2>2, <2>3, <2>4, CallStep
<1>7. ASSUME NEW c \in Callers, GetTheme(c) PROVE ThemesInv'
  <2>1. CASE VisibleTo(calls[c].user, calls[c].id)
    BY <1>7, <2>1, CallReturns DEF GetTheme
  <2>2. CASE ~VisibleTo(calls[c].user, calls[c].id)
    <3> DEFINE x == [at |-> "failed", user |-> calls[c].user, id |-> calls[c].id]
    <3>1. ~apart /\ calls[c] # NoCall
      BY <1>7, <2>2 DEF GetTheme, ThemesInv, CallsSawTheirTheme, IsAt
    <3>2. x \in Call /\ x.at = "failed"
      BY <1>7, CallAt, CallFields DEF GetTheme
    <3>3. calls' = [calls EXCEPT ![c] = x] /\ UNCHANGED <<themes, stored, apart>>
      BY <1>7, <2>2 DEF GetTheme, Calls
    <3> HIDE DEF x
    <3>4. /\ calls' \in [Callers -> Call \cup {NoCall}] /\ calls'[c] = x
          /\ \A d \in Callers \ {c} : calls'[d] = calls[d]
      BY <3>2, <3>3 DEF ThemesInv
    <3>5. \A d \in Callers : IsAt(d, "create")' \/ IsAt(d, "delete")' => calls'[d].id \in ThemeIds
      BY <3>2, <3>4 DEF ThemesInv, IsAt
    <3> QED BY <3>1, <3>3, <3>4, <3>5 DEF ThemesInv, ThemeIds, Choices
  <2> QED BY <2>1, <2>2
<1>8. ASSUME NEW c \in Callers, NotFound(c) PROVE ThemesInv'
  BY <1>8, CallReturns DEF NotFound
<1>9. ASSUME NEW c \in Callers, StoreActive(c) PROVE ThemesInv'
  <2>1. /\ calls[c].user \in Owners /\ calls[c] # NoCall /\ calls[c].id \in Choices
    BY <1>9, CallAt DEF StoreActive
  <2>2. stored' \in [Owners -> Choices] /\ UNCHANGED <<themes, apart>>
        /\ Calls(c, calls[c].user, "read", Default)
    BY <1>9, <2>1 DEF StoreActive, ThemesInv
  <2>3. Default \in Choices
    BY DEF Choices
  <2> QED BY <2>1, <2>2, <2>3, CallStep
<1>10. ASSUME NEW c \in Callers, InsertClashes(c) PROVE ThemesInv'
  BY <1>10, CallReturns DEF InsertClashes
<1> QED BY <1>1, <1>2, <1>3, <1>4, <1>5, <1>6, <1>7, <1>8, <1>9, <1>10, InsertThemeKeeps,
           DeleteThemeKeeps DEF NextThemes

\* A user who sends one request after the other never meets a theme that is
\* gone between two looks and deletes only themes of his own, for any number
\* of users and themes (get_voice_settings, delete_theme).
THEOREM OthersLeaveThemes == SpecThemes => []OthersBreakNoTheme
<1>1. SpecThemes => []ThemesInv
  BY ThemesInitially, ThemesPreserved, PTL DEF SpecThemes
<1>2. ThemesInv => OthersBreakNoTheme
  BY DEF ThemesInv, CallsSawTheirTheme, OthersBreakNoTheme
<1> QED BY <1>1, <1>2, PTL

(***************************************************************************)
(* The backfill.  A file is moved once, under its own name or the one with *)
(* the modification time.  A row that an attempt has given a path knows a  *)
(* file that this attempt moved; and of an attempt that none went before,  *)
(* whatever was moved is what some row it has come to may mean.            *)
(***************************************************************************)
Direct(f) == UserPlace(NameOf[f])
Renamed(f) == UserPlace(RenamedAs[f])
Come(r) == r \in Rows /\ r < next

BackfillTypes == /\ place \in [Files -> Places]
                 /\ paths \in [Rows -> Places] /\ adopted \in [Rows -> Places]
                 /\ next \in Nat

PlacesKeepApart ==
    \A f, g \in Files : f # g /\ place[f] = place[g] /\ place[f] # Legacy =>
        MovedOver(f, g) \/ MovedOver(g, f)

(* What a row that has a new path names.                                   *)
RowNamesAFile(path, r) ==
    path[r] # Legacy =>
        /\ \E f \in Files : place[f] = path[r]
        /\ \A q \in Rows \ {r} : path[q] = path[r] =>
              \E f, g \in Files : f # g /\ place[f] = path[r] /\ place[g] = path[r]
RowsNameFiles(path) == \A r \in Rows : RowNamesAFile(path, r)

(* What an attempt that none went before has done so far.                  *)
AttemptFollows ==
    /\ \A r \in Rows, f \in Files :
          Come(r) /\ IsFirstFor(r, f) => adopted[r] = place[f] /\ place[f] # Legacy
    /\ \A f \in Files : place[f] # Legacy => \E r \in Rows : Come(r) /\ f \in MayMean(r)

BackfillInv ==
    /\ BackfillTypes
    /\ \A f \in Files : place[f] \in {Legacy, Direct(f), Renamed(f)}
    /\ PlacesKeepApart
    /\ RowsNameFiles(paths) /\ RowsNameFiles(adopted)
    /\ owned => next = 0
    /\ ~owned => \A r \in Rows : paths[r] = Legacy
    /\ ~owned /\ ~interrupted => IF next = 0 THEN \A f \in Files : place[f] = Legacy
                                             ELSE AttemptFollows
    /\ FirstRowFollowsItsFile

\* The places a file may have.
LEMMA PlacesDiffer ==
    /\ Legacy \in Places
    /\ \A f \in Files : /\ Direct(f) \in Places /\ Renamed(f) \in Places
                        /\ Direct(f) # Legacy /\ Renamed(f) # Legacy
    /\ \A f, g \in Files : /\ Renamed(f) = Direct(g) => RenamedAs[f] = NameOf[g]
                           /\ Renamed(f) = Renamed(g) => RenamedAs[f] = RenamedAs[g]
    /\ \A f \in Files : Destination(f) \in {Direct(f), Renamed(f)}
    /\ \A f, g \in Files : place[g] = Destination(f) => Destination(f) = Renamed(f)
<1>1. Legacy \in Places
  BY DEF Legacy, Places
<1>2. ASSUME NEW f \in Files
      PROVE  /\ Direct(f) \in Places /\ Renamed(f) \in Places
             /\ Direct(f) # Legacy /\ Renamed(f) # Legacy
  <2>1. NameOf[f] \in FileNames /\ RenamedAs[f] \in FileNames
    BY BackfillAssumption
  <2> QED BY <2>1 DEF Direct, Renamed, UserPlace, Legacy, Places
<1>3. \A f, g \in Files : /\ Renamed(f) = Direct(g) => RenamedAs[f] = NameOf[g]
                          /\ Renamed(f) = Renamed(g) => RenamedAs[f] = RenamedAs[g]
  BY DEF Renamed, Direct, UserPlace
<1>4. ASSUME NEW f \in Files PROVE Destination(f) \in {Direct(f), Renamed(f)}
  BY DEF Destination, Direct, Renamed
<1>5. ASSUME NEW f \in Files, NEW g \in Files, place[g] = Destination(f)
      PROVE  Destination(f) = Renamed(f)
  BY <1>5 DEF Destination, Renamed
<1> QED BY <1>1, <1>2, <1>3, <1>4, <1>5

\* Everything lies in the legacy directories.
LEMMA BackfillInitially == InitBackfill => BackfillInv
<1> SUFFICES ASSUME InitBackfill PROVE BackfillInv
  OBVIOUS
<1>1. BackfillTypes
  BY PlacesDiffer DEF InitBackfill, BackfillTypes
<1>2. \A f \in Files : place[f] = Legacy
  BY DEF InitBackfill
<1>3. \A r \in Rows : paths[r] = Legacy /\ adopted[r] = Legacy
  BY DEF InitBackfill
<1> QED BY <1>1, <1>2, <1>3
        DEF InitBackfill, BackfillInv, PlacesKeepApart, RowsNameFiles, RowNamesAFile, FirstRowFollowsItsFile

\* A file that is moved gets a place no file has, unless the names clash.
LEMMA MovedApart ==
    ASSUME BackfillInv, NEW f \in Files, place' = [place EXCEPT ![f] = Destination(f)]
    PROVE  /\ place' \in [Files -> Places]
           /\ \A g \in Files : place'[g] \in {Legacy, Direct(g), Renamed(g)}
           /\ PlacesKeepApart'
           /\ place'[f] # Legacy /\ \A g \in Files \ {f} : place'[g] = place[g]
           /\ place'[f] = Destination(f)
<1>1. /\ place'[f] = Destination(f) /\ Destination(f) \in {Direct(f), Renamed(f)}
      /\ \A g \in Files \ {f} : place'[g] = place[g]
  BY PlacesDiffer DEF BackfillInv, BackfillTypes
<1>2. place' \in [Files -> Places]
  BY <1>1, PlacesDiffer DEF BackfillInv, BackfillTypes
<1>3. \A g \in Files : place'[g] \in {Legacy, Direct(g), Renamed(g)}
  BY <1>1 DEF BackfillInv
<1>4. ASSUME NEW g \in Files \ {f}, place[g] = Destination(f)
      PROVE  MovedOver(f, g)'
  <2>1. place[g] \in {Direct(g), Renamed(g)}
    BY <1>1, <1>4, PlacesDiffer DEF BackfillInv
  <2>2. place[g] = Renamed(f)
    BY <1>4, PlacesDiffer
  <2>3. RenamedAs[f] = NameOf[g] \/ RenamedAs[f] = RenamedAs[g]
    BY <2>1, <2>2, PlacesDiffer
  <2> QED BY <1>1, <1>4, <2>2, <2>3 DEF MovedOver, Renamed
<1>5. ASSUME NEW g \in Files, NEW h \in Files, g # h, place'[g] = place'[h], place'[g] # Legacy
      PROVE  MovedOver(g, h)' \/ MovedOver(h, g)'
  <2>1. CASE g = f
    BY <1>1, <1>4, <1>5, <2>1
  <2>2. CASE h = f
    BY <1>1, <1>4, <1>5, <2>2
  <2>3. CASE g # f /\ h # f
    BY <1>1, <1>5, <2>3 DEF BackfillInv, PlacesKeepApart, MovedOver
  <2> QED BY <2>1, <2>2, <2>3
<1>6. PlacesKeepApart'
  BY <1>5 DEF PlacesKeepApart
<1> QED BY <1>1, <1>2, <1>3, <1>6, PlacesDiffer

\* A file that is moved from where it was leaves the rows' files alone.
LEMMA MoveKeepsRows ==
    ASSUME NEW path \in [Rows -> Places], RowsNameFiles(path),
           NEW f \in Files, place[f] = Legacy,
           \A g \in Files \ {f} : place'[g] = place[g]
    PROVE  \A r \in Rows : path[r] # Legacy =>
              /\ \E g \in Files \ {f} : place'[g] = path[r]
              /\ \A q \in Rows \ {r} : path[q] = path[r] =>
                    \E g, h \in Files : g # h /\ place'[g] = path[r] /\ place'[h] = path[r]
<1> SUFFICES ASSUME NEW r \in Rows, path[r] # Legacy
             PROVE  /\ \E g \in Files \ {f} : place'[g] = path[r]
                    /\ \A q \in Rows \ {r} : path[q] = path[r] =>
                          \E g, h \in Files : g # h /\ place'[g] = path[r] /\ place'[h] = path[r]
  OBVIOUS
<1>1. RowNamesAFile(path, r)
  BY DEF RowsNameFiles
<1>2. \E g \in Files \ {f} : place'[g] = path[r]
  BY <1>1 DEF RowNamesAFile
<1>3. ASSUME NEW q \in Rows \ {r}, path[q] = path[r]
      PROVE  \E g, h \in Files : g # h /\ place'[g] = path[r] /\ place'[h] = path[r]
  <2>1. PICK g \in Files, h \in Files : g # h /\ place[g] = path[r] /\ place[h] = path[r]
    BY <1>1, <1>3 DEF RowNamesAFile
  <2>2. g # f /\ h # f
    BY <2>1
  <2> QED BY <2>1, <2>2
<1> QED BY <1>2, <1>3

\* What a row comes to.
LEMMA ResolvedIsCandidate ==
    ASSUME NEW r \in Rows, NEW f \in Resolved(r)
    PROVE  f \in Files /\ place[f] = Legacy /\ f \in MayMean(r)
<1>1. PICK i \in StillThere(r) : f = Candidates[r][i]
  BY DEF Resolved
<1>2. i \in DOMAIN Candidates[r] /\ place[f] = Legacy
  BY <1>1 DEF StillThere
<1>3. Candidates[r] \in Seq(Files)
  BY BackfillAssumption
<1> QED BY <1>1, <1>2, <1>3 DEF MayMean

\* A file no row before may have meant is what its row comes to.
LEMMA FirstIsResolved ==
    ASSUME NEW r \in Rows, NEW f \in Files, IsFirstFor(r, f), place[f] = Legacy
    PROVE  Resolved(r) = {f}
<1>1. Candidates[r] \in Seq(Files) /\ Candidates[r] # <<>> /\ Candidates[r][1] = f
  BY BackfillAssumption DEF IsFirstFor
<1>2. 1 \in StillThere(r) /\ StillThere(r) \subseteq Nat \ {0}
  BY <1>1 DEF StillThere
<1>3. {i \in StillThere(r) : \A j \in StillThere(r) : i <= j} = {1}
  BY <1>2
<1> QED BY <1>1, <1>3 DEF Resolved

\* One row after the other.
LEMMA AdoptKeeps == ASSUME BackfillInv, Adopt PROVE BackfillInv'
<1>1. /\ next \in Rows /\ next \in Nat \ {0} /\ next' = next + 1 /\ ~owned
      /\ UNCHANGED <<paths, owned, interrupted>>
      /\ \A r \in Rows : paths[r] = Legacy
  BY BackfillAssumption DEF Adopt, BackfillInv
<1>2. \A r \in Rows : Come(r)' <=> Come(r) \/ r = next
  BY <1>1, BackfillAssumption DEF Come
<1>3. /\ ~Come(next)
      /\ \A r \in Rows, f \in Files : Come(r) /\ IsFirstFor(next, f) => f \notin MayMean(r)
  <2>1. ~(next < next)
    BY <1>1
  <2> QED BY <2>1 DEF Come, IsFirstFor
<1>4. \A r \in Rows, f \in Files : IsFirstFor(r, f)' <=> IsFirstFor(r, f)
  BY DEF IsFirstFor, MayMean
<1>5. \A r \in Rows : MayMean(r)' = MayMean(r)
  BY DEF MayMean
<1>6. RowsNameFiles(paths)'
  BY <1>1 DEF RowsNameFiles, RowNamesAFile
<1>7. ASSUME NEW f \in Resolved(next), <<next, f>> \notin Outside,
             place' = [place EXCEPT ![f] = Destination(f)],
             adopted' = [adopted EXCEPT ![next] = Destination(f)]
      PROVE  BackfillInv'
  <2>1. f \in Files /\ place[f] = Legacy /\ f \in MayMean(next)
    BY <1>1, ResolvedIsCandidate
  <2>2. /\ place' \in [Files -> Places]
        /\ \A g \in Files : place'[g] \in {Legacy, Direct(g), Renamed(g)}
        /\ PlacesKeepApart'
        /\ place'[f] # Legacy /\ \A g \in Files \ {f} : place'[g] = place[g]
        /\ place'[f] = Destination(f)
    BY <1>7, <2>1, MovedApart
  <2>3. /\ adopted' \in [Rows -> Places] /\ adopted'[next] = place'[f]
        /\ \A r \in Rows \ {next} : adopted'[r] = adopted[r]
    BY <1>1, <1>7, <2>1, <2>2 DEF BackfillInv, BackfillTypes
  <2>4. RowsNameFiles(adopted)'
    <3>1. \A r \in Rows : adopted[r] # Legacy =>
              /\ \E g \in Files \ {f} : place'[g] = adopted[r]
              /\ \A q \in Rows \ {r} : adopted[q] = adopted[r] =>
                    \E g, h \in Files : g # h /\ place'[g] = adopted[r] /\ place'[h] = adopted[r]
      <4>1. adopted \in [Rows -> Places] /\ RowsNameFiles(adopted)
        BY DEF BackfillInv, BackfillTypes
      <4> QED BY <2>1, <2>2, <4>1, MoveKeepsRows
    <3>2. ASSUME NEW r \in Rows, adopted'[r] # Legacy
          PROVE  /\ \E g \in Files : place'[g] = adopted'[r]
                 /\ \A q \in Rows \ {r} : adopted'[q] = adopted'[r] =>
                       \E g, h \in Files : g # h /\ place'[g] = adopted'[r] /\ place'[h] = adopted'[r]
      <4>1. \E g \in Files : place'[g] = adopted'[r]
        BY <2>1, <2>3, <3>1, <3>2
      <4>2. ASSUME NEW q \in Rows \ {r}, adopted'[q] = adopted'[r]
            PROVE  \E g, h \in Files : g # h /\ place'[g] = adopted'[r] /\ place'[h] = adopted'[r]
        <5>1. CASE r = next
          <6>1. adopted[q] = adopted'[q] /\ adopted[q] # Legacy
            BY <2>3, <3>2, <4>2, <5>1
          <6>2. PICK g \in Files \ {f} : place'[g] = adopted[q]
            BY <3>1, <6>1
          <6> QED BY <2>1, <2>3, <4>2, <5>1, <6>1, <6>2
        <5>2. CASE q = next
          <6>1. adopted[r] = adopted'[r] /\ adopted[r] # Legacy
            BY <2>3, <3>2, <5>2
          <6>2. PICK g \in Files \ {f} : place'[g] = adopted[r]
            BY <3>1, <6>1
          <6> QED BY <2>1, <2>3, <4>2, <5>2, <6>1, <6>2
        <5>3. CASE r # next /\ q # next
          BY <2>3, <3>1, <3>2, <4>2, <5>3
        <5> QED BY <5>1, <5>2, <5>3
      <4> QED BY <4>1, <4>2
    <3> QED BY <3>2 DEF RowsNameFiles, RowNamesAFile
  <2>5. ASSUME ~interrupted PROVE AttemptFollows'
    <3>1. AttemptFollows
      BY <1>1, <2>5 DEF BackfillInv
    <3>2. ASSUME NEW r \in Rows, NEW g \in Files, Come(r)', IsFirstFor(r, g)
          PROVE  adopted'[r] = place'[g] /\ place'[g] # Legacy
      <4>1. CASE r = next
        <5>1. place[g] = Legacy
          BY <1>3, <3>1, <3>2, <4>1 DEF AttemptFollows
        <5>2. Resolved(next) = {g}
          BY <3>2, <4>1, <5>1, FirstIsResolved
        <5> QED BY <1>7, <2>2, <2>3, <4>1, <5>2
      <4>2. CASE r # next
        <5>1. Come(r) /\ adopted[r] = place[g] /\ place[g] # Legacy
          BY <1>2, <3>1, <3>2, <4>2 DEF AttemptFollows
        <5> QED BY <2>1, <2>2, <2>3, <4>2, <5>1
      <4> QED BY <4>1, <4>2
    <3>3. \A g \in Files : place'[g] # Legacy => \E r \in Rows : Come(r)' /\ g \in MayMean(r)
      BY <1>1, <1>2, <2>1, <2>2, <3>1 DEF AttemptFollows
    <3> QED BY <1>4, <1>5, <3>2, <3>3 DEF AttemptFollows
  <2>6. BackfillTypes' /\ next' # 0
    BY <1>1, <2>2, <2>3 DEF BackfillInv, BackfillTypes
  <2> QED BY <1>1, <1>6, <2>2, <2>4, <2>5, <2>6 DEF BackfillInv, FirstRowFollowsItsFile
<1>8. ASSUME \A f \in Resolved(next) : <<next, f>> \in Outside, UNCHANGED <<place, adopted>>
      PROVE  BackfillInv'
  <2>1. BackfillTypes' /\ next' # 0
    BY <1>1, <1>8 DEF BackfillInv, BackfillTypes
  <2>2. ASSUME ~interrupted PROVE AttemptFollows'
    <3>1. AttemptFollows
      BY <1>1, <2>2 DEF BackfillInv
    <3>2. ASSUME NEW f \in Files, IsFirstFor(next, f) PROVE FALSE
      <4>1. place[f] = Legacy
        BY <1>3, <3>1, <3>2 DEF AttemptFollows
      <4>2. Resolved(next) = {f}
        BY <1>1, <3>2, <4>1, FirstIsResolved
      <4> QED BY <1>8, <3>2, <4>2 DEF IsFirstFor
    <3>3. \A r \in Rows, f \in Files :
             Come(r)' /\ IsFirstFor(r, f) => adopted[r] = place[f] /\ place[f] # Legacy
      BY <1>2, <3>1, <3>2 DEF AttemptFollows
    <3>4. \A f \in Files : place[f] # Legacy => \E r \in Rows : Come(r)' /\ f \in MayMean(r)
      BY <1>2, <3>1 DEF AttemptFollows
    <3> QED BY <1>4, <1>5, <1>8, <3>3, <3>4 DEF AttemptFollows
  <2>3. RowsNameFiles(adopted)' /\ PlacesKeepApart'
    BY <1>8 DEF BackfillInv, RowsNameFiles, RowNamesAFile, PlacesKeepApart, MovedOver
  <2> QED BY <1>1, <1>6, <1>8, <2>1, <2>2, <2>3 DEF BackfillInv, FirstRowFollowsItsFile
<1> QED BY <1>7, <1>8 DEF Adopt

\* The rows' files and the first rows, where neither files nor rows change.
LEMMA RowsKeepFiles ==
    ASSUME BackfillInv, UNCHANGED place
    PROVE  /\ PlacesKeepApart'
           /\ \A r \in Rows, f \in Files : IsFirstFor(r, f)' <=> IsFirstFor(r, f)
           /\ adopted' = adopted => RowsNameFiles(adopted)'
           /\ adopted' = paths => RowsNameFiles(adopted)'
           /\ paths' = paths => RowsNameFiles(paths)'
           /\ paths' = adopted => RowsNameFiles(paths)'
<1>1. PlacesKeepApart'
  BY DEF BackfillInv, PlacesKeepApart, MovedOver
<1>2. \A r \in Rows, f \in Files : IsFirstFor(r, f)' <=> IsFirstFor(r, f)
  BY DEF IsFirstFor, MayMean
<1>3. /\ adopted' = adopted => RowsNameFiles(adopted)'
      /\ adopted' = paths => RowsNameFiles(adopted)'
      /\ paths' = paths => RowsNameFiles(paths)'
      /\ paths' = adopted => RowsNameFiles(paths)'
  BY DEF BackfillInv, RowsNameFiles, RowNamesAFile
<1> QED BY <1>1, <1>2, <1>3

\* Every step keeps it.
LEMMA BackfillPreserved == BackfillInv /\ [NextBackfill]_backfillVars => BackfillInv'
<1> SUFFICES ASSUME BackfillInv, [NextBackfill]_backfillVars PROVE BackfillInv'
  OBVIOUS
<1>1. CASE UNCHANGED backfillVars
  <2>1. UNCHANGED <<place, paths, adopted, next, owned, interrupted>>
    BY <1>1 DEF backfillVars
  <2>2. FirstRowFollowsItsFile' /\ BackfillTypes'
    BY <2>1, RowsKeepFiles DEF BackfillInv, BackfillTypes, FirstRowFollowsItsFile
  <2>3. AttemptFollows => AttemptFollows'
    BY <2>1, RowsKeepFiles DEF AttemptFollows, Come, MayMean
  <2> QED BY <2>1, <2>2, <2>3, RowsKeepFiles DEF BackfillInv
<1>2. CASE Begin
  <2>1. /\ next = 0 /\ next' = 1 /\ ~owned /\ adopted' = paths
        /\ UNCHANGED <<place, paths, owned, interrupted>>
    BY <1>2 DEF Begin
  <2>2. \A r \in Rows : ~Come(r)'
    <3>1. \A r \in Rows : ~(r < 1)
      BY BackfillAssumption
    <3> QED BY <2>1, <3>1 DEF Come
  <2>3. ~interrupted => AttemptFollows'
    BY <2>1, <2>2 DEF BackfillInv, AttemptFollows
  <2>4. BackfillTypes'
    BY <2>1 DEF BackfillInv, BackfillTypes
  <2> QED BY <2>1, <2>3, <2>4, RowsKeepFiles DEF BackfillInv, FirstRowFollowsItsFile
<1>3. CASE Adopted
  <2>1. /\ next # 0 /\ next \notin Rows /\ next' = 0 /\ paths' = adopted /\ owned' /\ ~owned
        /\ UNCHANGED <<place, adopted, interrupted>>
    BY <1>3 DEF Adopted, BackfillInv
  <2>2. \A r \in Rows : Come(r)
    <3>1. ASSUME NEW r \in Rows, ~(r < next) PROVE FALSE
      <4>1. next \in 1 .. r /\ 1 .. r \subseteq Rows
        BY <2>1, <3>1, BackfillAssumption DEF BackfillInv, BackfillTypes
      <4> QED BY <2>1, <4>1
    <3> QED BY <3>1 DEF Come
  <2>3. FirstRowFollowsItsFile'
    <3>1. ~interrupted => AttemptFollows
      BY <2>1 DEF BackfillInv
    <3> QED BY <2>1, <2>2, <3>1, RowsKeepFiles DEF FirstRowFollowsItsFile, AttemptFollows
  <2>4. BackfillTypes'
    BY <2>1 DEF BackfillInv, BackfillTypes
  <2> QED BY <2>1, <2>3, <2>4, RowsKeepFiles DEF BackfillInv
<1>4. CASE Interrupt
  <2>1. /\ next # 0 /\ next' = 0 /\ adopted' = paths /\ interrupted'
        /\ UNCHANGED <<place, paths, owned>>
    BY <1>4 DEF Interrupt
  <2>2. BackfillTypes'
    BY <2>1 DEF BackfillInv, BackfillTypes
  <2> QED BY <2>1, <2>2, RowsKeepFiles DEF BackfillInv, FirstRowFollowsItsFile
<1> QED BY <1>1, <1>2, <1>3, <1>4, AdoptKeeps DEF NextBackfill

\* Files of one name are moved apart and every row that is given a new path
\* names a file that is there, its own but where two names with the
\* modification time clash, however many rows name however many files, in
\* whatever order their candidates are tried, and however often an attempt is
\* interrupted (_adopt_path, _resolve_legacy_path).
THEOREM AdoptedFilesKeepApart == SpecBackfill => []FilesKeepApart
<1>1. SpecBackfill => []BackfillInv
  BY BackfillInitially, BackfillPreserved, PTL DEF SpecBackfill
<1>2. BackfillInv => FilesKeepApart
  BY DEF BackfillInv, FilesKeepApart, PlacesKeepApart, RowsNameFiles, RowNamesAFile
<1> QED BY <1>1, <1>2, PTL

\* Where nothing was interrupted a row that means a file before any other may
\* is given the file's new place, although rows may take other rows' files by
\* their names (backfill_legacy_single_user_data, _resolve_legacy_path).
THEOREM FirstRowsFollow == SpecBackfill => []FirstRowFollowsItsFile
<1>1. SpecBackfill => []BackfillInv
  BY BackfillInitially, BackfillPreserved, PTL DEF SpecBackfill
<1>2. BackfillInv => FirstRowFollowsItsFile
  BY DEF BackfillInv
<1> QED BY <1>1, <1>2, PTL

(***************************************************************************)
(* Accounts.  When requests do not overlap, what a request has read is     *)
(* still so when it writes, but for sessions that end: the administrator   *)
(* who acts is one, and so is somebody else than who is disabled.          *)
(***************************************************************************)
Administers(n) == users[n].role = "admin" /\ users[n].status = "active"
Populated == \E n \in Names : Exists(n)

AccountFacts ==
    /\ users \in [Names -> User] /\ sessions \in [Tokens -> Session]
    /\ invites \in [Invites -> Invite]
    /\ Populated => \E n \in Names : Administers(n)
    /\ \A i \in Invites : invites[i].state # "unused" => Populated
    /\ \A t \in Tokens : Live(t) => /\ users[sessions[t].user].status = "active"
                                    /\ sessions[t].current

(* What each request knows between its reads and its commit.               *)
Knows(r) ==
    /\ r.op \in {"bootstrap", "login", "claim", "password", "disable", "reset", "signout"}
          => r.name \in Names
    /\ r.op = "bootstrap" => ~Populated
    /\ r.op = "login" => users[r.name].status = "active" /\ r.current
    /\ r.op = "claim" => r.invite \in Invites /\ Populated
    /\ r.op = "admin" => r.acting \in Names /\ Administers(r.acting)
    /\ r.op \in {"disable", "reset", "signout"} => SessionsOf(r.name) \subseteq r.seen
    /\ r.op = "disable" => \E m \in Names \ {r.name} : Administers(m)
    /\ r.op = "disable" => users[r.name].status = r.status

OneRequest == \A c, d \in Clients : requests[c] # NoRequest /\ requests[d] # NoRequest => c = d

SerialInv == /\ AccountFacts
             /\ requests \in [Clients -> Request]
             /\ OneRequest
             /\ \A c \in Clients : Knows(requests[c])

AccountsInv == serial => SerialInv

\* Requests and their kinds.
LEMMA RequestFields ==
    /\ NoRequest \in Request /\ NoRequest.op = "none" /\ Knows(NoRequest)
    /\ NoUser \in User /\ NoUser.role = "none" /\ NoSession \in Session /\ NoSession.user = None
<1>1. NoRequest \in Request /\ NoRequest.op = "none"
  BY DEF NoRequest, Request
<1>2. Knows(NoRequest)
  BY DEF NoRequest, Knows
<1>3. NoUser \in User /\ NoUser.role = "none" /\ NoSession \in Session /\ NoSession.user = None
  BY DEF NoUser, User, NoSession, Session, Roles
<1> QED BY <1>1, <1>2, <1>3

\* Nobody exists at first.
LEMMA AccountsInitially == InitAccounts => AccountsInv
<1> SUFFICES ASSUME InitAccounts PROVE SerialInv
  BY DEF AccountsInv
<1>1. /\ users \in [Names -> User] /\ sessions \in [Tokens -> Session]
      /\ requests \in [Clients -> Request]
  BY RequestFields DEF InitAccounts
<1>2. invites \in [Invites -> Invite] /\ \A i \in Invites : invites[i].state = "unused"
  BY DEF InitAccounts, Invite, Roles
<1>3. ~Populated /\ \A t \in Tokens : ~Live(t)
  BY RequestFields DEF InitAccounts, Populated, Exists, Live
<1>4. OneRequest /\ \A c \in Clients : Knows(requests[c])
  BY RequestFields DEF InitAccounts, OneRequest
<1> QED BY <1>1, <1>2, <1>3, <1>4 DEF SerialInv, AccountFacts

\* A request that has read, and knows it.
LEMMA ReadKeeps ==
    ASSUME SerialInv, NEW c \in Clients, NEW r \in Request, Knows(r),
           requests' = [requests EXCEPT ![c] = r],
           \A d \in Clients \ {c} : requests[d] = NoRequest,
           UNCHANGED <<users, sessions, invites>>
    PROVE  SerialInv'
<1>1. UNCHANGED <<users, sessions, invites>>
  OBVIOUS
<1>2. AccountFacts'
  BY <1>1 DEF SerialInv, AccountFacts, Populated, Administers, Exists, Live
<1>3. /\ requests' \in [Clients -> Request] /\ requests'[c] = r
      /\ \A d \in Clients \ {c} : requests'[d] = NoRequest
  BY RequestFields DEF SerialInv
<1>4. OneRequest'
  BY <1>3 DEF OneRequest
<1>5. \A d \in Clients : Knows(requests[d])'
  <2>1. \A d \in Clients : requests'[d] = r \/ requests'[d] = NoRequest
    BY <1>3
  <2>2. Knows(NoRequest)
    BY RequestFields
  <2> QED BY <1>1, <2>1, <2>2 DEF Knows, Populated, Administers, Exists, SessionsOf
<1> QED BY <1>2, <1>3, <1>4, <1>5 DEF SerialInv

\* A request that begins: no other runs.
LEMMA StartKeeps ==
    ASSUME SerialInv, serial, NEW c \in Clients, NEW r \in Request, Knows(r), Starts(c, r)
    PROVE  SerialInv'
BY ReadKeeps DEF Starts

\* A request that ends: then none runs.
LEMMA EndKeeps ==
    ASSUME SerialInv, NEW c \in Clients, requests[c] # NoRequest, Ends(c), AccountFacts'
    PROVE  SerialInv'
<1>1. \A d \in Clients : requests'[d] = NoRequest
  BY DEF Ends, SerialInv, OneRequest
<1>2. requests' \in [Clients -> Request]
  BY RequestFields DEF Ends, SerialInv
<1>3. OneRequest'
  BY <1>1 DEF OneRequest
<1>4. \A d \in Clients : Knows(requests[d])'
  BY <1>1, RequestFields DEF Knows
<1> QED BY <1>2, <1>3, <1>4 DEF SerialInv

\* What the running request is, and that the others are not.
LEMMA Running ==
    ASSUME SerialInv, NEW c \in Clients, requests[c].op # "none"
    PROVE  /\ requests[c] # NoRequest /\ requests[c] \in Request /\ Knows(requests[c])
           /\ \A d \in Clients \ {c} : requests[d] = NoRequest
BY RequestFields DEF SerialInv, OneRequest

\* The sessions that are left.
LEMMA SessionsLeft ==
    ASSUME AccountFacts, NEW gone
    PROVE  /\ Without(gone) \in [Tokens -> Session]
           /\ \A t \in Tokens : Without(gone)[t] = IF t \in gone THEN NoSession ELSE sessions[t]
BY RequestFields DEF AccountFacts, Without

\* A session that is added.
LEMMA SessionAdded ==
    ASSUME AccountFacts, NEW t \in Tokens, NEW n \in Names, sessions' = Issued(t, n, TRUE)
    PROVE  /\ sessions' \in [Tokens -> Session]
           /\ sessions'[t].user = n /\ sessions'[t].current
           /\ \A s \in Tokens \ {t} : sessions'[s] = sessions[s]
<1> DEFINE x == [user |-> n, current |-> TRUE]
<1>1. x \in Session /\ x.user = n /\ x.current
  BY DEF Session
<1>2. sessions' = [sessions EXCEPT ![t] = x]
  BY DEF Issued
<1> HIDE DEF x
<1> QED BY <1>1, <1>2 DEF AccountFacts

\* Somebody new, who is signed in, and does not end the administrators.
LEMMA NewUserKeeps ==
    ASSUME AccountFacts, NEW n \in Names, NEW t \in Tokens, NEW role \in Roles,
           NEW via \in Invites \cup {None}, ~Exists(n),
           role = "admin" \/ Populated,
           users' = [users EXCEPT ![n] = NewUser(role, via)],
           sessions' = Issued(t, n, TRUE),
           invites' \in [Invites -> Invite]
    PROVE  AccountFacts'
<1> DEFINE x == NewUser(role, via)
<1>1. x \in User /\ x.role = role /\ x.status = "active"
  BY DEF NewUser, User
<1>0. users' = [users EXCEPT ![n] = x]
  OBVIOUS
<1> HIDE DEF x
<1>2. users' \in [Names -> User] /\ users'[n] = x /\ \A m \in Names \ {n} : users'[m] = users[m]
  BY <1>0, <1>1 DEF AccountFacts
<1>3. Populated'
  BY <1>1, <1>2 DEF Populated, Exists, Roles
<1>4. \E m \in Names : Administers(m)'
  <2>1. CASE role = "admin"
    BY <1>1, <1>2, <2>1 DEF Administers
  <2>2. CASE Populated
    <3>1. PICK m \in Names : Administers(m)
      BY <2>2 DEF AccountFacts
    <3>2. m # n
      BY <3>1 DEF Administers, Exists
    <3> QED BY <1>2, <3>1, <3>2 DEF Administers
  <2> QED BY <2>1, <2>2
<1>5. /\ sessions' \in [Tokens -> Session] /\ sessions'[t].user = n /\ sessions'[t].current
      /\ \A s \in Tokens \ {t} : sessions'[s] = sessions[s]
  BY SessionAdded
<1>6. \A m \in Names : users[m].status = "active" => users'[m].status = "active"
  BY <1>1, <1>2
<1>7. \A s \in Tokens : sessions'[s].user # None => sessions'[s].user \in Names
  BY <1>5 DEF Session
<1>8. ASSUME NEW s \in Tokens, Live(s)'
      PROVE  users'[sessions'[s].user].status = "active" /\ sessions'[s].current
  <2>1. CASE s = t
    BY <1>1, <1>2, <1>5, <2>1
  <2>2. CASE s # t
    <3>1. sessions'[s] = sessions[s] /\ Live(s) /\ sessions[s].user \in Names
      BY <1>5, <1>7, <1>8, <2>2 DEF Live
    <3> QED BY <1>6, <3>1 DEF AccountFacts
  <2> QED BY <2>1, <2>2
<1> QED BY <1>2, <1>3, <1>4, <1>5, <1>8 DEF AccountFacts

\* Sessions that end, of users who are as they were.
LEMMA SessionsEndKeeps ==
    ASSUME AccountFacts, NEW gone, sessions' = Without(gone), UNCHANGED <<users, invites>>
    PROVE  AccountFacts'
<1>1. /\ sessions' \in [Tokens -> Session]
      /\ \A t \in Tokens : sessions'[t] = IF t \in gone THEN NoSession ELSE sessions[t]
  BY SessionsLeft
<1>2. \A t \in Tokens : Live(t)' => sessions'[t] = sessions[t] /\ Live(t)
  BY <1>1, RequestFields DEF Live
<1> QED BY <1>1, <1>2 DEF AccountFacts, Populated, Exists, Administers

\* A new password: who showed the old one is gone or is the one who showed both.
LEMMA NewPasswordKeeps ==
    ASSUME SerialInv, NEW c \in Clients, requests[c].op # "none", NEW n \in Names, NEW gone, NEW kept,
           SessionsOf(n) \subseteq gone \cup kept,
           NewPassword(c, n, gone, kept), UNCHANGED <<users, invites>>
    PROVE  AccountFacts' /\ Ends(c)
<1>1. AccountFacts
  BY DEF SerialInv
<1>2. \A t \in Tokens : Without(gone)[t] = IF t \in gone THEN NoSession ELSE sessions[t]
  BY <1>1, SessionsLeft
<1>3. ASSUME NEW t \in Tokens
      PROVE  /\ sessions'[t] \in Session
             /\ sessions'[t].user # None => /\ sessions'[t].user = sessions[t].user
                                            /\ sessions[t].current => sessions'[t].current
  <2>1. CASE sessions[t].user = n /\ t \notin gone
    <3> DEFINE x == [user |-> n, current |-> t \in kept]
    <3>1. t \in kept
      BY <2>1 DEF SessionsOf
    <3>2. x \in Session /\ x.user = n /\ x.current
      BY <3>1 DEF Session
    <3>3. sessions'[t] = x
      BY <2>1 DEF NewPassword
    <3> HIDE DEF x
    <3> QED BY <2>1, <3>2, <3>3
  <2>2. CASE ~(sessions[t].user = n /\ t \notin gone)
    <3>1. sessions'[t] = Without(gone)[t]
      BY <2>2 DEF NewPassword
    <3> QED BY <1>1, <1>2, <3>1, RequestFields DEF AccountFacts
  <2> QED BY <2>1, <2>2
<1>4. sessions' \in [Tokens -> Session]
  <2>1. sessions' = [t \in Tokens |-> sessions'[t]]
    BY DEF NewPassword
  <2> QED BY <1>3, <2>1
<1>5. AccountFacts'
  BY <1>1, <1>3, <1>4 DEF AccountFacts, Populated, Exists, Administers, Live
<1>6. Ends(c)
  <2>1. \A d \in Clients \ {c} : requests[d] = NoRequest /\ requests[d].op # "login"
    BY Running, RequestFields
  <2>2. \A d \in Clients : requests'[d] = IF d = c THEN NoRequest ELSE requests[d]
    BY <2>1 DEF NewPassword
  <2>3. requests \in [Clients -> Request] /\ requests' = [d \in Clients |-> requests'[d]]
    BY DEF SerialInv, NewPassword
  <2> QED BY <2>2, <2>3 DEF Ends
<1> QED BY <1>5, <1>6

\* A change of somebody's role or status that leaves an administrator.
LEMMA UserChangeKeeps ==
    ASSUME AccountFacts, NEW n \in Names, NEW x \in User, users' = [users EXCEPT ![n] = x],
           x.role = "none" <=> users[n].role = "none",
           NEW m \in Names \ {n}, Administers(m),
           NEW gone, sessions' = Without(gone),
           x.status = "active" \/ SessionsOf(n) \subseteq gone,
           UNCHANGED invites
    PROVE  AccountFacts'
<1>1. /\ users' \in [Names -> User] /\ users'[n] = x
      /\ \A p \in Names \ {n} : users'[p] = users[p]
  BY DEF AccountFacts
<1>2. Populated /\ Populated' /\ Administers(m)'
  BY <1>1 DEF Populated, Exists, Administers
<1>3. /\ sessions' \in [Tokens -> Session]
      /\ \A t \in Tokens : sessions'[t] = IF t \in gone THEN NoSession ELSE sessions[t]
  BY SessionsLeft
<1>4. ASSUME NEW t \in Tokens, Live(t)'
      PROVE  users'[sessions'[t].user].status = "active" /\ sessions'[t].current
  <2>1. t \notin gone /\ sessions'[t] = sessions[t] /\ Live(t)
    BY <1>3, <1>4, RequestFields DEF Live
  <2>2. sessions[t].user \in Names
    BY <2>1 DEF AccountFacts, Session, Live
  <2>3. CASE sessions[t].user = n
    BY <1>1, <2>1, <2>3 DEF SessionsOf, AccountFacts
  <2>4. CASE sessions[t].user # n
    BY <1>1, <2>1, <2>2, <2>4 DEF AccountFacts
  <2> QED BY <2>3, <2>4
<1> QED BY <1>1, <1>2, <1>3, <1>4 DEF AccountFacts

\* Requests that begin, but for an administrator's.
LEMMA AccountReadsKeep ==
    ASSUME SerialInv, serial, NEW c \in Clients,
           \/ \E n \in Names : \/ BootstrapRead(c, n) \/ LoginRead(c, n)
                               \/ \E i \in Invites : ClaimRead(c, i, n)
           \/ \E t \in Tokens : PasswordRead(c, t)
    PROVE  SerialInv'
<1>1. ASSUME NEW n \in Names, BootstrapRead(c, n) PROVE SerialInv'
  <2> DEFINE r == [NoRequest EXCEPT !.op = "bootstrap", !.name = n]
  <2>1. r \in Request /\ r.op = "bootstrap" /\ r.name = n
    BY DEF NoRequest, Request
  <2>2. Starts(c, r) /\ ~Populated
    BY <1>1 DEF BootstrapRead, Populated
  <2> HIDE DEF r
  <2>3. Knows(r)
    BY <2>1, <2>2 DEF Knows
  <2> QED BY <2>1, <2>2, <2>3, StartKeeps
<1>2. ASSUME NEW n \in Names, LoginRead(c, n) PROVE SerialInv'
  <2> DEFINE r == [NoRequest EXCEPT !.op = "login", !.name = n]
  <2>1. r \in Request /\ r.op = "login" /\ r.name = n /\ r.current
    BY DEF NoRequest, Request
  <2>2. Starts(c, r) /\ users[n].status = "active"
    BY <1>2 DEF LoginRead
  <2> HIDE DEF r
  <2>3. Knows(r)
    BY <2>1, <2>2 DEF Knows
  <2> QED BY <2>1, <2>2, <2>3, StartKeeps
<1>3. ASSUME NEW n \in Names, NEW i \in Invites, ClaimRead(c, i, n) PROVE SerialInv'
  <2> DEFINE r == [NoRequest EXCEPT !.op = "claim", !.name = n, !.invite = i]
  <2>1. r \in Request /\ r.op = "claim" /\ r.name = n /\ r.invite = i
    BY DEF NoRequest, Request
  <2>2. Starts(c, r) /\ invites[i].state = "open"
    BY <1>3 DEF ClaimRead
  <2> HIDE DEF r
  <2>3. Knows(r)
    BY <2>1, <2>2 DEF Knows, SerialInv, AccountFacts
  <2> QED BY <2>1, <2>2, <2>3, StartKeeps
<1>4. ASSUME NEW t \in Tokens, PasswordRead(c, t) PROVE SerialInv'
  <2> DEFINE n == sessions[t].user
             r == [NoRequest EXCEPT !.op = "password", !.name = n, !.token = t]
  <2>1. n \in Names
    BY <1>4 DEF PasswordRead, SerialInv, AccountFacts, Session, Live
  <2>2. Starts(c, r)
    BY <1>4 DEF PasswordRead
  <2> HIDE DEF n
  <2>3. r \in Request /\ r.op = "password" /\ r.name = n
    BY <2>1 DEF NoRequest, Request
  <2> HIDE DEF r
  <2>4. Knows(r)
    BY <2>1, <2>3 DEF Knows
  <2> QED BY <2>2, <2>3, <2>4, StartKeeps
<1> QED BY <1>1, <1>2, <1>3, <1>4

\* Their commits.
LEMMA AccountCommitsKeep ==
    ASSUME SerialInv, NEW c \in Clients,
           \/ \E t \in Tokens : BootstrapCommit(c, t) \/ LoginCommit(c, t) \/ ClaimCommit(c, t)
           \/ PasswordCommit(c) \/ Fails(c)
    PROVE  SerialInv'
<1> DEFINE r == requests[c]
<1>0. AccountFacts
  BY DEF SerialInv
<1>1. ASSUME NEW t \in Tokens, BootstrapCommit(c, t) PROVE SerialInv'
  <2>1. r # NoRequest /\ Knows(r) /\ r.op = "bootstrap"
    BY <1>1, Running DEF BootstrapCommit
  <2>2. AccountFacts'
    <3>1. r.name \in Names /\ ~Exists(r.name) /\ "admin" \in Roles
      BY <1>1, <2>1 DEF Knows, BootstrapCommit, Roles
    <3>2. /\ users' = [users EXCEPT ![r.name] = NewUser("admin", None)]
          /\ sessions' = Issued(t, r.name, TRUE) /\ invites' \in [Invites -> Invite]
      BY <1>0, <1>1 DEF BootstrapCommit, AccountFacts
    <3> HIDE DEF r
    <3> QED BY <1>0, <3>1, <3>2, NewUserKeeps
  <2> QED BY <1>1, <2>1, <2>2, EndKeeps DEF BootstrapCommit
<1>2. ASSUME NEW t \in Tokens, ClaimCommit(c, t) PROVE SerialInv'
  <2> DEFINE i == r.invite
  <2>1. r # NoRequest /\ Knows(r) /\ r.op = "claim"
    BY <1>2, Running DEF ClaimCommit
  <2>2. AccountFacts'
    <3>1. r.name \in Names /\ ~Exists(r.name) /\ i \in Invites /\ Populated
      BY <1>2, <2>1 DEF Knows, ClaimCommit
    <3>2. invites[i].role \in Roles
      BY <1>0, <3>1 DEF AccountFacts, Invite
    <3>3. invites' \in [Invites -> Invite]
      <4> DEFINE x == [invites[i] EXCEPT !.state = IF @ = "open" THEN "claimed" ELSE @]
      <4>1. x \in Invite
        BY <1>0, <3>1 DEF AccountFacts, Invite
      <4>2. invites' = [invites EXCEPT ![i] = x]
        BY <1>2 DEF ClaimCommit
      <4> HIDE DEF x
      <4> QED BY <1>0, <4>1, <4>2 DEF AccountFacts
    <3>4. /\ users' = [users EXCEPT ![r.name] = NewUser(invites[i].role, i)]
          /\ sessions' = Issued(t, r.name, TRUE)
      BY <1>2 DEF ClaimCommit
    <3> HIDE DEF r, i
    <3> QED BY <1>0, <3>1, <3>2, <3>3, <3>4, NewUserKeeps
  <2> QED BY <1>2, <2>1, <2>2, EndKeeps DEF ClaimCommit
<1>3. ASSUME NEW t \in Tokens, LoginCommit(c, t) PROVE SerialInv'
  <2>1. r # NoRequest /\ Knows(r) /\ r.op = "login" /\ r.current \in BOOLEAN
    BY <1>3, Running DEF LoginCommit, Request
  <2>2. r.name \in Names /\ users[r.name].status = "active" /\ r.current = TRUE
    BY <2>1 DEF Knows
  <2>3. sessions' = Issued(t, r.name, TRUE) /\ UNCHANGED <<users, invites>>
    BY <1>3, <2>2 DEF LoginCommit
  <2>4. /\ sessions' \in [Tokens -> Session] /\ sessions'[t].user = r.name /\ sessions'[t].current
        /\ \A s \in Tokens \ {t} : sessions'[s] = sessions[s]
    BY <1>0, <2>2, <2>3, SessionAdded
  <2>5. AccountFacts'
    <3>1. /\ Populated' = Populated
          /\ \A n \in Names : Administers(n)' = Administers(n)
      BY <2>3 DEF Populated, Exists, Administers
    <3>2. \A s \in Tokens \ {t} : Live(s)' = Live(s)
      BY <2>4 DEF Live
    <3>3. \A s \in Tokens : Live(s)' => users'[sessions'[s].user].status = "active" /\ sessions'[s].current
      BY <1>0, <2>2, <2>3, <2>4, <3>2 DEF AccountFacts
    <3> QED BY <1>0, <2>3, <2>4, <3>1, <3>3 DEF AccountFacts
  <2> QED BY <1>3, <2>1, <2>5, EndKeeps DEF LoginCommit
<1>4. ASSUME PasswordCommit(c) PROVE SerialInv'
  <2>1. r # NoRequest /\ r.op = "password" /\ r.name \in Names
    BY <1>4, Running DEF PasswordCommit, Knows
  <2>2. AccountFacts' /\ Ends(c)
    BY <1>4, <2>1, NewPasswordKeeps DEF PasswordCommit
  <2> QED BY <2>1, <2>2, EndKeeps
<1>5. ASSUME Fails(c) PROVE SerialInv'
  <2>1. AccountFacts'
    BY <1>0, <1>5 DEF Fails, AccountFacts, Populated, Exists, Administers, Live
  <2> QED BY <1>5, <2>1, EndKeeps DEF Fails
<1> QED BY <1>1, <1>2, <1>3, <1>4, <1>5

\* An administrator's request: its target is somebody else than who acts.
LEMMA AdministrationKeeps ==
    ASSUME SerialInv, serial, NEW c \in Clients, Administrates(c) PROVE SerialInv'
<1> DEFINE r == requests[c]
<1>0. AccountFacts
  BY DEF SerialInv
<1>1. ASSUME NEW t \in Tokens, Authorize(c, t) PROVE SerialInv'
  <2> DEFINE n == sessions[t].user
             x == [NoRequest EXCEPT !.op = "admin", !.acting = n]
  <2>1. n \in Names /\ Administers(n) /\ Starts(c, x)
    BY <1>0, <1>1 DEF Authorize, SignedIn, Live, AccountFacts, Session, Administers
  <2> HIDE DEF n
  <2>2. x \in Request /\ x.op = "admin" /\ x.acting = n
    BY <2>1 DEF NoRequest, Request
  <2> HIDE DEF x
  <2>3. Knows(x)
    BY <2>1, <2>2 DEF Knows
  <2> QED BY <2>1, <2>2, <2>3, StartKeeps
<1>2. ASSUME NEW n \in Names, Target(c, n)
      PROVE  /\ r # NoRequest /\ r.acting \in Names \ {n} /\ Administers(r.acting) /\ users[n] \in User
             /\ users[n].role # "none" /\ \A d \in Clients \ {c} : requests[d] = NoRequest
  BY <1>0, <1>2, Running DEF Target, Knows, AccountFacts, Exists
<1>3. sessions = Without({})
  BY <1>0 DEF AccountFacts, Without
<1>4. ASSUME NEW n \in Names, NEW role \in Roles, SetRole(c, n, role) PROVE SerialInv'
  <2> DEFINE x == [users[n] EXCEPT !.role = role]
  <2>1. Target(c, n) /\ users' = [users EXCEPT ![n].role = role] /\ Ends(c)
        /\ UNCHANGED <<sessions, invites>>
    BY <1>4 DEF SetRole
  <2>2. x \in User /\ x.role = role /\ x.role # "none" /\ x.status = users[n].status
    BY <1>2, <2>1 DEF User, Roles
  <2>3. users' = [users EXCEPT ![n] = x]
    BY <2>1
  <2> HIDE DEF x, r
  <2>4. AccountFacts'
    <3>1. CASE x.status = "active"
      BY <1>0, <1>2, <1>3, <2>1, <2>2, <2>3, <3>1, UserChangeKeeps
    <3>2. CASE x.status # "active"
      <4>1. SessionsOf(n) \subseteq {}
        BY <1>0, <2>2, <3>2, NoneIsNoValue DEF SessionsOf, AccountFacts, Live
      <4> QED BY <1>0, <1>2, <1>3, <2>1, <2>2, <2>3, <4>1, UserChangeKeeps
    <3> QED BY <3>1, <3>2
  <2> QED BY <1>2, <2>1, <2>4, EndKeeps DEF r
<1>5. ASSUME NEW n \in Names, Enable(c, n) PROVE SerialInv'
  <2> DEFINE x == [users[n] EXCEPT !.status = "active"]
  <2>1. Target(c, n) /\ users' = [users EXCEPT ![n].status = "active"] /\ Ends(c)
        /\ UNCHANGED <<sessions, invites>>
    BY <1>5 DEF Enable
  <2>2. x \in User /\ x.role = users[n].role /\ x.status = "active"
    BY <1>2, <2>1 DEF User
  <2>3. users' = [users EXCEPT ![n] = x]
    BY <2>1
  <2> HIDE DEF x, r
  <2>4. AccountFacts'
    BY <1>0, <1>2, <1>3, <2>1, <2>2, <2>3, UserChangeKeeps
  <2> QED BY <1>2, <2>1, <2>4, EndKeeps DEF r
<1>6. ASSUME NEW n \in Names, NEW op \in {"disable", "reset", "signout"}, SelectSessions(c, n, op)
      PROVE  SerialInv'
  <2> DEFINE status == IF op = "disable" THEN users[n].status ELSE "active"
             seen == SessionsOf(n)
             x == [NoRequest EXCEPT !.op = op, !.name = n, !.seen = seen, !.status = status]
  <2>1. Target(c, n) /\ requests' = [requests EXCEPT ![c] = x] /\ UNCHANGED <<users, sessions, invites>>
    BY <1>6 DEF SelectSessions
  <2>2. status \in {"active", "disabled"} /\ (op = "disable" => status = users[n].status)
        /\ seen \subseteq Tokens /\ SessionsOf(n) \subseteq seen
    BY <1>2, <2>1 DEF User, SessionsOf
  <2> HIDE DEF status, seen
  <2>3. x \in Request /\ x.op = op /\ x.name = n /\ x.seen = seen /\ x.status = status
    BY <2>2 DEF NoRequest, Request
  <2> HIDE DEF x
  <2>4. Knows(x)
    BY <1>2, <2>1, <2>2, <2>3 DEF Knows
  <2> QED BY <1>2, <2>1, <2>3, <2>4, ReadKeeps
<1>7. ASSUME Disable(c) PROVE SerialInv'
  <2> DEFINE n == r.name
             x == [users[n] EXCEPT !.status = Column(@, r.status, "disabled")]
  <2>1. r.op = "disable" /\ r # NoRequest /\ Knows(r) /\ r.status \in {"active", "disabled"}
    BY <1>7, Running DEF Disable, Request
  <2>2. n \in Names /\ SessionsOf(n) \subseteq r.seen /\ users[n].status = r.status
        /\ users[n] \in User
    BY <1>0, <2>1 DEF Knows, AccountFacts
  <2>3. PICK m \in Names \ {n} : Administers(m)
    BY <2>1 DEF Knows
  <2>4. x \in User /\ x.role = users[n].role
    BY <2>1, <2>2 DEF User, Column
  <2>5. users' = [users EXCEPT ![n] = x] /\ sessions' = Without(r.seen) /\ Ends(c)
        /\ UNCHANGED invites
    BY <1>7 DEF Disable
  <2> HIDE DEF n, x
  <2>6. AccountFacts'
    BY <1>0, <2>2, <2>3, <2>4, <2>5, UserChangeKeeps
  <2> QED BY <2>1, <2>5, <2>6, EndKeeps
<1>8. ASSUME ResetPassword(c) PROVE SerialInv'
  <2>1. r.op = "reset" /\ r # NoRequest /\ r.name \in Names /\ SessionsOf(r.name) \subseteq r.seen \cup {}
    BY <1>8, Running DEF ResetPassword, Knows
  <2>2. AccountFacts' /\ Ends(c)
    BY <1>8, <2>1, NewPasswordKeeps DEF ResetPassword
  <2> QED BY <2>1, <2>2, EndKeeps
<1>9. ASSUME RevokeSessions(c) PROVE SerialInv'
  <2>1. r # NoRequest /\ AccountFacts'
    BY <1>0, <1>9, Running, SessionsEndKeeps DEF RevokeSessions
  <2> QED BY <1>9, <2>1, EndKeeps DEF RevokeSessions
<1>10. ASSUME NEW i \in Invites, NEW x \in Invite, requests[c].op = "admin", Ends(c),
              invites' = [invites EXCEPT ![i] = x], UNCHANGED <<users, sessions>>
       PROVE  SerialInv'
  <2>1. r # NoRequest /\ r.acting \in Names /\ Administers(r.acting)
    BY <1>10, Running DEF Knows
  <2>2. Populated
    BY <2>1 DEF Populated, Administers, Exists
  <2>3. AccountFacts'
    BY <1>0, <1>10, <2>2 DEF AccountFacts, Populated, Exists, Administers, Live
  <2> QED BY <1>10, <2>1, <2>3, EndKeeps
<1>11. ASSUME NEW i \in Invites, NEW role \in Roles, CreateInvite(c, i, role) PROVE SerialInv'
  <2>1. [role |-> role, state |-> "open"] \in Invite
    BY DEF Invite
  <2> QED BY <1>10, <1>11, <2>1 DEF CreateInvite
<1>12. ASSUME NEW i \in Invites, RevokeInvite(c, i) PROVE SerialInv'
  <2>1. [invites[i] EXCEPT !.state = "closed"] \in Invite
    BY <1>0 DEF Invite, AccountFacts
  <2>2. invites' = [invites EXCEPT ![i] = [invites[i] EXCEPT !.state = "closed"]]
    BY <1>12 DEF RevokeInvite
  <2> QED BY <1>10, <1>12, <2>1, <2>2 DEF RevokeInvite
<1> QED BY <1>1, <1>4, <1>5, <1>6, <1>7, <1>8, <1>9, <1>11, <1>12 DEF Administrates

\* What a request knows stays so when a session ends or an invite is closed.
LEMMA EndingsKeep ==
    ASSUME SerialInv, (\E t \in Tokens : Logout(t)) \/ (\E i \in Invites : InviteExpires(i))
    PROVE  SerialInv'
<1>0. AccountFacts
  BY DEF SerialInv
<1>1. ASSUME NEW t \in Tokens, Logout(t) PROVE SerialInv'
  <2>1. sessions' = Without({t}) /\ UNCHANGED <<users, invites, requests>>
    BY <1>1 DEF Logout
  <2>2. AccountFacts'
    BY <1>0, <2>1, SessionsEndKeeps
  <2>3. \A s \in Tokens : sessions'[s] = sessions[s] \/ sessions'[s].user = None
    BY <1>0, <2>1, SessionsLeft, RequestFields
  <2>4. \A n \in Names : SessionsOf(n)' \subseteq SessionsOf(n)
    BY <2>3, NoneIsNoValue DEF SessionsOf
  <2>5. \A c \in Clients : Knows(requests[c])'
    BY <2>1, <2>4 DEF SerialInv, Knows, Populated, Exists, Administers
  <2> QED BY <2>1, <2>2, <2>5 DEF SerialInv, OneRequest
<1>2. ASSUME NEW i \in Invites, InviteExpires(i) PROVE SerialInv'
  <2> DEFINE x == [invites[i] EXCEPT !.state = "closed"]
  <2>1. x \in Invite /\ invites' = [invites EXCEPT ![i] = x] /\ UNCHANGED <<users, sessions, requests>>
    BY <1>0, <1>2 DEF InviteExpires, AccountFacts, Invite
  <2>2. Populated
    BY <1>0, <1>2 DEF InviteExpires, AccountFacts
  <2> HIDE DEF x
  <2>3. AccountFacts'
    BY <1>0, <2>1, <2>2 DEF AccountFacts, Populated, Exists, Administers, Live
  <2>4. \A c \in Clients : Knows(requests[c])'
    BY <2>1 DEF SerialInv, Knows, Populated, Exists, Administers, SessionsOf
  <2> QED BY <2>1, <2>3, <2>4 DEF SerialInv, OneRequest
<1> QED BY <1>1, <1>2

\* Whether requests overlap never changes.
LEMMA SerialStays == ASSUME [NextAccounts]_accountsVars PROVE UNCHANGED serial
BY DEF NextAccounts, UsesAccount, Administrates, accountsVars, Starts, BootstrapRead, BootstrapCommit,
       LoginRead, LoginCommit, ClaimRead, ClaimCommit, PasswordRead, PasswordCommit, Logout, Authorize,
       SetRole, Enable, SelectSessions, Disable, ResetPassword, RevokeSessions, CreateInvite,
       RevokeInvite, InviteExpires, Fails

\* Every step keeps it.
LEMMA AccountsPreserved == AccountsInv /\ [NextAccounts]_accountsVars => AccountsInv'
<1> SUFFICES ASSUME AccountsInv, [NextAccounts]_accountsVars, serial' PROVE SerialInv'
  BY DEF AccountsInv
<1>1. serial /\ SerialInv
  BY SerialStays DEF AccountsInv
<1>2. CASE UNCHANGED accountsVars
  BY <1>1, <1>2 DEF accountsVars, SerialInv, AccountFacts, Populated, Administers, Exists, Live,
                    OneRequest, Knows, SessionsOf
<1>3. CASE NextAccounts
  BY <1>1, <1>3, AccountReadsKeep, AccountCommitsKeep, AdministrationKeeps, EndingsKeep
     DEF NextAccounts, UsesAccount
<1> QED BY <1>2, <1>3

\* The invariant holds of every behaviour.
LEMMA AccountsCorrect == SpecAccounts => []AccountsInv
BY AccountsInitially, AccountsPreserved, PTL DEF SpecAccounts

\* Requests that do not overlap never leave the server without an active
\* administrator once there is a user, however many users, invites and
\* sessions there are (require_admin_target and admin_update_user).
THEOREM AnAdministratorRemains == SpecAccounts => []AdministratorRemains
<1>1. AccountsInv => AdministratorRemains
  BY DEF AccountsInv, SerialInv, AccountFacts, Populated, Administers, AdministratorRemains
<1> QED BY <1>1, AccountsCorrect, PTL

\* Nor do they leave a session of a disabled user, or one that was opened
\* with a password the user has no more (change_password and the
\* others that revoke sessions).
THEOREM SignedInUsersShowedThePassword == SpecAccounts => []SessionsProveThePassword
<1>1. AccountsInv => SessionsProveThePassword
  BY DEF AccountsInv, SerialInv, AccountFacts, SessionsProveThePassword
<1> QED BY <1>1, AccountsCorrect, PTL

(***************************************************************************)
(* Requests that overlap.  Of an invite, or of the empty table, the users  *)
(* it has made and the requests that are about to make one with it are     *)
(* never more than the clients: a request starts only while none is made,  *)
(* and each makes one and ends.                                            *)
(***************************************************************************)
Made(i) == {n \in Names : Exists(n) /\ users[n].via = i}
Making(i) == {c \in Clients : \/ requests[c].op = "bootstrap" /\ i = None
                              \/ requests[c].op = "claim" /\ requests[c].invite = i}

MakersKnow == \A c \in Clients :
    /\ requests[c].op \in {"bootstrap", "claim"} => requests[c].name \in Names
    /\ requests[c].op = "claim" => requests[c].invite \in Invites
NewInvitesMadeNobody == \A i \in Invites :
    /\ invites[i].state = "unused" => Making(i) = {}
    /\ invites[i].state \in {"unused", "open"} => Made(i) = {}
MadeAtMostOnce == \A i \in Invites \cup {None} :
    /\ IsFiniteSet(Made(i))
    /\ Cardinality(Made(i)) + Cardinality(Making(i)) <= Once

OnceInv == /\ AccountsTypeOK
           /\ serial => OneRequest
           /\ MakersKnow
           /\ NewInvitesMadeNobody
           /\ MadeAtMostOnce

\* Clients that differ only when requests overlap are no more than may overlap.
LEMMA MakersAreBounded ==
    ASSUME NEW S \in SUBSET Clients, serial \in BOOLEAN, serial => \A c, d \in S : c = d
    PROVE  /\ IsFiniteSet(S) /\ Cardinality(S) \in Nat
           /\ Once \in Nat /\ Cardinality(S) <= Once
<1>1. /\ IsFiniteSet(S) /\ Cardinality(S) <= Cardinality(Clients)
  BY ClientsAreFinite, FS_Subset
<1>2. Cardinality(S) \in Nat /\ Cardinality(Clients) \in Nat
  BY <1>1, ClientsAreFinite, FS_CardinalityType
<1>3. CASE serial
  <2>1. Cardinality(S) <= 1
    BY <1>1, <1>3, OneMember
  <2> QED BY <1>1, <1>2, <1>3, <2>1 DEF Once
<1>4. CASE ~serial
  BY <1>1, <1>2, <1>4 DEF Once
<1> QED BY <1>3, <1>4

\* The requests that are about to make a user are no more than may overlap.
LEMMA MakingIsBounded ==
    ASSUME serial \in BOOLEAN, serial => OneRequest, NEW i
    PROVE  /\ IsFiniteSet(Making(i)) /\ Cardinality(Making(i)) \in Nat
           /\ Once \in Nat /\ Cardinality(Making(i)) <= Once
<1>1. Making(i) \in SUBSET Clients
  BY DEF Making
<1>2. serial => \A c, d \in Making(i) : c = d
  BY RequestFields DEF OneRequest, Making
<1> QED BY <1>1, <1>2, MakersAreBounded

\* Nobody exists at first.
LEMMA OnceInitially == InitAccounts => OnceInv
<1> SUFFICES ASSUME InitAccounts PROVE OnceInv
  OBVIOUS
<1>1. AccountsTypeOK
  BY RequestFields DEF InitAccounts, AccountsTypeOK, Invite, Roles
<1>2. /\ \A c \in Clients : requests[c] = NoRequest /\ requests[c].op = "none"
      /\ \A n \in Names : ~Exists(n)
  BY RequestFields DEF InitAccounts, Exists
<1>3. OneRequest /\ MakersKnow /\ serial \in BOOLEAN
  BY <1>2 DEF OneRequest, MakersKnow, InitAccounts
<1>4. \A i : Made(i) = {} /\ Making(i) = {}
  BY <1>2 DEF Made, Making
<1>5. NewInvitesMadeNobody
  BY <1>4 DEF NewInvitesMadeNobody
<1>6. MadeAtMostOnce
  <2>1. SUFFICES ASSUME NEW i \in Invites \cup {None}
                 PROVE  IsFiniteSet(Made(i)) /\ Cardinality(Made(i)) + Cardinality(Making(i)) <= Once
    BY DEF MadeAtMostOnce
  <2>2. Once \in Nat
    BY <1>3, MakingIsBounded
  <2>3. IsFiniteSet(Made(i)) /\ Cardinality(Made(i)) = 0 /\ Cardinality(Making(i)) = 0
    BY <1>4, FS_EmptySet
  <2> QED BY <2>2, <2>3
<1> QED BY <1>1, <1>3, <1>5, <1>6 DEF OnceInv

\* A step that makes no user, and after which no more requests are about to.
LEMMA QuietStep ==
    ASSUME OnceInv, AccountsTypeOK', UNCHANGED serial, serial => OneRequest',
           \A n \in Names : (Exists(n)' <=> Exists(n)) /\ users'[n].via = users[n].via,
           \A c \in Clients : requests'[c].op \in {"bootstrap", "claim"} => requests'[c] = requests[c],
           \A i \in Invites :
             /\ invites'[i].state = "unused" => invites[i].state = "unused"
             /\ invites'[i].state = "open" => invites[i].state \in {"unused", "open"}
    PROVE  OnceInv'
<1>1. MakersKnow'
  BY DEF OnceInv, MakersKnow
<1>2. ASSUME NEW i PROVE Made(i)' = Made(i) /\ Making(i)' \subseteq Making(i)
  BY DEF Made, Making
<1>3. NewInvitesMadeNobody'
  <2> SUFFICES ASSUME NEW i \in Invites
               PROVE  /\ invites'[i].state = "unused" => Making(i)' = {}
                      /\ invites'[i].state \in {"unused", "open"} => Made(i)' = {}
    BY DEF NewInvitesMadeNobody
  <2>1. /\ invites[i].state = "unused" => Making(i) = {}
        /\ invites[i].state \in {"unused", "open"} => Made(i) = {}
    BY DEF OnceInv, NewInvitesMadeNobody
  <2> QED BY <1>2, <2>1
<1>4. MadeAtMostOnce'
  <2> SUFFICES ASSUME NEW i \in Invites \cup {None}
               PROVE  /\ IsFiniteSet(Made(i)')
                      /\ Cardinality(Made(i)') + Cardinality(Making(i)') <= Once'
    BY DEF MadeAtMostOnce
  <2>1. IsFiniteSet(Made(i)) /\ Cardinality(Made(i)) + Cardinality(Making(i)) <= Once
    BY DEF OnceInv, MadeAtMostOnce
  <2>2. /\ IsFiniteSet(Making(i)) /\ Cardinality(Making(i)) \in Nat /\ Once \in Nat
    BY MakingIsBounded DEF OnceInv, AccountsTypeOK
  <2>3. Once' = Once
    BY DEF Once
  <2>4. Making(i)' \in SUBSET Making(i) /\ Made(i)' = Made(i)
    BY <1>2
  <2>5. Cardinality(Making(i)') <= Cardinality(Making(i)) /\ IsFiniteSet(Making(i)')
    BY <2>2, <2>4, FS_Subset
  <2>6. Cardinality(Making(i)') \in Nat /\ Cardinality(Made(i)) \in Nat
    BY <2>1, <2>5, FS_CardinalityType
  <2> QED BY <2>1, <2>2, <2>3, <2>4, <2>5, <2>6
<1> QED BY <1>1, <1>3, <1>4 DEF OnceInv

\* A request that begins to make a user: none is made yet.
LEMMA MakerStarts ==
    ASSUME OnceInv, NEW c \in Clients, NEW r \in Request, NEW i \in Invites \cup {None}, Starts(c, r),
           r.name \in Names,
           \/ r.op = "bootstrap" /\ i = None
           \/ r.op = "claim" /\ r.invite = i /\ i \in Invites,
           i # None => invites[i].state = "open",
           Made(i) = {}
    PROVE  OnceInv'
<1>1. /\ requests' = [requests EXCEPT ![c] = r] /\ requests[c] = NoRequest
      /\ UNCHANGED <<users, sessions, invites, serial>>
      /\ serial => \A d \in Clients : requests[d] = NoRequest
  BY DEF Starts
<1>2. /\ requests' \in [Clients -> Request] /\ requests'[c] = r
      /\ \A d \in Clients \ {c} : requests'[d] = requests[d]
  BY <1>1 DEF OnceInv, AccountsTypeOK
<1>3. AccountsTypeOK'
  BY <1>1, <1>2 DEF OnceInv, AccountsTypeOK
<1>4. MakersKnow'
  BY <1>2 DEF OnceInv, MakersKnow
<1>5. serial => OneRequest'
  BY <1>1, <1>2 DEF OneRequest
<1>6. \A j : Made(j)' = Made(j)
  BY <1>1 DEF Made, Exists
<1>7. \A j \in Invites \cup {None} : j # i => Making(j)' = Making(j)
  BY <1>1, <1>2, RequestFields, NoneIsNoValue DEF Making
<1>8. NewInvitesMadeNobody'
  BY <1>1, <1>6, <1>7, NoneIsNoValue DEF OnceInv, NewInvitesMadeNobody
<1>9. MadeAtMostOnce'
  <2> SUFFICES ASSUME NEW j \in Invites \cup {None}
               PROVE  /\ IsFiniteSet(Made(j)')
                      /\ Cardinality(Made(j)') + Cardinality(Making(j)') <= Once'
    BY DEF MadeAtMostOnce
  <2>1. IsFiniteSet(Made(j)) /\ Cardinality(Made(j)) + Cardinality(Making(j)) <= Once
    BY DEF OnceInv, MadeAtMostOnce
  <2>2. Once' = Once
    BY <1>1 DEF Once
  <2>3. CASE j = i
    <3>1. Making(i)' \in SUBSET Clients
      BY DEF Making
    <3>4. serial => \A d, e \in Making(i)' : d = e
      BY <1>5, RequestFields DEF OneRequest, Making
    <3>5. serial \in BOOLEAN
      BY DEF OnceInv, AccountsTypeOK
    <3>3. Cardinality(Making(i)') \in Nat /\ Once \in Nat /\ Cardinality(Making(i)') <= Once
      BY <3>1, <3>4, <3>5, MakersAreBounded
    <3>2. Made(j)' = {} /\ Cardinality({}) = 0
      BY <1>6, <2>3, FS_EmptySet
    <3> QED BY <2>1, <2>2, <2>3, <3>3, <3>2, <1>6
  <2>4. CASE j # i
    BY <1>6, <1>7, <2>1, <2>2, <2>4
  <2> QED BY <2>3, <2>4
<1> QED BY <1>1, <1>3, <1>4, <1>5, <1>8, <1>9 DEF OnceInv

\* A request that makes a user: it is one less that is about to.
LEMMA MakerCommits ==
    ASSUME OnceInv, NEW c \in Clients, NEW i \in Invites \cup {None}, c \in Making(i), Ends(c),
           NEW n \in Names, ~Exists(n), NEW role \in Roles,
           users' = [users EXCEPT ![n] = NewUser(role, i)], UNCHANGED serial, AccountsTypeOK',
           \A j \in Invites : j # i => invites'[j] = invites[j],
           i # None => invites'[i].state \notin {"unused", "open"}
    PROVE  OnceInv'
<1> DEFINE x == NewUser(role, i)
<1>1. x.role # "none" /\ x.via = i /\ users' = [users EXCEPT ![n] = x]
  BY DEF NewUser, Roles
<1> HIDE DEF x
<1>2. users'[n] = x /\ \A m \in Names \ {n} : users'[m] = users[m]
  BY <1>1 DEF OnceInv, AccountsTypeOK
<1>3. requests'[c] = NoRequest /\ \A d \in Clients \ {c} : requests'[d] = requests[d]
  BY DEF Ends, OnceInv, AccountsTypeOK
<1>4. Made(i)' = Made(i) \cup {n} /\ n \notin Made(i)
  BY <1>1, <1>2 DEF Made, Exists
<1>5. \A j \in Invites \cup {None} : j # i => Made(j)' = Made(j)
  BY <1>1, <1>2 DEF Made, Exists
<1>6. Making(i)' = Making(i) \ {c}
  BY <1>3, RequestFields DEF Making
<1>7. \A j \in Invites \cup {None} : j # i => Making(j)' = Making(j)
  BY <1>3, RequestFields, NoneIsNoValue DEF Making
<1>8. serial => OneRequest'
  BY <1>3 DEF OnceInv, OneRequest
<1>9. MakersKnow'
  BY <1>3, RequestFields DEF OnceInv, MakersKnow
<1>10. NewInvitesMadeNobody'
  <2> SUFFICES ASSUME NEW j \in Invites
               PROVE  /\ invites'[j].state = "unused" => Making(j)' = {}
                      /\ invites'[j].state \in {"unused", "open"} => Made(j)' = {}
    BY DEF NewInvitesMadeNobody
  <2>1. CASE j = i
    BY <2>1, NoneIsNoValue
  <2>2. CASE j # i
    BY <1>5, <1>7, <2>2 DEF OnceInv, NewInvitesMadeNobody
  <2> QED BY <2>1, <2>2
<1>11. MadeAtMostOnce'
  <2> SUFFICES ASSUME NEW j \in Invites \cup {None}
               PROVE  /\ IsFiniteSet(Made(j)')
                      /\ Cardinality(Made(j)') + Cardinality(Making(j)') <= Once'
    BY DEF MadeAtMostOnce
  <2>1. IsFiniteSet(Made(j)) /\ Cardinality(Made(j)) + Cardinality(Making(j)) <= Once
    BY DEF OnceInv, MadeAtMostOnce
  <2>2. Once' = Once
    BY DEF Once
  <2>3. CASE j = i
    <3>1. IsFiniteSet(Making(i)) /\ Cardinality(Making(i)) \in Nat /\ Cardinality(Made(i)) \in Nat
      BY <2>1, <2>3, MakingIsBounded, FS_CardinalityType DEF OnceInv, AccountsTypeOK
    <3>2. Cardinality(Making(i) \ {c}) = Cardinality(Making(i)) - 1
      BY <3>1, FS_RemoveElement
    <3>3. /\ IsFiniteSet(Made(i) \cup {n})
          /\ Cardinality(Made(i) \cup {n}) = Cardinality(Made(i)) + 1
      BY <1>4, <2>1, <2>3, FS_AddElement
    <3>4. Made(j)' = Made(i) \cup {n} /\ Making(j)' = Making(i) \ {c}
      BY <1>4, <1>6, <2>3
    <3>5. Cardinality(Made(i)) + Cardinality(Making(i)) <= Once /\ Once \in Nat
      BY <2>1, <2>3, MakingIsBounded DEF OnceInv, AccountsTypeOK
    <3> QED BY <2>2, <3>1, <3>2, <3>3, <3>4, <3>5
  <2>4. CASE j # i
    BY <1>5, <1>7, <2>1, <2>2, <2>4
  <2> QED BY <2>3, <2>4
<1> QED BY <1>8, <1>9, <1>10, <1>11 DEF OnceInv

\* A request that has read, of another kind than one that makes a user.
LEMMA OtherRead ==
    ASSUME OnceInv, NEW c \in Clients, NEW r \in Request, r.op \notin {"bootstrap", "claim"},
           requests' = [requests EXCEPT ![c] = r], UNCHANGED <<users, sessions, invites, serial>>,
           serial => \A d \in Clients \ {c} : requests[d] = NoRequest
    PROVE  OnceInv'
<1>1. /\ requests' \in [Clients -> Request] /\ requests'[c] = r
      /\ \A d \in Clients \ {c} : requests'[d] = requests[d]
  BY DEF OnceInv, AccountsTypeOK
<1>2. AccountsTypeOK'
  BY <1>1 DEF OnceInv, AccountsTypeOK
<1>3. serial => OneRequest'
  BY <1>1 DEF OneRequest
<1>4. \A d \in Clients : requests'[d].op \in {"bootstrap", "claim"} => requests'[d] = requests[d]
  BY <1>1
<1>5. \A n \in Names : (Exists(n)' <=> Exists(n)) /\ users'[n].via = users[n].via
  BY DEF Exists
<1> QED BY <1>2, <1>3, <1>4, <1>5, QuietStep

\* A request that ends and makes no user.
LEMMA OtherEnds ==
    ASSUME OnceInv, NEW c \in Clients, Ends(c), UNCHANGED serial,
           users' \in [Names -> User], sessions' \in [Tokens -> Session], invites' \in [Invites -> Invite],
           \A n \in Names : (Exists(n)' <=> Exists(n)) /\ users'[n].via = users[n].via,
           \A i \in Invites :
             /\ invites'[i].state = "unused" => invites[i].state = "unused"
             /\ invites'[i].state = "open" => invites[i].state \in {"unused", "open"}
    PROVE  OnceInv'
<1>1. /\ requests' \in [Clients -> Request] /\ requests'[c] = NoRequest
      /\ \A d \in Clients \ {c} : requests'[d] = requests[d]
  BY RequestFields DEF Ends, OnceInv, AccountsTypeOK
<1>2. AccountsTypeOK'
  BY <1>1 DEF OnceInv, AccountsTypeOK
<1>3. serial => OneRequest'
  BY <1>1 DEF OnceInv, OneRequest
<1>4. \A d \in Clients : requests'[d].op \in {"bootstrap", "claim"} => requests'[d] = requests[d]
  BY <1>1, RequestFields
<1> QED BY <1>2, <1>3, <1>4, QuietStep

\* A new password changes sessions and the requests that sign in.
LEMMA NewPasswordQuiet ==
    ASSUME OnceInv, NEW c \in Clients, requests[c].op # "none", NEW n \in Names \cup {None}, NEW gone, NEW kept,
           NewPassword(c, n, gone, kept), UNCHANGED <<users, invites, serial>>
    PROVE  OnceInv'
<1>1. sessions' \in [Tokens -> Session]
  <2>1. sessions' = [t \in Tokens |-> IF sessions[t].user = n /\ t \notin gone
                                      THEN [user |-> n, current |-> t \in kept]
                                      ELSE Without(gone)[t]]
    BY DEF NewPassword
  <2>2. \A t \in Tokens : Without(gone)[t] \in Session
    BY RequestFields DEF Without, OnceInv, AccountsTypeOK
  <2>3. \A t \in Tokens : [user |-> n, current |-> t \in kept] \in Session
    BY DEF Session
  <2> QED BY <2>1, <2>2, <2>3
<1>2. ASSUME NEW d \in Clients
      PROVE  /\ requests'[d] \in Request
             /\ requests'[d].op \in {"bootstrap", "claim"} => requests'[d] = requests[d]
             /\ requests'[d] # NoRequest => d # c /\ requests[d] # NoRequest
  <2>1. requests[d] \in Request /\ requests[c] # NoRequest
    BY RequestFields DEF OnceInv, AccountsTypeOK
  <2>2. CASE d = c
    <3>1. requests'[d] = NoRequest
      BY <2>2 DEF NewPassword
    <3> QED BY <3>1, RequestFields
  <2>3. CASE d # c /\ requests[d].op = "login" /\ requests[d].name = n
    <3> DEFINE x == [requests[d] EXCEPT !.current = FALSE]
    <3>1. x \in Request /\ x.op = "login"
      BY <2>1, <2>3 DEF Request
    <3>2. requests'[d] = x
      BY <2>3 DEF NewPassword
    <3> HIDE DEF x
    <3>3. requests[d] # NoRequest
      BY <2>3, RequestFields
    <3> QED BY <2>3, <3>1, <3>2, <3>3
  <2>4. CASE d # c /\ ~(requests[d].op = "login" /\ requests[d].name = n)
    <3>1. requests'[d] = requests[d]
      BY <2>4 DEF NewPassword
    <3> QED BY <2>1, <2>4, <3>1
  <2> QED BY <2>2, <2>3, <2>4
<1>3. requests' \in [Clients -> Request]
  <2>1. requests' = [d \in Clients |-> requests'[d]]
    BY DEF NewPassword
  <2> QED BY <1>2, <2>1
<1>4. AccountsTypeOK'
  BY <1>1, <1>3 DEF OnceInv, AccountsTypeOK
<1>5. serial => OneRequest'
  BY <1>2 DEF OnceInv, OneRequest
<1>6. \A m \in Names : (Exists(m)' <=> Exists(m)) /\ users'[m].via = users[m].via
  BY DEF Exists
<1>7. \A i \in Invites : invites'[i] = invites[i]
  OBVIOUS
<1> QED BY <1>2, <1>4, <1>5, <1>6, <1>7, QuietStep

\* Requests that begin.
LEMMA ReadsMakeOnce ==
    ASSUME OnceInv, NEW c \in Clients,
           \/ \E n \in Names : \/ BootstrapRead(c, n) \/ LoginRead(c, n)
                               \/ \E i \in Invites : ClaimRead(c, i, n)
           \/ \E t \in Tokens : PasswordRead(c, t) \/ Authorize(c, t)
    PROVE  OnceInv'
<1>1. ASSUME NEW n \in Names, BootstrapRead(c, n) PROVE OnceInv'
  <2> DEFINE r == [NoRequest EXCEPT !.op = "bootstrap", !.name = n]
  <2>1. r \in Request /\ r.op = "bootstrap" /\ r.name = n
    BY DEF NoRequest, Request
  <2>2. Starts(c, r) /\ Made(None) = {}
    BY <1>1 DEF BootstrapRead, Made
  <2> HIDE DEF r
  <2> QED BY <2>1, <2>2, MakerStarts
<1>2. ASSUME NEW n \in Names, NEW i \in Invites, ClaimRead(c, i, n) PROVE OnceInv'
  <2> DEFINE r == [NoRequest EXCEPT !.op = "claim", !.name = n, !.invite = i]
  <2>1. r \in Request /\ r.op = "claim" /\ r.name = n /\ r.invite = i
    BY DEF NoRequest, Request
  <2>2. Starts(c, r) /\ invites[i].state = "open" /\ Made(i) = {}
    BY <1>2 DEF ClaimRead, OnceInv, NewInvitesMadeNobody
  <2> HIDE DEF r
  <2> QED BY <2>1, <2>2, MakerStarts
<1>3. ASSUME NEW r \in Request, Starts(c, r), r.op \notin {"bootstrap", "claim"} PROVE OnceInv'
  BY <1>3, OtherRead DEF Starts
<1>4. ASSUME NEW n \in Names, LoginRead(c, n) PROVE OnceInv'
  <2> DEFINE r == [NoRequest EXCEPT !.op = "login", !.name = n]
  <2>1. r \in Request /\ r.op = "login"
    BY DEF NoRequest, Request
  <2>2. Starts(c, r)
    BY <1>4 DEF LoginRead
  <2> HIDE DEF r
  <2> QED BY <1>3, <2>1, <2>2
<1>5. ASSUME NEW t \in Tokens, PasswordRead(c, t) PROVE OnceInv'
  <2> DEFINE n == sessions[t].user
             r == [NoRequest EXCEPT !.op = "password", !.name = n, !.token = t]
  <2>1. n \in Names \cup {None} /\ Starts(c, r)
    BY <1>5 DEF PasswordRead, OnceInv, AccountsTypeOK, Session
  <2> HIDE DEF n
  <2>2. r \in Request /\ r.op = "password"
    BY <2>1 DEF NoRequest, Request
  <2> HIDE DEF r
  <2> QED BY <1>3, <2>1, <2>2
<1>6. ASSUME NEW t \in Tokens, Authorize(c, t) PROVE OnceInv'
  <2> DEFINE n == sessions[t].user
             r == [NoRequest EXCEPT !.op = "admin", !.acting = n]
  <2>1. n \in Names \cup {None} /\ Starts(c, r)
    BY <1>6 DEF Authorize, OnceInv, AccountsTypeOK, Session
  <2> HIDE DEF n
  <2>2. r \in Request /\ r.op = "admin"
    BY <2>1 DEF NoRequest, Request
  <2> HIDE DEF r
  <2> QED BY <1>3, <2>1, <2>2
<1> QED BY <1>1, <1>2, <1>4, <1>5, <1>6

\* Their commits.
LEMMA CommitsMakeOnce ==
    ASSUME OnceInv, NEW c \in Clients,
           \/ \E t \in Tokens : BootstrapCommit(c, t) \/ LoginCommit(c, t) \/ ClaimCommit(c, t)
           \/ PasswordCommit(c) \/ Fails(c)
    PROVE  OnceInv'
<1> DEFINE r == requests[c]
<1>1. r \in Request /\ AccountsTypeOK
  BY DEF OnceInv, AccountsTypeOK
<1>2. ASSUME Ends(c) PROVE requests' \in [Clients -> Request]
  BY <1>1, <1>2, RequestFields DEF Ends, AccountsTypeOK
<1>3. ASSUME NEW n \in Names, NEW x \in User, users' = [users EXCEPT ![n] = x]
      PROVE  users' \in [Names -> User]
  BY <1>1, <1>3 DEF AccountsTypeOK
<1>4. ASSUME NEW t \in Tokens, NEW n \in Names \cup {None}, NEW current \in BOOLEAN,
             sessions' = Issued(t, n, current)
      PROVE  sessions' \in [Tokens -> Session]
  <2> DEFINE x == [user |-> n, current |-> current]
  <2>1. x \in Session /\ sessions' = [sessions EXCEPT ![t] = x]
    BY <1>4 DEF Session, Issued
  <2> HIDE DEF x
  <2> QED BY <1>1, <2>1 DEF AccountsTypeOK
<1>5. \A n \in Names : (Exists(n) <=> users[n].role # "none")
  BY DEF Exists
<1>6. ASSUME NEW t \in Tokens, BootstrapCommit(c, t) PROVE OnceInv'
  <2>1. r.op = "bootstrap" /\ r.name \in Names /\ ~Exists(r.name) /\ c \in Making(None) /\ Ends(c)
    BY <1>6 DEF BootstrapCommit, OnceInv, MakersKnow, Making
  <2>2. /\ users' = [users EXCEPT ![r.name] = NewUser("admin", None)]
        /\ sessions' = Issued(t, r.name, TRUE) /\ UNCHANGED <<invites, serial>>
    BY <1>6 DEF BootstrapCommit
  <2>3. NewUser("admin", None) \in User /\ "admin" \in Roles
    BY DEF NewUser, User, Roles
  <2> HIDE DEF r
  <2>4. users' \in [Names -> User] /\ sessions' \in [Tokens -> Session] /\ requests' \in [Clients -> Request]
    BY <1>2, <1>3, <1>4, <2>1, <2>2, <2>3
  <2>5. AccountsTypeOK'
    BY <1>1, <2>2, <2>4 DEF AccountsTypeOK
  <2> QED BY <2>1, <2>2, <2>3, <2>5, MakerCommits
<1>7. ASSUME NEW t \in Tokens, ClaimCommit(c, t) PROVE OnceInv'
  <2> DEFINE i == r.invite
             role == invites[i].role
             new == [invites[i] EXCEPT !.state = IF @ = "open" THEN "claimed" ELSE @]
  <2>1. /\ r.op = "claim" /\ r.name \in Names /\ ~Exists(r.name) /\ i \in Invites /\ c \in Making(i)
        /\ Ends(c)
    BY <1>7 DEF ClaimCommit, OnceInv, MakersKnow, Making
  <2>2. /\ users' = [users EXCEPT ![r.name] = NewUser(role, i)]
        /\ sessions' = Issued(t, r.name, TRUE) /\ UNCHANGED serial
        /\ invites' = [invites EXCEPT ![i] = new]
    BY <1>7 DEF ClaimCommit
  <2>3. role \in Roles /\ NewUser(role, i) \in User
    BY <1>1, <2>1 DEF AccountsTypeOK, Invite, NewUser, User
  <2>4. new \in Invite /\ new.state \notin {"unused", "open"}
    BY <1>1, <2>1 DEF AccountsTypeOK, Invite, OnceInv, NewInvitesMadeNobody
  <2> HIDE DEF r, i, role, new
  <2>5. /\ invites' \in [Invites -> Invite] /\ invites'[i] = new
        /\ \A j \in Invites : j # i => invites'[j] = invites[j]
    BY <1>1, <2>1, <2>2, <2>4 DEF AccountsTypeOK
  <2>6. users' \in [Names -> User] /\ sessions' \in [Tokens -> Session] /\ requests' \in [Clients -> Request]
    BY <1>2, <1>3, <1>4, <2>1, <2>2, <2>3
  <2>7. AccountsTypeOK'
    BY <1>1, <2>2, <2>5, <2>6 DEF AccountsTypeOK
  <2>8. invites'[i].state \notin {"unused", "open"}
    BY <2>4, <2>5
  <2> QED BY <2>1, <2>2, <2>3, <2>5, <2>7, <2>8, MakerCommits
<1>8. ASSUME NEW t \in Tokens, LoginCommit(c, t) PROVE OnceInv'
  <2>1. sessions' = Issued(t, r.name, r.current) /\ Ends(c) /\ UNCHANGED <<users, invites, serial>>
    BY <1>8 DEF LoginCommit
  <2>2. r.name \in Names \cup {None} /\ r.current \in BOOLEAN
    BY <1>1 DEF Request
  <2>3. sessions' \in [Tokens -> Session]
    BY <1>4, <2>1, <2>2
  <2> QED BY <1>1, <2>1, <2>3, OtherEnds DEF AccountsTypeOK, Exists
<1>9. ASSUME PasswordCommit(c) PROVE OnceInv'
  <2>1. r.op # "none" /\ r.name \in Names \cup {None}
    BY <1>1, <1>9 DEF PasswordCommit, Request
  <2> QED BY <1>9, <2>1, NewPasswordQuiet DEF PasswordCommit
<1>10. ASSUME Fails(c) PROVE OnceInv'
  BY <1>1, <1>10, OtherEnds DEF Fails, AccountsTypeOK, Exists
<1> QED BY <1>6, <1>7, <1>8, <1>9, <1>10

\* An administrator's requests neither make a user nor reopen an invite.
LEMMA AdministrationMakesNobody ==
    ASSUME OnceInv, NEW c \in Clients, Administrates(c) PROVE OnceInv'
<1> DEFINE r == requests[c]
<1>1. r \in Request /\ AccountsTypeOK
  BY DEF OnceInv, AccountsTypeOK
<1>2. ASSUME NEW n \in Names, NEW x \in User, users' = [users EXCEPT ![n] = x],
             (x.role = "none") <=> (users[n].role = "none"), x.via = users[n].via,
             sessions' \in [Tokens -> Session], UNCHANGED <<invites, serial>>, Ends(c)
      PROVE  OnceInv'
  <2>1. /\ users' \in [Names -> User] /\ users'[n] = x
        /\ \A m \in Names \ {n} : users'[m] = users[m]
    BY <1>1, <1>2 DEF AccountsTypeOK
  <2>2. \A m \in Names : (Exists(m)' <=> Exists(m)) /\ users'[m].via = users[m].via
    BY <1>2, <2>1 DEF Exists
  <2> QED BY <1>1, <1>2, <2>1, <2>2, OtherEnds DEF AccountsTypeOK
<1>3. \A gone : Without(gone) \in [Tokens -> Session]
  BY <1>1, RequestFields DEF AccountsTypeOK, Without
<1>4. ASSUME NEW n \in Names, NEW role \in Roles, SetRole(c, n, role) PROVE OnceInv'
  <2> DEFINE x == [users[n] EXCEPT !.role = role]
  <2>1. users[n] \in User /\ users[n].role # "none"
    BY <1>1, <1>4 DEF SetRole, Target, AccountsTypeOK, Exists
  <2>2. x \in User /\ x.role = role /\ x.role # "none" /\ x.via = users[n].via
    BY <2>1 DEF User, Roles
  <2>3. users' = [users EXCEPT ![n] = x] /\ UNCHANGED <<sessions, invites, serial>> /\ Ends(c)
    BY <1>4 DEF SetRole
  <2> HIDE DEF x
  <2> QED BY <1>1, <1>2, <2>1, <2>2, <2>3 DEF AccountsTypeOK
<1>5. ASSUME NEW n \in Names, Enable(c, n) PROVE OnceInv'
  <2> DEFINE x == [users[n] EXCEPT !.status = "active"]
  <2>1. users[n] \in User
    BY <1>1 DEF AccountsTypeOK
  <2>2. x \in User /\ x.role = users[n].role /\ x.via = users[n].via
    BY <2>1 DEF User
  <2>3. users' = [users EXCEPT ![n] = x] /\ UNCHANGED <<sessions, invites, serial>> /\ Ends(c)
    BY <1>5 DEF Enable
  <2> HIDE DEF x
  <2> QED BY <1>1, <1>2, <2>2, <2>3 DEF AccountsTypeOK
<1>6. ASSUME NEW n \in Names, NEW op \in {"disable", "reset", "signout"}, SelectSessions(c, n, op)
      PROVE  OnceInv'
  <2> DEFINE status == IF op = "disable" THEN users[n].status ELSE "active"
             seen == SessionsOf(n)
             x == [NoRequest EXCEPT !.op = op, !.name = n, !.seen = seen, !.status = status]
  <2>1. /\ r.op = "admin" /\ requests' = [requests EXCEPT ![c] = x]
        /\ UNCHANGED <<users, sessions, invites, serial>>
    BY <1>6 DEF SelectSessions, Target
  <2>2. status \in {"active", "disabled"} /\ seen \subseteq Tokens
    BY <1>1 DEF AccountsTypeOK, User, SessionsOf
  <2> HIDE DEF status, seen
  <2>3. x \in Request /\ x.op = op
    BY <2>2 DEF NoRequest, Request
  <2> HIDE DEF x
  <2>4. serial => \A d \in Clients \ {c} : requests[d] = NoRequest
    BY <2>1, RequestFields DEF OnceInv, OneRequest
  <2> QED BY <2>1, <2>3, <2>4, OtherRead
<1>7. ASSUME Disable(c) PROVE OnceInv'
  <2> DEFINE n == r.name
             x == [users[n] EXCEPT !.status = Column(@, r.status, "disabled")]
  <2>1. users' = [users EXCEPT ![n] = x] /\ UNCHANGED <<invites, serial>> /\ Ends(c)
        /\ sessions' = Without(r.seen)
    BY <1>7 DEF Disable
  <2>2. CASE n \in Names
    <3>1. users[n] \in User /\ r.status \in {"active", "disabled"}
      BY <1>1, <2>2 DEF AccountsTypeOK, Request
    <3>2. x \in User /\ x.role = users[n].role /\ x.via = users[n].via
      BY <3>1 DEF User, Column
    <3> HIDE DEF x, n
    <3> QED BY <1>2, <1>3, <2>1, <2>2, <3>2
  <2>3. CASE n \notin Names
    <3> HIDE DEF x, n
    <3>1. users' = users
      BY <1>1, <2>1, <2>3 DEF AccountsTypeOK
    <3> QED BY <1>1, <1>3, <2>1, <3>1, OtherEnds DEF AccountsTypeOK, Exists
  <2> QED BY <2>2, <2>3
<1>8. ASSUME ResetPassword(c) PROVE OnceInv'
  <2>1. r.op # "none" /\ r.name \in Names \cup {None}
    BY <1>1, <1>8 DEF ResetPassword, Request
  <2> QED BY <1>8, <2>1, NewPasswordQuiet DEF ResetPassword
<1>9. ASSUME RevokeSessions(c) PROVE OnceInv'
  BY <1>1, <1>3, <1>9, OtherEnds DEF RevokeSessions, AccountsTypeOK, Exists
<1>10. ASSUME NEW i \in Invites, NEW x \in Invite, invites' = [invites EXCEPT ![i] = x], Ends(c),
              x.state # "unused", x.state = "open" => invites[i].state = "unused",
              UNCHANGED <<users, sessions, serial>>
       PROVE  OnceInv'
  <2>1. /\ invites' \in [Invites -> Invite] /\ invites'[i] = x
        /\ \A j \in Invites \ {i} : invites'[j] = invites[j]
    BY <1>1, <1>10 DEF AccountsTypeOK
  <2>2. \A j \in Invites : /\ invites'[j].state = "unused" => invites[j].state = "unused"
                           /\ invites'[j].state = "open" => invites[j].state \in {"unused", "open"}
    BY <1>10, <2>1
  <2>3. \A n \in Names : (Exists(n)' <=> Exists(n)) /\ users'[n].via = users[n].via
    BY <1>10 DEF Exists
  <2>4. users' \in [Names -> User] /\ sessions' \in [Tokens -> Session] /\ UNCHANGED serial
    BY <1>1, <1>10 DEF AccountsTypeOK
  <2> QED BY <1>10, <2>1, <2>2, <2>3, <2>4, OtherEnds
<1>11. ASSUME NEW i \in Invites, NEW role \in Roles, CreateInvite(c, i, role) PROVE OnceInv'
  <2> DEFINE x == [role |-> role, state |-> "open"]
  <2>1. x \in Invite /\ x.state = "open" /\ invites' = [invites EXCEPT ![i] = x]
    BY <1>11 DEF CreateInvite, Invite
  <2> HIDE DEF x
  <2> QED BY <1>10, <1>11, <2>1 DEF CreateInvite
<1>12. ASSUME NEW i \in Invites, RevokeInvite(c, i) PROVE OnceInv'
  <2> DEFINE x == [invites[i] EXCEPT !.state = "closed"]
  <2>1. x \in Invite /\ x.state = "closed" /\ invites' = [invites EXCEPT ![i] = x]
    BY <1>1, <1>12 DEF RevokeInvite, Invite, AccountsTypeOK
  <2> HIDE DEF x
  <2> QED BY <1>10, <1>12, <2>1 DEF RevokeInvite
<1> QED BY <1>4, <1>5, <1>6, <1>7, <1>8, <1>9, <1>11, <1>12, ReadsMakeOnce DEF Administrates

\* A session that ends, and an invite that expires.
LEMMA EndingsMakeNobody ==
    ASSUME OnceInv, (\E t \in Tokens : Logout(t)) \/ (\E i \in Invites : InviteExpires(i))
    PROVE  OnceInv'
<1>1. UNCHANGED <<users, requests, serial>>
  BY DEF Logout, InviteExpires
<1>2. ASSUME NEW t \in Tokens, Logout(t)
      PROVE  UNCHANGED invites /\ sessions' \in [Tokens -> Session]
  BY <1>2, RequestFields DEF Logout, Without, OnceInv, AccountsTypeOK
<1>3. ASSUME NEW i \in Invites, InviteExpires(i)
      PROVE  /\ UNCHANGED sessions /\ invites' \in [Invites -> Invite]
             /\ \A j \in Invites : invites'[j].state \in {"unused", "open"} => invites'[j] = invites[j]
  <2> DEFINE x == [invites[i] EXCEPT !.state = "closed"]
  <2>1. x \in Invite /\ x.state = "closed" /\ invites' = [invites EXCEPT ![i] = x] /\ UNCHANGED sessions
    BY <1>3 DEF InviteExpires, Invite, OnceInv, AccountsTypeOK
  <2> HIDE DEF x
  <2> QED BY <2>1 DEF OnceInv, AccountsTypeOK
<1>4. /\ sessions' \in [Tokens -> Session] /\ invites' \in [Invites -> Invite]
      /\ \A j \in Invites : invites'[j].state \in {"unused", "open"} => invites'[j] = invites[j]
  BY <1>2, <1>3 DEF OnceInv, AccountsTypeOK
<1>5. AccountsTypeOK'
  BY <1>1, <1>4 DEF OnceInv, AccountsTypeOK
<1>6. serial => OneRequest'
  BY <1>1 DEF OnceInv, OneRequest
<1> QED BY <1>1, <1>4, <1>5, <1>6, QuietStep DEF Exists

\* Every step keeps it.
LEMMA OncePreserved == OnceInv /\ [NextAccounts]_accountsVars => OnceInv'
<1> SUFFICES ASSUME OnceInv, [NextAccounts]_accountsVars PROVE OnceInv'
  OBVIOUS
<1>1. CASE UNCHANGED accountsVars
  <2>1. AccountsTypeOK' /\ (serial => OneRequest') /\ UNCHANGED serial
    BY <1>1 DEF accountsVars, OnceInv, AccountsTypeOK, OneRequest
  <2> QED BY <1>1, <2>1, QuietStep DEF accountsVars, Exists
<1>2. CASE NextAccounts
  BY <1>2, ReadsMakeOnce, CommitsMakeOnce, AdministrationMakesNobody, EndingsMakeNobody
     DEF NextAccounts, UsesAccount
<1> QED BY <1>1, <1>2

\* The invariant holds of every behaviour.
LEMMA OnceCorrect == SpecAccounts => []OnceInv
BY OnceInitially, OncePreserved, PTL DEF SpecAccounts

\* An invite makes one user and the empty table one administrator; if
\* requests overlap, never more than there are clients, however long the
\* server runs and whatever else it does (claim_invite, bootstrap_admin).
THEOREM InvitesMakeOneUser == SpecAccounts => []UsersAreMadeOnce
<1>1. OnceInv => UsersAreMadeOnce
  <2> SUFFICES ASSUME OnceInv, NEW i \in Invites \cup {None} PROVE Cardinality(Made(i)) <= Once
    BY DEF UsersAreMadeOnce, Made
  <2>1. IsFiniteSet(Made(i)) /\ Cardinality(Made(i)) + Cardinality(Making(i)) <= Once
    BY DEF OnceInv, MadeAtMostOnce
  <2>2. Cardinality(Making(i)) \in Nat /\ Cardinality(Made(i)) \in Nat /\ Once \in Nat
    BY <2>1, MakingIsBounded, FS_CardinalityType DEF OnceInv, AccountsTypeOK
  <2> QED BY <2>1, <2>2
<1> QED BY <1>1, OnceCorrect, PTL

(***************************************************************************)
(* Friends.  While handlers do not overlap, a pair has at most one row,    *)
(* what a handler has read of it stays so, and the row says no more than   *)
(* the two did.                                                            *)
(***************************************************************************)
People2(x) == {x.from, x.to}
Wants(u, v) == wishes[<<u, v>>] = "yes"

FriendshipFacts ==
    /\ friendships \in [FriendshipIds -> Friendship \cup {NoFriendship}]
    /\ \A i, j \in FriendshipRows : People2(friendships[i]) = People2(friendships[j]) => i = j
    /\ \A i \in FriendshipRows :
         /\ friendships[i].from # friendships[i].to
         /\ friendships[i].status \in {"pending", "accepted"}
               => Wants(friendships[i].from, friendships[i].to)
         /\ friendships[i].status = "accepted" => Wants(friendships[i].to, friendships[i].from)

(* What a handler knows between its reads and its write.                   *)
Expects(a) ==
    /\ a.from # a.to
    /\ a.op = "request" => \A i \in FriendshipRows : People2(friendships[i]) # People2(a)
    /\ a.op # "request" => /\ a.id \in FriendshipRows
                           /\ People2(friendships[a.id]) = People2(a)
    /\ a.op = "again" => friendships[a.id].from = a.from
    /\ a.op \in {"accept", "decline"} => friendships[a.id].status = "pending"
                                        /\ friendships[a.id].to = a.from

OneAnswer == \A g, h \in Handlers : answers[g] # NoAnswer /\ answers[h] # NoAnswer => g = h

AloneInv == /\ FriendshipFacts
            /\ answers \in [Handlers -> Answer \cup {NoAnswer}]
            /\ OneAnswer
            /\ \A h \in Handlers : answers[h] # NoAnswer => Expects(answers[h])

FriendsInv == alone => AloneInv

\* Rows and answers are none of the missing ones, and have people.
LEMMA FriendFields ==
    /\ \A x \in Friendship : /\ x # NoFriendship /\ x.from \in People /\ x.to \in People
                             /\ x.status \in {"pending", "accepted", "declined"}
    /\ \A a \in Answer : /\ a # NoAnswer /\ a.from \in People /\ a.to \in People
                         /\ a.op \in {"request", "again", "turn", "accept", "decline", "unfriend"}
<1>1. \A x \in Friendship : /\ x # NoFriendship /\ x.from \in People /\ x.to \in People
                            /\ x.status \in {"pending", "accepted", "declined"}
  <2>1. \A x \in Friendship : /\ x.from \in People /\ x.to \in People
                              /\ x.status \in {"pending", "accepted", "declined"}
    BY DEF Friendship
  <2>2. NoFriendship.status = "none"
    BY DEF NoFriendship
  <2> QED BY <2>1, <2>2
<1>2. \A a \in Answer : /\ a # NoAnswer /\ a.from \in People /\ a.to \in People
                        /\ a.op \in {"request", "again", "turn", "accept", "decline", "unfriend"}
  <2>1. \A a \in Answer : /\ a.from \in People /\ a.to \in People
                          /\ a.op \in {"request", "again", "turn", "accept", "decline", "unfriend"}
    BY DEF Answer
  <2>2. NoAnswer.op = "none"
    BY DEF NoAnswer
  <2> QED BY <2>1, <2>2
<1> QED BY <1>1, <1>2

\* Nobody has asked at first.
LEMMA FriendsInitially == InitFriends => FriendsInv
<1> SUFFICES ASSUME InitFriends PROVE AloneInv
  BY DEF FriendsInv
<1>1. FriendshipRows = {} /\ \A h \in Handlers : answers[h] = NoAnswer
  BY DEF InitFriends, FriendshipRows
<1> QED BY <1>1 DEF InitFriends, AloneInv, FriendshipFacts, OneAnswer

\* A handler that has read what it decides on.
LEMMA DecidesKeeps ==
    ASSUME AloneInv, alone, NEW h \in Handlers,
           NEW op \in {"request", "again", "turn", "accept", "decline", "unfriend"},
           NEW u \in People, NEW v \in People, NEW i \in FriendshipIds \cup {0},
           Decides(h, op, u, v, i), u # v,
           op = "request" => Between(u, v) = {},
           op # "request" => i \in Between(u, v),
           op = "again" => friendships[i].from = u,
           op \in {"accept", "decline"} => friendships[i].status = "pending" /\ friendships[i].to = u
    PROVE  AloneInv'
<1> DEFINE a == [op |-> op, from |-> u, to |-> v, id |-> i]
<1>1. a \in Answer /\ a # NoAnswer /\ a.op = op /\ a.from = u /\ a.to = v /\ a.id = i
  <2>1. a \in Answer /\ a.op = op /\ a.from = u /\ a.to = v /\ a.id = i
    BY DEF Answer
  <2> QED BY <2>1, FriendFields
<1>2. /\ answers' = [answers EXCEPT ![h] = a] /\ \A g \in Handlers : answers[g] = NoAnswer
      /\ UNCHANGED <<friendships, wishes>>
  BY DEF Decides
<1> HIDE DEF a
<1>3. FriendshipFacts'
  BY <1>2 DEF AloneInv, FriendshipFacts, FriendshipRows, Wants, People2
<1>4. Expects(a)
  BY <1>1 DEF Expects, Between, People2
<1>5. /\ answers' \in [Handlers -> Answer \cup {NoAnswer}] /\ answers'[h] = a
      /\ \A g \in Handlers \ {h} : answers'[g] = NoAnswer
  BY <1>1, <1>2 DEF AloneInv
<1>6. \A g \in Handlers : answers'[g] # NoAnswer => g = h /\ answers'[g] = a
  BY <1>5
<1>7. \A g \in Handlers : (answers[g] # NoAnswer => Expects(answers[g]))'
  BY <1>2, <1>4, <1>6 DEF Expects, FriendshipRows, People2
<1> QED BY <1>3, <1>5, <1>6, <1>7 DEF AloneInv, OneAnswer

\* An answer that was given: then no handler answers.
LEMMA AnsweredKeeps ==
    ASSUME AloneInv, NEW h \in Handlers, answers[h] # NoAnswer, Answered(h), FriendshipFacts'
    PROVE  AloneInv'
<1>1. answers' \in [Handlers -> Answer \cup {NoAnswer}] /\ \A g \in Handlers : answers'[g] = NoAnswer
  BY DEF Answered, AloneInv, OneAnswer
<1> QED BY <1>1 DEF AloneInv, OneAnswer

\* What a handler that answers has read.
LEMMA Answering ==
    ASSUME AloneInv, NEW h \in Handlers, NEW ops, answers[h].op \in ops,
           ops \subseteq {"request", "again", "turn", "accept", "decline", "unfriend"}
    PROVE  /\ answers[h] # NoAnswer /\ answers[h] \in Answer /\ Expects(answers[h])
           /\ answers[h].from \in People /\ answers[h].to \in People
<1>1. NoAnswer.op = "none"
  BY DEF NoAnswer
<1>2. answers[h] # NoAnswer
  BY <1>1
<1> QED BY <1>2, FriendFields DEF AloneInv

\* What handlers read (request_friend, respond_to_request, unfriend).
LEMMA FriendReadsKeep ==
    ASSUME AloneInv, alone, NEW h \in Handlers, NEW u \in People,
           \/ \E v \in People : RequestFriend(h, u, v) \/ Unfriend(h, u, v)
           \/ \E i \in FriendshipIds : \E op \in {"accept", "decline"} : RespondToRequest(h, u, i, op)
    PROVE  AloneInv'
<1>0. \A i \in FriendshipRows : i \in FriendshipIds /\ friendships[i] \in Friendship
  BY DEF AloneInv, FriendshipFacts, FriendshipRows
<1>1. \A v \in People : \A i \in Found(u, v) : /\ i \in FriendshipIds \cup {0}
                                               /\ i = 0 => Between(u, v) = {}
                                               /\ i # 0 => i \in Between(u, v)
  <2>1. 0 \notin FriendshipRows
    BY FriendshipsAssumption DEF FriendshipRows, FriendshipIds
  <2> QED BY <1>0, <2>1 DEF Found, Between
<1>2. ASSUME NEW v \in People, RequestFriend(h, u, v) PROVE AloneInv'
  <2>1. PICK i \in Found(u, v) :
           \/ i = 0 /\ Decides(h, "request", u, v, i)
           \/ /\ i # 0 /\ friendships[i].status = "pending" /\ friendships[i].to = u
              /\ Decides(h, "accept", u, v, i)
           \/ /\ i # 0 /\ friendships[i].status = "declined"
              /\ Decides(h, IF friendships[i].from = u THEN "again" ELSE "turn", u, v, i)
    BY <1>2 DEF RequestFriend
  <2>2. u # v /\ i \in FriendshipIds \cup {0} /\ (i = 0 => Between(u, v) = {})
        /\ (i # 0 => i \in Between(u, v))
    BY <1>1, <1>2 DEF RequestFriend
  <2>3. CASE i = 0 /\ Decides(h, "request", u, v, i)
    BY <2>2, <2>3, DecidesKeeps
  <2>4. CASE /\ i # 0 /\ friendships[i].status = "pending" /\ friendships[i].to = u
             /\ Decides(h, "accept", u, v, i)
    BY <2>2, <2>4, DecidesKeeps
  <2>5. CASE i # 0 /\ friendships[i].from = u /\ Decides(h, "again", u, v, i)
    BY <2>2, <2>5, DecidesKeeps
  <2>6. CASE i # 0 /\ friendships[i].from # u /\ Decides(h, "turn", u, v, i)
    BY <2>2, <2>6, DecidesKeeps
  <2> QED BY <2>1, <2>3, <2>4, <2>5, <2>6
<1>3. ASSUME NEW v \in People, Unfriend(h, u, v) PROVE AloneInv'
  <2>1. PICK i \in Found(u, v) : i # 0 /\ Decides(h, "unfriend", u, v, i)
    BY <1>3 DEF Unfriend
  <2>2. u # v
    BY <1>3 DEF Unfriend
  <2> QED BY <1>1, <2>1, <2>2, DecidesKeeps
<1>4. ASSUME NEW i \in FriendshipIds, NEW op \in {"accept", "decline"}, RespondToRequest(h, u, i, op)
      PROVE  AloneInv'
  <2> DEFINE v == friendships[i].from
  <2>1. i \in FriendshipRows /\ friendships[i].to = u /\ friendships[i].status = "pending"
        /\ Decides(h, op, u, v, i)
    BY <1>4 DEF RespondToRequest
  <2>2. v \in People /\ u # v /\ i \in Between(u, v)
    BY <1>0, <2>1, FriendFields DEF AloneInv, FriendshipFacts, Between
  <2> HIDE DEF v
  <2> QED BY <2>1, <2>2, DecidesKeeps
<1> QED BY <1>2, <1>3, <1>4

\* A row that is written, of a pair that has no other.
LEMMA RowWritten ==
    ASSUME FriendshipFacts, NEW id \in FriendshipIds, NEW x \in Friendship,
           friendships' = [friendships EXCEPT ![id] = x],
           x.from # x.to,
           \A j \in FriendshipRows \ {id} : People2(friendships[j]) # People2(x),
           \A p, q \in People : {p, q} # People2(x) /\ Wants(p, q) => Wants(p, q)',
           x.status \in {"pending", "accepted"} => Wants(x.from, x.to)',
           x.status = "accepted" => Wants(x.to, x.from)'
    PROVE  FriendshipFacts'
<1>1. /\ friendships' \in [FriendshipIds -> Friendship \cup {NoFriendship}] /\ friendships'[id] = x
      /\ \A j \in FriendshipIds \ {id} : friendships'[j] = friendships[j]
  BY DEF FriendshipFacts
<1>2. \A j \in FriendshipRows' : j = id \/ (j \in FriendshipRows \ {id} /\ friendships'[j] = friendships[j])
  BY <1>1 DEF FriendshipRows, FriendshipIds
<1>3. ASSUME NEW i \in FriendshipRows', NEW j \in FriendshipRows',
             People2(friendships'[i]) = People2(friendships'[j])
      PROVE  i = j
  <2>1. \A k, l \in FriendshipRows : People2(friendships[k]) = People2(friendships[l]) => k = l
    BY DEF FriendshipFacts
  <2>2. CASE i = id \/ j = id
    BY <1>1, <1>2, <1>3, <2>2
  <2>3. CASE i # id /\ j # id
    BY <1>2, <1>3, <2>1, <2>3
  <2> QED BY <2>2, <2>3
<1>4. ASSUME NEW j \in FriendshipRows'
      PROVE  /\ friendships'[j].from # friendships'[j].to
             /\ friendships'[j].status \in {"pending", "accepted"}
                   => wishes'[<<friendships'[j].from, friendships'[j].to>>] = "yes"
             /\ friendships'[j].status = "accepted"
                   => wishes'[<<friendships'[j].to, friendships'[j].from>>] = "yes"
  <2>1. CASE j = id
    BY <1>1, <2>1 DEF Wants
  <2>2. CASE j # id
    <3>1. j \in FriendshipRows \ {id} /\ friendships'[j] = friendships[j]
      BY <1>2, <2>2
    <3>2. friendships[j] \in Friendship
      BY <3>1 DEF FriendshipRows, FriendshipFacts
    <3> PICK p \in People, q \in People : p = friendships[j].from /\ q = friendships[j].to
      BY <3>2, FriendFields
    <3>3. p # q /\ {p, q} # People2(x) /\ {q, p} # People2(x)
      <4>1. {p, q} = People2(friendships[j]) /\ {q, p} = {p, q}
        BY DEF People2
      <4> QED BY <3>1, <4>1 DEF FriendshipFacts
    <3>4. (Wants(p, q) => Wants(p, q)') /\ (Wants(q, p) => Wants(q, p)')
      BY <3>3
    <3>5. /\ friendships[j].status \in {"pending", "accepted"} => Wants(p, q)
          /\ friendships[j].status = "accepted" => Wants(q, p)
      BY <3>1 DEF FriendshipFacts
    <3> QED BY <3>1, <3>3, <3>4, <3>5 DEF Wants
  <2> QED BY <2>1, <2>2
<1> QED BY <1>1, <1>3, <1>4 DEF FriendshipFacts, Wants, People2

\* What is said changes the wishes of the pairs it is about.
LEMMA SaysWishes ==
    ASSUME alone, NEW pairs, NEW wish, Says(pairs, wish)
    PROVE  \A p, q \in People : wishes'[<<p, q>>] = IF <<p, q>> \in pairs THEN wish ELSE wishes[<<p, q>>]
BY DEF Says

\* A row that waits for its answer, of the one who asks for it now.
LEMMA RequestWritten ==
    ASSUME FriendshipFacts, alone, NEW u \in People, NEW v \in People, u # v, NEW id \in FriendshipIds,
           friendships' = [friendships EXCEPT ![id] = [from |-> u, to |-> v, status |-> "pending"]],
           \A j \in FriendshipRows \ {id} : People2(friendships[j]) # {u, v},
           Says({<<u, v>>}, "yes")
    PROVE  FriendshipFacts'
<1> DEFINE x == [from |-> u, to |-> v, status |-> "pending"]
<1>1. x \in Friendship /\ x.from = u /\ x.to = v /\ x.status = "pending" /\ People2(x) = {u, v}
  BY DEF Friendship, People2
<1>2. friendships' = [friendships EXCEPT ![id] = x]
  OBVIOUS
<1>3. /\ wishes'[<<u, v>>] = "yes"
      /\ \A p, q \in People : wishes[<<p, q>>] = "yes" => wishes'[<<p, q>>] = "yes"
  BY SaysWishes
<1> HIDE DEF x
<1>4. \A j \in FriendshipRows \ {id} : People2(friendships[j]) # People2(x)
  BY <1>1
<1>5. \A p, q \in People : {p, q} # People2(x) /\ Wants(p, q) => Wants(p, q)'
  BY <1>3 DEF Wants
<1>6. Wants(x.from, x.to)' /\ x.from # x.to /\ x.status # "accepted"
  BY <1>1, <1>3 DEF Wants
<1> QED BY <1>1, <1>2, <1>4, <1>5, <1>6, RowWritten

\* An answer to what the other one, v, has asked.
LEMMA ReplyWritten ==
    ASSUME FriendshipFacts, alone, NEW u \in People, NEW v \in People, NEW id \in FriendshipRows,
           friendships[id].from = v, friendships[id].to = u, friendships[id].status = "pending",
           NEW accepted \in BOOLEAN,
           friendships' = [friendships EXCEPT ![id].status = IF accepted THEN "accepted" ELSE "declined"],
           Says({<<u, v>>}, IF accepted THEN "yes" ELSE "no")
    PROVE  FriendshipFacts'
<1> DEFINE status == IF accepted THEN "accepted" ELSE "declined"
           x == [friendships[id] EXCEPT !.status = status]
<1>1. friendships[id] \in Friendship /\ id \in FriendshipIds /\ status \in {"accepted", "declined"}
  BY DEF FriendshipFacts, FriendshipRows
<1>2. friendships' = [friendships EXCEPT ![id] = x]
  OBVIOUS
<1>3. u # v /\ wishes[<<v, u>>] = "yes"
      /\ \A j \in FriendshipRows \ {id} : People2(friendships[j]) # {u, v}
  BY DEF FriendshipFacts, Wants, People2
<1>4. /\ status = "accepted" => wishes'[<<u, v>>] = "yes"
      /\ wishes'[<<v, u>>] = "yes"
      /\ \A p, q \in People : {p, q} # {u, v} => wishes'[<<p, q>>] = wishes[<<p, q>>]
  BY <1>3, SaysWishes
<1> HIDE DEF status
<1>5. x \in Friendship /\ x.from = v /\ x.to = u /\ x.status = status /\ People2(x) = {u, v}
  BY <1>1 DEF Friendship, People2
<1> HIDE DEF x
<1> PICK y \in Friendship : y = x
  BY <1>5
<1>6. \A j \in FriendshipRows \ {id} : People2(friendships[j]) # People2(y)
  BY <1>3, <1>5
<1>7. \A p, q \in People : {p, q} # People2(y) /\ Wants(p, q) => Wants(p, q)'
  BY <1>4, <1>5 DEF Wants
<1>8. /\ y.from # y.to
      /\ y.status \in {"pending", "accepted"} => Wants(y.from, y.to)'
      /\ y.status = "accepted" => Wants(y.to, y.from)'
  BY <1>3, <1>4, <1>5 DEF Wants
<1>9. friendships' = [friendships EXCEPT ![id] = y]
  BY <1>2
<1> QED BY <1>1, <1>6, <1>7, <1>8, <1>9, RowWritten

\* A row that is deleted: nobody wishes, and the others' rows are there.
LEMMA RowDeleted ==
    ASSUME FriendshipFacts, alone, NEW u \in People, NEW v \in People, NEW id \in FriendshipRows,
           People2(friendships[id]) = {u, v},
           friendships' = [friendships EXCEPT ![id] = NoFriendship],
           Says({<<u, v>>, <<v, u>>}, "no")
    PROVE  FriendshipFacts'
<1>1. /\ friendships' \in [FriendshipIds -> Friendship \cup {NoFriendship}]
      /\ friendships'[id] = NoFriendship
      /\ \A j \in FriendshipIds \ {id} : friendships'[j] = friendships[j]
  BY DEF FriendshipFacts, FriendshipRows
<1>2. \A j \in FriendshipRows' : j \in FriendshipRows \ {id} /\ friendships'[j] = friendships[j]
  BY <1>1 DEF FriendshipRows, FriendshipIds
<1>3. \A p, q \in People : {p, q} # {u, v} => wishes'[<<p, q>>] = wishes[<<p, q>>]
  BY SaysWishes
<1>4. ASSUME NEW j \in FriendshipRows'
      PROVE  /\ friendships'[j].from # friendships'[j].to
             /\ friendships'[j].status \in {"pending", "accepted"}
                   => wishes'[<<friendships'[j].from, friendships'[j].to>>] = "yes"
             /\ friendships'[j].status = "accepted"
                   => wishes'[<<friendships'[j].to, friendships'[j].from>>] = "yes"
  <2>1. j \in FriendshipRows \ {id} /\ friendships'[j] = friendships[j]
    BY <1>2
  <2>2. friendships[j] \in Friendship
    BY <2>1 DEF FriendshipRows, FriendshipFacts
  <2> PICK p \in People, q \in People : p = friendships[j].from /\ q = friendships[j].to
    BY <2>2, FriendFields
  <2>3. {p, q} # {u, v} /\ {q, p} # {u, v}
    <3>1. {p, q} = People2(friendships[j]) /\ {q, p} = {p, q}
      BY DEF People2
    <3> QED BY <2>1, <3>1 DEF FriendshipFacts
  <2>4. wishes'[<<p, q>>] = wishes[<<p, q>>] /\ wishes'[<<q, p>>] = wishes[<<q, p>>]
    BY <1>3, <2>3
  <2> QED BY <2>1, <2>4 DEF FriendshipFacts, Wants
<1>5. \A i, j \in FriendshipRows' : People2(friendships'[i]) = People2(friendships'[j]) => i = j
  <2>1. \A k, l \in FriendshipRows : People2(friendships[k]) = People2(friendships[l]) => k = l
    BY DEF FriendshipFacts
  <2> QED BY <1>2, <2>1
<1> QED BY <1>1, <1>4, <1>5 DEF FriendshipFacts, Wants, People2

\* What handlers write.
LEMMA FriendWritesKeep ==
    ASSUME AloneInv, alone, NEW h \in Handlers,
           Insert(h) \/ AskAgain(h) \/ Reply(h) \/ Delete(h) \/ Refused(h)
    PROVE  AloneInv'
<1> DEFINE a == answers[h]
<1>0. FriendshipFacts
  BY DEF AloneInv
<1>1. \A u, v \in People : u # v /\ a.from = u /\ a.to = v => People2(a) = {u, v}
  BY DEF People2
<1>2. ASSUME Insert(h) PROVE AloneInv'
  <2>1. a # NoAnswer /\ a.from \in People /\ a.to \in People /\ Expects(a) /\ a.op = "request"
    BY <1>2, Answering DEF Insert
  <2> PICK u \in People, v \in People : u = a.from /\ v = a.to
    BY <2>1
  <2>2. PICK i \in FriendshipIds :
           friendships' = [friendships EXCEPT ![i] = [from |-> u, to |-> v, status |-> "pending"]]
    BY <1>2 DEF Insert
  <2>3. Says({<<u, v>>}, "yes") /\ Answered(h)
    BY <1>2 DEF Insert
  <2>4. u # v /\ \A j \in FriendshipRows \ {i} : People2(friendships[j]) # {u, v}
    BY <1>1, <2>1 DEF Expects
  <2>5. FriendshipFacts'
    BY <1>0, <2>2, <2>3, <2>4, RequestWritten
  <2> QED BY <2>1, <2>3, <2>5, AnsweredKeeps
<1>3. ASSUME a # NoAnswer, a.from \in People, a.to \in People, Expects(a), a.op # "request"
      PROVE  /\ a.from # a.to /\ a.id \in FriendshipRows /\ a.id \in FriendshipIds
             /\ friendships[a.id] \in Friendship /\ People2(friendships[a.id]) = {a.from, a.to}
             /\ \A j \in FriendshipRows \ {a.id} : People2(friendships[j]) # {a.from, a.to}
  BY <1>0, <1>3 DEF Expects, FriendshipFacts, FriendshipRows, People2
<1>4. ASSUME AskAgain(h) PROVE AloneInv'
  <2>1. a # NoAnswer /\ a.from \in People /\ a.to \in People /\ Expects(a) /\ a.op \in {"again", "turn"}
    BY <1>4, Answering DEF AskAgain
  <2> PICK u \in People, v \in People : u = a.from /\ v = a.to
    BY <2>1
  <2> PICK id \in FriendshipIds : id = a.id
    BY <1>3, <2>1
  <2>2. friendships[id] \in Friendship /\ People2(friendships[id]) = {u, v}
    BY <1>3, <2>1
  <2>3. u # v /\ \A j \in FriendshipRows \ {id} : People2(friendships[j]) # {u, v}
    BY <1>3, <2>1
  <2>4. Says({<<u, v>>}, "yes") /\ Answered(h)
    BY <1>4 DEF AskAgain
  <2>5. friendships' = [friendships EXCEPT ![id] =
                          IF a.op = "again" THEN [@ EXCEPT !.status = "pending"]
                          ELSE [from |-> u, to |-> v, status |-> "pending"]]
    BY <1>4 DEF AskAgain
  <2>6. friendships' = [friendships EXCEPT ![id] = [from |-> u, to |-> v, status |-> "pending"]]
    <3>1. CASE a.op = "again"
      <4>1. friendships[id].from = u /\ friendships[id].to = v
        BY <2>1, <2>2, <2>3, <3>1 DEF Expects, People2
      <4>2. [friendships[id] EXCEPT !.status = "pending"] = [from |-> u, to |-> v, status |-> "pending"]
        BY <2>2, <4>1 DEF Friendship
      <4> QED BY <2>5, <3>1, <4>2
    <3>2. CASE a.op # "again"
      BY <2>5, <3>2
    <3> QED BY <3>1, <3>2
  <2>7. FriendshipFacts'
    BY <1>0, <2>3, <2>4, <2>6, RequestWritten
  <2> QED BY <2>1, <2>4, <2>7, AnsweredKeeps
<1>5. ASSUME Reply(h) PROVE AloneInv'
  <2>1. a # NoAnswer /\ a.from \in People /\ a.to \in People /\ Expects(a)
        /\ a.op \in {"accept", "decline"}
    BY <1>5, Answering DEF Reply
  <2> PICK u \in People, v \in People : u = a.from /\ v = a.to
    BY <2>1
  <2> PICK id \in FriendshipRows : id = a.id
    BY <1>3, <2>1
  <2> PICK accepted \in BOOLEAN : accepted <=> a.op = "accept"
    OBVIOUS
  <2>2. friendships[id].to = u /\ friendships[id].status = "pending" /\ friendships[id].from = v
    BY <1>3, <2>1 DEF Expects, People2
  <2>3. /\ Answered(h) /\ Says({<<u, v>>}, IF accepted THEN "yes" ELSE "no")
        /\ friendships' = [friendships EXCEPT ![id].status = IF accepted THEN "accepted" ELSE "declined"]
    BY <1>5 DEF Reply
  <2>4. FriendshipFacts'
    BY <1>0, <2>2, <2>3, ReplyWritten
  <2> QED BY <2>1, <2>3, <2>4, AnsweredKeeps
<1>6. ASSUME Delete(h) PROVE AloneInv'
  <2>1. a # NoAnswer /\ a.from \in People /\ a.to \in People /\ Expects(a) /\ a.op = "unfriend"
    BY <1>6, Answering DEF Delete
  <2> PICK u \in People, v \in People : u = a.from /\ v = a.to
    BY <2>1
  <2> PICK id \in FriendshipRows : id = a.id
    BY <1>3, <2>1
  <2>2. People2(friendships[id]) = {u, v}
    BY <1>3, <2>1
  <2>3. Answered(h) /\ Says({<<u, v>>, <<v, u>>}, "no")
        /\ friendships' = [friendships EXCEPT ![id] = NoFriendship]
    BY <1>6 DEF Delete
  <2>4. FriendshipFacts'
    BY <1>0, <2>2, <2>3, RowDeleted
  <2> QED BY <2>1, <2>3, <2>4, AnsweredKeeps
<1>7. ASSUME Refused(h) PROVE AloneInv'
  <2>1. answers[h] # NoAnswer /\ Answered(h) /\ UNCHANGED <<friendships, wishes>>
    BY <1>7 DEF Refused
  <2>2. FriendshipFacts'
    BY <1>0, <2>1 DEF FriendshipFacts, FriendshipRows, Wants, People2
  <2> QED BY <2>1, <2>2, AnsweredKeeps
<1> QED BY <1>2, <1>4, <1>5, <1>6, <1>7

\* Whether handlers overlap never changes.
LEMMA AloneStays == ASSUME [NextFriends]_friendsVars PROVE UNCHANGED alone
<1>1. \A h \in Handlers, u, v \in People : RequestFriend(h, u, v) \/ Unfriend(h, u, v) => UNCHANGED alone
  BY DEF RequestFriend, Unfriend, Decides
<1>2. \A h \in Handlers, u \in People, i \in FriendshipIds, op \in {"accept", "decline"} :
         RespondToRequest(h, u, i, op) => UNCHANGED alone
  BY DEF RespondToRequest, Decides
<1>3. \A h \in Handlers : Insert(h) \/ AskAgain(h) \/ Reply(h) \/ Delete(h) \/ Refused(h)
                          => UNCHANGED alone
  BY DEF Insert, AskAgain, Reply, Delete, Refused, Answered
<1> QED BY <1>1, <1>2, <1>3 DEF NextFriends, friendsVars

\* Every step keeps it.
LEMMA FriendsPreserved == FriendsInv /\ [NextFriends]_friendsVars => FriendsInv'
<1> SUFFICES ASSUME FriendsInv, [NextFriends]_friendsVars, alone' PROVE AloneInv'
  BY DEF FriendsInv
<1>1. alone /\ AloneInv
  BY AloneStays DEF FriendsInv
<1>2. CASE UNCHANGED friendsVars
  BY <1>1, <1>2 DEF friendsVars, AloneInv, FriendshipFacts, FriendshipRows, Wants, People2, OneAnswer,
                    Expects
<1>3. CASE NextFriends
  BY <1>1, <1>3, FriendReadsKeep, FriendWritesKeep DEF NextFriends
<1> QED BY <1>2, <1>3

\* Two are friends only if the last word of each about the other was yes,
\* for any number of people and rows, when handlers do not overlap
\* (request_friend, respond_to_request, unfriend).
THEOREM FriendsAgree == SpecFriends => []FriendsBothAgreed
<1>1. SpecFriends => []FriendsInv
  BY FriendsInitially, FriendsPreserved, PTL DEF SpecFriends
<1>2. FriendsInv => FriendsBothAgreed
  <2> SUFFICES ASSUME AloneInv, NEW u \in People, NEW v \in People, Friends(u, v)
               PROVE  wishes[<<u, v>>] = "yes"
    BY DEF FriendsInv, FriendsBothAgreed
  <2>1. PICK i \in FriendshipRows : {friendships[i].from, friendships[i].to} = {u, v}
                                    /\ friendships[i].status = "accepted"
    BY DEF Friends, Between
  <2>2. \/ u = friendships[i].from /\ v = friendships[i].to
        \/ v = friendships[i].from /\ u = friendships[i].to
    BY <2>1
  <2> QED BY <2>1, <2>2 DEF AloneInv, FriendshipFacts, Wants
<1> QED BY <1>1, <1>2, PTL

(***************************************************************************)
(* Handlers that overlap.  The rows a pair has or a handler is about to    *)
(* turn to it, and the handlers that are about to insert one for it, are   *)
(* never more than the handlers: a handler decides to insert while there   *)
(* is no row, and a row that is turned to the pair was counted before.     *)
(***************************************************************************)
About(h, u, v) == answers[h] # NoAnswer /\ {answers[h].from, answers[h].to} = {u, v}
Turning(u, v) == {h \in Handlers : About(h, u, v) /\ answers[h].op = "turn"}
Claimed(u, v) == Between(u, v) \cup {answers[h].id : h \in Turning(u, v)}
Asking(u, v) == {h \in Handlers : About(h, u, v) /\ answers[h].op = "request"}
IsOf(x, u, v) == {x.from, x.to} = {u, v}
Limit == IF alone THEN 1 ELSE Cardinality(Handlers)

PairsInv == /\ FriendsTypeOK
            /\ alone => OneAnswer
            /\ \A u, v \in People : Cardinality(Claimed(u, v)) + Cardinality(Asking(u, v)) <= Limit

\* Handlers that differ only when they overlap are within the limit.
LEMMA HandlersWithinLimit ==
    ASSUME NEW S \in SUBSET Handlers, alone \in BOOLEAN, alone => \A g, h \in S : g = h
    PROVE  /\ IsFiniteSet(S) /\ Cardinality(S) \in Nat
           /\ Limit \in Nat /\ Cardinality(S) <= Limit
<1>1. /\ IsFiniteSet(S) /\ Cardinality(S) <= Cardinality(Handlers)
  BY HandlersAreFinite, FS_Subset
<1>2. Cardinality(S) \in Nat /\ Cardinality(Handlers) \in Nat
  BY <1>1, HandlersAreFinite, FS_CardinalityType
<1>3. CASE alone
  <2>1. Cardinality(S) <= 1
    BY <1>1, <1>3, OneMember
  <2> QED BY <1>1, <1>2, <1>3, <2>1 DEF Limit
<1>4. CASE ~alone
  BY <1>1, <1>2, <1>4 DEF Limit
<1> QED BY <1>3, <1>4

\* The ids of rows are finitely many.
LEMMA IdsAreFinite == \A S : S \subseteq FriendshipIds \cup {0} => IsFiniteSet(S) /\ Cardinality(S) \in Nat
<1>1. FriendshipIds \cup {0} = 0 .. MaxFriendships
  BY FriendshipsAssumption DEF FriendshipIds
<1>2. IsFiniteSet(0 .. MaxFriendships)
  BY FriendshipsAssumption, FS_Interval
<1> QED BY <1>1, <1>2, FS_Subset, FS_CardinalityType

\* What a pair has claimed are ids.
LEMMA ClaimedAreIds ==
    ASSUME FriendsTypeOK, NEW u, NEW v
    PROVE  /\ Claimed(u, v) \subseteq FriendshipIds \cup {0}
           /\ Asking(u, v) \subseteq Handlers
           /\ \A h \in Handlers : About(h, u, v) => answers[h] \in Answer
<1>1. \A h \in Handlers : About(h, u, v) => answers[h] \in Answer
  BY DEF FriendsTypeOK, About
<1>2. \A h \in Turning(u, v) : answers[h].id \in FriendshipIds \cup {0}
  BY <1>1 DEF Turning, Answer
<1>3. Between(u, v) \subseteq FriendshipIds /\ Asking(u, v) \subseteq Handlers
  BY DEF Between, FriendshipRows, Asking
<1> QED BY <1>1, <1>2, <1>3 DEF Claimed

\* A step that claims and asks for nothing more for any pair.
LEMMA PairsShrink ==
    ASSUME PairsInv, FriendsTypeOK', UNCHANGED alone, alone => OneAnswer',
           \A u, v \in People : Claimed(u, v)' \subseteq Claimed(u, v) /\ Asking(u, v)' \subseteq Asking(u, v)
    PROVE  PairsInv'
<1> SUFFICES ASSUME NEW u \in People, NEW v \in People
             PROVE  Cardinality(Claimed(u, v)') + Cardinality(Asking(u, v)') <= Limit'
  BY DEF PairsInv
<1>1. Cardinality(Claimed(u, v)) + Cardinality(Asking(u, v)) <= Limit /\ Limit' = Limit
  BY DEF PairsInv, Limit
<1>2. /\ Claimed(u, v) \subseteq FriendshipIds \cup {0} /\ Asking(u, v) \subseteq Handlers
      /\ Claimed(u, v)' \in SUBSET Claimed(u, v) /\ Asking(u, v)' \in SUBSET Asking(u, v)
  BY ClaimedAreIds DEF PairsInv
<1>3. /\ IsFiniteSet(Claimed(u, v)) /\ Cardinality(Claimed(u, v)) \in Nat
      /\ IsFiniteSet(Asking(u, v)) /\ Cardinality(Asking(u, v)) \in Nat
  BY <1>2, IdsAreFinite, HandlersAreFinite, FS_Subset, FS_CardinalityType
<1>4. /\ Cardinality(Claimed(u, v)') \in Nat /\ Cardinality(Claimed(u, v)') <= Cardinality(Claimed(u, v))
      /\ Cardinality(Asking(u, v)') \in Nat /\ Cardinality(Asking(u, v)') <= Cardinality(Asking(u, v))
  BY <1>2, <1>3, FS_Subset, FS_CardinalityType
<1>5. Limit \in Nat
  BY HandlersAreFinite, FS_CardinalityType DEF Limit
<1> QED BY <1>1, <1>3, <1>4, <1>5

\* A handler that has decided: what it asks for was not there.
LEMMA DecidesWithinLimit ==
    ASSUME PairsInv, NEW h \in Handlers,
           NEW op \in {"request", "again", "turn", "accept", "decline", "unfriend"},
           NEW u \in People, NEW v \in People, NEW i \in FriendshipIds \cup {0},
           Decides(h, op, u, v, i),
           op = "request" => Between(u, v) = {},
           op = "turn" => i \in Between(u, v)
    PROVE  PairsInv'
<1> DEFINE a == [op |-> op, from |-> u, to |-> v, id |-> i]
<1>1. a \in Answer /\ a # NoAnswer /\ a.op = op /\ a.from = u /\ a.to = v /\ a.id = i
  <2>1. a \in Answer /\ a.op = op /\ a.from = u /\ a.to = v /\ a.id = i
    BY DEF Answer
  <2> QED BY <2>1, FriendFields
<1>2. /\ answers' = [answers EXCEPT ![h] = a] /\ answers[h] = NoAnswer
      /\ alone => \A g \in Handlers : answers[g] = NoAnswer
      /\ UNCHANGED <<friendships, wishes, alone>>
  BY DEF Decides
<1> HIDE DEF a
<1>3. /\ answers' \in [Handlers -> Answer \cup {NoAnswer}] /\ answers'[h] = a
      /\ \A g \in Handlers \ {h} : answers'[g] = answers[g]
  BY <1>1, <1>2 DEF PairsInv, FriendsTypeOK
<1>4. FriendsTypeOK' /\ (alone => OneAnswer')
  <2>1. FriendsTypeOK'
    BY <1>2, <1>3 DEF PairsInv, FriendsTypeOK, FriendshipIds
  <2>2. alone => OneAnswer'
    BY <1>2, <1>3 DEF OneAnswer
  <2> QED BY <2>1, <2>2
<1>5. ASSUME NEW p, NEW q
      PROVE  Between(p, q)' = Between(p, q)
  BY <1>2 DEF Between, FriendshipRows, FriendshipIds
<1>6. ASSUME op # "request" PROVE PairsInv'
  <2>1. ASSUME NEW p \in People, NEW q \in People
        PROVE  Claimed(p, q)' \subseteq Claimed(p, q) /\ Asking(p, q)' \subseteq Asking(p, q)
    <3>1. Asking(p, q)' \subseteq Asking(p, q)
      BY <1>1, <1>3, <1>6 DEF Asking, About
    <3>2. \A g \in Turning(p, q)' \ {h} : g \in Turning(p, q) /\ answers'[g].id = answers[g].id
      BY <1>3 DEF Turning, About
    <3>3. h \in Turning(p, q)' => answers'[h].id \in Between(p, q)
      BY <1>1, <1>3 DEF Turning, About, Between
    <3> QED BY <1>5, <3>1, <3>2, <3>3 DEF Claimed
  <2> QED BY <1>2, <1>4, <2>1, PairsShrink
<1>7. ASSUME op = "request" PROVE PairsInv'
  <2> SUFFICES ASSUME NEW p \in People, NEW q \in People
               PROVE  Cardinality(Claimed(p, q)') + Cardinality(Asking(p, q)') <= Limit'
    BY <1>4, <1>2 DEF PairsInv
  <2>0. Limit' = Limit /\ alone \in BOOLEAN
    BY <1>2 DEF Limit, PairsInv, FriendsTypeOK
  <2>1. CASE {p, q} = {u, v}
    <3> DEFINE T == Turning(p, q)'
               A == Asking(p, q)'
               ids == {answers'[g].id : g \in T}
    <3>1. Claimed(p, q)' = ids
      <4>1. Between(p, q) = {}
        BY <1>7, <2>1 DEF Between
      <4> QED BY <1>5, <4>1 DEF Claimed
    <3>2. T \cap A = {} /\ T \cup A \subseteq Handlers
      BY DEF Turning, Asking
    <3>3. alone => \A f, g \in T \cup A : f = g
      BY <1>4 DEF OneAnswer, Turning, Asking, About
    <3> HIDE DEF T, A
    <3>4. T \cup A \in SUBSET Handlers /\ IsFiniteSet(T) /\ IsFiniteSet(A)
      BY <3>2, HandlersAreFinite, FS_Subset
    <3>5. Cardinality(T \cup A) <= Limit /\ Limit \in Nat
      BY <2>0, <3>3, <3>4, HandlersWithinLimit
    <3>7. IsFiniteSet(ids) /\ Cardinality(ids) <= Cardinality(T)
      <4> DEFINE f == [g \in T |-> answers'[g].id]
      <4>1. f \in Surjection(T, ids)
        BY DEF Surjection
      <4> HIDE DEF f, ids
      <4> QED BY <3>4, <4>1, FS_Surjection
    <3>8. Cardinality(T) \in Nat /\ Cardinality(A) \in Nat /\ Cardinality(ids) \in Nat
      BY <3>4, <3>7, FS_CardinalityType
    <3>6. Cardinality(T \cup A) = Cardinality(T) + Cardinality(A)
      <4>1. Cardinality(T \cap A) = 0
        BY <3>2, FS_EmptySet
      <4>2. Cardinality(T \cup A) = Cardinality(T) + Cardinality(A) - Cardinality(T \cap A)
        BY <3>4, FS_Union
      <4> QED BY <3>8, <4>1, <4>2
    <3>9. Cardinality(ids) + Cardinality(A) <= Limit
      <4> HIDE DEF ids
      <4> QED BY <3>5, <3>6, <3>7, <3>8
    <3> QED BY <2>0, <3>1, <3>9 DEF A
  <2>2. CASE {p, q} # {u, v}
    <3>1. Turning(p, q)' = Turning(p, q) /\ Asking(p, q)' = Asking(p, q)
      BY <1>1, <1>2, <1>3, <2>2 DEF Turning, Asking, About
    <3>2. \A g \in Turning(p, q) : answers'[g] = answers[g]
      BY <1>2, <1>3 DEF Turning, About
    <3>3. Claimed(p, q)' = Claimed(p, q)
      BY <1>5, <3>1, <3>2 DEF Claimed
    <3> QED BY <2>0, <3>1, <3>3 DEF PairsInv
  <2> QED BY <2>1, <2>2
<1> QED BY <1>6, <1>7

\* A row that is written: it is the pair's afterwards, and no other pair's.
LEMMA RowOfPair ==
    ASSUME FriendsTypeOK, NEW id \in FriendshipIds, NEW x \in Friendship,
           friendships' = [friendships EXCEPT ![id] = x]
    PROVE  /\ friendships' \in [FriendshipIds -> Friendship \cup {NoFriendship}]
           /\ \A p, q : IsOf(x, p, q) => Between(p, q)' = Between(p, q) \cup {id}
           /\ \A p, q : ~IsOf(x, p, q) => Between(p, q)' = Between(p, q) \ {id}
<1>1. /\ friendships' \in [FriendshipIds -> Friendship \cup {NoFriendship}] /\ friendships'[id] = x
      /\ \A j \in FriendshipIds \ {id} : friendships'[j] = friendships[j]
  BY DEF FriendsTypeOK
<1>2. x # NoFriendship
  BY FriendFields
<1>3. ASSUME NEW p, NEW q
      PROVE  /\ \A j \in FriendshipIds \ {id} : j \in Between(p, q)' <=> j \in Between(p, q)
             /\ id \in Between(p, q)' <=> IsOf(x, p, q)
             /\ Between(p, q)' \subseteq FriendshipIds /\ Between(p, q) \subseteq FriendshipIds
  <2>1. Between(p, q)' \subseteq FriendshipIds /\ Between(p, q) \subseteq FriendshipIds
    BY DEF Between, FriendshipRows, FriendshipIds
  <2>2. \A j \in FriendshipIds \ {id} : j \in Between(p, q)' <=> j \in Between(p, q)
    BY <1>1 DEF Between, FriendshipRows, FriendshipIds
  <2>3. id \in Between(p, q)' <=> IsOf(x, p, q)
    BY <1>1, <1>2 DEF Between, FriendshipRows, FriendshipIds, IsOf
  <2> QED BY <2>1, <2>2, <2>3
<1> QED BY <1>1, <1>3

\* A handler that has written or been refused: it is about nothing.
LEMMA AnsweredFields ==
    ASSUME PairsInv, NEW h \in Handlers, Answered(h)
    PROVE  /\ answers' \in [Handlers -> Answer \cup {NoAnswer}] /\ UNCHANGED alone
           /\ alone => OneAnswer'
           /\ \A u, v : /\ Turning(u, v)' = Turning(u, v) \ {h}
                        /\ Asking(u, v)' = Asking(u, v) \ {h}
                        /\ \A g \in Turning(u, v)' : answers'[g] = answers[g]
<1>1. /\ answers' \in [Handlers -> Answer \cup {NoAnswer}] /\ answers'[h] = NoAnswer
      /\ \A g \in Handlers \ {h} : answers'[g] = answers[g]
  BY DEF Answered, PairsInv, FriendsTypeOK
<1>2. alone => OneAnswer'
  BY <1>1 DEF PairsInv, OneAnswer
<1> QED BY <1>1, <1>2 DEF Turning, Asking, About, Answered

\* An answer that ends without a row of the pair it was not about already.
LEMMA WritesNoNewRow ==
    ASSUME PairsInv, NEW h \in Handlers, Answered(h),
           friendships' \in [FriendshipIds -> Friendship \cup {NoFriendship}],
           wishes' \in [People \X People -> {"yes", "no"}],
           \A u, v \in People : Between(u, v)' \subseteq Claimed(u, v)
    PROVE  PairsInv'
<1>1. FriendsTypeOK' /\ (alone => OneAnswer') /\ UNCHANGED alone
  BY AnsweredFields DEF PairsInv, FriendsTypeOK
<1>2. ASSUME NEW u \in People, NEW v \in People
      PROVE  Claimed(u, v)' \subseteq Claimed(u, v) /\ Asking(u, v)' \subseteq Asking(u, v)
  BY AnsweredFields DEF Claimed
<1> QED BY <1>1, <1>2, PairsShrink

\* What is said leaves the wishes wishes.
LEMMA SaysTypes ==
    ASSUME PairsInv, NEW pairs, NEW wish \in {"yes", "no"}, Says(pairs, wish)
    PROVE  wishes' \in [People \X People -> {"yes", "no"}]
BY DEF Says, PairsInv, FriendsTypeOK

\* What handlers write.
LEMMA WritesWithinLimit ==
    ASSUME PairsInv, NEW h \in Handlers,
           Insert(h) \/ AskAgain(h) \/ Reply(h) \/ Delete(h) \/ Refused(h)
    PROVE  PairsInv'
<1> DEFINE a == answers[h]
<1>0. FriendsTypeOK /\ NoAnswer.op = "none"
  BY DEF PairsInv, NoAnswer
<1>1. ASSUME a # NoAnswer
      PROVE  a \in Answer /\ a.from \in People /\ a.to \in People /\ About(h, a.from, a.to)
  BY <1>0, <1>1, FriendFields DEF FriendsTypeOK, About
<1>2. ASSUME Insert(h) PROVE PairsInv'
  <2>1. a # NoAnswer /\ a.from \in People /\ a.to \in People /\ a.op = "request" /\ Answered(h)
    BY <1>0, <1>1, <1>2 DEF Insert
  <2> PICK u \in People, v \in People : u = a.from /\ v = a.to
    BY <2>1
  <2> DEFINE x == [from |-> u, to |-> v, status |-> "pending"]
  <2>2. PICK i \in FriendshipIds : IsNextFriendship(i) /\ friendships' = [friendships EXCEPT ![i] = x]
    BY <1>2 DEF Insert
  <2>3. x \in Friendship /\ x.from = u /\ x.to = v
    BY DEF Friendship
  <2> HIDE DEF x
  <2>4. wishes' \in [People \X People -> {"yes", "no"}]
    BY <1>2, SaysTypes DEF Insert
  <2>5. /\ FriendsTypeOK' /\ (alone => OneAnswer') /\ UNCHANGED alone
    BY <2>1, <2>2, <2>3, <2>4, <1>0, AnsweredFields, RowOfPair DEF FriendsTypeOK
  <2> SUFFICES ASSUME NEW p \in People, NEW q \in People
               PROVE  Cardinality(Claimed(p, q)') + Cardinality(Asking(p, q)') <= Limit'
    BY <2>5 DEF PairsInv
  <2>6. /\ Limit' = Limit /\ Limit \in Nat
        /\ Cardinality(Claimed(p, q)) + Cardinality(Asking(p, q)) <= Limit
    BY <2>5, HandlersAreFinite, FS_CardinalityType DEF Limit, PairsInv
  <2>7. /\ IsFiniteSet(Claimed(p, q)) /\ Cardinality(Claimed(p, q)) \in Nat
        /\ IsFiniteSet(Asking(p, q)) /\ Cardinality(Asking(p, q)) \in Nat
    BY <1>0, ClaimedAreIds, IdsAreFinite, HandlersAreFinite, FS_Subset, FS_CardinalityType
  <2>8. h \notin Turning(p, q) /\ (h \in Asking(p, q) <=> {p, q} = {u, v})
    BY <2>1 DEF Turning, Asking, About
  <2>9. /\ Turning(p, q)' = Turning(p, q) /\ Asking(p, q)' = Asking(p, q) \ {h}
        /\ \A g \in Turning(p, q) : answers'[g] = answers[g]
    BY <2>1, <2>8, AnsweredFields
  <2>10. /\ {u, v} = {p, q} => Between(p, q)' = Between(p, q) \cup {i}
         /\ {u, v} # {p, q} => Between(p, q)' = Between(p, q) \ {i}
    <3>1. IsOf(x, p, q) <=> {u, v} = {p, q}
      BY <2>3 DEF IsOf
    <3>2. /\ \A k, l : IsOf(x, k, l) => Between(k, l)' = Between(k, l) \cup {i}
          /\ \A k, l : ~IsOf(x, k, l) => Between(k, l)' = Between(k, l) \ {i}
      BY <1>0, <2>2, <2>3, RowOfPair
    <3> QED BY <3>1, <3>2
  <2>11. CASE {u, v} = {p, q}
    <3>1. Claimed(p, q)' = Claimed(p, q) \cup {i}
      BY <2>9, <2>10, <2>11 DEF Claimed
    <3>2. Cardinality(Claimed(p, q) \cup {i}) <= Cardinality(Claimed(p, q)) + 1
          /\ Cardinality(Claimed(p, q) \cup {i}) \in Nat
      <4>1. Cardinality(Claimed(p, q) \cup {i}) = IF i \in Claimed(p, q)
              THEN Cardinality(Claimed(p, q)) ELSE Cardinality(Claimed(p, q)) + 1
        BY <2>7, FS_AddElement
      <4> QED BY <2>7, <4>1
    <3>3. Cardinality(Asking(p, q) \ {h}) = Cardinality(Asking(p, q)) - 1
      BY <2>7, <2>8, <2>11, FS_RemoveElement
    <3> QED BY <2>6, <2>7, <2>9, <3>1, <3>2, <3>3
  <2>12. CASE {u, v} # {p, q}
    <3>1. Asking(p, q)' = Asking(p, q)
      BY <2>8, <2>9, <2>12
    <3>2. i \notin Between(p, q)
      BY <2>2 DEF IsNextFriendship, Between, FriendshipIds, FriendshipRows
    <3>3. Claimed(p, q)' = Claimed(p, q)
      BY <2>9, <2>10, <2>12, <3>2 DEF Claimed
    <3> QED BY <2>6, <3>1, <3>3
  <2> QED BY <2>11, <2>12
<1>3. ASSUME NEW x \in Friendship, NEW id \in FriendshipRows, Answered(h),
             friendships' = [friendships EXCEPT ![id] = x],
             wishes' \in [People \X People -> {"yes", "no"}],
             \/ {x.from, x.to} = {friendships[id].from, friendships[id].to}
             \/ /\ a # NoAnswer /\ a.op = "turn" /\ a.id = id /\ {x.from, x.to} = {a.from, a.to}
      PROVE  PairsInv'
  <2>1. id \in FriendshipIds
    BY DEF FriendshipRows
  <2>2. ASSUME NEW u \in People, NEW v \in People PROVE Between(u, v)' \subseteq Claimed(u, v)
    <3>1. /\ IsOf(x, u, v) => Between(u, v)' = Between(u, v) \cup {id}
          /\ ~IsOf(x, u, v) => Between(u, v)' = Between(u, v) \ {id}
      <4>1. friendships' = [friendships EXCEPT ![id] = x]
        BY <1>3
      <4>2. FriendsTypeOK
        BY <1>0
      <4>3. /\ \A p, q : IsOf(x, p, q) => Between(p, q)' = Between(p, q) \cup {id}
            /\ \A p, q : ~IsOf(x, p, q) => Between(p, q)' = Between(p, q) \ {id}
        BY <4>1, <4>2, <2>1, RowOfPair
      <4> QED BY <4>3
    <3>2. CASE ~IsOf(x, u, v)
      BY <3>1, <3>2 DEF Claimed
    <3>3. CASE IsOf(x, u, v) /\ {x.from, x.to} = {friendships[id].from, friendships[id].to}
      <4>1. id \in Between(u, v)
        BY <3>3 DEF Between, IsOf
      <4> QED BY <3>1, <3>3, <4>1 DEF Claimed
    <3>4. CASE IsOf(x, u, v) /\ a # NoAnswer /\ a.op = "turn" /\ a.id = id
                /\ {x.from, x.to} = {a.from, a.to}
      <4>1. h \in Turning(u, v)
        BY <3>4 DEF Turning, About, IsOf
      <4> QED BY <3>1, <3>4, <4>1 DEF Claimed
    <3> QED BY <1>3, <3>2, <3>3, <3>4
  <2> QED BY <1>0, <1>3, <2>1, <2>2, RowOfPair, WritesNoNewRow
<1>4. ASSUME AskAgain(h) PROVE PairsInv'
  <2> DEFINE id == a.id
             x == IF a.op = "again" THEN [friendships[id] EXCEPT !.status = "pending"]
                  ELSE [from |-> a.from, to |-> a.to, status |-> "pending"]
  <2>1. /\ a # NoAnswer /\ a.op \in {"again", "turn"} /\ id \in FriendshipRows /\ Answered(h)
        /\ friendships' = [friendships EXCEPT ![id] = x]
    BY <1>0, <1>4 DEF AskAgain
  <2>2. wishes' \in [People \X People -> {"yes", "no"}]
    BY <1>4, SaysTypes DEF AskAgain
  <2>3. friendships[id] \in Friendship /\ a.from \in People /\ a.to \in People
    BY <1>0, <1>1, <2>1 DEF FriendsTypeOK, FriendshipRows
  <2>4. CASE a.op = "again"
    <3>1. x \in Friendship /\ {x.from, x.to} = {friendships[id].from, friendships[id].to}
      BY <2>3, <2>4 DEF Friendship
    <3> HIDE DEF x, id
    <3> QED BY <1>3, <2>1, <2>2, <3>1
  <2>5. CASE a.op = "turn"
    <3>1. x \in Friendship /\ x.from = a.from /\ x.to = a.to
      BY <2>3, <2>5 DEF Friendship
    <3> HIDE DEF x
    <3> QED BY <1>3, <2>1, <2>2, <2>5, <3>1
  <2> QED BY <2>1, <2>4, <2>5
<1>5. ASSUME Reply(h) PROVE PairsInv'
  <2> DEFINE id == a.id
             x == [friendships[id] EXCEPT !.status = IF a.op = "accept" THEN "accepted" ELSE "declined"]
  <2>1. /\ id \in FriendshipRows /\ Answered(h) /\ friendships' = [friendships EXCEPT ![id] = x]
    BY <1>5 DEF Reply
  <2>2. wishes' \in [People \X People -> {"yes", "no"}]
    BY <1>5, SaysTypes DEF Reply
  <2>3. friendships[id] \in Friendship
    BY <1>0, <2>1 DEF FriendsTypeOK, FriendshipRows
  <2>4. x \in Friendship /\ {x.from, x.to} = {friendships[id].from, friendships[id].to}
    BY <2>3 DEF Friendship
  <2> HIDE DEF x, id
  <2> QED BY <1>3, <2>1, <2>2, <2>4
<1>6. ASSUME Delete(h) PROVE PairsInv'
  <2>1. Answered(h) /\ friendships' = [friendships EXCEPT ![a.id] = NoFriendship]
    BY <1>6 DEF Delete
  <2>2. wishes' \in [People \X People -> {"yes", "no"}]
    BY <1>6, SaysTypes DEF Delete
  <2>3. /\ friendships' \in [FriendshipIds -> Friendship \cup {NoFriendship}]
        /\ \A j \in FriendshipIds : friendships'[j] = friendships[j] \/ friendships'[j] = NoFriendship
    BY <1>0, <2>1 DEF FriendsTypeOK
  <2>4. \A u, v : Between(u, v)' \subseteq Between(u, v)
    BY <2>3 DEF Between, FriendshipRows, FriendshipIds
  <2> QED BY <2>1, <2>2, <2>3, <2>4, WritesNoNewRow DEF Claimed
<1>7. ASSUME Refused(h) PROVE PairsInv'
  <2>1. Answered(h) /\ UNCHANGED <<friendships, wishes>>
    BY <1>7 DEF Refused
  <2>2. \A u, v : Between(u, v)' = Between(u, v)
    BY <2>1 DEF Between, FriendshipRows, FriendshipIds
  <2> QED BY <1>0, <2>1, <2>2, WritesNoNewRow DEF Claimed, FriendsTypeOK, FriendshipIds
<1> QED BY <1>2, <1>4, <1>5, <1>6, <1>7

\* What handlers read and decide.
LEMMA ReadsWithinLimit ==
    ASSUME PairsInv, NEW h \in Handlers, NEW u \in People,
           \/ \E v \in People : RequestFriend(h, u, v) \/ Unfriend(h, u, v)
           \/ \E i \in FriendshipIds : \E op \in {"accept", "decline"} : RespondToRequest(h, u, i, op)
    PROVE  PairsInv'
<1>1. \A v \in People : \A i \in Found(u, v) : /\ i \in FriendshipIds \cup {0}
                                               /\ i = 0 => Between(u, v) = {}
                                               /\ i # 0 => i \in Between(u, v)
  <2>1. 0 \notin FriendshipRows /\ FriendshipRows \subseteq FriendshipIds
    BY FriendshipsAssumption DEF FriendshipRows, FriendshipIds
  <2> QED BY <2>1 DEF Found, Between
<1>2. ASSUME NEW v \in People, RequestFriend(h, u, v) PROVE PairsInv'
  <2>1. PICK i \in Found(u, v) :
           \/ i = 0 /\ Decides(h, "request", u, v, i)
           \/ i # 0 /\ \E op \in {"accept", "again", "turn"} : Decides(h, op, u, v, i)
    BY <1>2 DEF RequestFriend
  <2>2. /\ i \in FriendshipIds \cup {0} /\ (i = 0 => Between(u, v) = {})
        /\ i # 0 => i \in Between(u, v)
    BY <1>1
  <2> QED BY <2>1, <2>2, DecidesWithinLimit
<1>3. ASSUME NEW v \in People, Unfriend(h, u, v) PROVE PairsInv'
  <2>1. PICK i \in Found(u, v) : Decides(h, "unfriend", u, v, i)
    BY <1>3 DEF Unfriend
  <2> QED BY <1>1, <2>1, DecidesWithinLimit
<1>4. ASSUME NEW i \in FriendshipIds, NEW op \in {"accept", "decline"}, RespondToRequest(h, u, i, op)
      PROVE  PairsInv'
  <2>1. friendships[i].from \in People
    BY <1>4, FriendFields DEF RespondToRequest, PairsInv, FriendsTypeOK, FriendshipRows
  <2> QED BY <1>4, <2>1, DecidesWithinLimit DEF RespondToRequest
<1> QED BY <1>2, <1>3, <1>4

\* Nobody has asked at first.
LEMMA PairsInitially == InitFriends => PairsInv
<1> SUFFICES ASSUME InitFriends PROVE PairsInv
  OBVIOUS
<1>1. FriendshipRows = {} /\ \A h \in Handlers : answers[h] = NoAnswer
  BY DEF InitFriends, FriendshipRows
<1>2. FriendsTypeOK /\ (alone => OneAnswer)
  BY DEF InitFriends, FriendsTypeOK, OneAnswer
<1>3. \A u, v : Claimed(u, v) = {} /\ Asking(u, v) = {}
  BY <1>1 DEF Claimed, Between, Turning, Asking, About
<1>4. Limit \in Nat /\ Cardinality({}) = 0
  BY HandlersAreFinite, FS_CardinalityType, FS_EmptySet DEF Limit
<1> QED BY <1>2, <1>3, <1>4 DEF PairsInv

\* Every step keeps it.
LEMMA PairsPreserved == PairsInv /\ [NextFriends]_friendsVars => PairsInv'
<1> SUFFICES ASSUME PairsInv, [NextFriends]_friendsVars PROVE PairsInv'
  OBVIOUS
<1>1. CASE UNCHANGED friendsVars
  <2>1. FriendsTypeOK' /\ (alone => OneAnswer') /\ UNCHANGED alone
    BY <1>1 DEF friendsVars, PairsInv, FriendsTypeOK, OneAnswer, FriendshipIds
  <2>2. \A u, v : Claimed(u, v)' = Claimed(u, v) /\ Asking(u, v)' = Asking(u, v)
    BY <1>1 DEF friendsVars, Claimed, Between, FriendshipRows, FriendshipIds, Turning, Asking, About
  <2> QED BY <2>1, <2>2, PairsShrink
<1>2. CASE NextFriends
  BY <1>2, ReadsWithinLimit, WritesWithinLimit DEF NextFriends
<1> QED BY <1>1, <1>2

\* A pair has one row, or as many as there are handlers if they overlap,
\* also after a declined request is turned or its row's id is another
\* pair's (request_friend, which nothing but its look before protects).
THEOREM PairsHaveOneRow == SpecFriends => []OneFriendshipPerPair
<1>1. SpecFriends => []PairsInv
  BY PairsInitially, PairsPreserved, PTL DEF SpecFriends
<1>2. PairsInv => OneFriendshipPerPair
  <2> SUFFICES ASSUME PairsInv, NEW u \in People, NEW v \in People
               PROVE  Cardinality(Between(u, v)) <= Limit
    BY DEF OneFriendshipPerPair, Limit
  <2>1. Between(u, v) \in SUBSET Claimed(u, v) /\ Claimed(u, v) \subseteq FriendshipIds \cup {0}
        /\ Asking(u, v) \in SUBSET Handlers
    BY ClaimedAreIds DEF Claimed, PairsInv
  <2>2. /\ Cardinality(Between(u, v)) \in Nat /\ Cardinality(Claimed(u, v)) \in Nat
        /\ Cardinality(Between(u, v)) <= Cardinality(Claimed(u, v))
        /\ Cardinality(Asking(u, v)) \in Nat
    BY <2>1, IdsAreFinite, HandlersAreFinite, FS_Subset, FS_CardinalityType
  <2>3. Cardinality(Claimed(u, v)) + Cardinality(Asking(u, v)) <= Limit /\ Limit \in Nat
    BY HandlersAreFinite, FS_CardinalityType DEF PairsInv, Limit
  <2> QED BY <2>2, <2>3
<1> QED BY <1>1, <1>2, PTL

(***************************************************************************)
(* MCAccounts.  A step of the whole is one of a component, which leaves    *)
(* the variables of the others alone: what each keeps, the whole keeps.    *)
(***************************************************************************)
WholeInv == /\ OnceInv /\ BackfillInv /\ PairsInv /\ StoreInv /\ ThemesInv
            /\ owned \in BOOLEAN /\ interrupted \in BOOLEAN /\ apart \in BOOLEAN

\* Every component sees its own steps only.
LEMMA WholeStep ==
    [Next]_vars => /\ [NextAccounts]_accountsVars /\ [NextBackfill]_backfillVars /\ [NextFriends]_friendsVars
                   /\ [NextLibrary]_libraryVars /\ [NextThemes]_themesVars
BY DEF vars, Next

\* The variables of the components keep their types, however many people,
\* requests, documents, files and themes there are.
THEOREM AccountsTypes == Spec => []TypeOK
<1>1. Init => WholeInv
  BY OnceInitially, BackfillInitially, PairsInitially, StoreInitially, ThemesInitially
     DEF Init, WholeInv, InitBackfill, InitThemes
<1>2. WholeInv /\ [Next]_vars => WholeInv'
  <2> SUFFICES ASSUME WholeInv, [Next]_vars PROVE WholeInv'
    OBVIOUS
  <2>1. OnceInv' /\ BackfillInv' /\ PairsInv' /\ StoreInv' /\ ThemesInv'
    BY WholeStep, OncePreserved, BackfillPreserved, PairsPreserved, StorePreserved, ThemesPreserved DEF WholeInv
  <2>2. owned' \in {owned, TRUE} /\ interrupted' \in {interrupted, TRUE}
    BY WholeStep DEF NextBackfill, Begin, Adopt, Adopted, Interrupt, backfillVars
  <2>3. apart' = apart
    BY WholeStep DEF NextThemes, themesVars, ReadStored, ApplyTheme, RequestTheme, RequestDeletion, Coerce, GetTheme,
                     NotFound, StoreActive, InsertTheme, InsertClashes, DeleteTheme
  <2> QED BY <2>1, <2>2, <2>3 DEF WholeInv
<1>3. WholeInv => TypeOK
  <2> SUFFICES ASSUME WholeInv PROVE TypeOK
    OBVIOUS
  <2>1. BackfillTypeOK
    BY DEF WholeInv, BackfillInv, BackfillTypes, BackfillTypeOK
  <2>2. ThemesTypeOK
    BY DEF WholeInv, ThemesInv, ThemesTypeOK
  <2> QED BY <2>1, <2>2 DEF WholeInv, TypeOK, OnceInv, PairsInv, StoreInv
<1> QED BY <1>1, <1>2, <1>3, PTL DEF Spec
=============================================================================
