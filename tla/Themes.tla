-------------------------------- MODULE Themes -------------------------------
(***************************************************************************)
(* Users' themes (services/themes.py, api/themes.py) and the active one    *)
(* among their settings (services/settings.py).  Every look is a           *)
(* transaction of its own: a request that finds a theme and then reads it  *)
(* may miss it.  The built-in themes are always there; the one all fall    *)
(* back to is Default.                                                     *)
(***************************************************************************)
EXTENDS Sequences

CONSTANTS Owners, Slugs,
          Callers,   \* threads that serve requests
          Nobody

ASSUME NobodyAssumption == Nobody \notin Owners

VARIABLES themes,   \* the owner of each theme's row
          stored,   \* UserSetting active_theme_id
          calls,    \* what each thread is doing
          apart     \* a user waits for one answer before the next request; never changes

themesVars == <<themes, stored, calls, apart>>

(* Bound: a name gets its suffix once.                                     *)
ThemeIds == {<<s>> : s \in Slugs} \cup (Slugs \X Owners)
Default == << >>
Choices == ThemeIds \cup {Default}

Call == [at: {"create", "apply", "read", "coerce", "get", "delete", "failed"}, user: Owners, id: Choices]
NoCall == [at |-> "none"]

ThemesTypeOK == /\ themes \in [ThemeIds -> Owners \cup {Nobody}]
                /\ stored \in [Owners -> Choices]
                /\ calls \in [Callers -> Call \cup {NoCall}]
                /\ apart \in BOOLEAN

InitThemes == /\ themes = [t \in ThemeIds |-> Nobody]
              /\ stored = [u \in Owners |-> Default]
              /\ calls = [c \in Callers |-> NoCall]
              /\ apart \in BOOLEAN

-----------------------------------------------------------------------------
(* theme_exists, and the condition of get_theme.                           *)
VisibleTo(u, id) == id # Default => themes[id] = u

MayCall(c, u) ==
    /\ calls[c] = NoCall
    /\ apart => \A d \in Callers : calls[d] # NoCall => calls[d].user # u

Calls(c, u, at, id) == calls' = [calls EXCEPT ![c] = [at |-> at, user |-> u, id |-> id]]
IsAt(c, at) == calls[c] # NoCall /\ calls[c].at = at
Returns(c) == calls' = [calls EXCEPT ![c] = NoCall]

(* get_voice_settings reads what is stored...                              *)
ReadStored(c, u) ==
    /\ MayCall(c, u) \/ (IsAt(c, "read") /\ calls[c].user = u)
    /\ Calls(c, u, "coerce", stored[u])
    /\ UNCHANGED <<themes, stored, apart>>

\* Mutant: what is stored is taken to exist.
CoerceNothing(c) ==
    /\ IsAt(c, "coerce")
    /\ Calls(c, calls[c].user, "get", calls[c].id)
    /\ UNCHANGED <<themes, stored, apart>>

(* ... takes the default if that is not the user's (any more)...           *)
Coerce(c) ==
    LET u == calls[c].user
        id == calls[c].id
    IN /\ IsAt(c, "coerce")
       /\ Calls(c, u, "get", IF VisibleTo(u, id) THEN id ELSE Default)
       /\ UNCHANGED <<themes, stored, apart>>

(* ... and reads the theme.  A created theme is read like this too.        *)
GetTheme(c) ==
    /\ IsAt(c, "get")
    /\ IF VisibleTo(calls[c].user, calls[c].id) THEN Returns(c)
       ELSE Calls(c, calls[c].user, "failed", calls[c].id)
    /\ UNCHANGED <<themes, stored, apart>>

(* LookupError: the request is answered with an error.                     *)
NotFound(c) ==
    /\ IsAt(c, "failed")
    /\ Returns(c)
    /\ UNCHANGED <<themes, stored, apart>>

-----------------------------------------------------------------------------
(* set_active_theme and update_voice_settings: an unknown theme is refused,*)
(* a known one stored and the settings read.                               *)
ApplyTheme(c, u, id) ==
    /\ MayCall(c, u) /\ VisibleTo(u, id)
    /\ Calls(c, u, "apply", id)
    /\ UNCHANGED <<themes, stored, apart>>

StoreActive(c) ==
    LET u == calls[c].user IN
    /\ IsAt(c, "apply")
    /\ stored' = [stored EXCEPT ![u] = calls[c].id]
    /\ Calls(c, u, "read", Default)
    /\ UNCHANGED <<themes, apart>>

-----------------------------------------------------------------------------
(* create_theme: a name somebody else's theme has is given a suffix, which *)
(* may be the name of a third.                                             *)
RequestTheme(c, u, id) ==
    LET given == IF themes[id] = Nobody THEN id ELSE id \o <<u>> IN
    /\ MayCall(c, u) /\ themes[id] # u /\ given \in ThemeIds
    /\ Calls(c, u, "create", given)
    /\ UNCHANGED <<themes, stored, apart>>

InsertTheme(c) ==
    LET u == calls[c].user
        id == calls[c].id
    IN /\ IsAt(c, "create") /\ themes[id] = Nobody
       /\ themes' = [themes EXCEPT ![id] = u]
       /\ Calls(c, u, "get", id)
       /\ UNCHANGED <<stored, apart>>

(* The id is there: IntegrityError, which create_theme_route does not      *)
(* expect.                                                                 *)
InsertClashes(c) ==
    /\ IsAt(c, "create") /\ themes[calls[c].id] # Nobody
    /\ Returns(c)
    /\ UNCHANGED <<themes, stored, apart>>

(* delete_theme.  The DELETE names only the id; what is stored stays.      *)
RequestDeletion(c, u, id) ==
    /\ MayCall(c, u) /\ themes[id] = u
    /\ Calls(c, u, "delete", id)
    /\ UNCHANGED <<themes, stored, apart>>

DeleteTheme(c) ==
    /\ IsAt(c, "delete")
    /\ themes' = [themes EXCEPT ![calls[c].id] = Nobody]
    /\ Returns(c)
    /\ UNCHANGED <<stored, apart>>

NextThemes ==
    \/ \E c \in Callers, u \in Owners :
         \/ ReadStored(c, u)
         \/ \E id \in Choices : ApplyTheme(c, u, id)
         \/ \E id \in ThemeIds : RequestTheme(c, u, id) \/ RequestDeletion(c, u, id)
    \/ \E c \in Callers : \/ Coerce(c) \/ GetTheme(c) \/ NotFound(c) \/ StoreActive(c)
                          \/ InsertTheme(c) \/ InsertClashes(c) \/ DeleteTheme(c)

SpecThemes == InitThemes /\ [][NextThemes]_themesVars

-----------------------------------------------------------------------------
(* Whoever sends one request after the other never meets a theme that is   *)
(* gone between two looks, whatever the others create, delete and apply    *)
(* meanwhile, and deletes only themes of his own (get_voice_settings,      *)
(* settings.py:147-148; delete_theme).  Two requests of one user may: the  *)
(* settings are then not found at all, or the theme deleted is another's,  *)
(* who took the id.                                                        *)
OthersBreakNoTheme ==
    apart => \A c \in Callers :
                 /\ ~IsAt(c, "failed")
                 /\ IsAt(c, "delete") => themes[calls[c].id] = calls[c].user
=============================================================================
