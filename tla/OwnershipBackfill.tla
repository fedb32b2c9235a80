-------------------------- MODULE OwnershipBackfill --------------------------
(***************************************************************************)
(* The first administrator adopts the data of a server that had no         *)
(* accounts (services/ownership_backfill.py, called by bootstrap_admin).   *)
(* The rows are written by one transaction; the files they name are moved  *)
(* one after the other while it runs, and stay moved when it rolls back.   *)
(***************************************************************************)
EXTENDS Naturals, Sequences

CONSTANTS Rows,        \* ownerless rows that name a file, 1 .. n in the order they are read
          Files,
          FileNames,   \* names in the user's directories
          Candidates,  \* the files each row may mean, as _resolve_legacy_path tries them
          NameOf,      \* the last component of each file's path
          RenamedAs,   \* the same with the file's modification time in it
          Outside      \* rows and files whose path does not begin with the legacy root

ASSUME BackfillAssumption == /\ Rows \subseteq Nat \ {0} /\ \A r \in Rows : 1 .. r \subseteq Rows
                             /\ Candidates \in [Rows -> Seq(Files)]
                             /\ NameOf \in [Files -> FileNames] /\ RenamedAs \in [Files -> FileNames]
                             /\ Outside \subseteq Rows \X Files

VARIABLES place,        \* where each file is
          paths,        \* where each row, as committed, says its file is
          adopted,      \* what the transaction has assigned
          next,         \* the row it comes to; 0 when no request runs
          owned,        \* the rows have an owner: a user exists
          interrupted   \* some attempt was rolled back

backfillVars == <<place, paths, adopted, next, owned, interrupted>>

(* Where a file was when there were no accounts, or a file of that name in *)
(* the user's directory.  A file that is overwritten and the one that is   *)
(* moved over it have one place.                                           *)
Places == [kind: {"legacy"}] \cup [kind: {"user"}, name: FileNames]
Legacy == [kind |-> "legacy"]
UserPlace(name) == [kind |-> "user", name |-> name]

BackfillTypeOK == /\ place \in [Files -> Places]
                  /\ paths \in [Rows -> Places] /\ adopted \in [Rows -> Places]
                  /\ next \in Nat
                  /\ owned \in BOOLEAN /\ interrupted \in BOOLEAN

InitBackfill == /\ place = [f \in Files |-> Legacy]
                /\ paths = [r \in Rows |-> Legacy]
                /\ adopted = paths
                /\ next = 0
                /\ owned = FALSE /\ interrupted = FALSE

Begin == /\ next = 0 /\ ~owned
         /\ next' = 1
         /\ adopted' = paths
         /\ UNCHANGED <<place, paths, owned, interrupted>>

(* _resolve_legacy_path: the first of them that is still there, if any.  A *)
(* relative path is also looked for below the legacy root by its name      *)
(* alone, where another row's file may be.                                 *)
StillThere(r) == {i \in DOMAIN Candidates[r] : place[Candidates[r][i]] = Legacy}
Resolved(r) == {Candidates[r][i] : i \in {i \in StillThere(r) : \A j \in StillThere(r) : i <= j}}

\* Mutant: the name is kept although it is taken.
DestinationByName(f) == UserPlace(NameOf[f])

(* _adopt_path: the other name is not looked up, and what has it is        *)
(* overwritten.                                                            *)
Destination(f) ==
    IF \A g \in Files : place[g] # UserPlace(NameOf[f]) THEN UserPlace(NameOf[f]) ELSE UserPlace(RenamedAs[f])

\* Mutant: the file is moved and the row keeps its path.
AdoptWithoutPath ==
    /\ next \in Rows
    /\ next' = next + 1
    /\ \/ \E f \in Resolved(next) : /\ <<next, f>> \notin Outside
                                    /\ place' = [place EXCEPT ![f] = Destination(f)]
       \/ (\A f \in Resolved(next) : <<next, f>> \in Outside) /\ UNCHANGED place
    /\ UNCHANGED <<adopted, paths, owned, interrupted>>

(* A file that is not there is left alone, and so is one outside the       *)
(* legacy root.  The table of moved files is asked after that, for a path  *)
(* that exists: it never has an answer.                                    *)
Adopt ==
    /\ next \in Rows
    /\ next' = next + 1
    /\ \/ \E f \in Resolved(next) :
             /\ <<next, f>> \notin Outside
             /\ place' = [place EXCEPT ![f] = Destination(f)]
             /\ adopted' = [adopted EXCEPT ![next] = Destination(f)]
       \/ /\ \A f \in Resolved(next) : <<next, f>> \in Outside
          /\ UNCHANGED <<place, adopted>>
    /\ UNCHANGED <<paths, owned, interrupted>>

Adopted == /\ next # 0 /\ next \notin Rows
           /\ next' = 0
           /\ paths' = adopted
           /\ owned' = TRUE
           /\ UNCHANGED <<place, adopted, interrupted>>

(* The request fails or the server ends before the commit.                 *)
Interrupt == /\ next # 0
             /\ next' = 0
             /\ adopted' = paths
             /\ interrupted' = TRUE
             /\ UNCHANGED <<place, paths, owned>>

NextBackfill == Begin \/ Adopt \/ Adopted \/ Interrupt
SpecBackfill == InitBackfill /\ [][NextBackfill]_backfillVars

-----------------------------------------------------------------------------
(* A file whose own name was taken got the name with the modification time *)
(* in it, which another file has or had: nobody looks.                     *)
MovedOver(f, g) == /\ place[f] = UserPlace(RenamedAs[f])
                   /\ RenamedAs[f] \in {NameOf[g], RenamedAs[g]}

(* Two files end in one place only where their names with the modification *)
(* time clash: files of one name from two directories, and files an        *)
(* interrupted attempt had moved, keep apart.  A row that was given a new  *)
(* path names a file that is there, and no other row does, but for such a  *)
(* clash, also after any number of interrupted attempts (_adopt_path).     *)
FilesKeepApart ==
    /\ \A f, g \in Files : f # g /\ place[f] = place[g] /\ place[f] # Legacy =>
          MovedOver(f, g) \/ MovedOver(g, f)
    /\ \A r \in Rows : paths[r] # Legacy =>
          /\ \E f \in Files : place[f] = paths[r]
          /\ \A q \in Rows \ {r} : paths[q] = paths[r] =>
                \E f, g \in Files : f # g /\ place[f] = paths[r] /\ place[g] = paths[r]

MayMean(r) == {Candidates[r][i] : i \in DOMAIN Candidates[r]}
IsFirstFor(r, f) == /\ Candidates[r] # <<>> /\ Candidates[r][1] = f /\ <<r, f>> \notin Outside
                    /\ \A q \in Rows : q < r => f \notin MayMean(q)

(* When no attempt was interrupted, a row that means a file before any     *)
(* other may is given the place it was moved to, although a row before it  *)
(* may take another row's file by its name.  A row that comes later keeps  *)
(* the legacy path, or takes the file its next candidate names; so does    *)
(* every row whose file an interrupted attempt has moved.                  *)
FirstRowFollowsItsFile ==
    owned /\ ~interrupted =>
        \A r \in Rows, f \in Files : IsFirstFor(r, f) => paths[r] = place[f] /\ place[f] # Legacy
=============================================================================
