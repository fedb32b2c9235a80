------------------------------ MODULE MCAccounts -----------------------------
(***************************************************************************)
(* Accounts, OwnershipBackfill, Friends, Library and Themes for TLC.  They *)
(* share no variable: a behaviour moves in one of them and leaves the      *)
(* others where they start, so that the states are the sum of theirs and   *)
(* not the product.  The threads and people of all are one's model values. *)
(***************************************************************************)
EXTENDS Accounts, OwnershipBackfill, Friends, Library, Themes, TLC

CONSTANTS f1, f2, f3, f4, f5, f6, book, cover, stamped, late

(* Rows 1 and 3 name one file, and row 3 takes row 5's when it is gone.    *)
(* f2, f3 and f5 have one name and one modification time.  Rows 7 and 8    *)
(* spell the path of f6 differently.                                       *)
MCRows == 1 .. 8
MCCandidates == << <<f1>>, <<f2>>, <<f1, f4>>, <<f3>>, <<f4>>, <<f5>>, <<f6>>, <<f6>> >>
MCNameOf == (f1 :> book) @@ (f4 :> book) @@ [f \in {f2, f3, f5, f6} |-> cover]
MCRenamedAs == [f \in {f2, f3, f5} |-> stamped] @@ [f \in {f1, f4, f6} |-> late]
MCOutside == {<<7, f6>>}

Symmetry == Permutations(Names) \cup Permutations(Tokens) \cup Permutations(Clients)

VARIABLE part   \* the component this behaviour is about

vars == <<accountsVars, backfillVars, friendsVars, libraryVars, themesVars, part>>

Init == /\ InitAccounts /\ InitBackfill /\ InitFriends /\ InitLibrary /\ InitThemes
        /\ part \in {"accounts", "backfill", "friends", "library", "themes"}
        /\ part # "accounts" => ~serial
        /\ part # "friends" => ~alone
        /\ part # "library" => ~inTurn
        /\ part # "themes" => ~apart
Next == /\ UNCHANGED part
        /\ \/ part = "accounts" /\ NextAccounts /\ UNCHANGED <<backfillVars, friendsVars, libraryVars, themesVars>>
           \/ part = "backfill" /\ NextBackfill /\ UNCHANGED <<accountsVars, friendsVars, libraryVars, themesVars>>
           \/ part = "friends" /\ NextFriends /\ UNCHANGED <<accountsVars, backfillVars, libraryVars, themesVars>>
           \/ part = "library" /\ NextLibrary /\ UNCHANGED <<accountsVars, backfillVars, friendsVars, themesVars>>
           \/ part = "themes" /\ NextThemes
                 /\ UNCHANGED <<accountsVars, backfillVars, friendsVars, libraryVars>>
Spec == Init /\ [][Next]_vars

(* Every component's variables have their types.                           *)
TypeOK == AccountsTypeOK /\ BackfillTypeOK /\ FriendsTypeOK /\ LibraryTypeOK /\ ThemesTypeOK
=============================================================================
