------------------------------- MODULE Friends -------------------------------
(***************************************************************************)
(* Friendships (services/friends.py, api/friends.py).  A handler looks for *)
(* the row of a pair, decides, and takes SQLite's write lock with its      *)
(* first write: two steps.  Nothing makes a pair's row unique.             *)
(***************************************************************************)
EXTENDS Naturals, FiniteSets

CONSTANTS People, Handlers, MaxFriendships

ASSUME FriendshipsAssumption == MaxFriendships \in Nat
ASSUME HandlersAreFinite == IsFiniteSet(Handlers)   \* the server's thread pool

VARIABLES friendships,   \* the table: rows by id
          answers,       \* what each handler has read and is about to write
          wishes,        \* ghost, kept when alone: what each last said of each other one
          alone          \* handlers do not overlap; never changes

friendsVars == <<friendships, answers, wishes, alone>>

FriendshipIds == 1 .. MaxFriendships
Friendship == [from: People, to: People, status: {"pending", "accepted", "declined"}]
NoFriendship == [status |-> "none"]
Answer == [op: {"request", "again", "turn", "accept", "decline", "unfriend"}, from: People, to: People,
           id: FriendshipIds \cup {0}]
NoAnswer == [op |-> "none"]

FriendsTypeOK ==
    /\ friendships \in [FriendshipIds -> Friendship \cup {NoFriendship}]
    /\ answers \in [Handlers -> Answer \cup {NoAnswer}]
    /\ wishes \in [People \X People -> {"yes", "no"}]
    /\ alone \in BOOLEAN

InitFriends == /\ friendships = [i \in FriendshipIds |-> NoFriendship]
               /\ answers = [h \in Handlers |-> NoAnswer]
               /\ wishes = [p \in People \X People |-> "no"]
               /\ alone \in BOOLEAN

-----------------------------------------------------------------------------
FriendshipRows == {i \in FriendshipIds : friendships[i] # NoFriendship}

(* _friendship_between: the first row of the pair, whichever that is; 0 if *)
(* there is none.                                                          *)
Between(u, v) == {i \in FriendshipRows : {friendships[i].from, friendships[i].to} = {u, v}}

\* Mutant: only requests from u to v are looked for.
FoundOneWay(u, v) == LET asked == {i \in Between(u, v) : friendships[i].from = u}
                     IN IF asked = {} THEN {0} ELSE asked

Found(u, v) == IF Between(u, v) = {} THEN {0} ELSE Between(u, v)

(* AUTOINCREMENT is not asked for: an id follows the greatest that exists. *)
IsNextFriendship(i) == /\ \A j \in FriendshipRows : j < i
                       /\ i = 1 \/ i - 1 \in FriendshipRows

Decides(h, op, u, v, i) ==
    /\ answers[h] = NoAnswer
    /\ alone => \A g \in Handlers : answers[g] = NoAnswer
    /\ answers' = [answers EXCEPT ![h] = [op |-> op, from |-> u, to |-> v, id |-> i]]
    /\ UNCHANGED <<friendships, wishes, alone>>

Says(pairs, wish) ==
    wishes' = [p \in People \X People |-> IF alone /\ p \in pairs THEN wish ELSE wishes[p]]

(* request_friend, up to its first write: nothing is there yet, the other  *)
(* one has asked, or a request was declined, of u or of v.  That v's       *)
(* account is active is left out: it may be at any time.                   *)
RequestFriend(h, u, v) ==
    /\ u # v
    /\ \E i \in Found(u, v) :
         \/ i = 0 /\ Decides(h, "request", u, v, i)
         \/ /\ i # 0 /\ friendships[i].status = "pending" /\ friendships[i].to = u
            /\ Decides(h, "accept", u, v, i)
         \/ /\ i # 0 /\ friendships[i].status = "declined"
            /\ Decides(h, IF friendships[i].from = u THEN "again" ELSE "turn", u, v, i)

\* Mutant: whoever asked may also answer.
RespondToAnyRequest(h, u, i, op) ==
    /\ i \in FriendshipRows
    /\ friendships[i].status = "pending"
    /\ op \in {"accept", "decline"}
    /\ Decides(h, op, u, friendships[i].from, i)

(* respond_to_request: any id may be asked for.                            *)
RespondToRequest(h, u, i, op) ==
    /\ i \in FriendshipRows
    /\ friendships[i].to = u /\ friendships[i].status = "pending"
    /\ op \in {"accept", "decline"}
    /\ Decides(h, op, u, friendships[i].from, i)

Unfriend(h, u, v) ==
    /\ u # v
    /\ \E i \in Found(u, v) : /\ i # 0 /\ friendships[i].status = "accepted"
                              /\ Decides(h, "unfriend", u, v, i)

-----------------------------------------------------------------------------
(* The flush and the commit.                                               *)
Answered(h) == /\ answers' = [answers EXCEPT ![h] = NoAnswer]
               /\ UNCHANGED alone

Insert(h) ==
    LET a == answers[h] IN
    /\ a.op = "request"
    /\ \E i \in FriendshipIds :
         /\ IsNextFriendship(i)
         /\ friendships' = [friendships EXCEPT ![i] =
                              [from |-> a.from, to |-> a.to, status |-> "pending"]]
    /\ Says({<<a.from, a.to>>}, "yes")
    /\ Answered(h)

(* A declined request is asked again.  The UPDATE names the two columns of *)
(* people only if they change.                                             *)
AskAgain(h) ==
    LET a == answers[h] IN
    /\ a.op \in {"again", "turn"} /\ a.id \in FriendshipRows
    /\ friendships' = [friendships EXCEPT ![a.id] =
                         IF a.op = "again" THEN [@ EXCEPT !.status = "pending"]
                         ELSE [from |-> a.from, to |-> a.to, status |-> "pending"]]
    /\ Says({<<a.from, a.to>>}, "yes")
    /\ Answered(h)

\* Mutant: the answer is stored as it was sent.
ReplyVerbatim(h) ==
    LET a == answers[h] IN
    /\ a.op \in {"accept", "decline"} /\ a.id \in FriendshipRows
    /\ friendships' = [friendships EXCEPT ![a.id].status = a.op]
    /\ Says({<<a.from, a.to>>}, IF a.op = "accept" THEN "yes" ELSE "no")
    /\ Answered(h)

(* The status alone is written, whatever has become of the row meanwhile.  *)
Reply(h) ==
    LET a == answers[h] IN
    /\ a.op \in {"accept", "decline"} /\ a.id \in FriendshipRows
    /\ friendships' = [friendships EXCEPT ![a.id].status =
                         IF a.op = "accept" THEN "accepted" ELSE "declined"]
    /\ Says({<<a.from, a.to>>}, IF a.op = "accept" THEN "yes" ELSE "no")
    /\ Answered(h)

(* Deleting a row that is gone is only a warning.                          *)
Delete(h) ==
    LET a == answers[h] IN
    /\ a.op = "unfriend"
    /\ friendships' = [friendships EXCEPT ![a.id] = NoFriendship]
    /\ Says({<<a.from, a.to>>, <<a.to, a.from>>}, "no")
    /\ Answered(h)

(* Updating one is an error, as is any other failure: nothing is written.  *)
Refused(h) ==
    /\ answers[h] # NoAnswer
    /\ UNCHANGED <<friendships, wishes>>
    /\ Answered(h)

NextFriends ==
    \/ \E h \in Handlers, u \in People :
         \/ \E v \in People : RequestFriend(h, u, v) \/ Unfriend(h, u, v)
         \/ \E i \in FriendshipIds : \E op \in {"accept", "decline"} : RespondToRequest(h, u, i, op)
    \/ \E h \in Handlers : Insert(h) \/ AskAgain(h) \/ Reply(h) \/ Delete(h) \/ Refused(h)

SpecFriends == InitFriends /\ [][NextFriends]_friendsVars

-----------------------------------------------------------------------------
(* are_friends and the overview that request_friend and the others return. *)
Friends(u, v) == \E i \in Between(u, v) : friendships[i].status = "accepted"

(* When handlers do not overlap, the last word of two friends about each   *)
(* other was yes: nobody becomes a friend who did not ask or accept, and   *)
(* declining and unfriending end what they are about (respond_to_request,  *)
(* unfriend).  An answer that was under way while its row was deleted may  *)
(* accept another pair's request, which got the id.                        *)
FriendsBothAgreed ==
    alone => \A u, v \in People : Friends(u, v) => wishes[<<u, v>>] = "yes"

(* A pair has one row, and as many as there are handlers when requests of  *)
(* one pair overlap (request_friend, friends.py:91).                       *)
OneFriendshipPerPair ==
    \A u, v \in People :
        u # v => Cardinality(Between(u, v)) <= IF alone THEN 1 ELSE Cardinality(Handlers)
=============================================================================
